--------------------------- MODULE DatabaseProofs ---------------------------
(***************************************************************************)
(* Theorems about Database, for any set of handles, any channel capacity,  *)
(* any outcomes of the closures, with and without aborted tasks.           *)
(***************************************************************************)
EXTENDS Database, TLAPS

LEMMA EmptyType == ASSUME NEW S PROVE <<>> \in Seq(S)
  OBVIOUS

(* Removing an element leaves a sequence over the same set.                *)
LEMMA RemoveAtType ==
  ASSUME NEW S, NEW s \in Seq(S), NEW i \in DOMAIN s
  PROVE  RemoveAt(s, i) \in Seq(S)
<1>1. SubSeq(s, 1, i - 1) \in Seq(S)
  OBVIOUS
<1>2. SubSeq(s, i + 1, Len(s)) \in Seq(S)
  OBVIOUS
<1> QED
  BY <1>1, <1>2 DEF RemoveAt

(* A permit that is given back keeps the types of what it touches.         *)
LEMMA GiveBackType ==
  ASSUME TypeOK, NEW ph \in [Handles -> Phases], NEW ws \in Seq(Handles),
         GiveBack(ph, ws)
  PROVE  /\ phase' \in [Handles -> Phases]
         /\ waiters' \in Seq(Handles)
         /\ free' \in Nat
<1>1. CASE ws = <<>>
  BY <1>1 DEF GiveBack, TypeOK
<1>2. CASE ws # <<>>
  <2>1. Head(ws) \in Handles /\ Tail(ws) \in Seq(Handles)
    BY <1>2
  <2> QED
    BY <1>2, <2>1 DEF GiveBack, TypeOK, Phases
<1> QED
  BY <1>1, <1>2

(* Every variable keeps its type: phases, results and replies stay in      *)
(* their ranges, permits stay a natural number and the channel a sequence  *)
(* of handles.                                                             *)
LEMMA InitType == Init => TypeOK
  BY HandlesAssumption, BufferAssumption, EmptyType
     DEF Init, TypeOK, Phases, OpenOutcomes

LEMMA NextType == TypeOK /\ [Next]_vars => TypeOK'
<1> SUFFICES ASSUME TypeOK, [Next]_vars PROVE TypeOK'
  OBVIOUS
<1> USE DEF TypeOK, channel, connection, OpenOutcomes
<1>1. ASSUME NEW r \in OpenOutcomes, Open(r) PROVE TypeOK'
  BY <1>1, HandlesAssumption DEF Open, Phases
<1>2. ASSUME NEW h \in Handles, NEW g \in Handles, Clone(h, g) PROVE TypeOK'
  BY <1>2 DEF Clone, Phases
<1>3. ASSUME NEW h \in Handles, Call(h) PROVE TypeOK'
  <2>1. CASE CallClosed(h)
    BY <2>1 DEF CallClosed, Phases
  <2>2. CASE CallReserve(h)
    <3>1. Append(waiters, h) \in Seq(Handles)
      OBVIOUS
    <3>2. free > 0 => free - 1 \in Nat
      OBVIOUS
    <3>3. CASE free > 0
      BY <2>2, <3>2, <3>3 DEF CallReserve, Phases
    <3>4. CASE ~(free > 0)
      BY <2>2, <3>1, <3>4 DEF CallReserve, Phases
    <3> QED
      BY <3>3, <3>4
  <2> QED
    BY <1>3, <2>1, <2>2 DEF Call
<1>4. ASSUME NEW h \in Handles, Wake(h) PROVE TypeOK'
  BY <1>4 DEF Wake, TakePermit, Refused, Phases
<1>5. ASSUME NEW h \in Handles, Send(h) PROVE TypeOK'
  BY <1>5 DEF Send, Phases
<1>6. ASSUME NEW h \in Handles, Answer(h) PROVE TypeOK'
  BY <1>6 DEF Answer, Phases
<1>7. ASSUME NEW h \in Handles, Abort(h) PROVE TypeOK'
  <2>1. [phase EXCEPT ![h] = "aborted"] \in [Handles -> Phases]
    BY DEF Phases
  <2>2. CASE phase[h] = "reserving" /\ ~rxClosed /\ AbortWaiting(h)
    <3>1. PICK i \in DOMAIN waiters : waiters' = RemoveAt(waiters, i)
      BY <2>2 DEF AbortWaiting
    <3>2. waiters' \in Seq(Handles)
      BY <3>1, RemoveAtType
    <3> QED
      BY <1>7, <2>1, <2>2, <3>2 DEF Abort, AbortWaiting
  <2>3. CASE GiveBack([phase EXCEPT ![h] = "aborted"], waiters)
    <3>1. /\ phase' \in [Handles -> Phases]
          /\ waiters' \in Seq(Handles)
          /\ free' \in Nat
      BY <2>1, <2>3, GiveBackType
    <3> QED
      BY <1>7, <3>1 DEF Abort
  <2>4. CASE phase' = [phase EXCEPT ![h] = "aborted"] /\ UNCHANGED <<free, waiters>>
    BY <1>7, <2>1, <2>4 DEF Abort
  <2> QED
    BY <1>7, <2>2, <2>3, <2>4 DEF Abort
<1>8. ASSUME NEW h \in Handles, DropSender(h) \/ BeginClose(h) PROVE TypeOK'
  BY <1>8 DEF DropSender, BeginClose, Phases
<1>9. ASSUME NEW h \in Handles, Release(h) PROVE TypeOK'
  <2>1. CASE DropCloseHandle(h)
    BY <2>1 DEF DropCloseHandle, Phases
  <2>2. CASE IntoInner(h)
    BY <2>2 DEF IntoInner, Phases
  <2>3. CASE Join(h)
    BY <2>3 DEF Join, Phases
  <2> QED
    BY <1>9, <2>1, <2>2, <2>3 DEF Release
<1>10. ASSUME Thread PROVE TypeOK'
  <2>1. CASE Recv
    <3>1. running' \in Handles /\ queue' \in Seq(Handles)
      BY <2>1 DEF Recv
    <3>2. /\ phase' \in [Handles -> Phases]
          /\ waiters' \in Seq(Handles)
          /\ free' \in Nat
      BY <2>1, GiveBackType DEF Recv
    <3> QED
      BY <2>1, <3>1, <3>2 DEF Recv
  <2>2. CASE RecvNone
    BY <2>2 DEF RecvNone
  <2>3. ASSUME NEW o \in Outcomes, Run(o) PROVE TypeOK'
    <3>1. o \in {"ok", "err", "panic"}
      BY OutcomesAssumption
    <3> QED
      BY <2>3, <3>1 DEF Run, Tell
  <2>4. CASE CheckClose
    BY <2>4, EmptyType DEF CheckClose
  <2>5. ASSUME NEW r \in {"ok", "err"}, Optimize(r) PROVE TypeOK'
    BY <2>5 DEF Optimize
  <2>6. CASE Unwind
    BY <2>6, EmptyType DEF Unwind
  <2> QED
    BY <1>10, <2>1, <2>2, <2>3, <2>4, <2>5, <2>6 DEF Thread
<1>11. CASE UNCHANGED vars
  BY <1>11 DEF vars
<1> QED
  BY <1>1, <1>2, <1>3, <1>4, <1>5, <1>6, <1>7, <1>8, <1>9, <1>10, <1>11
     DEF Next, Terminated

THEOREM TypeCorrect == Spec => []TypeOK
  BY InitType, NextType, PTL DEF Spec

-----------------------------------------------------------------------------
(* The waiters of the channel.                                             *)

(* Nothing happens before the database is open.                            *)
UnopenedInv ==
  openResult # "ok" =>
    /\ thread = "none"
    /\ closeSignal = "pending"
    /\ \A h \in Handles : phase[h] = "none"

LEMMA UnopenedNext == TypeOK /\ UnopenedInv /\ [Next]_vars => UnopenedInv'
<1> SUFFICES ASSUME TypeOK, UnopenedInv, [Next]_vars PROVE UnopenedInv'
  OBVIOUS
<1> USE DEF UnopenedInv, TypeOK, channel, connection
<1>1. ASSUME NEW r \in OpenOutcomes, Open(r) PROVE UnopenedInv'
  BY <1>1 DEF Open
<1>2. CASE UNCHANGED vars
  BY <1>2 DEF vars
<1>3. ASSUME openResult = "ok", openResult' = openResult PROVE UnopenedInv'
  BY <1>3
<1>4. ASSUME NEW h \in Handles, phase[h] # "none" PROVE openResult = "ok"
  BY <1>4
<1>5. ASSUME NEW h \in Handles, NEW g \in Handles, Clone(h, g) PROVE UnopenedInv'
  BY <1>3, <1>5 DEF Clone
<1>6. ASSUME NEW h \in Handles, Call(h) \/ Wake(h) \/ Send(h) \/ Answer(h) \/ Abort(h)
      PROVE  UnopenedInv'
  BY <1>3, <1>4, <1>6
     DEF Call, CallClosed, CallReserve, Wake, TakePermit, Refused, Send, Answer, Abort
<1>7. ASSUME NEW h \in Handles, DropSender(h) \/ BeginClose(h) \/ Release(h)
      PROVE  UnopenedInv'
  BY <1>3, <1>4, <1>7
     DEF DropSender, BeginClose, Release, DropCloseHandle, IntoInner, Join
<1>8. ASSUME Thread PROVE UnopenedInv'
  BY <1>3, <1>8 DEF Thread, Recv, RecvNone, Run, CheckClose, Optimize, Unwind
<1> QED
  BY <1>1, <1>2, <1>5, <1>6, <1>7, <1>8 DEF Next, Terminated

(* Exactly one place in the queue of waiters belongs to a task, which is   *)
(* still waiting; the closed channel has none.                             *)
WaitersInv ==
  /\ rxClosed => waiters = <<>>
  /\ \A i \in DOMAIN waiters : phase[waiters[i]] = "reserving"
  /\ \A i, j \in DOMAIN waiters : waiters[i] = waiters[j] => i = j

(* What Tail and RemoveAt leave is what was there, in the same order.      *)
LEMMA TailElements ==
  ASSUME NEW S, NEW s \in Seq(S), s # <<>>
  PROVE  /\ 1 \in DOMAIN s
         /\ s[1] = Head(s)
         /\ \A k \in DOMAIN Tail(s) : k + 1 \in DOMAIN s /\ Tail(s)[k] = s[k + 1]
  OBVIOUS

LEMMA RemoveAtElements ==
  ASSUME NEW S, NEW s \in Seq(S), NEW i \in DOMAIN s
  PROVE  \A k \in DOMAIN RemoveAt(s, i) :
           LET o == IF k < i THEN k ELSE k + 1
           IN  o \in DOMAIN s \ {i} /\ RemoveAt(s, i)[k] = s[o]
<1> DEFINE a == SubSeq(s, 1, i - 1)
           b == SubSeq(s, i + 1, Len(s))
<1>1. i \in 1..Len(s) /\ Len(s) \in Nat
  OBVIOUS
<1>2. a \in Seq(S) /\ b \in Seq(S)
  OBVIOUS
<1>3. Len(a) = i - 1 /\ \A k \in 1..(i - 1) : a[k] = s[k]
  BY <1>1
<1>4. Len(b) = Len(s) - i /\ \A k \in 1..(Len(s) - i) : b[k] = s[k + i]
  BY <1>1
<1>5. /\ Len(a \o b) = Len(a) + Len(b)
      /\ a \o b \in Seq(S)
      /\ \A k \in 1..(Len(a) + Len(b)) :
           (a \o b)[k] = IF k <= Len(a) THEN a[k] ELSE b[k - Len(a)]
  BY <1>2
<1> HIDE DEF a, b
<1>6. ASSUME NEW k \in DOMAIN (a \o b)
      PROVE  LET o == IF k < i THEN k ELSE k + 1
             IN  o \in DOMAIN s \ {i} /\ (a \o b)[k] = s[o]
  <2>1. k \in 1..(Len(s) - 1)
    BY <1>1, <1>3, <1>4, <1>5
  <2>2. CASE k < i
    BY <1>1, <1>3, <1>4, <1>5, <2>1, <2>2
  <2>3. CASE ~(k < i)
    <3>1. k - Len(a) \in 1..(Len(s) - i) /\ k - Len(a) + i = k + 1
      BY <1>1, <1>3, <2>1, <2>3
    <3>2. (a \o b)[k] = b[k - Len(a)]
      BY <1>1, <1>3, <1>4, <1>5, <2>1, <2>3
    <3> QED
      BY <1>1, <1>4, <2>1, <2>3, <3>1, <3>2
  <2> QED
    BY <2>2, <2>3
<1>7. RemoveAt(s, i) = a \o b
  BY DEF RemoveAt, a, b
<1> QED
  BY <1>6, <1>7

(* Granting the given-back permit keeps the remaining waiters waiting.     *)
LEMMA GiveBackWaiters ==
  ASSUME TypeOK, WaitersInv, NEW ph \in [Handles -> Phases],
         \A h \in Handles : phase[h] = "reserving" => ph[h] = "reserving",
         GiveBack(ph, waiters), rxClosed' = rxClosed
  PROVE  WaitersInv'
<1> USE DEF TypeOK, WaitersInv
<1>1. CASE waiters = <<>>
  BY <1>1 DEF GiveBack
<1>2. CASE waiters # <<>>
  <2>1. waiters' = Tail(waiters) /\ phase' = [ph EXCEPT ![Head(waiters)] = "granted"]
    BY <1>2 DEF GiveBack
  <2>2. ASSUME NEW k \in DOMAIN waiters'
        PROVE  phase'[waiters'[k]] = "reserving"
    <3>1. k + 1 \in DOMAIN waiters /\ waiters'[k] = waiters[k + 1]
      BY <1>2, <2>1, TailElements
    <3>2. waiters[k + 1] # Head(waiters)
      BY <1>2, <2>2, <2>1, <3>1, TailElements
    <3>3. waiters[k + 1] \in Handles
      BY <3>1
    <3> QED
      BY <2>1, <3>1, <3>2, <3>3
  <2>3. ASSUME NEW j \in DOMAIN waiters', NEW k \in DOMAIN waiters',
               waiters'[j] = waiters'[k]
        PROVE  j = k
    <3>1. /\ j + 1 \in DOMAIN waiters /\ waiters'[j] = waiters[j + 1]
          /\ k + 1 \in DOMAIN waiters /\ waiters'[k] = waiters[k + 1]
      BY <1>2, <2>1, TailElements
    <3>2. j \in Nat /\ k \in Nat
      BY <2>1
    <3>3. j + 1 = k + 1
      BY <2>3, <3>1
    <3> QED
      BY <3>2, <3>3
  <2>4. ~rxClosed
    BY <1>2
  <2> QED
    BY <2>2, <2>3, <2>4
<1> QED
  BY <1>1, <1>2

LEMMA WaitersNext ==
  TypeOK /\ UnopenedInv /\ WaitersInv /\ [Next]_vars => WaitersInv'
<1> SUFFICES ASSUME TypeOK, UnopenedInv, WaitersInv, [Next]_vars PROVE WaitersInv'
  OBVIOUS
<1> USE DEF WaitersInv, TypeOK, channel, connection
<1>0. \A i \in DOMAIN waiters : waiters[i] \in Handles
  OBVIOUS
(* A step that moves a task which is not waiting leaves the waiters alone. *)
<1>a. ASSUME UNCHANGED <<waiters, rxClosed>>, NEW h \in Handles, NEW p \in Phases,
             phase[h] # "reserving", phase' = [phase EXCEPT ![h] = p]
      PROVE  WaitersInv'
  BY <1>0, <1>a
<1>b. ASSUME UNCHANGED <<waiters, rxClosed, phase>> PROVE WaitersInv'
  BY <1>b
<1>1. ASSUME NEW r \in OpenOutcomes, Open(r) PROVE WaitersInv'
  BY <1>a, <1>b, <1>1, HandlesAssumption DEF Open, Phases, UnopenedInv
<1>2. ASSUME NEW h \in Handles, NEW g \in Handles, Clone(h, g) PROVE WaitersInv'
  BY <1>a, <1>2 DEF Clone, Phases
<1>3. ASSUME NEW h \in Handles, Call(h) PROVE WaitersInv'
  <2>1. CASE CallClosed(h)
    BY <1>b, <2>1 DEF CallClosed
  <2>2. CASE CallReserve(h) /\ free > 0
    BY <1>a, <2>2 DEF CallReserve, Phases
  <2>3. CASE CallReserve(h) /\ ~(free > 0)
    <3>1. waiters' = Append(waiters, h) /\ phase' = [phase EXCEPT ![h] = "reserving"]
          /\ ~rxClosed' /\ phase[h] = "idle"
      BY <2>3 DEF CallReserve
    <3>2. DOMAIN waiters' = 1..(Len(waiters) + 1) /\ DOMAIN waiters = 1..Len(waiters)
      BY <3>1
    <3>3. \A k \in DOMAIN waiters' :
            waiters'[k] = IF k = Len(waiters) + 1 THEN h ELSE waiters[k]
      BY <3>1
    <3>4. \A k \in DOMAIN waiters : waiters[k] # h
      BY <3>1
    <3> QED
      BY <1>0, <3>1, <3>2, <3>3, <3>4
  <2> QED
    BY <1>3, <2>1, <2>2, <2>3 DEF Call
<1>4. ASSUME NEW h \in Handles, Wake(h) PROVE WaitersInv'
  <2>1. CASE TakePermit(h)
    BY <1>a, <2>1 DEF TakePermit, Phases
  <2>2. CASE Refused(h)
    BY <2>2 DEF Refused
  <2> QED
    BY <1>4, <2>1, <2>2 DEF Wake
<1>5. ASSUME NEW h \in Handles, Send(h) PROVE WaitersInv'
  BY <1>a, <1>5 DEF Send, Phases
<1>6. ASSUME NEW h \in Handles, Answer(h) PROVE WaitersInv'
  BY <1>a, <1>6 DEF Answer, Phases
<1>7. ASSUME NEW h \in Handles, Abort(h) PROVE WaitersInv'
  <2>1. CASE ~rxClosed /\ AbortWaiting(h)
    <3>1. PICK i \in DOMAIN waiters :
            /\ waiters[i] = h
            /\ waiters' = RemoveAt(waiters, i)
            /\ phase' = [phase EXCEPT ![h] = "aborted"]
      BY <2>1 DEF AbortWaiting
    <3>2. \A k \in DOMAIN waiters' :
            LET o == IF k < i THEN k ELSE k + 1
            IN  o \in DOMAIN waiters \ {i} /\ waiters'[k] = waiters[o]
      BY <3>1, RemoveAtElements
    <3>3. DOMAIN waiters' \subseteq Nat /\ DOMAIN waiters \subseteq Nat
      BY <3>1, RemoveAtType
    <3>4. ASSUME NEW k \in DOMAIN waiters' PROVE phase'[waiters'[k]] = "reserving"
      BY <1>0, <3>1, <3>2, <3>4
    <3>5. ASSUME NEW j \in DOMAIN waiters', NEW k \in DOMAIN waiters',
                 waiters'[j] = waiters'[k]
          PROVE  j = k
      BY <3>2, <3>3, <3>5
    <3> QED
      BY <1>7, <2>1, <3>4, <3>5 DEF Abort
  <2>2. CASE phase[h] = "granted" /\ GiveBack([phase EXCEPT ![h] = "aborted"], waiters)
    <3>1. [phase EXCEPT ![h] = "aborted"] \in [Handles -> Phases]
      BY DEF Phases
    <3>2. \A g \in Handles :
            phase[g] = "reserving" => [phase EXCEPT ![h] = "aborted"][g] = "reserving"
      BY <2>2
    <3>3. rxClosed' = rxClosed
      BY <1>7 DEF Abort
    <3> QED
      BY <2>2, <3>1, <3>2, <3>3, GiveBackWaiters
  <2>3. CASE /\ phase[h] = "awaiting" \/ (phase[h] = "reserving" /\ rxClosed)
             /\ phase' = [phase EXCEPT ![h] = "aborted"]
             /\ UNCHANGED <<free, waiters>>
    BY <1>7, <1>0, <2>3 DEF Abort
  <2> QED
    BY <1>7, <2>1, <2>2, <2>3 DEF Abort
<1>8. ASSUME NEW h \in Handles, DropSender(h) \/ BeginClose(h) PROVE WaitersInv'
  BY <1>a, <1>8 DEF DropSender, BeginClose, Phases
<1>9. ASSUME NEW h \in Handles, Release(h) PROVE WaitersInv'
  BY <1>a, <1>9 DEF Release, DropCloseHandle, IntoInner, Join, Phases
<1>10. ASSUME Thread PROVE WaitersInv'
  <2>1. CASE Recv
    BY <2>1, GiveBackWaiters DEF Recv
  <2>2. CASE RecvNone \/ (\E o \in Outcomes : Run(o)) \/ (\E r \in {"ok", "err"} : Optimize(r))
    BY <1>b, <2>2 DEF RecvNone, Run, Optimize
  <2>3. CASE CheckClose
    BY <2>3 DEF CheckClose
  <2>4. CASE Unwind
    BY <2>4 DEF Unwind
  <2> QED
    BY <1>10, <2>1, <2>2, <2>3, <2>4 DEF Thread
<1>11. CASE UNCHANGED vars
  BY <1>11 DEF vars
<1> QED
  BY <1>1, <1>2, <1>3, <1>4, <1>5, <1>6, <1>7, <1>8, <1>9, <1>10, <1>11
     DEF Next, Terminated

-----------------------------------------------------------------------------
(* The inductive invariant behind ClosedMeansPanicked and QuietEnd.        *)

(* The close signal is sent, or dropped, by the last owner of the          *)
(* CloseHandle, so no handle can use the channel any more.                 *)
SignalMeansNoOwner ==
  closeSignal # "pending" => \A h \in Handles : phase[h] \in {"none", "joining", "gone"}

(* Only the two of them close the channel: a panic and a close signal.     *)
ClosedMeansReason == rxClosed => threadResult = "panic" \/ closeSignal # "pending"

(* A oneshot channel loses its answering half only in a panic.             *)
DroppedMeansPanicked == \A h \in Handles : reply[h] = "dropped" => Panicked

RefusedMeansPanicked == \A h \in Handles : result[h] = "closed" => Panicked

(* What the thread's place in its loop says of its other state.            *)
ThreadShape ==
  /\ running # NoHandle => thread = "run"
  /\ threadResult # "none" => thread = "done"

SafetyInv ==
  /\ SignalMeansNoOwner
  /\ ClosedMeansReason
  /\ DroppedMeansPanicked
  /\ RefusedMeansPanicked
  /\ ThreadShape
  /\ QuietEnd

(* With a living sender the channel is closed by a panic only.             *)
LEMMA LivingMeansPanicked ==
  ASSUME TypeOK, SafetyInv, rxClosed, NEW h \in Handles,
         phase[h] \notin {"none", "joining", "gone"}
  PROVE  threadResult = "panic"
  BY DEF SafetyInv, SignalMeansNoOwner, ClosedMeansReason

LEMMA SafetyInit == Init => SafetyInv
  BY DEF Init, SafetyInv, SignalMeansNoOwner, ClosedMeansReason,
     DroppedMeansPanicked, RefusedMeansPanicked, ThreadShape, QuietEnd

LEMMA SafetyNext ==
  TypeOK /\ UnopenedInv /\ WaitersInv /\ SafetyInv /\ [Next]_vars => SafetyInv'
<1> SUFFICES ASSUME TypeOK, UnopenedInv, WaitersInv, SafetyInv, [Next]_vars PROVE SafetyInv'
  OBVIOUS
<1>0. TypeOK'
  BY NextType
<1> USE DEF SafetyInv, SignalMeansNoOwner, ClosedMeansReason,
            DroppedMeansPanicked, RefusedMeansPanicked, ThreadShape, QuietEnd,
            Panicked, Senders, channel, connection, TypeOK
<1>1. ASSUME NEW r \in OpenOutcomes, Open(r) PROVE SafetyInv'
  BY <1>1, <1>0 DEF Open, UnopenedInv
<1>2. ASSUME NEW h \in Handles, NEW g \in Handles, Clone(h, g) PROVE SafetyInv'
  BY <1>2, <1>0 DEF Clone
<1>3. ASSUME NEW h \in Handles, Call(h) PROVE SafetyInv'
  <2>1. CASE CallClosed(h)
    BY <2>1, <1>0, LivingMeansPanicked DEF CallClosed
  <2>2. CASE CallReserve(h)
    BY <2>2, <1>0 DEF CallReserve
  <2> QED
    BY <1>3, <2>1, <2>2 DEF Call
<1>4. ASSUME NEW h \in Handles, Wake(h) PROVE SafetyInv'
  <2>1. CASE TakePermit(h)
    BY <2>1, <1>0 DEF TakePermit
  <2>2. CASE Refused(h)
    BY <2>2, <1>0, LivingMeansPanicked DEF Refused
  <2> QED
    BY <1>4, <2>1, <2>2 DEF Wake
<1>5. ASSUME NEW h \in Handles, Send(h) PROVE SafetyInv'
  BY <1>5, <1>0 DEF Send
<1>6. ASSUME NEW h \in Handles, Answer(h) PROVE SafetyInv'
  BY <1>6, <1>0 DEF Answer
<1>7. ASSUME NEW h \in Handles, Abort(h) PROVE SafetyInv'
  <2>1. ASSUME waiters # <<>> PROVE phase[Head(waiters)] = "reserving"
    BY <2>1, TailElements DEF WaitersInv
  <2> QED
    BY <1>7, <1>0, <2>1 DEF Abort, AbortWaiting, GiveBack
<1>8. ASSUME NEW h \in Handles, DropSender(h) \/ BeginClose(h) PROVE SafetyInv'
  BY <1>8, <1>0 DEF DropSender, BeginClose
<1>9. ASSUME NEW h \in Handles, Release(h) PROVE SafetyInv'
  <2>1. CASE DropCloseHandle(h)
    BY <2>1, <1>0 DEF DropCloseHandle, Owners
  <2>2. CASE IntoInner(h)
    BY <2>2, <1>0 DEF IntoInner, Owners
  <2>3. CASE Join(h)
    BY <2>3, <1>0 DEF Join
  <2> QED
    BY <1>9, <2>1, <2>2, <2>3 DEF Release
<1>10. ASSUME Thread PROVE SafetyInv'
  <2>1. CASE Recv
    <3>1. ASSUME waiters # <<>>
          PROVE  Head(waiters) \in Handles /\ phase[Head(waiters)] = "reserving"
      BY <3>1, TailElements DEF WaitersInv
    <3> QED
      BY <2>1, <1>0, <3>1 DEF Recv, GiveBack
  <2>2. CASE RecvNone
    BY <2>2, <1>0 DEF RecvNone
  <2>3. ASSUME NEW o \in Outcomes, Run(o) PROVE SafetyInv'
    BY <2>3, <1>0, OutcomesAssumption DEF Run, Tell
  <2>4. CASE CheckClose
    BY <2>4, <1>0 DEF CheckClose
  <2>5. ASSUME NEW r \in {"ok", "err"}, Optimize(r) PROVE SafetyInv'
    BY <2>5, <1>0 DEF Optimize
  <2>6. CASE Unwind
    BY <2>6, <1>0 DEF Unwind
  <2> QED
    BY <1>10, <2>1, <2>2, <2>3, <2>4, <2>5, <2>6 DEF Thread
<1>11. CASE UNCHANGED vars
  BY <1>11 DEF vars
<1> QED
  BY <1>1, <1>2, <1>3, <1>4, <1>5, <1>6, <1>7, <1>8, <1>9, <1>10, <1>11
     DEF Next, Terminated

IInv == TypeOK /\ UnopenedInv /\ WaitersInv /\ SafetyInv

LEMMA Inductive == Spec => []IInv
<1>1. Init => IInv
  BY InitType, SafetyInit DEF IInv, Init, UnopenedInv, WaitersInv
<1>2. IInv /\ [Next]_vars => IInv'
  BY NextType, UnopenedNext, WaitersNext, SafetyNext DEF IInv
<1> QED
  BY <1>1, <1>2, PTL DEF Spec

(* A task is told that the connection is closed, or sees a closed channel  *)
(* while it holds a handle, only after the connection thread panicked.     *)
THEOREM CloseRefusesNobody == Spec => []ClosedMeansPanicked
<1>1. IInv => ClosedMeansPanicked
  BY LivingMeansPanicked
     DEF IInv, ClosedMeansPanicked, SafetyInv, RefusedMeansPanicked, Senders,
         IsOpen, Panicked
<1> QED
  BY <1>1, Inductive, PTL

(* The thread optimizes and closes the database only when every closure    *)
(* that was sent has run and no handle can send another.                   *)
THEOREM OptimizesLast == Spec => []QuietEnd
<1>1. IInv => QuietEnd
  BY DEF IInv, SafetyInv
<1> QED
  BY <1>1, Inductive, PTL

-----------------------------------------------------------------------------
(* The inductive invariant behind LastCloseJoins: a handle has a result of *)
(* close() only when it is gone, the thread that is done can be joined and *)
(* what it returned is what close() returns, and the handle that joins it  *)
(* has sent the close signal before.                                       *)
JoinInv ==
  /\ \A h \in Handles : closeResult[h] # "none" => phase[h] = "gone"
  /\ \A h \in Handles : closeResult[h] \in {"ok", "err", "panic"} =>
                         thread = "done" /\ closeResult[h] = threadResult
  /\ threadResult = "panic" => rxClosed
  /\ thread = "done" => threadResult # "none"
  /\ \A h \in Handles : Joined(h) => closeSignal # "pending"
  /\ LastCloseJoins

LEMMA JoinNext == IInv /\ JoinInv /\ [Next]_vars => JoinInv'
<1> SUFFICES ASSUME IInv, JoinInv, [Next]_vars PROVE JoinInv'
  OBVIOUS
<1>0. TypeOK /\ TypeOK' /\ UnopenedInv /\ UnopenedInv' /\ WaitersInv /\ SafetyInv
  BY NextType, UnopenedNext DEF IInv
<1> USE DEF JoinInv, channel, connection
(* A step in which a task that owned the CloseHandle before owns it still, *)
(* and no handle begins or ends to join.                                   *)
<1> DEFINE Moves == \A h \in Handles :
             \/ phase'[h] = phase[h]
             \/ /\ phase[h] \notin {"joining", "gone"}
                /\ phase'[h] \notin {"none", "joining", "gone"}
           Rest == /\ UNCHANGED <<closeSignal, closeResult, openResult>>
                   /\ thread' = "done" => threadResult' # "none"
                   /\ thread = "done" => UNCHANGED <<thread, threadResult>>
                   /\ threadResult' = "panic" => rxClosed'
<1>a. ASSUME Moves, Rest, openResult = "ok" PROVE JoinInv'
  BY <1>0, <1>a DEF LastCloseJoins, Joined, Owners, TypeOK
<1>b. ASSUME NEW h \in Handles, phase[h] # "none" PROVE openResult = "ok"
  BY <1>0, <1>b DEF UnopenedInv
<1>1. ASSUME NEW r \in OpenOutcomes, Open(r) PROVE JoinInv'
  <2>1. CASE r = "ok"
    <3>1. phase'[Root] = "idle" /\ Root \in Owners'
      BY <1>0, <1>1, <2>1, HandlesAssumption DEF Open, Owners, TypeOK
    <3> QED
      BY <1>0, <1>1, <2>1, <3>1, HandlesAssumption
         DEF Open, LastCloseJoins, Joined, TypeOK, UnopenedInv
  <2>2. CASE r # "ok"
    BY <1>0, <1>1, <2>2 DEF Open, LastCloseJoins, Joined, Owners, TypeOK
  <2> QED
    BY <2>1, <2>2
<1>2. ASSUME NEW h \in Handles, NEW g \in Handles, Clone(h, g) PROVE JoinInv'
  <2>1. Moves
    BY <1>0, <1>2 DEF Clone, TypeOK
  <2>2. Rest /\ openResult = "ok"
    BY <1>2, <1>b DEF Clone
  <2> QED
    BY <1>a, <2>1, <2>2
<1>3. ASSUME NEW h \in Handles, Call(h) \/ Wake(h) \/ Send(h) \/ Answer(h)
      PROVE  JoinInv'
  <2> USE DEF Call, CallClosed, CallReserve, Wake, TakePermit, Refused, Send, Answer
  <2>1. Moves
    BY <1>0, <1>3 DEF TypeOK
  <2>2. Rest /\ openResult = "ok"
    BY <1>3, <1>b
  <2> QED
    BY <1>a, <2>1, <2>2
<1>4. ASSUME NEW h \in Handles, Abort(h) PROVE JoinInv'
  <2>1. waiters # <<>> => Head(waiters) \in Handles /\ phase[Head(waiters)] = "reserving"
    BY <1>0, TailElements DEF WaitersInv, TypeOK
  <2>2. Moves
    BY <1>0, <1>4, <2>1 DEF Abort, AbortWaiting, GiveBack, TypeOK
  <2>3. Rest /\ openResult = "ok"
    BY <1>4, <1>b DEF Abort
  <2> QED
    BY <1>a, <2>2, <2>3
<1>5. ASSUME NEW h \in Handles, DropSender(h) \/ BeginClose(h) PROVE JoinInv'
  <2>1. Moves
    BY <1>0, <1>5 DEF DropSender, BeginClose, TypeOK
  <2>2. Rest /\ openResult = "ok"
    BY <1>5, <1>b DEF DropSender, BeginClose
  <2> QED
    BY <1>a, <2>1, <2>2
<1>6. ASSUME NEW h \in Handles, DropCloseHandle(h) PROVE JoinInv'
  <2>1. phase[h] = "dropping" /\ phase' = [phase EXCEPT ![h] = "gone"]
        /\ UNCHANGED <<thread, threadResult, rxClosed, closeResult, openResult>>
    BY <1>6 DEF DropCloseHandle
  <2>2. closeResult[h] = "none" /\ closeSignal = "pending"
    BY <1>0, <2>1 DEF SafetyInv, SignalMeansNoOwner
  <2>3. \A g \in Handles : Joined(g)' <=> Joined(g)
    BY <1>0, <2>1 DEF Joined, TypeOK
  <2> QED
    BY <1>0, <2>1, <2>2, <2>3 DEF LastCloseJoins, TypeOK
<1>7. ASSUME NEW h \in Handles, IntoInner(h) PROVE JoinInv'
  <2>1. phase[h] = "closing" /\ UNCHANGED <<thread, threadResult, rxClosed, openResult>>
    BY <1>7 DEF IntoInner
  <2>2. closeSignal = "pending" /\ \A g \in Handles : ~Joined(g)
    BY <1>0, <2>1 DEF SafetyInv, SignalMeansNoOwner
  <2>3. CASE Owners = {h}
    <3>1. /\ phase' = [phase EXCEPT ![h] = "joining"]
          /\ closeSignal' = "sent" /\ UNCHANGED closeResult
      BY <1>7, <2>3 DEF IntoInner
    <3>2. \A g \in Handles : Joined(g)' <=> g = h
      BY <1>0, <2>2, <3>1 DEF Joined, TypeOK
    <3> QED
      BY <1>0, <2>1, <2>2, <3>1, <3>2 DEF LastCloseJoins, TypeOK
  <2>4. CASE Owners # {h}
    <3>1. /\ phase' = [phase EXCEPT ![h] = "gone"]
          /\ closeResult' = [closeResult EXCEPT ![h] = "open_connection"]
          /\ UNCHANGED closeSignal
      BY <1>7, <2>4 DEF IntoInner
    <3>2. \A g \in Handles : ~Joined(g)'
      BY <1>0, <2>2, <3>1 DEF Joined, TypeOK
    <3>3. Owners' # {}
      BY <1>0, <2>1, <2>4, <3>1 DEF Owners, TypeOK
    <3> QED
      BY <1>0, <2>1, <2>2, <3>1, <3>2, <3>3 DEF LastCloseJoins, TypeOK
  <2> QED
    BY <2>3, <2>4
<1>8. ASSUME NEW h \in Handles, Join(h) PROVE JoinInv'
  <2>1. /\ thread = "done"
        /\ phase[h] = "joining" /\ phase' = [phase EXCEPT ![h] = "gone"]
        /\ closeResult' = [closeResult EXCEPT ![h] = threadResult]
        /\ threadResult \in {"ok", "err", "panic"}
        /\ UNCHANGED <<thread, threadResult, rxClosed, closeSignal, openResult>>
    BY <1>0, <1>8 DEF Join, TypeOK
  <2>2. \A g \in Handles : Joined(g)' <=> Joined(g)
    BY <1>0, <2>1 DEF Joined, TypeOK
  <2>3. Joined(h)
    BY <2>1 DEF Joined
  <2> QED
    BY <1>0, <2>1, <2>2, <2>3 DEF LastCloseJoins, TypeOK
<1>9. ASSUME Thread PROVE JoinInv'
  <2>1. openResult = "ok"
    BY <1>0, <1>9
       DEF Thread, Recv, RecvNone, Run, CheckClose, Optimize, Unwind, UnopenedInv
  <2>2. /\ thread # "done" /\ threadResult = "none"
        /\ thread' = "done" => threadResult' # "none"
        /\ threadResult' = "panic" => rxClosed'
    BY <1>0, <1>9
       DEF Thread, Recv, RecvNone, Run, CheckClose, Optimize, Unwind, SafetyInv, ThreadShape
  <2>3. Moves
    <3>1. waiters # <<>> => Head(waiters) \in Handles /\ phase[Head(waiters)] = "reserving"
      BY <1>0, TailElements DEF WaitersInv, TypeOK
    <3>2. CASE Recv
      BY <1>0, <3>1, <3>2 DEF Recv, GiveBack, TypeOK
    <3>3. CASE UNCHANGED phase
      BY <3>3
    <3> QED
      BY <1>9, <3>2, <3>3 DEF Thread, RecvNone, Run, CheckClose, Optimize, Unwind
  <2>4. UNCHANGED <<closeSignal, closeResult, openResult>>
    BY <1>9 DEF Thread, Recv, RecvNone, Run, CheckClose, Optimize, Unwind
  <2> QED
    BY <1>a, <2>1, <2>2, <2>3, <2>4
<1>10. CASE UNCHANGED vars
  BY <1>10 DEF vars, LastCloseJoins, Joined, Owners
<1> QED
  BY <1>1, <1>2, <1>3, <1>4, <1>5, <1>6, <1>7, <1>8, <1>9, <1>10
     DEF Next, Release, Terminated

LEMMA JoinInductive == Spec => []JoinInv
<1>1. Init => JoinInv
  BY HandlesAssumption DEF Init, JoinInv, LastCloseJoins, Joined
<1>2. IInv /\ JoinInv /\ [Next]_vars => JoinInv'
  BY JoinNext
<1> QED
  BY <1>1, <1>2, Inductive, PTL DEF Spec

(* However calls to close() and destructors interleave, the connection     *)
(* thread is joined at most once; and when all handles went through        *)
(* close(), one of them joined it.                                         *)
THEOREM ThreadIsJoinedOnce == Spec => []LastCloseJoins
<1>1. JoinInv => LastCloseJoins
  BY DEF JoinInv
<1> QED
  BY <1>1, JoinInductive, PTL
=============================================================================
