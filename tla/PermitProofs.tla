---------------------------- MODULE PermitProofs ----------------------------
(***************************************************************************)
(* The bounded channel of Database never loses a permit and never creates  *)
(* one, for any number of handles and any capacity.                        *)
(***************************************************************************)
EXTENDS DatabaseProofs, FiniteSetTheorems

(* The permits counted for the phases ph.                                  *)
Holders(ph) == {h \in Handles : ph[h] \in {"granted", "permit"}}

LEMMA HoldersFinite ==
  ASSUME NEW ph
  PROVE  IsFiniteSet(Holders(ph)) /\ Cardinality(Holders(ph)) \in Nat
<1>1. IsFiniteSet(Holders(ph))
  BY HandlesAssumption, FS_Subset DEF Holders
<1> QED
  BY <1>1, FS_CardinalityType

(* A task that moves to another phase takes a permit, lets go of one, or   *)
(* leaves the number of permits in the tasks' hands alone.                 *)
LEMMA TakesPermit ==
  ASSUME NEW ph \in [Handles -> Phases], NEW h \in Handles,
         NEW p \in {"granted", "permit"}, ph[h] \notin {"granted", "permit"}
  PROVE  Cardinality(Holders([ph EXCEPT ![h] = p])) = Cardinality(Holders(ph)) + 1
<1>1. Holders([ph EXCEPT ![h] = p]) = Holders(ph) \cup {h}
  BY DEF Holders
<1>2. h \notin Holders(ph)
  BY DEF Holders
<1> QED
  BY <1>1, <1>2, HoldersFinite, FS_AddElement

LEMMA LetsGoOfPermit ==
  ASSUME NEW ph \in [Handles -> Phases], NEW h \in Handles,
         NEW p, p \notin {"granted", "permit"}, ph[h] \in {"granted", "permit"}
  PROVE  Cardinality(Holders([ph EXCEPT ![h] = p])) = Cardinality(Holders(ph)) - 1
<1>1. Holders([ph EXCEPT ![h] = p]) = Holders(ph) \ {h}
  BY DEF Holders
<1>2. h \in Holders(ph)
  BY DEF Holders
<1> QED
  BY <1>1, <1>2, HoldersFinite, FS_RemoveElement

LEMMA KeepsPermits ==
  ASSUME NEW ph \in [Handles -> Phases], NEW h \in Handles,
         NEW p, p \in {"granted", "permit"} <=> ph[h] \in {"granted", "permit"}
  PROVE  Holders([ph EXCEPT ![h] = p]) = Holders(ph)
  BY DEF Holders

(* Giving a permit back frees it or hands it to the oldest waiter.         *)
LEMMA GiveBackCounts ==
  ASSUME TypeOK, WaitersInv, NEW ph \in [Handles -> Phases],
         \A h \in Handles : phase[h] = "reserving" => ph[h] = "reserving",
         GiveBack(ph, waiters),
         waiters # <<>> => free = 0
  PROVE  /\ \/ /\ free' = free + 1
               /\ Cardinality(Holders(phase')) = Cardinality(Holders(ph))
            \/ /\ free' = free
               /\ Cardinality(Holders(phase')) = Cardinality(Holders(ph)) + 1
         /\ waiters' # <<>> => free' = 0
<1> USE DEF TypeOK
<1>0. Cardinality(Holders(ph)) \in Nat
  BY HoldersFinite
<1>1. CASE waiters = <<>>
  BY <1>0, <1>1 DEF GiveBack
<1>2. CASE waiters # <<>>
  <2>1. /\ phase' = [ph EXCEPT ![Head(waiters)] = "granted"]
        /\ waiters' = Tail(waiters)
        /\ free' = free
    BY <1>2 DEF GiveBack
  <2>2. Head(waiters) \in Handles /\ ph[Head(waiters)] = "reserving"
    BY <1>2, TailElements DEF WaitersInv
  <2>3. Cardinality(Holders(phase')) = Cardinality(Holders(ph)) + 1
    BY <1>0, <2>1, <2>2, TakesPermit
  <2> QED
    BY <1>0, <1>2, <2>1, <2>3
<1> QED
  BY <1>1, <1>2

LEMMA PermitsAreHolders == Permits = Holders(phase) /\ Permits' = Holders(phase')
  BY DEF Permits, Holders

(* PermitsAccounted is inductive together with the invariants that say who *)
(* waits for a permit.                                                     *)
LEMMA PermitsNext == IInv /\ PermitsAccounted /\ [Next]_vars => PermitsAccounted'
<1> SUFFICES ASSUME IInv, PermitsAccounted, [Next]_vars PROVE PermitsAccounted'
  OBVIOUS
<1>0. TypeOK /\ TypeOK' /\ WaitersInv /\ SafetyInv /\ UnopenedInv
  BY NextType DEF IInv
<1> DEFINE held == Cardinality(Holders(phase))
           held2 == Cardinality(Holders(phase'))
<1>a. /\ held \in Nat /\ held2 \in Nat
      /\ Permits = Holders(phase) /\ Permits' = Holders(phase')
      /\ free + Len(queue) + held = Buffer
      /\ waiters # <<>> => free = 0
  BY HoldersFinite, PermitsAreHolders DEF PermitsAccounted
<1>b. /\ phase \in [Handles -> Phases] /\ free \in Nat /\ free' \in Nat
      /\ queue \in Seq(Handles) /\ queue' \in Seq(Handles)
      /\ waiters \in Seq(Handles) /\ waiters' \in Seq(Handles)
      /\ Len(queue) \in Nat /\ Len(queue') \in Nat
  BY <1>0 DEF TypeOK
<1>n. /\ held \in Nat /\ held2 \in Nat /\ free \in Nat /\ free' \in Nat
      /\ Len(queue) \in Nat /\ Len(queue') \in Nat
      /\ free + Len(queue) + held = Buffer
  BY <1>a, <1>b
<1>c. ASSUME free' + Len(queue') + held2 = Buffer, waiters' # <<>> => free' = 0
      PROVE  PermitsAccounted'
  BY <1>a, <1>c DEF PermitsAccounted
<1> HIDE DEF held, held2
<1> USE DEF channel, connection
(* Steps that move a task to a phase without a permit, from another such   *)
(* phase, and leave the channel alone.                                     *)
<1>d. ASSUME UNCHANGED <<free, queue, waiters>>,
             NEW h \in Handles, NEW p,
             p \in {"granted", "permit"} <=> phase[h] \in {"granted", "permit"},
             phase' = [phase EXCEPT ![h] = p]
      PROVE  PermitsAccounted'
  <2>1. held2 = held
    BY <1>b, <1>d, KeepsPermits DEF held, held2
  <2> QED
    BY <1>a, <1>b, <1>c, <1>d, <2>1
<1>e. ASSUME UNCHANGED <<free, queue, waiters, phase>> PROVE PermitsAccounted'
  BY <1>a, <1>c, <1>e DEF held, held2
<1>1. ASSUME NEW r \in OpenOutcomes, Open(r) PROVE PermitsAccounted'
  BY <1>0, <1>1, <1>d, <1>e, HandlesAssumption DEF Open, UnopenedInv
<1>2. ASSUME NEW h \in Handles, NEW g \in Handles, Clone(h, g) PROVE PermitsAccounted'
  BY <1>2, <1>d DEF Clone
<1>3. ASSUME NEW h \in Handles, Call(h) PROVE PermitsAccounted'
  <2>1. CASE CallClosed(h)
    BY <2>1, <1>e DEF CallClosed
  <2>2. CASE CallReserve(h) /\ free > 0
    <3>1. /\ free' = free - 1 /\ phase' = [phase EXCEPT ![h] = "permit"]
          /\ UNCHANGED <<waiters, queue>> /\ phase[h] = "idle"
      BY <2>2 DEF CallReserve
    <3>2. held2 = held + 1
      BY <1>b, <3>1, TakesPermit DEF held, held2
    <3> QED
      BY <1>a, <1>b, <1>c, <2>2, <3>1, <3>2
  <2>3. CASE CallReserve(h) /\ ~(free > 0)
    <3>1. /\ UNCHANGED <<free, queue>> /\ phase' = [phase EXCEPT ![h] = "reserving"]
          /\ phase[h] = "idle"
      BY <2>3 DEF CallReserve
    <3>2. held2 = held
      BY <1>b, <3>1, KeepsPermits DEF held, held2
    <3> QED
      BY <1>a, <1>b, <1>c, <2>3, <3>1, <3>2
  <2> QED
    BY <1>3, <2>1, <2>2, <2>3 DEF Call
<1>4. ASSUME NEW h \in Handles, Wake(h) PROVE PermitsAccounted'
  <2>1. CASE TakePermit(h)
    BY <2>1, <1>d DEF TakePermit
  <2>2. CASE Refused(h) /\ phase[h] = "granted"
    <3>1. /\ free' = free + 1 /\ phase' = [phase EXCEPT ![h] = "idle"]
          /\ UNCHANGED <<waiters, queue>> /\ rxClosed
      BY <2>2 DEF Refused
    <3>2. held2 = held - 1
      BY <1>b, <2>2, <3>1, LetsGoOfPermit DEF held, held2
    <3>3. waiters = <<>>
      BY <1>0, <3>1 DEF WaitersInv
    <3> QED
      BY <1>a, <1>b, <1>c, <3>1, <3>2, <3>3
  <2>3. CASE Refused(h) /\ phase[h] # "granted"
    BY <2>3, <1>d DEF Refused
  <2> QED
    BY <1>4, <2>1, <2>2, <2>3 DEF Wake
<1>5. ASSUME NEW h \in Handles, Send(h) PROVE PermitsAccounted'
  <2>1. /\ queue' = Append(queue, h) /\ phase' = [phase EXCEPT ![h] = "awaiting"]
        /\ UNCHANGED <<waiters, free>> /\ phase[h] = "permit"
    BY <1>5 DEF Send
  <2>2. held2 = held - 1
    BY <1>b, <2>1, LetsGoOfPermit DEF held, held2
  <2>3. Len(queue') = Len(queue) + 1
    BY <1>b, <2>1
  <2> QED
    BY <1>a, <1>b, <1>c, <2>1, <2>2, <2>3
<1>6. ASSUME NEW h \in Handles, Answer(h) PROVE PermitsAccounted'
  BY <1>6, <1>d DEF Answer
<1>7. ASSUME NEW h \in Handles, Abort(h) PROVE PermitsAccounted'
  <2>1. CASE phase[h] = "reserving" /\ AbortWaiting(h)
    <3>1. PICK i \in DOMAIN waiters :
            phase' = [phase EXCEPT ![h] = "aborted"] /\ UNCHANGED free
      BY <2>1 DEF AbortWaiting
    <3>2. held2 = held
      BY <1>b, <2>1, <3>1, KeepsPermits DEF held, held2
    <3>3. waiters # <<>>
      BY <1>b, <3>1
    <3> QED
      BY <1>7, <1>a, <1>b, <1>c, <3>1, <3>2, <3>3 DEF Abort
  <2>2. CASE phase[h] = "granted" /\ GiveBack([phase EXCEPT ![h] = "aborted"], waiters)
    <3> DEFINE left == [phase EXCEPT ![h] = "aborted"]
    <3>1. left \in [Handles -> Phases]
      BY <1>b DEF Phases
    <3>2. \A g \in Handles : phase[g] = "reserving" => left[g] = "reserving"
      BY <1>b, <2>2
    <3>3. Cardinality(Holders(left)) = held - 1
      BY <1>b, <2>2, LetsGoOfPermit DEF held
    <3> HIDE DEF left
    <3>4. /\ \/ free' = free + 1 /\ held2 = Cardinality(Holders(left))
             \/ free' = free /\ held2 = Cardinality(Holders(left)) + 1
          /\ waiters' # <<>> => free' = 0
      BY <1>0, <1>a, <2>2, <3>1, <3>2, GiveBackCounts DEF held2, left
    <3>5. queue' = queue
      BY <1>7 DEF Abort
    <3>6. free' + Len(queue') + held2 = Buffer
      BY <1>n, <3>3, <3>4, <3>5
    <3> QED
      BY <1>c, <3>4, <3>6
  <2>3. CASE /\ phase[h] = "awaiting" \/ (phase[h] = "reserving" /\ rxClosed)
             /\ phase' = [phase EXCEPT ![h] = "aborted"]
             /\ UNCHANGED <<free, waiters>>
    BY <1>7, <1>d, <2>3 DEF Abort
  <2> QED
    BY <1>7, <2>1, <2>2, <2>3 DEF Abort
<1>8. ASSUME NEW h \in Handles, DropSender(h) \/ BeginClose(h) PROVE PermitsAccounted'
  BY <1>8, <1>d DEF DropSender, BeginClose
<1>9. ASSUME NEW h \in Handles, Release(h) PROVE PermitsAccounted'
  BY <1>9, <1>d DEF Release, DropCloseHandle, IntoInner, Join
<1>10. ASSUME Thread PROVE PermitsAccounted'
  <2>1. CASE Recv
    <3>1. Len(queue') = Len(queue) - 1
      BY <1>b, <2>1 DEF Recv
    <3>2. /\ \/ free' = free + 1 /\ held2 = held
             \/ free' = free /\ held2 = held + 1
          /\ waiters' # <<>> => free' = 0
      BY <1>0, <1>a, <1>b, <2>1, GiveBackCounts DEF Recv, held, held2
    <3>3. free' + Len(queue') + held2 = Buffer
      BY <1>n, <3>1, <3>2
    <3> QED
      BY <1>c, <3>2, <3>3
  <2>2. CASE RecvNone \/ (\E o \in Outcomes : Run(o)) \/ (\E r \in {"ok", "err"} : Optimize(r))
    BY <2>2, <1>e DEF RecvNone, Run, Optimize
  <2>3. CASE CheckClose
    BY <1>a, <1>c, <2>3 DEF CheckClose, held, held2
  <2>4. CASE Unwind
    <3>1. free' = free + Len(queue) /\ queue' = <<>> /\ waiters' = <<>> /\ held2 = held
      BY <2>4 DEF Unwind, held, held2
    <3>2. Len(queue') = 0
      BY <3>1
    <3> QED
      BY <1>a, <1>b, <1>c, <3>1, <3>2
  <2> QED
    BY <1>10, <2>1, <2>2, <2>3, <2>4 DEF Thread
<1>11. CASE UNCHANGED vars
  BY <1>11, <1>e DEF vars
<1> QED
  BY <1>1, <1>2, <1>3, <1>4, <1>5, <1>6, <1>7, <1>8, <1>9, <1>10, <1>11
     DEF Next, Terminated

(* Across calls, aborted reservations, panics and close, every permit of   *)
(* the channel is free, in the hands of a task or behind a closure in the  *)
(* channel, and no task waits while a permit is free.                      *)
THEOREM PermitsAreNeverLost == Spec => []PermitsAccounted
<1>1. Init => PermitsAccounted
  <2> SUFFICES ASSUME Init PROVE PermitsAccounted
    OBVIOUS
  <2>1. Permits = {} /\ free = Buffer /\ queue = <<>> /\ waiters = <<>>
    BY DEF Init, Permits
  <2>2. Cardinality(Permits) = 0 /\ Len(queue) = 0
    BY <2>1, FS_EmptySet
  <2> QED
    BY <2>1, <2>2, BufferAssumption DEF PermitsAccounted
<1> QED
  BY <1>1, Inductive, PermitsNext, PTL DEF Spec
=============================================================================
