------------------------- MODULE DatabaseRefinement -------------------------
(***************************************************************************)
(* Database implements DatabaseService: each step of a task or of the      *)
(* connection thread is one of the service as the tasks see it, or a step  *)
(* that they do not see.                                                   *)
(***************************************************************************)
EXTENDS DatabaseProofs

(* A task whose closure was sent waits for the answer or was given up.     *)
Sent == {"awaiting", "aborted", "dropping", "gone"}

(* A closure is at one place only: in the channel, in the hands of the     *)
(* thread, or answered.                                                    *)
ClosuresInv ==
  /\ \A i, j \in DOMAIN queue : queue[i] = queue[j] => i = j
  /\ \A i \in DOMAIN queue : phase[queue[i]] \in Sent /\ queue[i] # running
  /\ thread = "run" => running \in Handles /\ phase[running] \in Sent
  /\ \A h \in Handles :
       reply[h] # "none" =>
         /\ phase[h] = "awaiting"
         /\ running # h
         /\ \A i \in DOMAIN queue : queue[i] # h

LEMMA ClosuresNext ==
  IInv /\ ClosuresInv /\ [Next]_vars => ClosuresInv'
<1> SUFFICES ASSUME IInv, ClosuresInv, [Next]_vars PROVE ClosuresInv'
  OBVIOUS
<1>0. TypeOK /\ TypeOK' /\ UnopenedInv /\ WaitersInv /\ SafetyInv
  BY NextType DEF IInv
<1>1. \A i \in DOMAIN queue : queue[i] \in Handles
  BY <1>0 DEF TypeOK
<1> USE DEF ClosuresInv, channel, connection
(* Steps of tasks leave the closures where they are; a task whose closure  *)
(* was sent stays in Sent unless it takes an answer.                       *)
<1> DEFINE Keeps == /\ UNCHANGED <<queue, running>>
                    /\ thread' = "run" => thread = "run"
           Moves == \A h \in Handles :
                      /\ phase[h] \in Sent => phase'[h] \in Sent \/ reply[h] # "none"
                      /\ reply'[h] # "none" =>
                           reply[h] # "none" /\ phase'[h] = "awaiting"
<1>a. ASSUME Keeps, Moves PROVE ClosuresInv'
  BY <1>1, <1>a
<1>2. ASSUME NEW r \in OpenOutcomes, Open(r) PROVE ClosuresInv'
  <2>1. Moves
    BY <1>0, <1>2, HandlesAssumption DEF Open, UnopenedInv, TypeOK, Sent
  <2>2. Keeps
    BY <1>0, <1>2 DEF Open, UnopenedInv
  <2> QED
    BY <1>a, <2>1, <2>2
<1>3. ASSUME NEW h \in Handles, NEW g \in Handles, Clone(h, g) PROVE ClosuresInv'
  <2>1. Moves
    BY <1>0, <1>3 DEF Clone, TypeOK, Sent
  <2>2. Keeps
    BY <1>3 DEF Clone
  <2> QED
    BY <1>a, <2>1, <2>2
<1>4. ASSUME NEW h \in Handles, Call(h) \/ Wake(h) \/ Answer(h) PROVE ClosuresInv'
  <2> USE DEF Call, CallClosed, CallReserve, Wake, TakePermit, Refused, Answer
  <2>1. Moves
    BY <1>0, <1>4 DEF TypeOK, Sent
  <2>2. Keeps
    BY <1>4
  <2> QED
    BY <1>a, <2>1, <2>2
<1>5. ASSUME NEW h \in Handles, Send(h) PROVE ClosuresInv'
  <2>1. /\ phase[h] = "permit" /\ phase' = [phase EXCEPT ![h] = "awaiting"]
        /\ queue' = Append(queue, h) /\ UNCHANGED <<running, thread, reply>>
    BY <1>5 DEF Send
  <2>2. /\ \A i \in DOMAIN queue : queue[i] # h
        /\ thread = "run" => running # h
        /\ reply[h] = "none"
    BY <1>0, <2>1 DEF Sent, TypeOK
  <2>3. /\ DOMAIN queue' = 1..(Len(queue) + 1) /\ DOMAIN queue = 1..Len(queue)
        /\ Len(queue) \in Nat
        /\ \A i \in DOMAIN queue' :
             queue'[i] = IF i = Len(queue) + 1 THEN h ELSE queue[i]
    <3>1. queue \in Seq(Handles)
      BY <1>0 DEF TypeOK
    <3> QED
      BY <2>1, <3>1
  <2>4. running # h
    BY <1>0, <2>2, HandlesAssumption DEF SafetyInv, ThreadShape
  <2> QED
    BY <1>0, <1>1, <2>1, <2>2, <2>3, <2>4 DEF Sent, TypeOK
<1>6. ASSUME NEW h \in Handles, Abort(h) PROVE ClosuresInv'
  <2>1. waiters # <<>> => Head(waiters) \in Handles /\ phase[Head(waiters)] = "reserving"
    BY <1>0, TailElements DEF WaitersInv, TypeOK
  <2>2. Moves
    BY <1>0, <1>6, <2>1 DEF Abort, AbortWaiting, GiveBack, TypeOK, Sent
  <2>3. Keeps
    BY <1>6 DEF Abort
  <2> QED
    BY <1>a, <2>2, <2>3
<1>7. ASSUME NEW h \in Handles, DropSender(h) \/ BeginClose(h) \/ Release(h)
      PROVE  ClosuresInv'
  <2> USE DEF DropSender, BeginClose, Release, DropCloseHandle, IntoInner, Join
  <2>1. Moves
    BY <1>0, <1>7 DEF TypeOK, Sent
  <2>2. Keeps
    BY <1>7
  <2> QED
    BY <1>a, <2>1, <2>2
<1>8. CASE Recv
  <2>1. waiters # <<>> => Head(waiters) \in Handles /\ phase[Head(waiters)] = "reserving"
    BY <1>0, TailElements DEF WaitersInv, TypeOK
  <2>2. \A h \in Handles : /\ phase[h] \in Sent => phase'[h] = phase[h]
                           /\ reply'[h] = reply[h]
    BY <1>0, <1>8, <2>1 DEF Recv, GiveBack, TypeOK, Sent
  <2>3. /\ running' = queue[1] /\ 1 \in DOMAIN queue
        /\ \A i \in DOMAIN queue' : i + 1 \in DOMAIN queue /\ queue'[i] = queue[i + 1]
        /\ DOMAIN queue' \subseteq Nat \ {0}
    BY <1>0, <1>8, TailElements DEF Recv, TypeOK
  <2>4. \A i \in DOMAIN queue' : queue'[i] # running'
    BY <2>3
  <2>5. \A i, j \in DOMAIN queue' : queue'[i] = queue'[j] => i = j
    BY <2>3
  <2>6. ASSUME NEW h \in Handles, reply'[h] # "none"
        PROVE  phase'[h] = "awaiting" /\ running' # h /\ \A i \in DOMAIN queue' : queue'[i] # h
    BY <2>2, <2>3, <2>6 DEF Sent
  <2> QED
    BY <1>1, <2>2, <2>3, <2>4, <2>5, <2>6
<1>9. ASSUME NEW o \in Outcomes, Run(o) PROVE ClosuresInv'
  <2>1. /\ running' = NoHandle /\ thread' # "run" /\ UNCHANGED <<phase, queue>>
        /\ running \in Handles /\ phase[running] \in Sent
    BY <1>9 DEF Run
  <2>2. \A h \in Handles : reply'[h] = reply[h] \/ (h = running /\ phase[h] = "awaiting")
    <3>1. reply' = Tell(running, "dropped") \/ reply' = Tell(running, o)
      BY <1>9 DEF Run
    <3>2. ASSUME NEW h \in Handles, h # running PROVE reply'[h] = reply[h]
      BY <1>0, <3>1, <3>2 DEF Tell, TypeOK
    <3>3. phase[running] # "awaiting" => reply' = reply
      BY <3>1 DEF Tell
    <3> QED
      BY <3>2, <3>3
  <2> QED
    BY <1>1, <2>1, <2>2, HandlesAssumption
<1>10. CASE Unwind
  <2>1. running = NoHandle
    BY <1>0, <1>10 DEF Unwind, SafetyInv, ThreadShape
  <2>2. /\ queue' = <<>> /\ thread' = "done" /\ running' = NoHandle /\ phase' = phase
        /\ \A h \in Handles : reply'[h] # "none" => reply[h] # "none" \/ phase[h] = "awaiting"
    BY <1>10, <2>1 DEF Unwind
  <2> QED
    BY <2>2, HandlesAssumption
<1>11. CASE RecvNone \/ CheckClose \/ (\E r \in {"ok", "err"} : Optimize(r))
  <2>1. Moves
    BY <1>0, <1>11 DEF RecvNone, CheckClose, Optimize, TypeOK, Sent
  <2>2. Keeps
    BY <1>11 DEF RecvNone, CheckClose, Optimize
  <2> QED
    BY <1>a, <2>1, <2>2
<1>12. CASE UNCHANGED vars
  BY <1>12 DEF vars, Sent
<1> QED
  BY <1>2, <1>3, <1>4, <1>5, <1>6, <1>7, <1>8, <1>9, <1>10, <1>11, <1>12
     DEF Next, Thread, Terminated

-----------------------------------------------------------------------------
(* What the tasks see of a step.                                           *)

Clients == [h \in Handles |-> ClientOf(phase[h])]
Answers == [h \in Handles |-> IF reply[h] \in {"ok", "err"} THEN reply[h] ELSE "none"]

(* A task that moves on changes what is seen of it alone.                  *)
LEMMA ClientMoves ==
  ASSUME TypeOK, NEW h \in Handles, NEW p, phase' = [phase EXCEPT ![h] = p]
  PROVE  Clients' = [Clients EXCEPT ![h] = ClientOf(p)]
  BY DEF TypeOK, Clients

LEMMA ClientStays ==
  ASSUME TypeOK, NEW h \in Handles, NEW p, phase' = [phase EXCEPT ![h] = p],
         ClientOf(p) = ClientOf(phase[h])
  PROVE  Clients' = Clients
  BY DEF TypeOK, Clients

LEMMA AnswersStay == ASSUME reply' = reply PROVE Answers' = Answers
  BY DEF Answers

(* Neither a task nor the connection thread starts before the database is  *)
(* open; then the thread's place says whether the service runs closures.   *)
LEMMA ServiceOpen ==
  ASSUME IInv, openResult = "ok"
  PROVE  /\ ServiceState = "crashed" <=> Panicked
         /\ thread \in {"recv", "run", "check"} => ServiceState = "open"
         /\ ServiceState = "closed" <=> thread \in {"optimize", "done"} /\ ~Panicked
  BY DEF IInv, SafetyInv, ThreadShape, ServiceState, Panicked, TypeOK

LEMMA ServiceStays ==
  ASSUME UNCHANGED <<openResult, thread, threadResult>>
  PROVE  ServiceState' = ServiceState
  BY DEF ServiceState, Panicked

(* The steps of tasks: what is seen of them is the start and the end of a  *)
(* call, and how a handle comes and goes.                                  *)
LEMMA TaskRefines ==
  ASSUME IInv, ClosuresInv, NEW h \in Handles,
         \/ \E g \in Handles : Clone(h, g)
         \/ Call(h) \/ Wake(h) \/ Send(h) \/ Answer(h)
  PROVE  [Service!Next]_(Service!vars)
<1>0. TypeOK /\ UnopenedInv /\ WaitersInv /\ SafetyInv
  BY DEF IInv
<1> USE DEF channel, connection
<1>s. ServiceState' = ServiceState
  BY ServiceStays
     DEF Clone, Call, CallClosed, CallReserve, Wake, TakePermit, Refused, Send, Answer
<1>c. ASSUME rxClosed, phase[h] \notin {"none", "joining", "gone"}
      PROVE  ServiceState = "crashed"
  BY <1>0, <1>c, LivingMeansPanicked, ServiceOpen DEF Panicked, UnopenedInv
<1>1. CASE \E g \in Handles : Clone(h, g)
  <2>1. PICK g \in Handles : Clone(h, g)
    BY <1>1
  <2>2. Clients' = [Clients EXCEPT ![g] = "ready"]
    BY <1>0, <2>1, ClientMoves DEF Clone, ClientOf
  <2>3. Clients[h] = "ready" /\ Clients[g] = "none"
    BY <2>1 DEF Clone, Clients, ClientOf
  <2>4. NotRun' = NotRun
    BY <1>0, <2>1 DEF Clone, NotRun, TypeOK
  <2>5. Answers' = Answers /\ result' = result
    BY <2>1, AnswersStay DEF Clone
  <2> QED
    BY <1>s, <2>2, <2>3, <2>4, <2>5 DEF Service!Next, Service!Clone, Clients, Answers
<1>2. CASE CallClosed(h)
  <2>1. /\ phase' = phase /\ queue' = queue /\ running' = running
        /\ phase[h] = "idle" /\ result' = [result EXCEPT ![h] = "closed"]
    BY <1>2 DEF CallClosed
  <2>2. Clients' = Clients /\ Clients[h] = "ready" /\ Clients = [Clients EXCEPT ![h] = "ready"]
    BY <2>1 DEF Clients, ClientOf
  <2>3. NotRun' = NotRun /\ NotRun = NotRun \ {h}
    BY <1>0, <2>1, HandlesAssumption
       DEF NotRun, ClosuresInv, Sent, SafetyInv, ThreadShape
  <2>4. Answers' = Answers /\ Answers[h] = "none"
    BY <1>2, <2>1, AnswersStay DEF CallClosed, Answers, ClosuresInv
  <2>5. ServiceState = "crashed"
    BY <1>2, <1>c DEF CallClosed
  <2> QED
    BY <1>s, <2>1, <2>2, <2>3, <2>4, <2>5
       DEF Service!Next, Service!Refuse, Clients, Answers
<1>3. CASE CallReserve(h)
  <2>1. PICK p \in {"permit", "reserving"} : phase' = [phase EXCEPT ![h] = p]
    BY <1>3 DEF CallReserve
  <2>2. /\ phase[h] = "idle" /\ result' = [result EXCEPT ![h] = "none"]
        /\ UNCHANGED <<queue, running, reply>>
    BY <1>3 DEF CallReserve
  <2>3. Clients' = [Clients EXCEPT ![h] = "calling"] /\ Clients[h] = "ready"
    BY <1>0, <2>1, <2>2, ClientMoves DEF Clients, ClientOf
  <2>4. NotRun' = NotRun \cup {h}
    BY <1>0, <2>1, <2>2 DEF NotRun, TypeOK
  <2>5. Answers' = Answers
    BY <2>2, AnswersStay
  <2> QED
    BY <1>s, <2>2, <2>3, <2>4, <2>5 DEF Service!Next, Service!Request, Clients, Answers
<1>4. CASE TakePermit(h)
  <2>1. /\ phase[h] = "granted" /\ phase' = [phase EXCEPT ![h] = "permit"]
        /\ UNCHANGED <<queue, running, reply, result>>
    BY <1>4 DEF TakePermit
  <2>2. Clients' = Clients /\ Answers' = Answers
    BY <1>0, <2>1, ClientStays, AnswersStay DEF ClientOf
  <2>3. NotRun' = NotRun
    BY <1>0, <2>1 DEF NotRun, TypeOK
  <2> QED
    BY <1>s, <2>1, <2>2, <2>3 DEF Service!vars, Clients, Answers
<1>5. CASE Refused(h)
  <2>1. /\ phase[h] \in {"reserving", "granted"} /\ phase' = [phase EXCEPT ![h] = "idle"]
        /\ UNCHANGED <<queue, running, reply>> /\ result' = [result EXCEPT ![h] = "closed"]
    BY <1>5 DEF Refused
  <2>2. Clients' = [Clients EXCEPT ![h] = "ready"] /\ Clients[h] = "calling"
    BY <1>0, <2>1, ClientMoves DEF Clients, ClientOf
  <2>3. NotRun' = NotRun \ {h}
    BY <1>0, <2>1, HandlesAssumption
       DEF NotRun, ClosuresInv, Sent, SafetyInv, ThreadShape, TypeOK
  <2>4. Answers' = Answers /\ Answers[h] = "none"
    BY <2>1, AnswersStay DEF Answers, ClosuresInv
  <2>5. ServiceState = "crashed"
    BY <1>5, <1>c DEF Refused
  <2> QED
    BY <1>s, <2>1, <2>2, <2>3, <2>4, <2>5
       DEF Service!Next, Service!Refuse, Clients, Answers
<1>6. CASE Send(h)
  <2>1. /\ phase[h] = "permit" /\ phase' = [phase EXCEPT ![h] = "awaiting"]
        /\ queue' = Append(queue, h) /\ UNCHANGED <<running, reply, result>>
    BY <1>6 DEF Send
  <2>2. Clients' = Clients /\ Answers' = Answers
    BY <1>0, <2>1, ClientStays, AnswersStay DEF ClientOf
  <2>3. NotRun' = NotRun
    <3>1. queue \in Seq(Handles)
      BY <1>0 DEF TypeOK
    <3>2. \A g \in Handles : (\E i \in DOMAIN queue' : queue'[i] = g)
                               <=> g = h \/ \E i \in DOMAIN queue : queue[i] = g
      <4>1. /\ DOMAIN queue' = 1..(Len(queue) + 1) /\ DOMAIN queue = 1..Len(queue)
            /\ Len(queue) \in Nat
            /\ \A i \in DOMAIN queue' :
                 queue'[i] = IF i = Len(queue) + 1 THEN h ELSE queue[i]
        BY <2>1, <3>1
      <4> QED
        BY <4>1
    <3> QED
      BY <1>0, <2>1, <3>2 DEF NotRun, TypeOK
  <2> QED
    BY <1>s, <2>1, <2>2, <2>3 DEF Service!vars, Clients, Answers
<1>7. CASE Answer(h)
  <2>1. /\ phase[h] = "awaiting" /\ phase' = [phase EXCEPT ![h] = "idle"]
        /\ reply[h] \in {"ok", "err", "dropped"} /\ reply' = [reply EXCEPT ![h] = "none"]
        /\ UNCHANGED <<queue, running>>
        /\ result' = [result EXCEPT
                        ![h] = IF reply[h] = "dropped" THEN "closed" ELSE reply[h]]
    BY <1>0, <1>7 DEF Answer, TypeOK
  <2>2. Clients' = [Clients EXCEPT ![h] = "ready"] /\ Clients[h] = "calling"
    BY <1>0, <2>1, ClientMoves DEF Clients, ClientOf
  <2>3. NotRun' = NotRun /\ h \notin NotRun
    BY <1>0, <2>1 DEF NotRun, ClosuresInv, TypeOK
  <2>4. Answers' = [Answers EXCEPT ![h] = "none"]
    BY <1>0, <2>1 DEF Answers, TypeOK
  <2>5. CASE reply[h] = "dropped"
    <3>1. Answers[h] = "none" /\ Answers' = Answers
      BY <2>4, <2>5 DEF Answers
    <3>2. ServiceState = "crashed"
      BY <1>0, <2>1, <2>5, ServiceOpen
         DEF SafetyInv, DroppedMeansPanicked, UnopenedInv
    <3>3. NotRun' = NotRun \ {h} /\ result' = [result EXCEPT ![h] = "closed"]
      BY <2>1, <2>3, <2>5
    <3> QED
      BY <1>s, <2>2, <3>1, <3>2, <3>3 DEF Service!Next, Service!Refuse, Clients, Answers
  <2>6. CASE reply[h] # "dropped"
    <3>1. Answers[h] # "none" /\ result' = [result EXCEPT ![h] = Answers[h]]
      BY <2>1, <2>6 DEF Answers
    <3> QED
      BY <1>s, <2>2, <2>3, <2>4, <3>1 DEF Service!Next, Service!Return, Clients, Answers
  <2> QED
    BY <2>5, <2>6
<1> QED
  BY <1>1, <1>2, <1>3, <1>4, <1>5, <1>6, <1>7 DEF Call, Wake

(* A handle is given up when its task is aborted, drops it or closes the   *)
(* database; what its destructor and close() still do is not seen.         *)
LEMMA GiveUpRefines ==
  ASSUME IInv, ClosuresInv, NEW h \in Handles,
         Abort(h) \/ DropSender(h) \/ BeginClose(h) \/ Release(h)
  PROVE  [Service!Next]_(Service!vars)
<1>0. TypeOK /\ WaitersInv
  BY DEF IInv
<1> USE DEF channel, connection
<1>s. ServiceState' = ServiceState /\ queue' = queue /\ running' = running /\ result' = result
  BY ServiceStays
     DEF Abort, DropSender, BeginClose, Release, DropCloseHandle, IntoInner, Join
<1>1. CASE Abort(h)
  <2>1. phase[h] \in {"reserving", "granted", "awaiting"} /\ Clients[h] = "calling"
    BY <1>1 DEF Abort, Clients, ClientOf
  <2>2. \A g \in Handles :
          \/ g = h /\ phase'[g] = "aborted"
          \/ g # h /\ phase'[g] = phase[g]
          \/ g # h /\ phase[g] = "reserving" /\ phase'[g] = "granted"
    <3>1. waiters # <<>> => Head(waiters) \in Handles /\ phase[Head(waiters)] = "reserving"
      BY <1>0, TailElements DEF WaitersInv, TypeOK
    <3> QED
      BY <1>0, <1>1, <3>1 DEF Abort, AbortWaiting, GiveBack, TypeOK
  <2>3. Clients' = [Clients EXCEPT ![h] = "gone"]
    <3>1. \A g \in Handles : ClientOf(phase'[g]) = IF g = h THEN "gone" ELSE ClientOf(phase[g])
      BY <2>2 DEF ClientOf
    <3> QED
      BY <3>1 DEF Clients
  <2>4. Answers' = [Answers EXCEPT ![h] = "none"]
    BY <1>0, <1>1 DEF Abort, Answers, TypeOK
  <2>5. NotRun' = NotRun \ (IF phase[h] # "awaiting" THEN {h} ELSE {})
    <3>1. CASE phase[h] = "awaiting"
      BY <1>s, <2>1, <2>2, <3>1 DEF NotRun
    <3>2. CASE phase[h] # "awaiting"
      <4>1. running # h /\ \A i \in DOMAIN queue : queue[i] # h
        BY <1>0, <2>1, <3>2, HandlesAssumption
           DEF ClosuresInv, Sent, IInv, SafetyInv, ThreadShape
      <4> QED
        BY <1>s, <2>1, <2>2, <3>2, <4>1 DEF NotRun
    <3> QED
      BY <3>1, <3>2
  <2>6. \E forget \in BOOLEAN : NotRun' = NotRun \ (IF forget THEN {h} ELSE {})
    BY <2>5
  <2> QED
    BY <1>s, <2>1, <2>3, <2>4, <2>6 DEF Service!Next, Service!GiveUp, Clients, Answers
<1>2. CASE (DropSender(h) /\ phase[h] = "idle") \/ BeginClose(h)
  <2>1. PICK p \in {"dropping", "closing"} : phase' = [phase EXCEPT ![h] = p]
    BY <1>2 DEF DropSender, BeginClose
  <2>2. phase[h] = "idle" /\ reply' = reply /\ reply[h] = "none"
    BY <1>2 DEF DropSender, BeginClose, ClosuresInv
  <2>3. Clients' = [Clients EXCEPT ![h] = "gone"] /\ Clients[h] = "ready"
    BY <1>0, <2>1, <2>2, ClientMoves DEF Clients, ClientOf
  <2>4. NotRun' = NotRun \ (IF FALSE THEN {h} ELSE {})
    BY <1>0, <1>s, <2>1, <2>2 DEF NotRun, TypeOK
  <2>5. Answers' = [Answers EXCEPT ![h] = "none"]
    BY <2>2 DEF Answers
  <2> QED
    BY <1>s, <2>3, <2>4, <2>5 DEF Service!Next, Service!GiveUp, Clients, Answers
<1>3. CASE (DropSender(h) /\ phase[h] = "aborted") \/ Release(h)
  <2>1. PICK p \in {"dropping", "joining", "gone"} : phase' = [phase EXCEPT ![h] = p]
    BY <1>3 DEF DropSender, Release, DropCloseHandle, IntoInner, Join
  <2>2. phase[h] \in {"aborted", "dropping", "closing", "joining"} /\ reply' = reply
    BY <1>3 DEF DropSender, Release, DropCloseHandle, IntoInner, Join
  <2>3. Clients' = Clients
    BY <1>0, <2>1, <2>2, ClientStays DEF ClientOf
  <2>4. NotRun' = NotRun
    BY <1>0, <1>s, <2>1, <2>2 DEF NotRun, TypeOK
  <2>5. Answers' = Answers
    BY <2>2, AnswersStay
  <2> QED
    BY <1>s, <2>3, <2>4, <2>5 DEF Service!vars, Clients, Answers
<1> QED
  BY <1>1, <1>2, <1>3 DEF DropSender

(* The thread: a closure runs, panics or is discarded, and the database is *)
(* closed; taking closures from the channel is not seen.                   *)
LEMMA ThreadRefines ==
  ASSUME IInv, ClosuresInv, Thread
  PROVE  [Service!Next]_(Service!vars)
<1>0. TypeOK /\ WaitersInv /\ UnopenedInv /\ SafetyInv
  BY DEF IInv
<1>1. openResult = "ok" /\ openResult' = "ok" /\ result' = result
  BY <1>0
     DEF Thread, Recv, RecvNone, Run, CheckClose, Optimize, Unwind, UnopenedInv
<1> USE DEF channel, connection
<1>2. CASE Recv
  <2>1. ServiceState' = ServiceState
    BY <1>0, <1>1, <1>2 DEF Recv, ServiceState, Panicked
  <2>2. \A h \in Handles : \/ phase'[h] = phase[h]
                           \/ phase[h] = "reserving" /\ phase'[h] = "granted"
    <3>1. waiters # <<>> => Head(waiters) \in Handles /\ phase[Head(waiters)] = "reserving"
      BY <1>0, TailElements DEF WaitersInv, TypeOK
    <3> QED
      BY <1>0, <1>2, <3>1 DEF Recv, GiveBack, TypeOK
  <2>3. Clients' = Clients
    <3>1. \A h \in Handles : ClientOf(phase'[h]) = ClientOf(phase[h])
      BY <2>2 DEF ClientOf
    <3> QED
      BY <3>1 DEF Clients
  <2>4. Answers' = Answers
    BY <1>2, AnswersStay DEF Recv
  <2>5. ASSUME NEW h \in Handles
        PROVE  (running' = h \/ \E i \in DOMAIN queue' : queue'[i] = h)
                 <=> (running = h \/ \E i \in DOMAIN queue : queue[i] = h)
    <3>1. running = NoHandle /\ running' = Head(queue) /\ queue' = Tail(queue) /\ queue # <<>>
      BY <1>0, <1>2 DEF Recv, SafetyInv, ThreadShape
    <3>2. /\ queue[1] = Head(queue) /\ 1 \in DOMAIN queue
          /\ \A i \in DOMAIN queue' : i + 1 \in DOMAIN queue /\ queue'[i] = queue[i + 1]
      BY <1>0, <3>1, TailElements DEF TypeOK
    <3>3. \A i \in DOMAIN queue : i = 1 \/ (i - 1 \in DOMAIN queue' /\ queue'[i - 1] = queue[i])
      BY <1>0, <3>1 DEF TypeOK
    <3> QED
      BY <3>1, <3>2, <3>3, HandlesAssumption
  <2>6. NotRun' = NotRun
    BY <2>2, <2>5 DEF NotRun
  <2> QED
    BY <1>1, <2>1, <2>3, <2>4, <2>6 DEF Service!vars, Clients, Answers
<1>3. CASE RecvNone
  <2>1. thread = "recv" /\ thread' = "optimize" /\ threadResult' = "none" /\ running = NoHandle
    BY <1>0, <1>3 DEF RecvNone, SafetyInv, ThreadShape, TypeOK
  <2>2. ServiceState = "open" /\ ServiceState' = "closed"
    BY <1>1, <2>1, ServiceOpen DEF ServiceState, Panicked
  <2>3. Senders = {}
    BY <1>0, <1>3, <2>1
       DEF RecvNone, SafetyInv, ClosedMeansReason, SignalMeansNoOwner, ThreadShape, Senders
  <2>4. \A h \in Handles : phase[h] \in {"none", "dropping", "closing", "joining", "gone"}
    BY <2>3 DEF Senders
  <2>5. NotRun = {}
    BY <1>3, <2>1, <2>4, HandlesAssumption DEF RecvNone, NotRun
  <2>6. \A h \in Handles : Clients[h] \in {"none", "gone"}
    BY <2>4 DEF Clients, ClientOf
  <2>7. NotRun' = NotRun /\ Clients' = Clients /\ Answers' = Answers
    BY <1>3 DEF RecvNone, NotRun, Clients, Answers
  <2> QED
    BY <1>1, <2>2, <2>5, <2>6, <2>7 DEF Service!Next, Service!Close, Clients, Answers
<1>4. ASSUME NEW o \in Outcomes, Run(o) PROVE [Service!Next]_(Service!vars)
  <2>1. /\ thread = "run" /\ threadResult' = "none" /\ threadResult = "none"
        /\ UNCHANGED <<phase, queue>>
        /\ running \in Handles /\ phase[running] \in Sent /\ running' = NoHandle
    BY <1>0, <1>4 DEF Run, SafetyInv, ThreadShape, ClosuresInv, TypeOK
  <2>2. ServiceState = "open"
    BY <1>1, <2>1, ServiceOpen
  <2>3. running \in NotRun /\ NotRun' = NotRun \ {running}
    BY <2>1, HandlesAssumption DEF NotRun, ClosuresInv, Sent
  <2>4. Clients' = Clients /\ (phase[running] = "awaiting" <=> Clients[running] = "calling")
    BY <2>1 DEF Clients, ClientOf, Sent
  <2>5. reply[running] = "none"
    BY <2>1 DEF ClosuresInv
  <2>6. CASE o = "panic"
    <3>1. ServiceState' = "crashed"
      BY <1>1, <1>4, <2>6 DEF Run, ServiceState, Panicked
    <3>2. reply' = Tell(running, "dropped")
      BY <1>4, <2>6 DEF Run
    <3>3. Answers' = Answers
      BY <1>0, <2>1, <2>5, <3>2 DEF Answers, Tell, TypeOK
    <3> QED
      BY <1>1, <2>1, <2>2, <2>3, <2>4, <2>6, <3>1, <3>3
         DEF Service!Next, Service!Crash, Clients, Answers
  <2>7. CASE o # "panic"
    <3>1. o \in Outcomes \ {"panic"} /\ o \in {"ok", "err"}
      BY <2>7, OutcomesAssumption
    <3>2. thread' = "check" /\ reply' = Tell(running, o)
      BY <1>4, <2>7 DEF Run
    <3>3. ServiceState' = "open"
      BY <1>1, <2>1, <3>2 DEF ServiceState, Panicked
    <3>4. Answers' = IF Clients[running] = "calling"
                     THEN [Answers EXCEPT ![running] = o] ELSE Answers
      <4>1. CASE phase[running] = "awaiting"
        <5>1. reply' = [reply EXCEPT ![running] = o]
          BY <3>2, <4>1 DEF Tell
        <5>2. Answers' = [Answers EXCEPT ![running] = o]
          BY <1>0, <2>1, <3>1, <5>1 DEF Answers, TypeOK
        <5> QED
          BY <2>4, <4>1, <5>2
      <4>2. CASE phase[running] # "awaiting"
        BY <2>4, <3>2, <4>2 DEF Tell, Answers
      <4> QED
        BY <4>1, <4>2
    <3> QED
      BY <1>1, <2>1, <2>2, <2>3, <2>4, <3>1, <3>3, <3>4
         DEF Service!Next, Service!Execute, Clients, Answers
  <2> QED
    BY <2>6, <2>7
<1>5. CASE CheckClose
  <2>1. ServiceState' = ServiceState
    BY <1>0, <1>1, <1>5 DEF CheckClose, ServiceState, Panicked
  <2>2. NotRun' = NotRun /\ Clients' = Clients /\ Answers' = Answers
    BY <1>5 DEF CheckClose, NotRun, Clients, Answers
  <2> QED
    BY <1>1, <2>1, <2>2 DEF Service!vars, Clients, Answers
<1>6. ASSUME NEW r \in {"ok", "err"}, Optimize(r) PROVE [Service!Next]_(Service!vars)
  <2>1. ServiceState' = ServiceState
    BY <1>0, <1>1, <1>6
       DEF Optimize, ServiceState, Panicked, SafetyInv, ThreadShape
  <2>2. NotRun' = NotRun /\ Clients' = Clients /\ Answers' = Answers
    BY <1>6 DEF Optimize, NotRun, Clients, Answers
  <2> QED
    BY <1>1, <2>1, <2>2 DEF Service!vars, Clients, Answers
<1>7. CASE Unwind
  <2> DEFINE lost == {h \in Handles : \E i \in DOMAIN queue : queue[i] = h}
  <2>1. ServiceState = "crashed" /\ ServiceState' = "crashed"
    BY <1>1, <1>7, ServiceOpen DEF Unwind, ServiceState, Panicked
  <2>2. Clients' = Clients
    BY <1>7 DEF Unwind, Clients
  <2>3. \A h \in lost : phase[h] \in Sent /\ reply[h] = "none"
    BY DEF ClosuresInv
  <2>4. lost \in SUBSET NotRun /\ NotRun' = NotRun \ lost
    <3>1. running = NoHandle /\ running' = NoHandle /\ phase' = phase /\ queue' = <<>>
      BY <1>0, <1>7 DEF Unwind, SafetyInv, ThreadShape
    <3> QED
      BY <2>3, <3>1, HandlesAssumption DEF NotRun, Sent
  <2>5. Answers' = Answers
    <3>1. \A h \in Handles : \/ reply'[h] = reply[h]
                             \/ reply[h] = "none" /\ reply'[h] = "dropped"
      BY <1>7, <2>3 DEF Unwind
    <3> QED
      BY <3>1 DEF Answers
  <2> HIDE DEF lost
  <2> QED
    BY <1>1, <2>1, <2>2, <2>4, <2>5 DEF Service!Next, Service!Discard, Clients, Answers
<1> QED
  BY <1>2, <1>3, <1>4, <1>5, <1>6, <1>7 DEF Thread

LEMMA OpenRefines ==
  ASSUME IInv, NEW r \in OpenOutcomes, Open(r)
  PROVE  [Service!Next]_(Service!vars)
<1>0. TypeOK /\ UnopenedInv /\ SafetyInv
  BY DEF IInv
<1> USE DEF channel, connection
<1>1. /\ openResult = "none" /\ openResult' = r /\ threadResult' = "none"
      /\ UNCHANGED <<result, reply, queue, running>>
  BY <1>0 DEF Open, UnopenedInv, SafetyInv, ThreadShape, TypeOK
<1>2. ServiceState = "off" /\ Answers' = Answers
  BY <1>1, AnswersStay DEF ServiceState
<1>3. CASE r = "ok"
  <2>1. phase' = [phase EXCEPT ![Root] = "idle"] /\ thread' = "recv" /\ phase[Root] = "none"
    BY <1>0, <1>1, <1>3, HandlesAssumption DEF Open, UnopenedInv
  <2>2. ServiceState' = "open"
    BY <1>1, <1>3, <2>1 DEF ServiceState, Panicked
  <2>3. Clients' = [Clients EXCEPT ![Root] = "ready"]
    BY <1>0, <2>1, ClientMoves, HandlesAssumption DEF ClientOf
  <2>4. NotRun' = NotRun
    BY <1>0, <1>1, <2>1, HandlesAssumption DEF NotRun, TypeOK
  <2> QED
    BY <1>1, <1>2, <2>2, <2>3, <2>4 DEF Service!Next, Service!Open, Clients, Answers
<1>4. CASE r # "ok"
  <2>1. UNCHANGED phase
    BY <1>4 DEF Open
  <2>2. ServiceState' = ServiceState
    BY <1>1, <1>2, <1>4 DEF ServiceState
  <2>3. NotRun' = NotRun /\ Clients' = Clients
    BY <1>1, <2>1 DEF NotRun, Clients
  <2> QED
    BY <1>1, <1>2, <2>2, <2>3 DEF Service!vars, Clients, Answers
<1> QED
  BY <1>3, <1>4

LEMMA StepRefines ==
  IInv /\ ClosuresInv /\ [Next]_vars => [Service!Next]_(Service!vars)
<1> SUFFICES ASSUME IInv, ClosuresInv, [Next]_vars PROVE [Service!Next]_(Service!vars)
  OBVIOUS
<1>1. CASE UNCHANGED vars
  <2>1. /\ ServiceState' = ServiceState /\ NotRun' = NotRun
        /\ Clients' = Clients /\ Answers' = Answers /\ result' = result
    BY <1>1
       DEF vars, channel, connection, ServiceState, Panicked, NotRun, Clients, Answers
  <2> QED
    BY <2>1 DEF Service!vars, Clients, Answers
<1> QED
  BY <1>1, TaskRefines, GiveUpRefines, ThreadRefines, OpenRefines DEF Next, Terminated

(* The channel, its permits, the oneshot channels and the close signal     *)
(* keep the promise of the service: a closure runs at most once and its    *)
(* answer goes to its own caller, a call is refused only after a panic,    *)
(* and the database is closed when nothing is left to run or to ask.       *)
THEOREM DatabaseImplementsService == Spec => ImplementsService
<1>1. Init => Service!Init
  <2> SUFFICES ASSUME Init PROVE Service!Init
    OBVIOUS
  <2>1. NotRun = {}
    BY HandlesAssumption DEF Init, NotRun
  <2>2. Clients = [h \in Handles |-> "none"] /\ Answers = [h \in Handles |-> "none"]
    BY DEF Init, Clients, Answers, ClientOf
  <2>3. ServiceState = "off"
    BY DEF Init, ServiceState
  <2> QED
    BY <2>1, <2>2, <2>3 DEF Init, Service!Init, Clients, Answers
<1>2. Init => ClosuresInv
  BY DEF Init, ClosuresInv
<1>3. IInv /\ ClosuresInv /\ [Next]_vars => ClosuresInv'
  BY ClosuresNext
<1>4. IInv /\ ClosuresInv /\ [Next]_vars => [Service!Next]_(Service!vars)
  BY StepRefines
<1> QED
  BY <1>1, <1>2, <1>3, <1>4, Inductive, PTL DEF Spec, ImplementsService, Service!Spec
=============================================================================
