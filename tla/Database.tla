------------------------------ MODULE Database ------------------------------
(***************************************************************************)
(* The database service of the crate novelnote_database: clonable handles  *)
(* (Database) send closures over a bounded channel to the one thread that  *)
(* owns the SQLite connection, each closure answers through a oneshot      *)
(* channel, and the last handle may close the connection and join the      *)
(* thread.                                                                 *)
(*                                                                         *)
(* A handle is used by one task at a time, so the task's place in call(),  *)
(* close() or the destructor is kept per handle in `phase'.  A handle that *)
(* was given up is never used again: every clone is a fresh member of      *)
(* Handles.  The channel is tokio's: a FIFO semaphore hands out `free'     *)
(* permits, and dropping the receiver closes it and discards its contents. *)
(***************************************************************************)
EXTENDS Naturals, Sequences, FiniteSets, SequencesExt

CONSTANTS Handles,    \* every handle that may come to exist
          Root,       \* the handle Database::open() returns
          Buffer,     \* capacity of the channel
          NoHandle,   \* no handle
          Outcomes,   \* how a closure may end
          MayAbort    \* may a task be dropped in the middle of a call?

ASSUME HandlesAssumption ==
  Root \in Handles /\ NoHandle \notin Handles /\ IsFiniteSet(Handles)
ASSUME BufferAssumption == Buffer \in Nat \ {0}
ASSUME OutcomesAssumption == Outcomes \subseteq {"ok", "err", "panic"}
ASSUME AbortAssumption == MayAbort \in BOOLEAN

VARIABLES
  phase,        \* where the task using each handle is
  result,       \* what the handle's last call returned
  reply,        \* the oneshot channel of the call in progress
  free,         \* permits of the channel nobody holds
  waiters,      \* tasks waiting in reserve(), oldest first
  queue,        \* closures in the channel, named by the handle that sent them
  rxClosed,     \* has the receiving half been closed or dropped?
  closeSignal,  \* the oneshot channel of the CloseHandle
  thread,       \* where the connection thread is
  running,      \* the closure the thread has taken from the channel
  threadResult, \* what joining the thread returns
  openResult,   \* what Database::open() returned
  closeResult   \* what close() returned to each handle

channel == <<free, waiters, queue, rxClosed>>
connection == <<thread, running, threadResult>>
vars == <<phase, result, reply, channel, closeSignal, connection,
          openResult, closeResult>>

Phases == {"none", "idle", "reserving", "granted", "permit", "awaiting",
           "aborted", "dropping", "closing", "joining", "gone"}

(* Mutant: close() waits for the thread while it still owns its sender.    *)
SendersWhileClosing ==
  {h \in Handles : phase[h] \notin {"none", "dropping", "gone"}}

(* Handles whose sender, and handles whose share of the CloseHandle, still *)
(* exist.  close() and the destructor let go of the sender first.          *)
Senders == {h \in Handles :
              phase[h] \notin {"none", "dropping", "closing", "joining", "gone"}}
Owners == {h \in Handles : phase[h] \notin {"none", "joining", "gone"}}

Permits == {h \in Handles : phase[h] \in {"granted", "permit"}}

(* Database::is_open(), the same for every handle.                         *)
IsOpen == ~rxClosed

-----------------------------------------------------------------------------
Init ==
  /\ phase = [h \in Handles |-> "none"]
  /\ result = [h \in Handles |-> "none"]
  /\ reply = [h \in Handles |-> "none"]
  /\ free = Buffer
  /\ waiters = <<>>
  /\ queue = <<>>
  /\ rxClosed = FALSE
  /\ closeSignal = "pending"
  /\ thread = "none"
  /\ running = NoHandle
  /\ threadResult = "none"
  /\ openResult = "none"
  /\ closeResult = [h \in Handles |-> "none"]

(* Opening runs in spawn_blocking; only a connection that was opened and   *)
(* initialized is moved to a thread of its own.                            *)
Open(r) ==
  /\ openResult = "none"
  /\ openResult' = r
  /\ IF r = "ok"
     THEN phase' = [phase EXCEPT ![Root] = "idle"] /\ thread' = "recv"
     ELSE UNCHANGED <<phase, thread>>
  /\ UNCHANGED <<result, reply, channel, closeSignal, running, threadResult,
                 closeResult>>

(* A fresh handle, made from one that is not being given up.               *)
Clone(h, g) ==
  /\ phase[h] = "idle"
  /\ phase[g] = "none"
  /\ phase' = [phase EXCEPT ![g] = "idle"]
  /\ UNCHANGED <<result, reply, channel, closeSignal, connection, openResult,
                 closeResult>>

-----------------------------------------------------------------------------
(* call(): reserve a permit, send the closure, await its answer.           *)

(* reserve() on a closed channel fails at once; it takes a free permit, or *)
(* joins the queue of waiters.                                             *)
CallClosed(h) ==
  /\ phase[h] = "idle"
  /\ rxClosed
  /\ result' = [result EXCEPT ![h] = "closed"]
  /\ UNCHANGED <<phase, reply, channel, closeSignal, connection, openResult,
                 closeResult>>

(* Mutant: takes a permit without looking whether one is free.             *)
CallReserveUnchecked(h) ==
  /\ phase[h] = "idle"
  /\ ~rxClosed
  /\ result' = [result EXCEPT ![h] = "none"]
  /\ free' = free - 1
  /\ phase' = [phase EXCEPT ![h] = "permit"]
  /\ UNCHANGED <<reply, waiters, queue, rxClosed, closeSignal, connection,
                 openResult, closeResult>>

CallReserve(h) ==
  /\ phase[h] = "idle"
  /\ ~rxClosed
  /\ result' = [result EXCEPT ![h] = "none"]
  /\ IF free > 0
     THEN /\ free' = free - 1
          /\ phase' = [phase EXCEPT ![h] = "permit"]
          /\ UNCHANGED waiters
     ELSE /\ waiters' = Append(waiters, h)
          /\ phase' = [phase EXCEPT ![h] = "reserving"]
          /\ UNCHANGED free
  /\ UNCHANGED <<reply, queue, rxClosed, closeSignal, connection, openResult,
                 closeResult>>

(* A permit that is given back goes to the oldest waiter.                  *)
GiveBack(ph, ws) ==
  IF ws = <<>>
  THEN phase' = ph /\ waiters' = ws /\ free' = free + 1
  ELSE /\ phase' = [ph EXCEPT ![Head(ws)] = "granted"]
       /\ waiters' = Tail(ws)
       /\ UNCHANGED free

(* The waiting task wakes up with its permit.                              *)
TakePermit(h) ==
  /\ phase[h] = "granted"
  /\ ~rxClosed
  /\ phase' = [phase EXCEPT ![h] = "permit"]
  /\ UNCHANGED <<result, reply, channel, closeSignal, connection, openResult,
                 closeResult>>

(* Mutant: a refused task keeps the permit that was assigned to it.        *)
RefusedWithPermit(h) ==
  /\ phase[h] \in {"reserving", "granted"}
  /\ rxClosed
  /\ phase' = [phase EXCEPT ![h] = "idle"]
  /\ result' = [result EXCEPT ![h] = "closed"]
  /\ UNCHANGED <<reply, channel, closeSignal, connection, openResult,
                 closeResult>>

(* The waiting task wakes up because the channel was closed, which it sees *)
(* even when a permit had been assigned to it before.                      *)
Refused(h) ==
  /\ phase[h] \in {"reserving", "granted"}
  /\ rxClosed
  /\ phase' = [phase EXCEPT ![h] = "idle"]
  /\ free' = IF phase[h] = "granted" THEN free + 1 ELSE free
  /\ result' = [result EXCEPT ![h] = "closed"]
  /\ UNCHANGED <<reply, waiters, queue, rxClosed, closeSignal, connection,
                 openResult, closeResult>>

(* Permit::send() stores the closure whether or not a receiver is left.    *)
Send(h) ==
  /\ phase[h] = "permit"
  /\ queue' = Append(queue, h)
  /\ phase' = [phase EXCEPT ![h] = "awaiting"]
  /\ UNCHANGED <<result, reply, free, waiters, rxClosed, closeSignal,
                 connection, openResult, closeResult>>

(* receiver.await: the closure's answer, or Closed when it was dropped.    *)
Answer(h) ==
  /\ phase[h] = "awaiting"
  /\ reply[h] # "none"
  /\ result' = [result EXCEPT
                  ![h] = IF reply[h] = "dropped" THEN "closed" ELSE reply[h]]
  /\ reply' = [reply EXCEPT ![h] = "none"]
  /\ phase' = [phase EXCEPT ![h] = "idle"]
  /\ UNCHANGED <<channel, closeSignal, connection, openResult, closeResult>>

(* The runtime drops the task at an await point of call().  A place in the *)
(* queue of waiters is left, an assigned permit given back; a closure that *)
(* was sent stays in the channel and runs with nobody listening.           *)
AbortWaiting(h) ==
  \E i \in DOMAIN waiters :
    /\ waiters[i] = h
    /\ waiters' = RemoveAt(waiters, i)
    /\ phase' = [phase EXCEPT ![h] = "aborted"]
    /\ UNCHANGED free

(* Mutant: a task dropped with a permit assigned to it takes it along.     *)
AbortWithPermit(h) ==
  /\ MayAbort
  /\ phase[h] \in {"reserving", "granted", "awaiting"}
  /\ \/ phase[h] = "reserving" /\ ~rxClosed /\ AbortWaiting(h)
     \/ /\ phase[h] # "reserving" \/ rxClosed
        /\ phase' = [phase EXCEPT ![h] = "aborted"]
        /\ UNCHANGED <<free, waiters>>
  /\ reply' = [reply EXCEPT ![h] = "none"]
  /\ UNCHANGED <<result, queue, rxClosed, closeSignal, connection, openResult,
                 closeResult>>

Abort(h) ==
  /\ MayAbort
  /\ phase[h] \in {"reserving", "granted", "awaiting"}
  /\ \/ phase[h] = "reserving" /\ ~rxClosed /\ AbortWaiting(h)
     \/ /\ phase[h] = "granted"
        /\ GiveBack([phase EXCEPT ![h] = "aborted"], waiters)
     \/ /\ phase[h] = "awaiting" \/ (phase[h] = "reserving" /\ rxClosed)
        /\ phase' = [phase EXCEPT ![h] = "aborted"]
        /\ UNCHANGED <<free, waiters>>
  /\ reply' = [reply EXCEPT ![h] = "none"]
  /\ UNCHANGED <<result, queue, rxClosed, closeSignal, connection, openResult,
                 closeResult>>

-----------------------------------------------------------------------------
(* Giving a handle up: its destructor, or close().                         *)

DropSender(h) ==
  /\ phase[h] \in {"idle", "aborted"}
  /\ phase' = [phase EXCEPT ![h] = "dropping"]
  /\ UNCHANGED <<result, reply, channel, closeSignal, connection, openResult,
                 closeResult>>

(* Mutant: every handle has a close channel of its own.                    *)
DropCloseHandleUnshared(h) ==
  /\ phase[h] = "dropping"
  /\ phase' = [phase EXCEPT ![h] = "gone"]
  /\ closeSignal' = "dropped"
  /\ UNCHANGED <<result, reply, channel, connection, openResult, closeResult>>

(* The last owner of the CloseHandle drops it: the close channel is        *)
(* dropped without a signal and the thread is detached.                    *)
DropCloseHandle(h) ==
  /\ phase[h] = "dropping"
  /\ phase' = [phase EXCEPT ![h] = "gone"]
  /\ closeSignal' = IF Owners = {h} THEN "dropped" ELSE closeSignal
  /\ UNCHANGED <<result, reply, channel, connection, openResult, closeResult>>

BeginClose(h) ==
  /\ phase[h] = "idle"
  /\ phase' = [phase EXCEPT ![h] = "closing"]
  /\ UNCHANGED <<result, reply, channel, closeSignal, connection, openResult,
                 closeResult>>

(* Mutant: Arc::try_unwrap(), which leaves the Arc of a handle that is not *)
(* the last to be dropped later.                                           *)
TryUnwrap(h) ==
  /\ phase[h] = "closing"
  /\ IF Owners = {h}
     THEN /\ phase' = [phase EXCEPT ![h] = "joining"]
          /\ closeSignal' = "sent"
          /\ UNCHANGED closeResult
     ELSE /\ phase' = [phase EXCEPT ![h] = "dropping"]
          /\ closeResult' = [closeResult EXCEPT ![h] = "open_connection"]
          /\ UNCHANGED closeSignal
  /\ UNCHANGED <<result, reply, channel, connection, openResult>>

(* Arc::into_inner() succeeds for the last owner only, which sends the     *)
(* close signal (unless the thread is gone) and waits in join().           *)
IntoInner(h) ==
  /\ phase[h] = "closing"
  /\ IF Owners = {h}
     THEN /\ phase' = [phase EXCEPT ![h] = "joining"]
          /\ closeSignal' = "sent"
          /\ UNCHANGED closeResult
     ELSE /\ phase' = [phase EXCEPT ![h] = "gone"]
          /\ closeResult' = [closeResult EXCEPT ![h] = "open_connection"]
          /\ UNCHANGED closeSignal
  /\ UNCHANGED <<result, reply, channel, connection, openResult>>

Join(h) ==
  /\ phase[h] = "joining"
  /\ thread = "done"
  /\ closeResult' = [closeResult EXCEPT ![h] = threadResult]
  /\ phase' = [phase EXCEPT ![h] = "gone"]
  /\ UNCHANGED <<result, reply, channel, closeSignal, connection, openResult>>

-----------------------------------------------------------------------------
(* The connection thread.                                                  *)

(* Mutant: a closure whose caller no longer listens is passed over.        *)
RecvListening ==
  /\ thread = "recv"
  /\ queue # <<>>
  /\ queue' = Tail(queue)
  /\ IF phase[Head(queue)] = "awaiting"
     THEN running' = Head(queue) /\ thread' = "run"
     ELSE UNCHANGED running /\ thread' = "check"
  /\ GiveBack(phase, waiters)
  /\ UNCHANGED <<result, reply, rxClosed, closeSignal, threadResult,
                 openResult, closeResult>>

(* blocking_recv() takes the oldest closure, which frees its permit.       *)
Recv ==
  /\ thread = "recv"
  /\ queue # <<>>
  /\ running' = Head(queue)
  /\ queue' = Tail(queue)
  /\ thread' = "run"
  /\ GiveBack(phase, waiters)
  /\ UNCHANGED <<result, reply, rxClosed, closeSignal, threadResult,
                 openResult, closeResult>>

(* Mutant: the thread keeps a sender of its own.                           *)
RecvNoneOwnSender ==
  /\ thread = "recv"
  /\ queue = <<>>
  /\ rxClosed /\ Permits = {}
  /\ thread' = "optimize"
  /\ UNCHANGED <<phase, result, reply, channel, closeSignal, running,
                 threadResult, openResult, closeResult>>

(* blocking_recv() returns None: nothing is queued, and nobody can send.   *)
RecvNone ==
  /\ thread = "recv"
  /\ queue = <<>>
  /\ Senders = {} \/ (rxClosed /\ Permits = {})
  /\ thread' = "optimize"
  /\ UNCHANGED <<phase, result, reply, channel, closeSignal, running,
                 threadResult, openResult, closeResult>>

(* The closure runs and answers, if its caller still listens.  When it     *)
(* panics it takes the answering half of the oneshot channel with it.      *)
Tell(h, r) == IF phase[h] = "awaiting" THEN [reply EXCEPT ![h] = r] ELSE reply

Run(o) ==
  /\ thread = "run"
  /\ IF o = "panic"
     THEN reply' = Tell(running, "dropped") /\ thread' = "unwind"
     ELSE reply' = Tell(running, o) /\ thread' = "check"
  /\ running' = NoHandle
  /\ UNCHANGED <<phase, result, channel, closeSignal, threadResult, openResult,
                 closeResult>>

(* Mutant: on a close signal the thread leaves its loop at once.           *)
CheckCloseBreaks ==
  /\ thread = "check"
  /\ thread' = IF closeSignal # "pending" THEN "optimize" ELSE "recv"
  /\ UNCHANGED <<phase, result, reply, channel, closeSignal, running,
                 threadResult, openResult, closeResult>>

(* After each closure the thread looks for a close signal; a dropped       *)
(* CloseHandle counts as one.                                              *)
CheckClose ==
  /\ thread = "check"
  /\ thread' = "recv"
  /\ IF closeSignal # "pending"
     THEN rxClosed' = TRUE /\ waiters' = <<>>
     ELSE UNCHANGED <<rxClosed, waiters>>
  /\ UNCHANGED <<phase, result, reply, free, queue, closeSignal, running,
                 threadResult, openResult, closeResult>>

(* The PRAGMAs and Connection::close(), any of which may fail.             *)
Optimize(r) ==
  /\ thread = "optimize"
  /\ thread' = "done"
  /\ threadResult' = r
  /\ UNCHANGED <<phase, result, reply, channel, closeSignal, running,
                 openResult, closeResult>>

(* A panic unwinds the thread: the receiver closes the channel and drops   *)
(* the closures in it, and with them the oneshot channels they hold.       *)
Unwind ==
  /\ thread = "unwind"
  /\ thread' = "done"
  /\ threadResult' = "panic"
  /\ rxClosed' = TRUE
  /\ waiters' = <<>>
  /\ queue' = <<>>
  /\ free' = free + Len(queue)
  /\ reply' = [h \in Handles |->
                 IF phase[h] = "awaiting" /\ \E i \in DOMAIN queue : queue[i] = h
                 THEN "dropped" ELSE reply[h]]
  /\ UNCHANGED <<phase, result, closeSignal, running, openResult, closeResult>>

-----------------------------------------------------------------------------
OpenOutcomes == {"ok", "open", "init", "panic"}

Call(h) == CallClosed(h) \/ CallReserve(h)
Wake(h) == TakePermit(h) \/ Refused(h)
Release(h) == DropCloseHandle(h) \/ IntoInner(h) \/ Join(h)

Thread ==
  \/ Recv
  \/ RecvNone
  \/ \E o \in Outcomes : Run(o)
  \/ CheckClose
  \/ \E r \in {"ok", "err"} : Optimize(r)
  \/ Unwind

(* The program ends once the handles are gone and the thread has finished. *)
Finished ==
  /\ openResult # "none"
  /\ \A h \in Handles : phase[h] \in {"none", "gone"}
  /\ thread \in {"none", "done"}

Terminated == Finished /\ UNCHANGED vars

Next ==
  \/ \E r \in OpenOutcomes : Open(r)
  \/ \E h, g \in Handles : Clone(h, g)
  \/ \E h \in Handles :
       \/ Call(h)
       \/ Wake(h)
       \/ Send(h)
       \/ Answer(h)
       \/ Abort(h)
       \/ DropSender(h)
       \/ BeginClose(h)
       \/ Release(h)
  \/ Thread
  \/ Terminated

Spec == Init /\ [][Next]_vars

(* The thread and the tasks that have work to do are scheduled; whether a  *)
(* task clones, calls, aborts or gives up a handle is its own choice, but  *)
(* an aborted task's handle is dropped with it.                            *)
Fairness ==
  /\ WF_vars(Thread)
  /\ \A h \in Handles :
       /\ WF_vars(Wake(h))
       /\ WF_vars(Send(h))
       /\ WF_vars(Answer(h))
       /\ WF_vars(phase[h] = "aborted" /\ DropSender(h))
       /\ WF_vars(Release(h))

FairSpec == Spec /\ Fairness

-----------------------------------------------------------------------------
TypeOK ==
  /\ phase \in [Handles -> Phases]
  /\ result \in [Handles -> {"none", "ok", "err", "closed"}]
  /\ reply \in [Handles -> {"none", "ok", "err", "dropped"}]
  /\ free \in Nat
  /\ waiters \in Seq(Handles)
  /\ queue \in Seq(Handles)
  /\ rxClosed \in BOOLEAN
  /\ closeSignal \in {"pending", "sent", "dropped"}
  /\ thread \in {"none", "recv", "run", "check", "optimize", "unwind", "done"}
  /\ running \in Handles \cup {NoHandle}
  /\ threadResult \in {"none", "ok", "err", "panic"}
  /\ openResult \in OpenOutcomes \cup {"none"}
  /\ closeResult \in [Handles -> {"none", "open_connection", "ok", "err", "panic"}]

Panicked == thread = "unwind" \/ threadResult = "panic"

(* A task is told that the connection is closed only after the connection  *)
(* thread panicked.  Neither close() nor dropping handles makes a call of  *)
(* a living handle fail: when the thread closes the channel on a close     *)
(* signal, no task is left that could be refused.                          *)
ClosedMeansPanicked ==
  \A h \in Handles :
    (result[h] = "closed" \/ (h \in Senders /\ ~IsOpen)) => Panicked

(* The thread leaves its loop to optimize and close the database only when *)
(* every closure that was sent has run and no handle is left that could    *)
(* send another one.                                                       *)
QuietEnd ==
  thread = "optimize" \/ threadResult \in {"ok", "err"} =>
    queue = <<>> /\ Senders = {} /\ running = NoHandle

(* Every permit of the channel is free, held by a task, or stands for a    *)
(* closure in the channel, across aborted reservations, panics and close;  *)
(* and while the channel is open nobody waits for a permit that is free.   *)
PermitsAccounted ==
  /\ free + Len(queue) + Cardinality(Permits) = Buffer
  /\ waiters # <<>> => free = 0

(* However calls to close() and destructors interleave, the connection     *)
(* thread is joined at most once; and when every handle went through       *)
(* close(), exactly one of them joined it.                                 *)
Joined(h) == phase[h] = "joining" \/ closeResult[h] \in {"ok", "err", "panic"}

LastCloseJoins ==
  /\ \A g, h \in Handles : Joined(g) /\ Joined(h) => g = h
  /\ (\A h \in Handles : phase[h] = "gone" => closeResult[h] # "none")
       /\ openResult = "ok" /\ Owners = {}
     => \E h \in Handles : Joined(h)

(* Every call returns: "Returns an error if connection has been closed".   *)
InCall(h) == phase[h] \in {"reserving", "granted", "permit", "awaiting"}
EveryCallReturns == \A h \in Handles : InCall(h) ~> ~InCall(h)

(* A closure that was sent runs, although its caller may be dropped and    *)
(* every handle be closed in the meantime.                                 *)
SentClosuresRun ==
  \A h \in Handles : (\E i \in DOMAIN queue : queue[i] = h) ~> running = h

(* close() of the last handle returns: the thread notices that the         *)
(* channel has no senders even when it sleeps in blocking_recv() and never *)
(* looks at the close signal.                                              *)
CloseReturns == \A h \in Handles : phase[h] = "joining" ~> phase[h] = "gone"

(* A program that gives up all handles ends the connection thread, whether *)
(* it closed the last one or just dropped it.                              *)
ThreadFinishes ==
  (openResult = "ok" /\ Owners = {}) ~> thread = "done"

-----------------------------------------------------------------------------
(* The service as the tasks see it.  How far a call has got between its    *)
(* first poll and its answer, and how the thread is getting on, is hidden. *)

ClientOf(p) ==
  CASE p = "none" -> "none"
    [] p = "idle" -> "ready"
    [] p \in {"reserving", "granted", "permit", "awaiting"} -> "calling"
    [] OTHER -> "gone"

NotRun ==
  {h \in Handles :
     \/ phase[h] \in {"reserving", "granted", "permit"}
     \/ running = h
     \/ \E i \in DOMAIN queue : queue[i] = h}

ServiceState ==
  IF openResult # "ok" THEN "off"
  ELSE IF Panicked THEN "crashed"
  ELSE IF thread \in {"optimize", "done"} THEN "closed"
  ELSE "open"

Service == INSTANCE DatabaseService WITH
  client <- [h \in Handles |-> ClientOf(phase[h])],
  pending <- NotRun,
  answer <- [h \in Handles |->
               IF reply[h] \in {"ok", "err"} THEN reply[h] ELSE "none"],
  returned <- result,
  service <- ServiceState

(* The channel, its permits, the oneshot channels and the close signal     *)
(* together keep the promise of DatabaseService: a closure runs at most    *)
(* once and answers its own caller, a call is refused only after a panic,  *)
(* and the database closes only when nothing is left to run.               *)
ImplementsService == Service!Spec
=============================================================================
