-------------------------- MODULE DatabaseService --------------------------
(***************************************************************************)
(* What novelnote_database promises to the tasks that use a Database: a    *)
(* call of a living handle runs its closure at most once and returns its   *)
(* answer; it is refused only after some closure panicked; and the         *)
(* database is closed only when nothing is left to run and nobody is left  *)
(* to ask.                                                                 *)
(***************************************************************************)
CONSTANTS Handles, Root, Outcomes

VARIABLES
  client,    \* what each handle's task is doing
  pending,   \* handles whose closure has not run
  answer,    \* what the closure returned, until its caller has it
  returned,  \* what the last call returned
  service    \* is there a connection that runs closures?

vars == <<client, pending, answer, returned, service>>

Init ==
  /\ client = [h \in Handles |-> "none"]
  /\ pending = {}
  /\ answer = [h \in Handles |-> "none"]
  /\ returned = [h \in Handles |-> "none"]
  /\ service = "off"

Open ==
  /\ service = "off"
  /\ service' = "open"
  /\ client' = [client EXCEPT ![Root] = "ready"]
  /\ UNCHANGED <<pending, answer, returned>>

Clone(h, g) ==
  /\ client[h] = "ready"
  /\ client[g] = "none"
  /\ client' = [client EXCEPT ![g] = "ready"]
  /\ UNCHANGED <<pending, answer, returned, service>>

Request(h) ==
  /\ client[h] = "ready"
  /\ client' = [client EXCEPT ![h] = "calling"]
  /\ pending' = pending \cup {h}
  /\ returned' = [returned EXCEPT ![h] = "none"]
  /\ UNCHANGED <<answer, service>>

(* A pending closure runs, also when its caller is no longer there.        *)
Execute(h, o) ==
  /\ service = "open"
  /\ h \in pending
  /\ pending' = pending \ {h}
  /\ answer' = IF client[h] = "calling" THEN [answer EXCEPT ![h] = o] ELSE answer
  /\ UNCHANGED <<client, returned, service>>

Return(h) ==
  /\ client[h] = "calling"
  /\ answer[h] # "none"
  /\ client' = [client EXCEPT ![h] = "ready"]
  /\ returned' = [returned EXCEPT ![h] = answer[h]]
  /\ answer' = [answer EXCEPT ![h] = "none"]
  /\ UNCHANGED <<pending, service>>

(* A closure panics, which ends the service; others are then discarded.    *)
Crash(h) ==
  /\ "panic" \in Outcomes
  /\ service = "open"
  /\ h \in pending
  /\ pending' = pending \ {h}
  /\ service' = "crashed"
  /\ UNCHANGED <<client, answer, returned>>

Discard(lost) ==
  /\ service = "crashed"
  /\ pending' = pending \ lost
  /\ UNCHANGED <<client, answer, returned, service>>

Refuse(h) ==
  /\ service = "crashed"
  /\ client[h] \in {"ready", "calling"}
  /\ answer[h] = "none"
  /\ client' = [client EXCEPT ![h] = "ready"]
  /\ pending' = pending \ {h}
  /\ returned' = [returned EXCEPT ![h] = "closed"]
  /\ UNCHANGED <<answer, service>>

(* The handle is given up, perhaps in the middle of a call, whose closure  *)
(* then runs or does not.                                                  *)
GiveUp(h, forget) ==
  /\ client[h] \in {"ready", "calling"}
  /\ client' = [client EXCEPT ![h] = "gone"]
  /\ pending' = pending \ (IF forget THEN {h} ELSE {})
  /\ answer' = [answer EXCEPT ![h] = "none"]
  /\ UNCHANGED <<returned, service>>

Close ==
  /\ service = "open"
  /\ pending = {}
  /\ \A h \in Handles : client[h] \in {"none", "gone"}
  /\ service' = "closed"
  /\ UNCHANGED <<client, pending, answer, returned>>

Next ==
  \/ Open
  \/ \E g, h \in Handles : Clone(g, h)
  \/ \E h \in Handles :
       \/ Request(h)
       \/ \E o \in Outcomes \ {"panic"} : Execute(h, o)
       \/ Return(h)
       \/ Crash(h)
       \/ Refuse(h)
       \/ \E forget \in BOOLEAN : GiveUp(h, forget)
  \/ \E lost \in SUBSET pending : Discard(lost)
  \/ Close

Spec == Init /\ [][Next]_vars
=============================================================================
