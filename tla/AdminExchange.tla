--------------------------- MODULE AdminExchange ---------------------------
(***************************************************************************)
(* One connection of the admin socket: the AdminClient at one end, the     *)
(* task that handle_connection() runs for it at the other.  A client may   *)
(* go on with further requests, also after one that timed out; the task    *)
(* reads one message, answers it and drops the connection.  Responses      *)
(* carry nothing that says which request they answer.                      *)
(***************************************************************************)
EXTENDS Naturals, Sequences

CONSTANTS Kinds,        \* the messages the client sends
          MaxRequests   \* bound on the requests of the client

ASSUME KindsAssumption == Kinds \subseteq {"health_check", "backup"}
ASSUME MaxRequestsAssumption == MaxRequests \in Nat \ {0}

VARIABLES
  client,    \* what the client is doing
  asked,     \* the kinds of the requests it has made
  result,    \* what each request returned
  toServer,  \* requests in the socket
  toClient,  \* responses in the socket
  task,      \* where the server's task is
  handling,  \* the request it has read
  answers,   \* what the server made of each request
  dbOpen     \* is the database's channel open?

clientVars == <<client, asked, result>>
serverVars == <<task, handling, answers>>
vars == <<clientVars, serverVars, toServer, toClient, dbOpen>>

Requests == 1..MaxRequests
Answers == {"ok", "database", "closed"}

(* What a request returns if not what the server answered.                 *)
Errors == {"send", "receive", "decode"}

Init ==
  /\ client = "idle"
  /\ asked = <<>>
  /\ result = [i \in Requests |-> "none"]
  /\ toServer = <<>>
  /\ toClient = <<>>
  /\ task = "backlog"
  /\ handling = 0
  /\ answers = [i \in Requests |-> "none"]
  /\ dbOpen \in BOOLEAN

Last == Len(asked)

-----------------------------------------------------------------------------
(* request_response(): write the request, then read a response.            *)
(* Mutant: the request is numbered before it is counted.                   *)
SendUncounted(k) ==
  /\ client = "idle"
  /\ Last < MaxRequests
  /\ task # "gone"
  /\ asked' = Append(asked, k)
  /\ toServer' = Append(toServer, Last)
  /\ client' = "receiving"
  /\ UNCHANGED <<result, toClient, serverVars, dbOpen>>

Send(k) ==
  /\ client = "idle"
  /\ Last < MaxRequests
  /\ task # "gone"
  /\ asked' = Append(asked, k)
  /\ toServer' = Append(toServer, Last + 1)
  /\ client' = "receiving"
  /\ UNCHANGED <<result, toClient, serverVars, dbOpen>>

(* The write fails or times out, whether or not the request got through.   *)
SendFails(k) ==
  /\ client = "idle"
  /\ Last < MaxRequests
  /\ asked' = Append(asked, k)
  /\ result' = [result EXCEPT ![Last + 1] = "send"]
  /\ \/ UNCHANGED toServer
     \/ task # "gone" /\ toServer' = Append(toServer, Last + 1)
  /\ UNCHANGED <<client, toClient, serverVars, dbOpen>>

Return(r) ==
  /\ client = "receiving"
  /\ client' = "idle"
  /\ result' = [result EXCEPT ![Last] = r]
  /\ UNCHANGED <<asked, toServer, serverVars, dbOpen>>

(* The bytes of a response of the other kind are decoded for what they are *)
(* not, or rejected.                                                       *)
Decoded(i) ==
  IF asked[i] = asked[Last] THEN {answers[i]} ELSE {"ok", "decode"}

Receive ==
  /\ toClient # <<>>
  /\ toClient' = Tail(toClient)
  /\ \E r \in Decoded(Head(toClient)) : Return(r)

(* Mutant: a response without bytes is taken for success.                  *)
ReceiveEofOk ==
  /\ toClient = <<>>
  /\ task = "gone"
  /\ Return("ok")
  /\ UNCHANGED toClient

(* The server's end is closed and all it wrote was read.                   *)
ReceiveEof ==
  /\ toClient = <<>>
  /\ task = "gone"
  /\ Return("receive")
  /\ UNCHANGED toClient

(* Mutant: the timeout does not cover the time before the response.        *)
ReceiveTimeoutLate == toClient # <<>> /\ Return("receive") /\ UNCHANGED toClient

ReceiveTimeout == Return("receive") /\ UNCHANGED toClient

Disconnect ==
  /\ client = "idle"
  /\ client' = "disconnected"
  /\ UNCHANGED <<asked, result, serverVars, toServer, toClient, dbOpen>>

-----------------------------------------------------------------------------
(* AdminServer::run() accepts the connection, or stops listening first.    *)
Accept ==
  /\ task = "backlog"
  /\ task' \in {"reading", "gone"}
  /\ UNCHANGED <<clientVars, handling, answers, toServer, toClient, dbOpen>>

Answer(i, a) ==
  /\ answers' = [answers EXCEPT ![i] = a]
  /\ task' = "writing"

(* Mutant: is_open() is negated.                                           *)
ReadNegated ==
  /\ task = "reading"
  /\ toServer # <<>>
  /\ toServer' = Tail(toServer)
  /\ handling' = Head(toServer)
  /\ IF asked[handling'] = "backup" /\ dbOpen
     THEN task' = "calling" /\ UNCHANGED answers
     ELSE Answer(handling', IF dbOpen THEN "closed" ELSE "ok")
  /\ UNCHANGED <<clientVars, toClient, dbOpen>>

(* A health check answers by is_open(), a backup calls the database.       *)
Read ==
  /\ task = "reading"
  /\ toServer # <<>>
  /\ toServer' = Tail(toServer)
  /\ handling' = Head(toServer)
  /\ IF asked[handling'] = "backup" /\ dbOpen
     THEN task' = "calling" /\ UNCHANGED answers
     ELSE Answer(handling', IF dbOpen THEN "ok" ELSE "closed")
  /\ UNCHANGED <<clientVars, toClient, dbOpen>>

(* Mutant: a read without timeout, which fails only at the end of file.    *)
ReadFailsAtEof ==
  /\ task = "reading"
  /\ client = "disconnected"
  /\ task' = "gone"
  /\ UNCHANGED <<clientVars, handling, answers, toServer, toClient, dbOpen>>

(* The timeout expires, or the client is gone.                             *)
ReadFails ==
  /\ task = "reading"
  /\ task' = "gone"
  /\ UNCHANGED <<clientVars, handling, answers, toServer, toClient, dbOpen>>

Execute ==
  /\ task = "calling"
  /\ dbOpen
  /\ \E a \in {"ok", "database"} : Answer(handling, a)
  /\ UNCHANGED <<clientVars, handling, toServer, toClient, dbOpen>>

ExecuteRefused ==
  /\ task = "calling"
  /\ ~dbOpen
  /\ Answer(handling, "closed")
  /\ UNCHANGED <<clientVars, handling, toServer, toClient, dbOpen>>

(* The connection thread panics.                                           *)
DatabasePanics ==
  /\ dbOpen
  /\ dbOpen' = FALSE
  /\ UNCHANGED <<clientVars, serverVars, toServer, toClient>>

(* Mutant: the task goes on to read a further request.                     *)
WriteAgain ==
  /\ task = "writing"
  /\ task' = "reading"
  /\ \/ UNCHANGED toClient
     \/ client # "disconnected" /\ toClient' = Append(toClient, handling)
  /\ UNCHANGED <<clientVars, handling, answers, toServer, dbOpen>>

(* The response is written, or the write fails or times out; in any case   *)
(* the connection is dropped, with requests that were not read.            *)
Write ==
  /\ task = "writing"
  /\ task' = "gone"
  /\ \/ UNCHANGED toClient
     \/ client # "disconnected" /\ toClient' = Append(toClient, handling)
  /\ UNCHANGED <<clientVars, handling, answers, toServer, dbOpen>>

(* The runtime is dropped.                                                 *)
Abort ==
  /\ task \notin {"backlog", "gone"}
  /\ task' = "gone"
  /\ UNCHANGED <<clientVars, handling, answers, toServer, toClient, dbOpen>>

-----------------------------------------------------------------------------
Client ==
  \/ \E k \in Kinds : Send(k) \/ SendFails(k)
  \/ Receive
  \/ ReceiveEof
  \/ ReceiveTimeout
  \/ Disconnect

Task == Accept \/ Read \/ ReadFails \/ Execute \/ ExecuteRefused \/ Write

Next ==
  \/ Client
  \/ Task
  \/ Abort
  \/ DatabasePanics
  \/ client = "disconnected" /\ task = "gone" /\ UNCHANGED vars

Spec == Init /\ [][Next]_vars

(* Reads and writes end, because of their timeouts if nothing else; that a *)
(* connection is ever accepted, or a call to the database ever returns, is *)
(* not assumed.                                                            *)
Fairness ==
  /\ WF_vars(Receive \/ ReceiveEof \/ ReceiveTimeout)
  /\ WF_vars(Read \/ ReadFails)
  /\ WF_vars(Write)

FairSpec == Spec /\ Fairness

-----------------------------------------------------------------------------
TypeOK ==
  /\ client \in {"idle", "receiving", "disconnected"}
  /\ asked \in Seq(Kinds) /\ Len(asked) <= MaxRequests
  /\ result \in [Requests -> Answers \cup Errors \cup {"none"}]
  /\ toServer \in Seq(Requests)
  /\ toClient \in Seq(Requests)
  /\ task \in {"backlog", "reading", "calling", "writing", "gone"}
  /\ handling \in Requests \cup {0}
  /\ answers \in [Requests -> Answers \cup {"none"}]
  /\ dbOpen \in BOOLEAN

(* Request i may have returned the answer to request j: to itself, or to   *)
(* one that the client has given up, which was carried out if it asked for *)
(* the same.                                                               *)
ToldBy(i, j) ==
  /\ j = i \/ result[j] \in {"send", "receive"}
  /\ answers[j] # "none"
  /\ asked[j] = asked[i] => answers[j] = "ok"

(* A client is told Ok only by an answer of the server to that request, or *)
(* by a late one to an earlier request that the client has given up: a     *)
(* response says not which request it answers.                             *)
OkMeansCarriedOut ==
  \A i \in Requests : result[i] = "ok" => \E j \in 1..i : ToldBy(i, j)

(* The client reports a closed database only when it is closed.            *)
ClosedIsTrue == \A i \in Requests : result[i] = "closed" => ~dbOpen

(* After a request that got its answer, further requests of the same       *)
(* client fail: the server has dropped the connection.                     *)
OneAnswerPerConnection ==
  \A i, j \in Requests :
    i < j /\ result[i] \in Answers => result[j] \in {"none", "send", "receive"}

(* Every request returns, although the server may never accept the         *)
(* connection and its database may never answer.                           *)
RequestsReturn == client = "receiving" ~> client = "idle"

(* A client that sends nothing, or reads nothing, does not hold up the     *)
(* server's task: only a call to the database can.                         *)
TaskEnds == task \in {"reading", "writing"} ~> task \in {"calling", "gone"}
=============================================================================
