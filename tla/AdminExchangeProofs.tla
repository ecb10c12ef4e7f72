------------------------ MODULE AdminExchangeProofs ------------------------
(***************************************************************************)
(* Theorems about AdminExchange, for any number of requests on one         *)
(* connection.                                                             *)
(***************************************************************************)
EXTENDS AdminExchange, TLAPS

(* What a request returns when the client has read no response.            *)
Unanswered == {"none", "send", "receive"}

(* A request has returned unless it is yet to be made, or is the last one  *)
(* and being waited for; the task handles only what was asked.             *)
CountInv ==
  /\ client = "receiving" => Last > 0
  /\ \A i \in Requests :
       result[i] = "none" <=> i > Last \/ (i = Last /\ client = "receiving")
  /\ \A n \in 1..Len(toServer) : toServer[n] <= Last
  /\ handling <= Last
  /\ task \in {"calling", "writing"} => handling # 0
  /\ task = "writing" => answers[handling] # "none"

(* There is one response at most, to the request that the task has handled *)
(* last, and once the client has read it nothing is left to come.          *)
OneResponse ==
  /\ toClient # <<>> =>
       /\ task = "gone"
       /\ handling # 0 /\ answers[handling] # "none"
       /\ toClient = <<handling>>
  /\ \A i \in Requests : result[i] \notin Unanswered =>
       /\ task = "gone" /\ toClient = <<>>
       /\ \A j \in Requests \ {i} : result[j] \in Unanswered

(* The database is closed for good before a request is told so.            *)
ClosedInv ==
  \A i \in Requests : answers[i] = "closed" \/ result[i] = "closed" => ~dbOpen

ExchangeInv ==
  TypeOK /\ CountInv /\ OneResponse /\ ClosedInv /\ OkMeansCarriedOut

LEMMA Appended ==
  ASSUME NEW S, NEW s \in Seq(S), NEW e \in S
  PROVE  /\ Append(s, e) \in Seq(S)
         /\ Len(Append(s, e)) = Len(s) + 1
         /\ Append(s, e)[Len(s) + 1] = e
         /\ \A n \in 1..Len(s) : Append(s, e)[n] = s[n]
  OBVIOUS

LEMMA Consumed ==
  ASSUME NEW S, NEW s \in Seq(S), s # <<>>
  PROVE  /\ Head(s) \in S /\ Head(s) = s[1]
         /\ Tail(s) \in Seq(S)
         /\ Len(s) \in Nat \ {0} /\ Len(Tail(s)) = Len(s) - 1
         /\ \A n \in 1..Len(Tail(s)) : Tail(s)[n] = s[n + 1]
  OBVIOUS

LEMMA ExchangeInit == Init => ExchangeInv
<1> SUFFICES ASSUME Init PROVE ExchangeInv
  OBVIOUS
<1>1. <<>> \in Seq(Kinds) /\ <<>> \in Seq(Requests) /\ Len(<<>>) = 0
  OBVIOUS
<1>2. Last = 0 /\ \A i \in Requests : i > 0
  BY <1>1 DEF Init, Last, Requests
<1>3. TypeOK
  BY <1>1, MaxRequestsAssumption DEF Init, TypeOK
<1> QED
  BY <1>1, <1>2, <1>3
     DEF Init, ExchangeInv, CountInv, OneResponse, ClosedInv, OkMeansCarriedOut,
         Unanswered

-----------------------------------------------------------------------------
(* The client's steps.                                                     *)

(* A request is made, whether or not it can be written.                    *)
LEMMA RequestMade ==
  ASSUME ExchangeInv, NEW k \in Kinds, Send(k) \/ SendFails(k)
  PROVE  ExchangeInv'
<1> USE DEF ExchangeInv, Unanswered
<1> DEFINE n == Last + 1
<1>1. /\ asked' \in Seq(Kinds) /\ Last' = n /\ n \in Requests
      /\ Last \in Nat /\ Last' <= MaxRequests
  <2>1. asked' = Append(asked, k) /\ Last < MaxRequests
    BY DEF Send, SendFails
  <2> QED
    BY <2>1, Appended, MaxRequestsAssumption DEF TypeOK, Last, Requests
<1>2. /\ client = "idle" /\ result[n] = "none"
      /\ \A i \in Requests \ {n} : result'[i] = result[i]
      /\ \/ client' = "receiving" /\ result'[n] = "none"
         \/ client' = "idle" /\ result'[n] = "send"
      /\ result' \in [Requests -> Answers \cup Errors \cup {"none"}]
  <2>1. result[n] = "none" /\ client = "idle"
    BY <1>1 DEF CountInv, Send, SendFails
  <2> QED
    BY <1>1, <2>1 DEF Send, SendFails, TypeOK, Errors
<1>3. /\ toServer' \in Seq(Requests)
      /\ \A m \in 1..Len(toServer') : toServer'[m] <= n
  <2>1. \A m \in 1..Len(toServer) : toServer[m] <= n
    <3>1. \A m \in 1..Len(toServer) : toServer[m] \in Nat
      BY MaxRequestsAssumption DEF TypeOK, Requests
    <3> QED
      BY <1>1, <3>1 DEF CountInv
  <2>2. CASE toServer' = toServer
    BY <2>1, <2>2 DEF TypeOK
  <2>3. CASE toServer' = Append(toServer, n)
    <3>1. toServer \in Seq(Requests)
      BY DEF TypeOK
    <3>2. /\ toServer' \in Seq(Requests) /\ Len(toServer') = Len(toServer) + 1
          /\ toServer'[Len(toServer) + 1] = n
          /\ \A m \in 1..Len(toServer) : toServer'[m] = toServer[m]
      BY <1>1, <2>3, <3>1, Appended
    <3>3. \A m \in 1..(Len(toServer) + 1) : m \in 1..Len(toServer) \/ m = Len(toServer) + 1
      BY <3>1
    <3> QED
      BY <1>1, <2>1, <3>2, <3>3
  <2> QED
    BY <2>2, <2>3 DEF Send, SendFails
<1>4. UNCHANGED <<toClient, task, handling, answers, dbOpen>>
  BY DEF Send, SendFails, serverVars
<1>5. TypeOK'
  BY <1>1, <1>2, <1>3, <1>4 DEF TypeOK, Last
<1>6. CountInv'
  <2>1. \A i \in Requests : i > n <=> i > Last /\ i # n
    BY <1>1 DEF Requests
  <2>2. \A i \in Requests :
          result'[i] = "none" <=> i > Last' \/ (i = Last' /\ client' = "receiving")
    BY <1>1, <1>2, <2>1 DEF CountInv
  <2>3. handling' <= Last'
    BY <1>1, <1>4, MaxRequestsAssumption DEF TypeOK, CountInv, Requests
  <2> QED
    BY <1>1, <1>2, <1>3, <1>4, <2>2, <2>3 DEF CountInv
<1>7. OneResponse'
  BY <1>2, <1>4 DEF OneResponse
<1>8. ClosedInv'
  BY <1>2, <1>4 DEF ClosedInv
<1>9. OkMeansCarriedOut'
  <2> SUFFICES ASSUME NEW i \in Requests, result'[i] = "ok"
               PROVE  \E j \in 1..i : ToldBy(i, j)'
    BY DEF OkMeansCarriedOut
  <2>1. i # n /\ result[i] = "ok"
    BY <1>2
  <2>2. PICK j \in 1..i : ToldBy(i, j)
    BY <2>1 DEF OkMeansCarriedOut
  <2>3. i \in 1..Last /\ j \in 1..Last /\ j \in Requests \ {n}
    BY <1>1, <2>1, MaxRequestsAssumption DEF CountInv, Requests
  <2>4. \A m \in 1..Last : asked'[m] = asked[m]
    <3>1. asked' = Append(asked, k) /\ asked \in Seq(Kinds)
      BY DEF Send, SendFails, TypeOK
    <3> QED
      BY <3>1, Appended DEF Last
  <2>5. ToldBy(i, j)'
    BY <1>2, <1>4, <2>2, <2>3, <2>4 DEF ToldBy
  <2> QED
    BY <2>5
<1> QED
  BY <1>5, <1>6, <1>7, <1>8, <1>9

(* A request returns without a response.                                   *)
LEMMA NothingReceived ==
  ASSUME ExchangeInv, Return("receive"), UNCHANGED toClient
  PROVE  ExchangeInv'
<1> USE DEF ExchangeInv, Unanswered
<1>1. /\ Last' = Last /\ Last \in Requests /\ result[Last] = "none"
      /\ client = "receiving" /\ client' = "idle"
      /\ result' = [result EXCEPT ![Last] = "receive"]
      /\ UNCHANGED <<asked, toServer, toClient, task, handling, answers, dbOpen>>
  BY MaxRequestsAssumption DEF Return, Last, TypeOK, CountInv, Requests, serverVars
<1>2. /\ result'[Last] = "receive"
      /\ \A i \in Requests \ {Last} : result'[i] = result[i]
      /\ result' \in [Requests -> Answers \cup Errors \cup {"none"}]
  BY <1>1 DEF TypeOK, Errors
<1>3. TypeOK'
  BY <1>1, <1>2 DEF TypeOK
<1>4. CountInv'
  BY <1>1, <1>2 DEF CountInv, Requests
<1>5. OneResponse'
  BY <1>1, <1>2 DEF OneResponse
<1>6. ClosedInv'
  BY <1>1, <1>2 DEF ClosedInv
<1>7. OkMeansCarriedOut'
  <2> SUFFICES ASSUME NEW i \in Requests, result'[i] = "ok"
               PROVE  \E j \in 1..i : ToldBy(i, j)'
    BY DEF OkMeansCarriedOut
  <2>1. i # Last /\ result[i] = "ok"
    BY <1>2
  <2>2. PICK j \in 1..i : ToldBy(i, j)
    BY <2>1 DEF OkMeansCarriedOut
  <2>3. j \in Requests
    BY MaxRequestsAssumption DEF Requests
  <2>4. ToldBy(i, j)'
    BY <1>1, <1>2, <2>1, <2>2, <2>3 DEF ToldBy
  <2> QED
    BY <2>4
<1> QED
  BY <1>3, <1>4, <1>5, <1>6, <1>7

(* The response is read, by the request it answers or by a later one: the  *)
(* one it answers has then returned without it.                            *)
LEMMA ResponseReceived ==
  ASSUME ExchangeInv, Receive
  PROVE  ExchangeInv'
<1> USE DEF ExchangeInv, Unanswered
<1>1. PICK r \in Decoded(Head(toClient)) : Return(r)
  BY DEF Receive
<1>2. /\ toClient # <<>> /\ toClient = <<handling>> /\ Head(toClient) = handling
      /\ toClient' = <<>> /\ handling \in Requests
      /\ task = "gone" /\ answers[handling] # "none"
  BY DEF Receive, OneResponse, TypeOK
<1>3. /\ Last' = Last /\ Last \in Requests /\ result[Last] = "none"
      /\ client = "receiving" /\ client' = "idle"
      /\ result' = [result EXCEPT ![Last] = r]
      /\ UNCHANGED <<asked, toServer, task, handling, answers, dbOpen>>
  BY <1>1, MaxRequestsAssumption
     DEF Return, Last, TypeOK, CountInv, Requests, serverVars
<1>4. /\ r \in {"ok", "decode", answers[handling]}
      /\ r \in (Answers \cup Errors \cup {"none"}) \ Unanswered
      /\ handling = Last => r = answers[Last]
      /\ r = "closed" => answers[handling] = "closed"
  BY <1>1, <1>2, <1>3 DEF Decoded, TypeOK, Answers, Errors
<1>5. /\ result'[Last] = r
      /\ \A i \in Requests \ {Last} : result'[i] = result[i]
      /\ result' \in [Requests -> Answers \cup Errors \cup {"none"}]
  BY <1>3, <1>4 DEF TypeOK
<1>6. \A i \in Requests : result[i] \in Unanswered
  BY <1>2 DEF OneResponse
<1>7. TypeOK'
  <2>1. <<>> \in Seq(Requests)
    OBVIOUS
  <2> QED
    BY <1>2, <1>3, <1>5, <2>1 DEF TypeOK
<1>8. CountInv'
  BY <1>3, <1>4, <1>5 DEF CountInv, Requests
<1>9. OneResponse'
  BY <1>2, <1>3, <1>4, <1>5, <1>6 DEF OneResponse
<1>10. ClosedInv'
  BY <1>2, <1>3, <1>4, <1>5 DEF ClosedInv
<1>11. OkMeansCarriedOut'
  <2> SUFFICES ASSUME NEW i \in Requests, result'[i] = "ok"
               PROVE  \E j \in 1..i : ToldBy(i, j)'
    BY DEF OkMeansCarriedOut
  <2>1. i = Last /\ r = "ok"
    BY <1>5, <1>6
  <2>2. handling \in 1..i
    BY <1>2, <1>3, <2>1, MaxRequestsAssumption DEF CountInv, Requests
  <2>3. handling = i \/ result'[handling] \in {"send", "receive"}
    <3> SUFFICES ASSUME handling # Last PROVE result'[handling] \in {"send", "receive"}
      BY <2>1
    <3>1. result[handling] # "none"
      BY <1>2, <1>3, <2>1, <2>2, MaxRequestsAssumption DEF CountInv, Requests
    <3> QED
      BY <1>2, <1>5, <1>6, <3>1
  <2>4. asked[handling] = asked[i] => answers[handling] = "ok"
    BY <1>1, <1>2, <2>1 DEF Decoded
  <2>5. ToldBy(i, handling)'
    BY <1>2, <1>3, <2>3, <2>4 DEF ToldBy
  <2> QED
    BY <2>2, <2>5, <1>3
<1> QED
  BY <1>7, <1>8, <1>9, <1>10, <1>11

-----------------------------------------------------------------------------
(* The task's steps.                                                       *)

(* The client's side, which the task's steps leave as it is.               *)
LEMMA ClientUntouched ==
  ASSUME ExchangeInv, UNCHANGED clientVars, UNCHANGED answers
  PROVE  OkMeansCarriedOut'
  BY DEF ExchangeInv, OkMeansCarriedOut, ToldBy, clientVars

(* The task decides on an answer, with the database as it is.              *)
LEMMA RequestAnswered ==
  ASSUME ExchangeInv, UNCHANGED clientVars, UNCHANGED <<toClient, dbOpen>>,
         task \in {"reading", "calling"}, handling' \in Requests, handling' <= Last,
         toServer' \in Seq(Requests),
         \A n \in 1..Len(toServer') : toServer'[n] <= Last,
         NEW a \in Answers, Answer(handling', a), a = "closed" => ~dbOpen
  PROVE  ExchangeInv'
<1> USE DEF ExchangeInv, Unanswered, clientVars
<1>1. /\ answers' = [answers EXCEPT ![handling'] = a] /\ task' = "writing"
      /\ Last' = Last
  BY DEF Answer, Last
<1>2. /\ answers'[handling'] = a
      /\ \A i \in Requests \ {handling'} : answers'[i] = answers[i]
      /\ answers' \in [Requests -> Answers \cup {"none"}]
  BY <1>1 DEF TypeOK
<1>3. TypeOK'
  BY <1>1, <1>2 DEF TypeOK
<1>4. CountInv'
  <2>1. handling' # 0 /\ a # "none"
    BY DEF Requests, Answers
  <2> QED
    BY <1>1, <1>2, <2>1 DEF CountInv
<1>5. toClient = <<>> /\ \A i \in Requests : result[i] \in Unanswered
  BY DEF OneResponse
<1>6. OneResponse'
  BY <1>5 DEF OneResponse
<1>7. ClosedInv'
  BY <1>2 DEF ClosedInv
<1>8. OkMeansCarriedOut'
  BY <1>5 DEF OkMeansCarriedOut
<1> QED
  BY <1>3, <1>4, <1>6, <1>7, <1>8

LEMMA RequestRead ==
  ASSUME ExchangeInv, Read
  PROVE  ExchangeInv'
<1> USE DEF ExchangeInv, clientVars
<1>1. /\ toServer # <<>> /\ handling' = Head(toServer) /\ toServer' = Tail(toServer)
      /\ task = "reading" /\ toServer \in Seq(Requests)
      /\ UNCHANGED clientVars /\ UNCHANGED <<toClient, dbOpen>>
  BY DEF Read, TypeOK
<1>2. /\ handling' \in Requests /\ handling' <= Last
      /\ toServer' \in Seq(Requests)
      /\ \A n \in 1..Len(toServer') : toServer'[n] <= Last
  <2>1. /\ Head(toServer) \in Requests /\ Head(toServer) = toServer[1]
        /\ Tail(toServer) \in Seq(Requests)
        /\ Len(toServer) \in Nat \ {0} /\ Len(Tail(toServer)) = Len(toServer) - 1
        /\ \A n \in 1..Len(Tail(toServer)) : Tail(toServer)[n] = toServer[n + 1]
    BY <1>1, Consumed
  <2>2. \A n \in 1..(Len(toServer) - 1) : n + 1 \in 1..Len(toServer)
    BY <2>1
  <2> QED
    BY <1>1, <2>1, <2>2 DEF CountInv
<1>3. CASE asked[handling'] = "backup" /\ dbOpen
  <2>1. task' = "calling" /\ UNCHANGED answers
    BY <1>3 DEF Read
  <2>2. Last' = Last /\ handling' # 0
    BY <1>1, <1>2 DEF Last, Requests
  <2>3. TypeOK'
    BY <1>1, <1>2, <2>1 DEF TypeOK
  <2>4. CountInv'
    BY <1>1, <1>2, <2>1, <2>2 DEF CountInv
  <2>5. OneResponse' /\ ClosedInv'
    BY <1>1, <2>1 DEF OneResponse, ClosedInv
  <2> QED
    BY <1>1, <2>1, <2>3, <2>4, <2>5, ClientUntouched
<1>4. CASE ~(asked[handling'] = "backup" /\ dbOpen)
  <2> DEFINE a == IF dbOpen THEN "ok" ELSE "closed"
  <2>1. Answer(handling', a)
    BY <1>4 DEF Read
  <2>2. a \in Answers /\ (a = "closed" => ~dbOpen)
    BY DEF Answers
  <2> HIDE DEF a
  <2> QED
    BY <1>1, <1>2, <2>1, <2>2, RequestAnswered
<1> QED
  BY <1>3, <1>4

LEMMA RequestCarriedOut ==
  ASSUME ExchangeInv, Execute \/ ExecuteRefused
  PROVE  ExchangeInv'
<1>1. /\ task = "calling" /\ handling' = handling /\ toServer' = toServer
      /\ UNCHANGED clientVars /\ UNCHANGED <<toClient, dbOpen>>
  BY DEF Execute, ExecuteRefused
<1>2. /\ handling' \in Requests /\ handling' <= Last
      /\ toServer' \in Seq(Requests)
      /\ \A n \in 1..Len(toServer') : toServer'[n] <= Last
  BY <1>1 DEF ExchangeInv, TypeOK, CountInv
<1>3. PICK a \in Answers : Answer(handling', a) /\ (a = "closed" => ~dbOpen)
  BY <1>1 DEF Execute, ExecuteRefused, Answers
<1> QED
  BY <1>1, <1>2, <1>3, RequestAnswered

(* The connection is dropped, with or without a response written.          *)
LEMMA ConnectionDropped ==
  ASSUME ExchangeInv, Write \/ ReadFails \/ Abort
  PROVE  ExchangeInv'
<1> USE DEF ExchangeInv, Unanswered, clientVars
<1>1. /\ UNCHANGED clientVars /\ UNCHANGED <<handling, answers, toServer, dbOpen>>
      /\ task' = "gone" /\ task # "gone" /\ Last' = Last
  BY DEF Write, ReadFails, Abort, Last
<1>2. toClient = <<>> /\ \A i \in Requests : result[i] \in Unanswered
  BY <1>1 DEF OneResponse
<1>3. \/ toClient' = toClient
      \/ /\ toClient' = Append(toClient, handling)
         /\ handling # 0 /\ answers[handling] # "none"
  BY DEF Write, ReadFails, Abort, CountInv
<1>4. \/ toClient' = <<>>
      \/ /\ toClient' = <<handling>>
         /\ handling \in Requests /\ answers[handling] # "none"
  BY <1>2, <1>3 DEF TypeOK
<1>5. TypeOK'
  <2>1. <<>> \in Seq(Requests) /\ (handling \in Requests => <<handling>> \in Seq(Requests))
    OBVIOUS
  <2>2. toClient' \in Seq(Requests)
    BY <1>4, <2>1
  <2> QED
    BY <1>1, <2>2 DEF TypeOK
<1>6. CountInv' /\ ClosedInv'
  BY <1>1 DEF CountInv, ClosedInv
<1>7. OneResponse'
  <2>1. handling \in Requests => handling # 0
    BY DEF Requests
  <2> QED
    BY <1>1, <1>2, <1>4, <2>1 DEF OneResponse
<1> QED
  BY <1>1, <1>5, <1>6, <1>7, ClientUntouched

LEMMA ExchangeNext == ExchangeInv /\ [Next]_vars => ExchangeInv'
<1> SUFFICES ASSUME ExchangeInv, [Next]_vars PROVE ExchangeInv'
  OBVIOUS
(* Steps that move only the client, the task's start or the database.      *)
<1>a. ASSUME UNCHANGED <<asked, result, toServer, toClient, handling, answers>>,
             \/ client' = client
             \/ client = "idle" /\ client' = "disconnected",
             \/ task' = task
             \/ task = "backlog" /\ task' \in {"reading", "gone"},
             dbOpen' = dbOpen \/ dbOpen' = FALSE
      PROVE  ExchangeInv'
  <2> USE <1>a DEF ExchangeInv
  <2>1. TypeOK'
    BY DEF TypeOK
  <2>2. CountInv'
    BY DEF CountInv, Last
  <2>3. OneResponse'
    BY DEF OneResponse
  <2>4. ClosedInv' /\ OkMeansCarriedOut'
    BY DEF ClosedInv, OkMeansCarriedOut, ToldBy, TypeOK
  <2> QED
    BY <2>1, <2>2, <2>3, <2>4
<1>1. CASE Client
  <2>1. CASE Disconnect
    BY <1>a, <2>1 DEF Disconnect, serverVars
  <2>2. CASE ReceiveEof \/ ReceiveTimeout
    BY <2>2, NothingReceived DEF ReceiveEof, ReceiveTimeout
  <2> QED
    BY <1>1, <2>1, <2>2, RequestMade, ResponseReceived DEF Client
<1>2. CASE Task
  <2>1. CASE Accept
    BY <1>a, <2>1 DEF Accept, clientVars
  <2> QED
    BY <1>2, <2>1, RequestRead, RequestCarriedOut, ConnectionDropped DEF Task
<1>3. CASE Abort
  BY <1>3, ConnectionDropped
<1>4. CASE DatabasePanics
  BY <1>a, <1>4 DEF DatabasePanics, clientVars, serverVars
<1>5. CASE UNCHANGED vars
  BY <1>a, <1>5 DEF vars, clientVars, serverVars
<1> QED
  BY <1>1, <1>2, <1>3, <1>4, <1>5 DEF Next

LEMMA ExchangeInductive == Spec => []ExchangeInv
  BY ExchangeInit, ExchangeNext, PTL DEF Spec

-----------------------------------------------------------------------------
(* Type correctness: the task answers only requests that were made, and    *)
(* each request returns one of the results that request_response() has.    *)
THEOREM ExchangeTypeCorrect == Spec => []TypeOK
<1>1. ExchangeInv => TypeOK
  BY DEF ExchangeInv
<1> QED
  BY <1>1, ExchangeInductive, PTL

(* However many requests a client makes and gives up, it is told Ok only   *)
(* by an answer of the server to one that is not later: to that request,   *)
(* or to one that was given up, although no response says what it answers. *)
THEOREM OkIsCarriedOut == Spec => []OkMeansCarriedOut
<1>1. ExchangeInv => OkMeansCarriedOut
  BY DEF ExchangeInv
<1> QED
  BY <1>1, ExchangeInductive, PTL

(* The client reports a closed database only when it is closed.            *)
THEOREM ClosedIsNeverWrong == Spec => []ClosedIsTrue
<1>1. ExchangeInv => ClosedIsTrue
  BY DEF ExchangeInv, ClosedInv, ClosedIsTrue
<1> QED
  BY <1>1, ExchangeInductive, PTL

(* Once a request has got its answer, further ones of the same client      *)
(* fail.                                                                   *)
THEOREM ConnectionAnswersOnce == Spec => []OneAnswerPerConnection
<1>1. ExchangeInv => OneAnswerPerConnection
  <2> SUFFICES ASSUME ExchangeInv, NEW i \in Requests, NEW j \in Requests,
                      i < j, result[i] \in Answers
               PROVE  result[j] \in Unanswered
    BY DEF OneAnswerPerConnection, Unanswered
  <2>1. result[i] \notin Unanswered /\ j # i
    BY DEF Answers, Unanswered, Requests
  <2> QED
    BY <2>1 DEF ExchangeInv, OneResponse
<1> QED
  BY <1>1, ExchangeInductive, PTL
=============================================================================
