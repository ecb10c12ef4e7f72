------------------------------- MODULE Serve -------------------------------
(***************************************************************************)
(* `novelnote serve': run_servers() opens the database, starts the HTTP    *)
(* and the admin server with a clone of the handle each, and after SIGINT  *)
(* or SIGTERM waits for both before it closes the database.  Every         *)
(* accepted connection is a task with a clone of its own.  When            *)
(* run_servers() returns, the runtime is dropped with whatever tasks are   *)
(* left, and then the process ends with its threads.                       *)
(*                                                                         *)
(* The handles, the channel and the connection thread are those of         *)
(* Database: each action here is a step of Database taken by the task that *)
(* owns the handle, or leaves the database alone.                          *)
(***************************************************************************)
EXTENDS Database

CONSTANTS HttpHandle,   \* the handle in the HTTP server's router
          AdminHandle,  \* the handle in the AdminServer
          HttpConns,    \* handles of the tasks that serve HTTP connections
          AdminConns,   \* handles of the tasks that serve admin connections
          RequestKinds, \* the HTTP requests that are made
          MayFail,      \* may configuration and binding fail?
          DebugBuild    \* are debug assertions enabled?

ASSUME ServeAssumption ==
  /\ Handles = {Root, HttpHandle, AdminHandle} \cup HttpConns \cup AdminConns
  /\ {Root, HttpHandle, AdminHandle} \cap (HttpConns \cup AdminConns) = {}
  /\ HttpConns \cap AdminConns = {}
  /\ RequestKinds \subseteq {"api", "static"}
  /\ MayAbort = TRUE /\ MayFail \in BOOLEAN /\ DebugBuild \in BOOLEAN

VARIABLES
  main,    \* where run_servers() is
  http,    \* where Server::run() is
  admin,   \* where AdminServer::run() is
  conn,    \* where the task of each connection is
  token,   \* has the CancellationToken been cancelled?
  exited   \* has the process ended?

servers == <<main, http, admin, conn, token, exited>>
serveVars == <<vars, servers>>

Conns == HttpConns \cup AdminConns

ServeInit ==
  /\ Init
  /\ main = "start"
  /\ http = "none"
  /\ admin = "none"
  /\ conn = [c \in Conns |-> "none"]
  /\ token = FALSE
  /\ exited = FALSE

ConnStep(c, from, to) ==
  /\ conn[c] \in from
  /\ conn' = [conn EXCEPT ![c] = to]
  /\ UNCHANGED <<main, http, admin, token, exited>>

-----------------------------------------------------------------------------
(* run_servers() up to try_join!; every failure returns at once.           *)

OpenDatabase(r) ==
  /\ main = "start"
  /\ Open(r)
  /\ main' = IF r = "ok" THEN "opened" ELSE "failed"
  /\ UNCHANGED <<http, admin, conn, token, exited>>

ConfigureHttp ==
  /\ main = "opened"
  /\ Clone(Root, HttpHandle)
  /\ main' = "http_ready"
  /\ UNCHANGED <<http, admin, conn, token, exited>>

(* The admin server binds its socket before anything is spawned; a         *)
(* disabled admin server is done from the start.                           *)
StartServers(enabled) ==
  /\ main = "http_ready"
  /\ main' = "join"
  /\ http' = "binding"
  /\ IF enabled
     THEN Clone(Root, AdminHandle) /\ admin' = "listening"
     ELSE admin' = "done" /\ UNCHANGED vars
  /\ UNCHANGED <<conn, token, exited>>

StartFails ==
  /\ MayFail
  /\ main \in {"opened", "http_ready"}
  /\ main' = "failed"
  /\ UNCHANGED <<vars, http, admin, conn, token, exited>>

(* shutdown_signal() acts on the first signal only.                        *)
Signal ==
  /\ main \in {"http_ready", "join"}
  /\ ~token
  /\ token' = TRUE
  /\ UNCHANGED <<vars, main, http, admin, conn, exited>>

-----------------------------------------------------------------------------
(* Server::run(): bind, then axum's graceful shutdown, which stops         *)
(* accepting on the signal and waits for the connections.                  *)

HttpBind ==
  /\ http = "binding"
  /\ \/ http' = "serving" /\ UNCHANGED vars
     \/ MayFail /\ http' = "failed" /\ DropSender(HttpHandle)
  /\ UNCHANGED <<main, admin, conn, token, exited>>

HttpAccept(c) ==
  /\ http = "serving"
  /\ Clone(HttpHandle, c)
  /\ ConnStep(c, {"none"}, "idle")

(* The client sends the head of a request, in one or several parts; what   *)
(* is asked for is known at its end.                                       *)
HttpHead(c) == ConnStep(c, {"idle"}, "head") /\ UNCHANGED vars

HttpRequest(c, k) == ConnStep(c, {"head"}, k) /\ UNCHANGED vars

Statuses == {"healthy", "unhealthy"}

(* /api/health-check looks at the channel of the router's Database.  It    *)
(* waits for nothing, so that the TimeoutLayer never answers in its place. *)
HttpHealthCheck(c) ==
  /\ ConnStep(c, {"api"}, IF IsOpen THEN "healthy" ELSE "unhealthy")
  /\ UNCHANGED vars

(* A response is sent as fast as its client reads it, a file of the        *)
(* fallback service in parts.  During the shutdown connections are no      *)
(* longer kept alive.                                                      *)
Responses == {"static"} \cup Statuses

HttpRespond(c, k) ==
  /\ ConnStep(c, {k}, IF http = "draining" THEN "ended" ELSE "idle")
  /\ UNCHANGED vars

(* The client leaves.                                                      *)
HttpLeave(c) == ConnStep(c, {"idle", "head"} \cup Responses, "ended") /\ UNCHANGED vars

(* The server closes its idle connections, but not one on which a request  *)
(* has begun.                                                              *)
HttpClose(c) ==
  /\ http = "draining"
  /\ ConnStep(c, {"idle"}, "ended")
  /\ UNCHANGED vars

HttpStop ==
  /\ http = "serving"
  /\ token
  /\ http' = "draining"
  /\ UNCHANGED <<vars, main, admin, conn, token, exited>>

HttpDone ==
  /\ http = "draining"
  /\ \A c \in HttpConns : conn[c] \in {"none", "ended"}
  /\ DropSender(HttpHandle)
  /\ http' = "done"
  /\ UNCHANGED <<main, admin, conn, token, exited>>

-----------------------------------------------------------------------------
(* AdminServer::run() and handle_connection(): one request per connection. *)

AdminAccept(c) ==
  /\ admin = "listening"
  /\ Clone(AdminHandle, c)
  /\ ConnStep(c, {"none"}, "reading")

(* An error of accept() is logged; with debug assertions it is a panic.    *)
AdminAcceptFails ==
  /\ DebugBuild
  /\ admin = "listening"
  /\ DropSender(AdminHandle)
  /\ admin' = "failed"
  /\ UNCHANGED <<main, http, conn, token, exited>>

(* The read fails, times out or does not hold a Message.                   *)
AdminReadFails(c) == ConnStep(c, {"reading"}, "ended") /\ UNCHANGED vars

AdminHealthCheck(c) == ConnStep(c, {"reading"}, "writing") /\ UNCHANGED vars

(* Message::Backup calls the database and responds with what it returned.  *)
AdminBackup(c) ==
  \/ CallReserve(c) /\ ConnStep(c, {"reading"}, "calling")
  \/ CallClosed(c) /\ ConnStep(c, {"reading"}, "writing")

AdminBackupStep(c) ==
  \/ TakePermit(c) /\ UNCHANGED servers
  \/ Send(c) /\ UNCHANGED servers
  \/ (Refused(c) \/ Answer(c)) /\ ConnStep(c, {"calling"}, "writing")

(* Mutant: the task goes on to read a further request.                     *)
AdminRespondAgain(c) == ConnStep(c, {"writing"}, "reading") /\ UNCHANGED vars

(* The response is written or the write fails; then the task drops its     *)
(* closed_receiver, while it still holds its Database.                     *)
AdminRespond(c) == ConnStep(c, {"writing"}, "ended") /\ UNCHANGED vars

AdminStop ==
  /\ admin = "listening"
  /\ token
  /\ admin' = "draining"
  /\ UNCHANGED <<vars, main, http, conn, token, exited>>

(* Mutant: run() returns without waiting for its connections.              *)
AdminDoneAtOnce ==
  /\ admin = "draining"
  /\ DropSender(AdminHandle)
  /\ admin' = "done"
  /\ UNCHANGED <<main, http, conn, token, exited>>

AdminDone ==
  /\ admin = "draining"
  /\ \A c \in AdminConns : conn[c] \in {"none", "ended"}
  /\ DropSender(AdminHandle)
  /\ admin' = "done"
  /\ UNCHANGED <<main, http, conn, token, exited>>

(* A connection's task ends and drops its Database.                        *)
ConnDrop(c) == conn[c] = "ended" /\ DropSender(c) /\ UNCHANGED servers

TaskDrop(h) == h # Root /\ DropCloseHandle(h) /\ UNCHANGED servers

-----------------------------------------------------------------------------
(* The end of run_servers().  A spawned task is joined once its future,    *)
(* and the handle in it, is dropped.                                       *)

Left(h) == phase[h] \in {"none", "gone"}

(* Mutant: does not wait for the admin server.                             *)
JoinServersHttp ==
  /\ main = "join"
  /\ http = "done" /\ Left(HttpHandle)
  /\ BeginClose(Root)
  /\ main' = "closing"
  /\ UNCHANGED <<http, admin, conn, token, exited>>

JoinServers ==
  /\ main = "join"
  /\ http = "done" /\ Left(HttpHandle)
  /\ admin = "done" /\ Left(AdminHandle)
  /\ BeginClose(Root)
  /\ main' = "closing"
  /\ UNCHANGED <<http, admin, conn, token, exited>>

(* try_join! returns the first error; the other server stays behind.       *)
JoinFails ==
  /\ main = "join"
  /\ \/ http = "failed" /\ Left(HttpHandle)
     \/ admin = "failed" /\ Left(AdminHandle)
  /\ main' = "failed"
  /\ UNCHANGED <<vars, http, admin, conn, token, exited>>

(* Mutants: the error of close() is discarded; the result of close() is    *)
(* taken for a state of run_servers().                                     *)
CloseDatabaseIgnored ==
  /\ main = "closing"
  /\ IntoInner(Root) \/ Join(Root)
  /\ main' = IF closeResult'[Root] = "none" THEN "closing" ELSE "done"
  /\ UNCHANGED <<http, admin, conn, token, exited>>

CloseDatabaseResult ==
  /\ main = "closing"
  /\ IntoInner(Root) \/ Join(Root)
  /\ main' = closeResult'[Root]
  /\ UNCHANGED <<http, admin, conn, token, exited>>

CloseDatabase ==
  /\ main = "closing"
  /\ IntoInner(Root) \/ Join(Root)
  /\ main' = CASE closeResult'[Root] = "none" -> "closing"
               [] closeResult'[Root] = "ok" -> "done"
               [] OTHER -> "failed"
  /\ UNCHANGED <<http, admin, conn, token, exited>>

(* What run_servers() owns when it fails: its handle and those of servers  *)
(* that were not spawned.                                                  *)
Unspawned == {h \in {HttpHandle, AdminHandle} : http = "none"}

MainDrop(h) ==
  /\ main = "failed"
  /\ h \in Unspawned \cup {Root}
  /\ DropSender(h)
  /\ UNCHANGED servers

RootDrop == DropCloseHandle(Root) /\ UNCHANGED servers

(* Mutant: the connection thread is waited for before tasks are dropped.   *)
RuntimeDropWaits(h) ==
  /\ main \in {"failed", "done"}
  /\ Left(Root)
  /\ thread \in {"none", "done"}
  /\ Abort(h) \/ DropSender(h)
  /\ http' = IF h = HttpHandle THEN "cut" ELSE http
  /\ admin' = IF h = AdminHandle THEN "cut" ELSE admin
  /\ conn' = [c \in Conns |->
                IF c = h /\ conn[c] # "ended" THEN "cut" ELSE conn[c]]
  /\ UNCHANGED <<main, token, exited>>

(* Dropping the runtime drops every task at the await point it has         *)
(* reached, which cuts off what the task was doing.                        *)
RuntimeDrop(h) ==
  /\ main \in {"failed", "done"}
  /\ Left(Root)
  /\ Abort(h) \/ DropSender(h)
  /\ http' = IF h = HttpHandle THEN "cut" ELSE http
  /\ admin' = IF h = AdminHandle THEN "cut" ELSE admin
  /\ conn' = [c \in Conns |->
                IF c = h /\ conn[c] # "ended" THEN "cut" ELSE conn[c]]
  /\ UNCHANGED <<main, token, exited>>

Exit ==
  /\ main \in {"failed", "done"}
  /\ \A h \in Handles : Left(h)
  /\ exited' = TRUE
  /\ UNCHANGED <<vars, main, http, admin, conn, token>>

-----------------------------------------------------------------------------
ConnectionThread == ~exited /\ Thread /\ UNCHANGED servers

HttpTask(c) ==
  \/ HttpHead(c)
  \/ \E k \in RequestKinds : HttpRequest(c, k)
  \/ HttpHealthCheck(c)
  \/ \E k \in Responses : HttpRespond(c, k)
  \/ HttpLeave(c)
  \/ HttpClose(c)

AdminTask(c) ==
  \/ AdminReadFails(c)
  \/ AdminHealthCheck(c)
  \/ AdminBackup(c)
  \/ AdminBackupStep(c)
  \/ AdminRespond(c)

Drops(h) ==
  \/ h \in Conns /\ ConnDrop(h)
  \/ TaskDrop(h)
  \/ MainDrop(h)
  \/ h = Root /\ RootDrop
  \/ RuntimeDrop(h)

Running ==
  \/ \E r \in OpenOutcomes : OpenDatabase(r)
  \/ ConfigureHttp
  \/ \E enabled \in BOOLEAN : StartServers(enabled)
  \/ StartFails
  \/ Signal
  \/ HttpBind
  \/ \E c \in HttpConns : HttpAccept(c) \/ HttpTask(c)
  \/ HttpStop
  \/ HttpDone
  \/ \E c \in AdminConns : AdminAccept(c) \/ AdminTask(c)
  \/ AdminAcceptFails
  \/ AdminStop
  \/ AdminDone
  \/ \E h \in Handles : Drops(h)
  \/ JoinServers
  \/ JoinFails
  \/ CloseDatabase
  \/ Exit
  \/ ConnectionThread

ServeNext ==
  \/ Running
  \/ exited /\ UNCHANGED serveVars

ServeSpec == ServeInit /\ [][ServeNext]_serveVars

(* Tasks and the thread are scheduled, and so the handlers of the HTTP     *)
(* server end and its idle connections are closed; reads and writes of the *)
(* admin socket are bounded by their timeouts.  Nothing makes an HTTP      *)
(* client finish the head of its request or read the response, or forces a *)
(* signal.                                                                 *)
ServeFairness ==
  /\ WF_serveVars(ConfigureHttp)
  /\ WF_serveVars(\E enabled \in BOOLEAN : StartServers(enabled))
  /\ WF_serveVars(HttpBind)
  /\ WF_serveVars(HttpStop)
  /\ WF_serveVars(HttpDone)
  /\ WF_serveVars(AdminStop)
  /\ WF_serveVars(AdminDone)
  /\ WF_serveVars(JoinServers)
  /\ WF_serveVars(JoinFails)
  /\ WF_serveVars(CloseDatabase)
  /\ WF_serveVars(Exit)
  /\ WF_serveVars(ConnectionThread)
  /\ \A c \in HttpConns :
       /\ WF_serveVars(HttpHealthCheck(c))
       /\ WF_serveVars(HttpClose(c))
  /\ \A c \in AdminConns : WF_serveVars(AdminTask(c))
  /\ \A h \in Handles : WF_serveVars(Drops(h))

FairServeSpec == ServeSpec /\ ServeFairness

-----------------------------------------------------------------------------
ServeTypeOK ==
  /\ TypeOK
  /\ main \in {"start", "opened", "http_ready", "join", "closing", "done", "failed"}
  /\ http \in {"none", "binding", "serving", "draining", "done", "failed", "cut"}
  /\ admin \in {"none", "listening", "draining", "done", "failed", "cut"}
  /\ conn \in [Conns -> {"none", "idle", "head", "reading", "calling",
                         "writing", "ended", "cut"} \cup RequestKinds \cup Statuses]
  /\ token \in BOOLEAN
  /\ exited \in BOOLEAN

(* The database is closed only after every connection that was accepted    *)
(* has had its response: "The future will not complete until [...] all     *)
(* connections have responded to their requests".                          *)
ClosedAfterConnections ==
  main \in {"closing", "done"} =>
    \A c \in Conns : conn[c] \in {"none", "ended"}

(* A process that ends without an error has run every closure that was     *)
(* sent and has optimized and closed the database.                         *)
OkExitIsClean ==
  exited /\ main = "done" =>
    /\ threadResult = "ok" /\ queue = <<>>
    /\ \A c \in Conns : conn[c] # "cut"

(* close() finds another handle only in a task that has ended its work,    *)
(* never in a server or in a task that still serves its connection.        *)
OpenConnectionIsLate ==
  [][closeResult'[Root] = "open_connection" /\ closeResult[Root] = "none" =>
       \A h \in Owners \ {Root} : h \in Conns /\ conn[h] = "ended"]_serveVars

(* "A server component is having issues, server restart recommended": the  *)
(* health check says so only after the connection thread panicked, and     *)
(* never after that thread has unwound says that all is well.  Connections *)
(* that are closed, and the shutdown, do not make it report an issue.      *)
HealthCheckTells ==
  [][\A c \in HttpConns :
       conn'[c] # conn[c] =>
         /\ conn'[c] = "unhealthy" => Panicked
         /\ conn'[c] = "healthy" => threadResult # "panic"]_serveVars

(* Once the shutdown signal was received the process ends, whatever the    *)
(* servers are doing and whatever an admin client does or leaves undone,   *)
(* unless the connection thread has panicked or an HTTP client for ever    *)
(* neither finishes the head of its request, nor reads its response, nor   *)
(* leaves.                                                                 *)
HeldByClient(c) == conn[c] \in {"head"} \cup Responses

ShutdownCompletes ==
  (\A c \in HttpConns : []<>~HeldByClient(c)) => (token ~> (exited \/ Panicked))

(* An error that ends run_servers() ends the process, with tasks still at  *)
(* work and closures still in the channel.                                 *)
FailureExits == main = "failed" ~> exited

(* "On close, the database is optimized": when both servers have shut down *)
(* after a signal, run_servers() closes the database, unless the thread    *)
(* panicked or SQLite returned an error.                                   *)
ShutdownClosesDatabase ==
  closeResult[Root] # "open_connection"

(* "Add a timeout so requests cannot stop the server from gracefully       *)
(* shutting down": with clients that send all of their requests, draining  *)
(* ends.                                                                   *)
RequestsDoNotStopShutdown ==
  (\A c \in HttpConns : []<>(conn[c] # "head"))
    => (http = "draining" ~> http \in {"done", "cut"})
=============================================================================
