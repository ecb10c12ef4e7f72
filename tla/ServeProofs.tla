---------------------------- MODULE ServeProofs ----------------------------
(***************************************************************************)
(* The server process uses the database service as Database describes it,  *)
(* so that what is proved of the service holds in the process.             *)
(***************************************************************************)
EXTENDS Serve, DatabaseRefinement, PermitProofs

(* Each handle of the process is one of the service.                       *)
LEMMA HandlesOfServer ==
  /\ Root \in Handles /\ HttpHandle \in Handles /\ AdminHandle \in Handles
  /\ HttpConns \subseteq Handles /\ AdminConns \subseteq Handles
  /\ Conns \subseteq Handles
BY ServeAssumption DEF Conns

(* Starting up opens the database and clones its handle.                   *)
LEMMA StartSimulates ==
  ASSUME \/ \E r \in OpenOutcomes : OpenDatabase(r)
         \/ ConfigureHttp
         \/ \E enabled \in BOOLEAN : StartServers(enabled)
         \/ StartFails
         \/ Signal
  PROVE  Next \/ UNCHANGED vars
<1>1. CASE \E r \in OpenOutcomes : OpenDatabase(r)
  BY <1>1 DEF OpenDatabase, Next
<1>2. CASE ConfigureHttp
  BY <1>2, HandlesOfServer DEF ConfigureHttp, Next
<1>3. CASE \E enabled \in BOOLEAN : StartServers(enabled)
  BY <1>3, HandlesOfServer DEF StartServers, Next
<1>4. CASE StartFails \/ Signal
  BY <1>4 DEF StartFails, Signal
<1> QED
  BY <1>1, <1>2, <1>3, <1>4

(* The HTTP server clones its handle for its connections and drops it.     *)
LEMMA HttpSimulates ==
  ASSUME \/ HttpBind
         \/ \E c \in HttpConns : HttpAccept(c) \/ HttpTask(c)
         \/ HttpStop
         \/ HttpDone
  PROVE  Next \/ UNCHANGED vars
<1>1. CASE HttpBind \/ HttpDone
  BY <1>1, HandlesOfServer DEF HttpBind, HttpDone, Next
<1>2. CASE \E c \in HttpConns : HttpAccept(c)
  BY <1>2, HandlesOfServer DEF HttpAccept, Next
<1>3. CASE \/ HttpStop
           \/ \E c \in HttpConns : HttpTask(c)
  BY <1>3 DEF HttpStop, HttpTask, HttpHead, HttpRequest, HttpHealthCheck, HttpRespond,
             Responses, HttpLeave, HttpClose
<1> QED
  BY <1>1, <1>2, <1>3

(* So does the admin server, whose connections also call the database.     *)
LEMMA AdminSimulates ==
  ASSUME \/ \E c \in AdminConns : AdminAccept(c) \/ AdminTask(c)
         \/ AdminAcceptFails
         \/ AdminStop
         \/ AdminDone
  PROVE  Next \/ UNCHANGED vars
<1>1. CASE \E c \in AdminConns : AdminAccept(c)
  BY <1>1, HandlesOfServer DEF AdminAccept, Next
<1>2. ASSUME NEW c \in AdminConns, AdminTask(c)
      PROVE  Next \/ UNCHANGED vars
  <2>1. c \in Handles
    BY HandlesOfServer
  <2>2. CASE AdminReadFails(c) \/ AdminHealthCheck(c) \/ AdminRespond(c)
    BY <2>2 DEF AdminReadFails, AdminHealthCheck, AdminRespond
  <2>3. CASE AdminBackup(c)
    BY <2>1, <2>3 DEF AdminBackup, Call, Next
  <2>4. CASE AdminBackupStep(c)
    BY <2>1, <2>4 DEF AdminBackupStep, Wake, Next
  <2> QED
    BY <1>2, <2>2, <2>3, <2>4 DEF AdminTask
<1>3. CASE AdminAcceptFails \/ AdminDone
  BY <1>3, HandlesOfServer DEF AdminAcceptFails, AdminDone, Next
<1>4. CASE AdminStop
  BY <1>4 DEF AdminStop
<1> QED
  BY <1>1, <1>2, <1>3, <1>4

(* A handle is dropped by its task, by run_servers() or with the runtime.  *)
LEMMA DropsSimulate ==
  ASSUME NEW h \in Handles, Drops(h)
  PROVE  Next \/ UNCHANGED vars
<1>1. CASE ConnDrop(h) \/ MainDrop(h)
  BY <1>1 DEF ConnDrop, MainDrop, Next
<1>2. CASE TaskDrop(h)
  BY <1>2 DEF TaskDrop, Release, Next
<1>3. CASE RootDrop
  BY <1>3, HandlesOfServer DEF RootDrop, Release, Next
<1>4. CASE RuntimeDrop(h)
  BY <1>4 DEF RuntimeDrop, Next
<1> QED
  BY <1>1, <1>2, <1>3, <1>4 DEF Drops

(* The end of run_servers() closes the database with the last handle.      *)
LEMMA EndSimulates ==
  ASSUME JoinServers \/ JoinFails \/ CloseDatabase \/ Exit \/ ConnectionThread
  PROVE  Next \/ UNCHANGED vars
<1>1. CASE JoinServers
  BY <1>1, HandlesOfServer DEF JoinServers, Next
<1>2. CASE CloseDatabase
  BY <1>2, HandlesOfServer DEF CloseDatabase, Release, Next
<1>3. CASE ConnectionThread
  BY <1>3 DEF ConnectionThread, Next
<1>4. CASE JoinFails \/ Exit
  BY <1>4 DEF JoinFails, Exit
<1> QED
  BY <1>1, <1>2, <1>3, <1>4

LEMMA StepSimulates ==
  ASSUME [ServeNext]_serveVars
  PROVE  [Next]_vars
<1>1. CASE Running
  BY <1>1, StartSimulates, HttpSimulates, AdminSimulates, DropsSimulate,
     EndSimulates DEF Running
<1>2. CASE (exited /\ UNCHANGED serveVars) \/ UNCHANGED serveVars
  BY <1>2 DEF serveVars
<1> QED
  BY <1>1, <1>2 DEF ServeNext

LEMMA ServerUsesDatabase == ServeSpec => Spec
<1>1. ServeInit => Init
  BY DEF ServeInit
<1> QED
  BY <1>1, StepSimulates, PTL DEF ServeSpec, Spec

(* No request of a server is refused unless the connection thread         *)
(* panicked, and the thread optimizes and closes the database only when    *)
(* nothing is left to do: neither shutdown nor failure cuts in before.     *)
THEOREM ServerKeepsPromises == ServeSpec => [](ClosedMeansPanicked /\ QuietEnd)
BY ServerUsesDatabase, CloseRefusesNobody, OptimizesLast, PTL

-----------------------------------------------------------------------------
(* The inductive invariant of the process.                                 *)

(* A connection that was not accepted has no handle, and one that speaks   *)
(* HTTP only holds its handle.                                             *)
HandlesInv ==
  /\ \A c \in Conns : conn[c] = "none" => phase[c] = "none"
  /\ \A c \in HttpConns :
       conn[c] \in {"idle", "head"} \cup RequestKinds \cup Statuses => phase[c] = "idle"

(* A server that has shut down has no connections left, nor a handle once  *)
(* run_servers() goes on.                                                  *)
StoppedInv ==
  /\ main \in {"start", "opened", "http_ready"} => admin = "none"
  /\ admin = "none" => \A c \in AdminConns : conn[c] = "none"
  /\ http = "done" => \A c \in HttpConns : conn[c] \in {"none", "ended"}
  /\ admin = "done" => \A c \in AdminConns : conn[c] \in {"none", "ended"}
  /\ main \in {"closing", "done"} =>
       /\ http \in {"done", "cut"} /\ Left(HttpHandle)
       /\ admin \in {"done", "cut"} /\ Left(AdminHandle)
  /\ main = "done" => closeResult[Root] = "ok"
  /\ ClosedAfterConnections

ServersInv == ServeTypeOK /\ HandlesInv /\ StoppedInv

(* Every variable of the process keeps its type.                           *)
LEMMA ServeTypeNext ==
  ASSUME ServeTypeOK, [ServeNext]_serveVars
  PROVE  ServeTypeOK'
<1> USE DEF ServeTypeOK
<1>0. TypeOK'
  BY StepSimulates, NextType
<1> DEFINE Places == {"none", "idle", "head", "reading", "calling", "writing", "ended",
                        "cut"}                       \cup RequestKinds \cup Statuses
<1>c. ASSUME NEW c \in Conns, NEW from, NEW to \in Places, ConnStep(c, from, to)
      PROVE  ServeTypeOK'
  BY <1>0, <1>c DEF ConnStep
<1>1. ASSUME \/ \E r \in OpenOutcomes : OpenDatabase(r)
             \/ ConfigureHttp
             \/ \E enabled \in BOOLEAN : StartServers(enabled)
             \/ StartFails
             \/ Signal
      PROVE  ServeTypeOK'
  BY <1>0, <1>1 DEF OpenDatabase, ConfigureHttp, StartServers, StartFails, Signal
<1>2. ASSUME HttpBind \/ HttpStop \/ HttpDone \/ AdminAcceptFails \/ AdminStop \/ AdminDone
      PROVE  ServeTypeOK'
  BY <1>0, <1>2
     DEF HttpBind, HttpStop, HttpDone, AdminAcceptFails, AdminStop, AdminDone
<1>3. ASSUME NEW c \in HttpConns, HttpAccept(c) \/ HttpTask(c)
      PROVE  ServeTypeOK'
  <2>1. c \in Conns
    BY DEF Conns
  <2> QED
    BY <1>3, <1>c, <2>1
       DEF HttpAccept, HttpTask, HttpHead, HttpRequest, HttpHealthCheck, HttpRespond,
             Responses, HttpLeave, HttpClose, Statuses
<1>4. ASSUME NEW c \in AdminConns, AdminAccept(c) \/ AdminTask(c)
      PROVE  ServeTypeOK'
  <2>1. c \in Conns
    BY DEF Conns
  <2>2. CASE UNCHANGED servers
    BY <1>0, <2>2 DEF servers
  <2>3. CASE \E from, to : to \in Places /\ ConnStep(c, from, to)
    BY <1>c, <2>1, <2>3
  <2>4. UNCHANGED servers \/ \E from, to : to \in Places /\ ConnStep(c, from, to)
    BY <1>4
       DEF AdminAccept, AdminTask, AdminReadFails, AdminHealthCheck, AdminBackup,
           AdminBackupStep, AdminRespond
  <2> QED
    BY <2>2, <2>3, <2>4
<1>5. ASSUME NEW h \in Handles, Drops(h) PROVE ServeTypeOK'
  <2>1. CASE UNCHANGED servers
    BY <1>0, <2>1 DEF servers
  <2>2. CASE RuntimeDrop(h)
    BY <1>0, <2>2 DEF RuntimeDrop
  <2> QED
    BY <1>5, <2>1, <2>2 DEF Drops, ConnDrop, TaskDrop, MainDrop, RootDrop
<1>6. ASSUME JoinServers \/ JoinFails \/ CloseDatabase \/ Exit \/ ConnectionThread
      PROVE  ServeTypeOK'
  BY <1>0, <1>6 DEF JoinServers, JoinFails, CloseDatabase, Exit, ConnectionThread, servers
<1>7. CASE UNCHANGED serveVars
  BY <1>0, <1>7 DEF serveVars, servers
<1> QED
  BY <1>1, <1>2, <1>3, <1>4, <1>5, <1>6, <1>7 DEF ServeNext, Running

-----------------------------------------------------------------------------
(* What a step of the database service does to the phases of the tasks     *)
(* that do not take it: at most one that waits is granted its permit.      *)
KeepsPhase(g) ==
  phase'[g] = phase[g] \/ (phase[g] = "reserving" /\ phase'[g] = "granted")

LEMMA OthersKeepPhase ==
  ASSUME IInv, NEW h \in Handles,
         \/ Call(h) \/ Wake(h) \/ Send(h) \/ Answer(h)
         \/ Abort(h) \/ DropSender(h) \/ BeginClose(h) \/ Release(h),
         NEW g \in Handles \ {h}
  PROVE  KeepsPhase(g)
<1>1. TypeOK /\ (waiters # <<>> => Head(waiters) \in Handles /\ phase[Head(waiters)] = "reserving")
  BY TailElements DEF IInv, WaitersInv, TypeOK
<1>2. CASE Call(h) \/ Wake(h) \/ Send(h) \/ Answer(h)
  BY <1>1, <1>2
     DEF KeepsPhase, Call, CallClosed, CallReserve, Wake, TakePermit, Refused, Send,
         Answer, TypeOK
<1>3. CASE Abort(h)
  BY <1>1, <1>3 DEF KeepsPhase, Abort, AbortWaiting, GiveBack, TypeOK
<1>4. CASE DropSender(h) \/ BeginClose(h) \/ Release(h)
  BY <1>1, <1>4
     DEF KeepsPhase, DropSender, BeginClose, Release, DropCloseHandle, IntoInner, Join,
         TypeOK
<1> QED
  BY <1>2, <1>3, <1>4

LEMMA ThreadKeepsPhase ==
  ASSUME IInv, Thread, NEW g \in Handles
  PROVE  KeepsPhase(g)
<1>1. TypeOK /\ (waiters # <<>> => Head(waiters) \in Handles /\ phase[Head(waiters)] = "reserving")
  BY TailElements DEF IInv, WaitersInv, TypeOK
<1>2. CASE Recv
  BY <1>1, <1>2 DEF KeepsPhase, Recv, GiveBack, TypeOK
<1>3. CASE UNCHANGED phase
  BY <1>3 DEF KeepsPhase
<1> QED
  BY <1>2, <1>3 DEF Thread, RecvNone, Run, CheckClose, Optimize, Unwind

LEMMA HandlesNext ==
  ASSUME IInv, ServeTypeOK, HandlesInv, [ServeNext]_serveVars
  PROVE  HandlesInv'
<1> USE DEF HandlesInv, ConnStep
<1>0. /\ TypeOK /\ conn \in [Conns -> {"none", "idle", "head", "reading", "calling",
                                      "writing", "ended", "cut"} \cup RequestKinds \cup Statuses]
      /\ RequestKinds \subseteq {"api", "static"} /\ Statuses = {"healthy", "unhealthy"}
  BY ServeAssumption DEF IInv, ServeTypeOK, Statuses
<1>h. /\ Conns \subseteq Handles /\ HttpConns \subseteq Conns /\ AdminConns \subseteq Conns
      /\ HttpConns \cap AdminConns = {}
      /\ {Root, HttpHandle, AdminHandle} \subseteq Handles \ Conns
  BY HandlesOfServer, ServeAssumption DEF Conns
(* A step of a task that owns no connection, of the connection thread, or  *)
(* of no task at all.                                                      *)
<1>a. ASSUME \A g \in Conns : KeepsPhase(g), conn' = conn PROVE HandlesInv'
  BY <1>0, <1>h, <1>a DEF KeepsPhase
<1>b. ASSUME UNCHANGED vars, conn' = conn PROVE HandlesInv'
  BY <1>b DEF vars
<1>d. ASSUME NEW h \in Handles \ Conns, DropSender(h) \/ BeginClose(h) \/ Release(h),
             conn' = conn
      PROVE  HandlesInv'
  BY <1>a, <1>d, <1>h, OthersKeepPhase
<1>1. ASSUME \/ \E r \in OpenOutcomes : OpenDatabase(r)
             \/ ConfigureHttp
             \/ \E enabled \in BOOLEAN : StartServers(enabled)
             \/ StartFails
             \/ Signal
      PROVE  HandlesInv'
  <2>1. \A g \in Conns : phase'[g] = phase[g]
    BY <1>0, <1>1, <1>h
       DEF OpenDatabase, ConfigureHttp, StartServers, StartFails, Signal, Open, Clone,
           TypeOK, vars
  <2>2. conn' = conn
    BY <1>1 DEF OpenDatabase, ConfigureHttp, StartServers, StartFails, Signal
  <2> QED
    BY <1>a, <2>1, <2>2 DEF KeepsPhase
<1>2. ASSUME HttpBind \/ HttpStop \/ HttpDone \/ AdminAcceptFails \/ AdminStop \/ AdminDone
      PROVE  HandlesInv'
  BY <1>2, <1>b, <1>d, <1>h
     DEF HttpBind, HttpStop, HttpDone, AdminAcceptFails, AdminStop, AdminDone
<1>3. ASSUME NEW c \in HttpConns, HttpAccept(c) PROVE HandlesInv'
  BY <1>0, <1>3, <1>h DEF HttpAccept, Clone, TypeOK
<1>4. ASSUME NEW c \in HttpConns,
             HttpTask(c)
      PROVE  HandlesInv'
  <2>1. /\ conn[c] # "none" /\ conn[c] \in {"idle", "head"} \cup RequestKinds \cup Statuses \cup {"api", "static"}
        /\ phase' = phase
        /\ \E to : to # "none" /\ conn' = [conn EXCEPT ![c] = to]
    BY <1>0, <1>4 DEF HttpTask, HttpHead, HttpRequest, HttpHealthCheck, HttpRespond,
             Responses, HttpLeave, HttpClose, vars
  <2> QED
    BY <1>0, <1>h, <2>1
<1>5. ASSUME NEW c \in AdminConns, AdminAccept(c) PROVE HandlesInv'
  BY <1>0, <1>5, <1>h DEF AdminAccept, Clone, TypeOK
<1>6. ASSUME NEW c \in AdminConns, AdminTask(c) PROVE HandlesInv'
  <2>1. \A g \in Conns \ {c} : KeepsPhase(g)
    BY <1>6, <1>h, OthersKeepPhase
       DEF AdminTask, AdminReadFails, AdminHealthCheck, AdminBackup, AdminBackupStep,
           AdminRespond, Call, Wake, KeepsPhase, vars
  <2>2. conn'[c] # "none" /\ \A g \in Conns \ {c} : conn'[g] = conn[g]
    BY <1>0, <1>6, <1>h
       DEF AdminTask, AdminReadFails, AdminHealthCheck, AdminBackup, AdminBackupStep,
           AdminRespond, TakePermit, Send, servers
  <2> QED
    BY <1>0, <1>h, <2>1, <2>2 DEF KeepsPhase
<1>7. ASSUME NEW h \in Handles, Drops(h) PROVE HandlesInv'
  <2>1. \A g \in Conns \ {h} : KeepsPhase(g)
    BY <1>7, <1>h, OthersKeepPhase
       DEF Drops, ConnDrop, TaskDrop, MainDrop, RootDrop, RuntimeDrop, Release
  <2>2. CASE ConnDrop(h) \/ TaskDrop(h)
    BY <1>0, <1>h, <2>1, <2>2
       DEF ConnDrop, TaskDrop, DropCloseHandle, KeepsPhase, servers
  <2>3. CASE MainDrop(h) \/ (h = Root /\ RootDrop)
    BY <1>d, <1>h, <2>3 DEF MainDrop, RootDrop, Release, Unspawned, servers
  <2>4. CASE RuntimeDrop(h)
    BY <1>0, <1>h, <2>1, <2>4
       DEF RuntimeDrop, Abort, DropSender, KeepsPhase
  <2> QED
    BY <1>7, <2>2, <2>3, <2>4 DEF Drops
<1>8. ASSUME JoinServers \/ JoinFails \/ CloseDatabase \/ Exit PROVE HandlesInv'
  BY <1>8, <1>b, <1>d, <1>h
     DEF JoinServers, JoinFails, CloseDatabase, Exit, Release
<1>9. ASSUME ConnectionThread PROVE HandlesInv'
  BY <1>9, <1>a, <1>h, ThreadKeepsPhase DEF ConnectionThread, servers
<1>10. CASE UNCHANGED serveVars
  BY <1>10, <1>b DEF serveVars, servers
<1> QED
  BY <1>1, <1>2, <1>3, <1>4, <1>5, <1>6, <1>7, <1>8, <1>9, <1>10 DEF ServeNext, Running

(* What close() returned to a handle is final.                             *)
LEMMA ResultIsFinal ==
  ASSUME IInv, JoinInv, [Next]_vars, NEW h \in Handles, closeResult[h] # "none"
  PROVE  closeResult'[h] = closeResult[h]
<1>1. TypeOK /\ phase[h] = "gone"
  BY DEF IInv, JoinInv
<1> USE DEF channel, connection
<1>2. ASSUME NEW g \in Handles, Release(g) PROVE closeResult'[h] = closeResult[h]
  BY <1>1, <1>2 DEF Release, DropCloseHandle, IntoInner, Join, TypeOK
<1>3. \/ closeResult' = closeResult
      \/ \E g \in Handles : Release(g)
  BY DEF Next, Terminated, vars, Open, Clone, Call, CallClosed, CallReserve, Wake,
         TakePermit, Refused, Send, Answer, Abort, DropSender, BeginClose, Thread,
         Recv, RecvNone, Run, CheckClose, Optimize, Unwind
<1> QED
  BY <1>2, <1>3

LEMMA StoppedNext ==
  ASSUME IInv, JoinInv, ServeTypeOK, HandlesInv, StoppedInv, [ServeNext]_serveVars
  PROVE  StoppedInv'
<1> USE DEF StoppedInv, ClosedAfterConnections, ConnStep
<1>0. /\ TypeOK /\ conn \in [Conns -> {"none", "idle", "head", "reading", "calling",
                                      "writing", "ended", "cut"} \cup RequestKinds \cup Statuses]
      /\ RequestKinds \subseteq {"api", "static"} /\ Statuses = {"healthy", "unhealthy"}
  BY ServeAssumption DEF IInv, ServeTypeOK, Statuses
<1>h. /\ Conns \subseteq Handles /\ Conns = HttpConns \cup AdminConns
      /\ HttpConns \cap AdminConns = {}
      /\ {Root, HttpHandle, AdminHandle} \subseteq Handles \ Conns
  BY HandlesOfServer, ServeAssumption DEF Conns
<1>r. closeResult[Root] = "ok" => closeResult'[Root] = "ok"
  BY <1>h, ResultIsFinal, StepSimulates
(* Steps of a task, or of the connection thread, after which the servers   *)
(* are where they were.                                                    *)
<1>a. ASSUME UNCHANGED <<main, http, admin, conn>>,
             Left(HttpHandle) => Left(HttpHandle)', Left(AdminHandle) => Left(AdminHandle)'
      PROVE  StoppedInv'
  BY <1>r, <1>a
<1>b. ASSUME UNCHANGED vars, UNCHANGED <<main, http, admin, conn>> PROVE StoppedInv'
  BY <1>b, <1>r DEF vars, Left
<1>k. ASSUME NEW g \in Handles, KeepsPhase(g), Left(g) PROVE Left(g)'
  BY <1>k DEF KeepsPhase, Left
<1>1. ASSUME \/ \E r \in OpenOutcomes : OpenDatabase(r)
             \/ ConfigureHttp
             \/ \E enabled \in BOOLEAN : StartServers(enabled)
             \/ StartFails
             \/ Signal
      PROVE  StoppedInv'
  BY <1>1, <1>b DEF OpenDatabase, ConfigureHttp, StartServers, StartFails, Signal
<1>2. ASSUME HttpBind \/ HttpStop \/ HttpDone PROVE StoppedInv'
  BY <1>2 DEF HttpBind, HttpStop, HttpDone
<1>3. ASSUME AdminAcceptFails \/ AdminStop \/ AdminDone PROVE StoppedInv'
  BY <1>3 DEF AdminAcceptFails, AdminStop, AdminDone
<1>4. ASSUME NEW c \in HttpConns, HttpAccept(c) \/ HttpTask(c)
      PROVE  StoppedInv'
  <2>1. /\ UNCHANGED <<main, http, admin>>
        /\ http = "serving" \/ conn[c] \notin {"none", "ended"}
        /\ \A g \in Conns \ {c} : conn'[g] = conn[g]
    BY <1>0, <1>4
       DEF HttpAccept, HttpTask, HttpHead, HttpRequest, HttpHealthCheck, HttpRespond,
             Responses, HttpLeave, HttpClose
  <2>2. http # "done" /\ main \notin {"closing", "done"}
    BY <1>h, <2>1
  <2> QED
    BY <1>h, <2>1, <2>2
<1>5. ASSUME NEW c \in AdminConns, AdminAccept(c) PROVE StoppedInv'
  BY <1>0, <1>5, <1>h DEF AdminAccept
<1>6. ASSUME NEW c \in AdminConns, AdminTask(c) PROVE StoppedInv'
  <2>1. CASE UNCHANGED servers
    <3>1. TakePermit(c) \/ Send(c) \/ UNCHANGED vars
      BY <1>6, <2>1, <1>h, <1>0
         DEF AdminTask, AdminReadFails, AdminHealthCheck, AdminBackup, AdminBackupStep,
             AdminRespond, servers
    <3>2. KeepsPhase(HttpHandle) /\ KeepsPhase(AdminHandle)
      BY <1>h, <3>1, OthersKeepPhase DEF Wake, KeepsPhase, vars
    <3> QED
      BY <1>a, <1>h, <1>k, <2>1, <3>2 DEF servers
  <2>2. CASE \E from, to : from \subseteq {"reading", "calling", "writing"} /\ ConnStep(c, from, to)
    <3>1. /\ UNCHANGED <<main, http, admin>>
          /\ conn[c] \notin {"none", "ended"}
          /\ \A g \in Conns \ {c} : conn'[g] = conn[g]
      BY <1>0, <2>2
    <3>2. admin \notin {"none", "done"} /\ main \notin {"closing", "done"}
      BY <1>h, <3>1
    <3> QED
      BY <1>h, <3>1, <3>2
  <2>3. UNCHANGED servers
          \/ \E from, to : from \subseteq {"reading", "calling", "writing"} /\ ConnStep(c, from, to)
    BY <1>6
       DEF AdminTask, AdminReadFails, AdminHealthCheck, AdminBackup, AdminBackupStep,
           AdminRespond
  <2> QED
    BY <2>1, <2>2, <2>3
<1>7. ASSUME NEW h \in Handles, Drops(h) PROVE StoppedInv'
  <2>1. \A g \in {HttpHandle, AdminHandle} : Left(g) => Left(g)'
    <3>1. Abort(h) \/ DropSender(h) \/ Release(h)
      BY <1>7 DEF Drops, ConnDrop, TaskDrop, MainDrop, RootDrop, RuntimeDrop, Release
    <3>2. ASSUME NEW g \in {HttpHandle, AdminHandle}, g # h, Left(g) PROVE Left(g)'
      BY <1>h, <1>k, <3>1, <3>2, OthersKeepPhase
    <3>3. ~Left(h)
      BY <1>7
         DEF Drops, ConnDrop, TaskDrop, MainDrop, RootDrop, RuntimeDrop, Abort,
             DropSender, DropCloseHandle, Left
    <3> QED
      BY <3>2, <3>3
  <2>2. CASE UNCHANGED servers
    BY <1>a, <2>1, <2>2 DEF servers
  <2>3. CASE RuntimeDrop(h)
    <3>1. main' = main /\ main \in {"failed", "done"}
      BY <2>3 DEF RuntimeDrop
    <3>2. phase[h] # "none"
      BY <2>3 DEF RuntimeDrop, Abort, DropSender
    <3>3. /\ http' = http \/ http' = "cut"
          /\ admin' = admin \/ admin' = "cut"
      BY <2>3 DEF RuntimeDrop
    <3>4. \A c \in Conns : conn[c] \in {"none", "ended"} => conn'[c] = conn[c]
      BY <1>0, <2>3, <3>2 DEF RuntimeDrop, HandlesInv
    <3> QED
      BY <1>h, <1>r, <2>1, <3>1, <3>3, <3>4
  <2> QED
    BY <1>7, <2>2, <2>3 DEF Drops, ConnDrop, TaskDrop, MainDrop, RootDrop
<1>8. ASSUME JoinServers PROVE StoppedInv'
  <2>1. /\ main' = "closing" /\ UNCHANGED <<http, admin, conn>>
        /\ http = "done" /\ Left(HttpHandle) /\ admin = "done" /\ Left(AdminHandle)
    BY <1>8 DEF JoinServers
  <2>2. KeepsPhase(HttpHandle) /\ KeepsPhase(AdminHandle)
    BY <1>8, <1>h, ServeAssumption, OthersKeepPhase DEF JoinServers, BeginClose, KeepsPhase, Left
  <2> QED
    BY <1>h, <1>k, <2>1, <2>2
<1>9. ASSUME CloseDatabase PROVE StoppedInv'
  <2>1. /\ main = "closing" /\ main' \in {"closing", "done", "failed"}
        /\ main' = "done" => closeResult'[Root] = "ok"
        /\ UNCHANGED <<http, admin, conn>> /\ Release(Root)
    BY <1>9 DEF CloseDatabase, Release
  <2>2. \A g \in {HttpHandle, AdminHandle} : Left(g)'
    BY <1>9, <1>h, <1>k, <2>1, OthersKeepPhase DEF CloseDatabase, IntoInner, Join, Left
  <2> QED
    BY <2>1, <2>2
<1>10. ASSUME JoinFails \/ Exit PROVE StoppedInv'
  BY <1>10, <1>b DEF JoinFails, Exit
<1>11. ASSUME ConnectionThread PROVE StoppedInv'
  BY <1>11, <1>a, <1>h, <1>k, ThreadKeepsPhase DEF ConnectionThread, servers
<1>12. CASE UNCHANGED serveVars
  BY <1>12, <1>b DEF serveVars, servers
<1> QED
  BY <1>1, <1>2, <1>3, <1>4, <1>5, <1>6, <1>7, <1>8, <1>9, <1>10, <1>11, <1>12
     DEF ServeNext, Running

LEMMA ServersInductive == ServeSpec => [](IInv /\ JoinInv /\ ServersInv)
<1>1. ServeSpec => Spec
  BY ServerUsesDatabase
<1>2. ServeInit => ServersInv
  <2> SUFFICES ASSUME ServeInit PROVE ServersInv
    OBVIOUS
  <2>1. ServeTypeOK
    BY InitType DEF ServeInit, ServeTypeOK
  <2>2. HandlesInv
    BY HandlesOfServer, ServeAssumption DEF ServeInit, HandlesInv, Init, Statuses, Conns
  <2>3. StoppedInv
    BY DEF ServeInit, StoppedInv, ClosedAfterConnections, Conns
  <2> QED
    BY <2>1, <2>2, <2>3 DEF ServersInv
<1>3. IInv /\ JoinInv /\ ServersInv /\ [ServeNext]_serveVars => ServersInv'
  BY ServeTypeNext, HandlesNext, StoppedNext DEF ServersInv
<1> QED
  BY <1>1, <1>2, <1>3, Inductive, JoinInductive, PTL DEF ServeSpec

(* The variables of the process keep their types, for any number of        *)
(* connections.                                                            *)
THEOREM ServeTypeCorrect == ServeSpec => []ServeTypeOK
<1>1. ServersInv => ServeTypeOK
  BY DEF ServersInv
<1> QED
  BY <1>1, ServersInductive, PTL

(* run_servers() closes the database only after every connection that was  *)
(* accepted has had its response.                                          *)
THEOREM DatabaseClosesLast == ServeSpec => []ClosedAfterConnections
<1>1. ServersInv => ClosedAfterConnections
  BY DEF ServersInv, StoppedInv
<1> QED
  BY <1>1, ServersInductive, PTL

(* A process that ends without an error has run every closure that was     *)
(* sent, cut off no connection, and optimized and closed the database.     *)
THEOREM GracefulExitIsClean == ServeSpec => []OkExitIsClean
<1>1. IInv /\ JoinInv /\ ServersInv => OkExitIsClean
  <2> SUFFICES ASSUME IInv, JoinInv, ServersInv, main = "done"
               PROVE  /\ threadResult = "ok" /\ queue = <<>>
                      /\ \A c \in Conns : conn[c] # "cut"
    BY DEF OkExitIsClean
  <2>1. closeResult[Root] = "ok" /\ ClosedAfterConnections
    BY DEF ServersInv, StoppedInv
  <2>2. threadResult = "ok"
    BY <2>1, HandlesAssumption DEF JoinInv
  <2>3. queue = <<>>
    BY <2>2 DEF IInv, SafetyInv, QuietEnd
  <2> QED
    BY <2>1, <2>2, <2>3 DEF ClosedAfterConnections
<1> QED
  BY <1>1, ServersInductive, PTL

(* Nothing but run_servers() at its end calls close().                     *)
LEMMA OnlyCloseDatabaseCloses ==
  ASSUME [ServeNext]_serveVars, closeResult' # closeResult
  PROVE  CloseDatabase
<1> USE DEF vars
<1>1. ~UNCHANGED vars
  OBVIOUS
<1>2. ASSUME \/ \E r \in OpenOutcomes : OpenDatabase(r)
             \/ ConfigureHttp
             \/ \E enabled \in BOOLEAN : StartServers(enabled)
             \/ StartFails
             \/ Signal
      PROVE  FALSE
  BY <1>1, <1>2
     DEF OpenDatabase, ConfigureHttp, StartServers, StartFails, Signal, Open, Clone
<1>3. ASSUME HttpBind \/ HttpStop \/ HttpDone \/ AdminAcceptFails \/ AdminStop \/ AdminDone
      PROVE  FALSE
  BY <1>1, <1>3
     DEF HttpBind, HttpStop, HttpDone, AdminAcceptFails, AdminStop, AdminDone, DropSender
<1>4. ASSUME NEW c \in HttpConns, HttpAccept(c) \/ HttpTask(c)
      PROVE  FALSE
  BY <1>1, <1>4
     DEF HttpAccept, HttpTask, HttpHead, HttpRequest, HttpHealthCheck, HttpRespond,
             Responses, HttpLeave, HttpClose, Clone
<1>5. ASSUME NEW c \in AdminConns, AdminAccept(c) \/ AdminTask(c) PROVE FALSE
  BY <1>1, <1>5
     DEF AdminAccept, AdminTask, AdminReadFails, AdminHealthCheck, AdminBackup,
         AdminBackupStep, AdminRespond, Clone, CallReserve, CallClosed, TakePermit,
         Send, Refused, Answer
<1>6. ASSUME NEW h \in Handles, Drops(h) PROVE FALSE
  BY <1>6
     DEF Drops, ConnDrop, TaskDrop, MainDrop, RootDrop, RuntimeDrop, DropSender,
         DropCloseHandle, Abort
<1>7. ASSUME JoinServers \/ JoinFails \/ Exit \/ ConnectionThread PROVE FALSE
  BY <1>1, <1>7
     DEF JoinServers, JoinFails, Exit, ConnectionThread, BeginClose, Thread, Recv,
         RecvNone, Run, CheckClose, Optimize, Unwind
<1> QED
  BY <1>1, <1>2, <1>3, <1>4, <1>5, <1>6, <1>7 DEF ServeNext, Running, serveVars

(* When close() finds that another handle still exists, it is that of a    *)
(* connection's task that has ended its work.                              *)
THEOREM OnlyEndedTasksHoldHandles == ServeSpec => OpenConnectionIsLate
<1> DEFINE Late == closeResult'[Root] = "open_connection" /\ closeResult[Root] = "none" =>
                     \A h \in Owners \ {Root} : h \in Conns /\ conn[h] = "ended"
<1>1. IInv /\ JoinInv /\ ServersInv /\ [ServeNext]_serveVars => [Late]_serveVars
  <2> SUFFICES ASSUME IInv, JoinInv, ServersInv, [ServeNext]_serveVars,
                      closeResult'[Root] = "open_connection", closeResult[Root] = "none",
                      NEW h \in Owners \ {Root}
               PROVE  h \in Conns /\ conn[h] = "ended"
    OBVIOUS
  <2> USE DEF channel, connection
  <2>1. TypeOK /\ HandlesInv /\ StoppedInv
    BY DEF IInv, ServersInv
  <2>2. CloseDatabase
    BY OnlyCloseDatabaseCloses
  <2>3. \A c \in Conns : conn[c] \in {"none", "ended"}
    BY <2>1, <2>2 DEF CloseDatabase, StoppedInv, ClosedAfterConnections
  <2>4. h \in Handles \ {Root} /\ phase[h] \notin {"none", "gone"}
    BY DEF Owners
  <2>5. h \notin {HttpHandle, AdminHandle}
    BY <2>1, <2>2, <2>4 DEF CloseDatabase, StoppedInv, Left
  <2>6. h \in Conns
    BY <2>4, <2>5, ServeAssumption DEF Conns
  <2>7. conn[h] # "none"
    BY <2>1, <2>4, <2>6 DEF HandlesInv
  <2> QED
    BY <2>3, <2>6, <2>7
<1> QED
  BY <1>1, ServersInductive, PTL DEF ServeSpec, OpenConnectionIsLate

(* The answer to a health check comes from the request handler only.       *)
LEMMA OnlyHealthCheckTells ==
  ASSUME ServeTypeOK, [ServeNext]_serveVars, NEW c \in HttpConns,
         conn'[c] # conn[c], conn'[c] \in Statuses
  PROVE  HttpHealthCheck(c)
<1>0. /\ c \in Conns /\ c \notin AdminConns /\ conn \in [Conns -> {"none", "idle", "head",
            "reading", "calling", "writing", "ended", "cut"} \cup RequestKinds \cup Statuses]
      /\ RequestKinds \subseteq {"api", "static"} /\ Statuses = {"healthy", "unhealthy"}
  BY ServeAssumption DEF Conns, ServeTypeOK, Statuses
<1>1. conn' # conn
  OBVIOUS
<1>2. ASSUME \/ \E r \in OpenOutcomes : OpenDatabase(r)
             \/ ConfigureHttp
             \/ \E enabled \in BOOLEAN : StartServers(enabled)
             \/ StartFails
             \/ Signal
             \/ HttpBind \/ HttpStop \/ HttpDone
             \/ AdminAcceptFails \/ AdminStop \/ AdminDone
      PROVE  FALSE
  BY <1>1, <1>2
     DEF OpenDatabase, ConfigureHttp, StartServers, StartFails, Signal, HttpBind,
         HttpStop, HttpDone, AdminAcceptFails, AdminStop, AdminDone
<1>3. ASSUME NEW d \in HttpConns,
             HttpAccept(d) \/ HttpTask(d)
      PROVE  HttpHealthCheck(c)
  <2>1. d = c
    BY <1>0, <1>3
       DEF HttpAccept, HttpTask, HttpHead, HttpRequest, HttpHealthCheck, HttpRespond,
             Responses, HttpLeave, HttpClose, ConnStep
  <2> QED
    BY <1>0, <1>3, <2>1
       DEF HttpAccept, HttpTask, HttpHead, HttpRequest, HttpRespond, Responses,
           HttpLeave, HttpClose, ConnStep
<1>4. ASSUME NEW d \in AdminConns, AdminAccept(d) \/ AdminTask(d) PROVE FALSE
  <2>1. conn' = conn \/ \E to : conn' = [conn EXCEPT ![d] = to]
    BY <1>4
       DEF AdminAccept, AdminTask, AdminReadFails, AdminHealthCheck, AdminBackup,
           AdminBackupStep, AdminRespond, ConnStep, servers
  <2> QED
    BY <1>0, <2>1
<1>5. ASSUME NEW h \in Handles, Drops(h) PROVE FALSE
  BY <1>0, <1>5
     DEF Drops, ConnDrop, TaskDrop, MainDrop, RootDrop, RuntimeDrop, servers
<1>6. ASSUME JoinServers \/ JoinFails \/ CloseDatabase \/ Exit \/ ConnectionThread
      PROVE  FALSE
  BY <1>1, <1>6
     DEF JoinServers, JoinFails, CloseDatabase, Exit, ConnectionThread, servers
<1>7. ~UNCHANGED serveVars
  BY <1>1 DEF serveVars, servers
<1> QED
  BY <1>2, <1>3, <1>4, <1>5, <1>6, <1>7 DEF ServeNext, Running

(* The health check recommends a restart of the server only after the      *)
(* connection thread panicked, and never says that all is well after that  *)
(* thread has unwound.                                                     *)
THEOREM HealthCheckIsRight == ServeSpec => HealthCheckTells
<1> DEFINE Tells == \A c \in HttpConns :
                      conn'[c] # conn[c] =>
                        /\ conn'[c] = "unhealthy" => Panicked
                        /\ conn'[c] = "healthy" => threadResult # "panic"
<1>1. IInv /\ JoinInv /\ ServersInv /\ [ServeNext]_serveVars => [Tells]_serveVars
  <2> SUFFICES ASSUME IInv, JoinInv, ServersInv, [ServeNext]_serveVars,
                      NEW c \in HttpConns, conn'[c] # conn[c], conn'[c] \in Statuses
               PROVE  /\ conn'[c] = "unhealthy" => Panicked
                      /\ conn'[c] = "healthy" => threadResult # "panic"
    BY DEF Statuses
  <2>1. ServeTypeOK /\ HandlesInv /\ c \in Conns
    BY DEF ServersInv, Conns
  <2>2. HttpHealthCheck(c)
    BY <2>1, OnlyHealthCheckTells
  <2>3. conn[c] = "api" /\ conn'[c] = IF IsOpen THEN "healthy" ELSE "unhealthy"
    BY <2>1, <2>2 DEF HttpHealthCheck, ConnStep, ServeTypeOK
  <2>4. CASE IsOpen
    BY <2>3, <2>4 DEF IsOpen, JoinInv
  <2>5. CASE ~IsOpen
    <3>1. phase[c] = "idle" /\ c \in Handles
      BY <2>1, <2>3, HandlesOfServer DEF HandlesInv, ServeTypeOK, Statuses
    <3>2. threadResult = "panic"
      BY <2>5, <3>1, LivingMeansPanicked DEF IsOpen, IInv
    <3> QED
      BY <2>3, <2>5, <3>2 DEF Panicked
  <2> QED
    BY <2>4, <2>5
<1> QED
  BY <1>1, ServersInductive, PTL DEF ServeSpec, HealthCheckTells

(* What is proved of the database service for any use of it holds for the  *)
(* use the process makes of it: no permit of the channel is lost, the      *)
(* connection thread is joined at most once, and the calls of the          *)
(* connections' tasks see a service that runs each closure at most once,   *)
(* answers its own caller and refuses only after a panic.                  *)
THEOREM ServerUsesService ==
  ServeSpec => [](PermitsAccounted /\ LastCloseJoins) /\ ImplementsService
BY ServerUsesDatabase, PermitsAreNeverLost, ThreadIsJoinedOnce,
   DatabaseImplementsService, PTL
=============================================================================
