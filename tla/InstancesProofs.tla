--------------------------- MODULE InstancesProofs ---------------------------
(***************************************************************************)
(* Theorems about Instances and Config, for any number of processes, any   *)
(* environments, config files and edits.                                   *)
(***************************************************************************)
EXTENDS Instances, TLAPS

Asks(p) == Kind(p) \in {"backup", "health-check"}

(* What has been started is where its command can be, and what is past its *)
(* configuration has one.                                                  *)
StageAllows(p, stage) ==
  /\ stage = "none" => launch[p] = NoLaunch /\ config[p] = <<>>
  /\ stage \in {"logging", "database", "admin", "http", "running", "leaving",
                "killed"} => IsServer(p)
  /\ stage \in {"directory", "prune"} => Kind(p) = "backup" /\ Loaded(p)
  /\ stage \in {"connect", "asking"} => Asks(p) /\ Loaded(p)
  /\ stage \in {"open", "write"} => Kind(p) = "config-template"

StageInv ==
  /\ launch \in [Processes -> Launches \cup {NoLaunch}]
  /\ DOMAIN config = Processes /\ DOMAIN seen = Processes
  /\ DOMAIN written = Processes
  /\ \A p \in Processes : StageAllows(p, pc[p])

(* A name bound as an admin socket is that of the server that bound it.    *)
SocketInv ==
  \A s \in DOMAIN sockets : \A q \in Processes :
    sockets[s] = <<q, "admin">> =>
      IsServer(q) /\ config[q]["admin.enabled"] /\ AtSocket(q) = s

(* A command asks a server at its own admin socket, and what was done for  *)
(* it that server has allowed.                                             *)
Answered(p) ==
  /\ peer[p] # p =>
       /\ Asks(p) /\ Loaded(p) /\ pc[p] \in {"asking", "prune", "done", "failed"}
       /\ IsServer(peer[p]) /\ AtSocket(peer[p]) = AtSocket(p)
  /\ answer[p] # "none" => peer[p] # p
  /\ answer[p] = "ok" => Authorized(p, peer[p])
  /\ answer[p] = "ok" /\ Kind(p) = "backup" =>
       written[p] = <<Target(p, peer[p]), Database(peer[p])>>
  /\ written[p] # Unset => answer[p] = "ok"
  /\ Asks(p) /\ pc[p] \in {"prune", "done"} => answer[p] = "ok"

AnswerInv == \A p \in Processes : Answered(p)

(* Servers that are up have met, and a server that is up either has the    *)
(* name of its admin socket or has met the one that took it.               *)
ReachInv ==
  /\ \A p, q \in Processes :
       /\ q \in met[p] => IsServer(q)
       /\ Up(p) /\ Up(q) /\ p # q => q \in met[p]
  /\ \A p \in Processes :
       Listening(p) =>
         \/ AtSocket(p) \in DOMAIN sockets /\ sockets[AtSocket(p)] = <<p, "admin">>
         \/ Rivals(p) # {}

(* A process uses what it has loaded from its command line, its            *)
(* environment and the files as they were when it read them.               *)
ReadFiles(p) == [s \in DOMAIN seen[p] |-> [layer |-> seen[p][s]]]
LoadInv ==
  \A p \in Processes :
    Loaded(p) => /\ launch[p] \in Launches /\ Kind(p) # "config-template"
                 /\ config[p] = Load(launch[p], ReadFiles(p))
-----------------------------------------------------------------------------
(* Configurations.                                                         *)

LEMMA Added ==
  ASSUME NEW f, NEW x, NEW value
  PROVE  /\ DOMAIN Put(f, x, value) = DOMAIN f \cup {x}
         /\ Put(f, x, value)[x] = value
         /\ \A y \in DOMAIN f \ {x} : Put(f, x, value)[y] = f[y]
  BY DEF Put

LEMMA OptionsRead ==
  ASSUME NEW kind
  PROVE  /\ Reads(kind) \subseteq Options /\ Reads(kind) # {}
         /\ DOMAIN Defaults = Options
  BY DEF Reads, Options, AdminConfig, LogConfig, DatabaseConfig,
         DatabaseBackupConfig, HttpServerConfig, Defaults

LEMMA DefaultsAreValid == \A o \in Options : Valid(o, Defaults[o])
<1> SUFFICES ASSUME NEW o \in Options PROVE Valid(o, Defaults[o])
  OBVIOUS
<1>1. CASE o \in {"admin.timeout", "database.backup.keep_last"}
  <2>1. o = "admin.timeout" => Defaults[o] = 5
    BY DEF Defaults
  <2>2. o = "database.backup.keep_last" => Defaults[o] = 5
    BY DEF Defaults
  <2> QED
    BY <1>1, <2>1, <2>2 DEF Valid, MaxTimeout, MaxBackups
<1>2. CASE o = "http.bind_address"
  <2>1. Defaults[o] = <<"0.0.0.0">>
    BY <1>2 DEF Defaults
  <2>2. IsIp(<<"0.0.0.0">>)
    BY DEF IsIp
  <2> QED
    BY <1>2, <2>1, <2>2 DEF Valid
<1>3. CASE o = "http.port"
  <2>1. Defaults[o] = 8080
    BY <1>3 DEF Defaults
  <2> QED
    BY <1>3, <2>1 DEF Valid, MaxPort
<1>4. CASE o = "log.output"
  <2>1. Defaults[o] = "stdout"
    BY <1>4 DEF Defaults
  <2> QED
    BY <1>4, <2>1 DEF Valid
<1>5. CASE o \notin {"admin.timeout", "database.backup.keep_last",
                    "http.bind_address", "http.port", "log.output"}
  BY <1>5 DEF Valid
<1> QED
  BY <1>1, <1>2, <1>3, <1>4, <1>5

LEMMA LoadReads ==
  ASSUME NEW l, NEW fs
  PROVE  DOMAIN Load(l, fs) = Reads(l.kind)
  BY DEF Load, Restrict

(* What a layer or the one it falls back on sets.                          *)
LEMMA LoadedFrom ==
  ASSUME NEW l, NEW fs, NEW o \in Reads(l.kind)
  PROVE  Load(l, fs)[o] =
           IF o \in DOMAIN Cli(l) THEN Cli(l)[o]
           ELSE IF o \in DOMAIN Files(l, fs) THEN Files(l, fs)[o]
           ELSE Defaults[o]
<1> DEFINE rest == Fallback(Files(l, fs), Defaults)
<1>1. Load(l, fs)[o] = Fallback(Cli(l), rest)[o]
  BY DEF Load, Restrict
<1>2. o \in DOMAIN Defaults
  BY OptionsRead
<1>3. rest[o] = IF o \in DOMAIN Files(l, fs) THEN Files(l, fs)[o] ELSE Defaults[o]
  BY <1>2 DEF Fallback
<1>4. o \in DOMAIN rest
  BY <1>2 DEF Fallback
<1> HIDE DEF rest
<1>5. Fallback(Cli(l), rest)[o] = IF o \in DOMAIN Cli(l) THEN Cli(l)[o] ELSE rest[o]
  BY <1>4 DEF Fallback
<1> QED
  BY <1>1, <1>3, <1>5

(* Each value from a file is one that a file which is read has.            *)
LEMMA FromAFile ==
  ASSUME NEW l, NEW fs, NEW o \in DOMAIN Files(l, fs)
  PROVE  \E s \in Present(l, fs) :
           o \in DOMAIN fs[s].layer /\ Files(l, fs)[o] = fs[s].layer[o]
<1>0. \A s : o \in DOMAIN Layer(s, fs) => s \in DOMAIN fs /\ Layer(s, fs) = fs[s].layer
  BY DEF Layer
<1>1. CASE l.config_file # Unset
  <2>1. Files(l, fs) = Layer(GivenFile(l), fs) /\ Sources(l) = {GivenFile(l)}
    BY <1>1 DEF Files, Sources
  <2> QED
    BY <1>0, <2>1 DEF Present
<1>2. CASE l.config_file = Unset
  <2> DEFINE a == Layer(LocalFile(l), fs)
             b == Layer(UserFile(l), fs)
             c == Layer(SystemFile, fs)
  <2>1. /\ Files(l, fs) = Fallback(a, Fallback(b, c))
        /\ Sources(l) = {LocalFile(l), UserFile(l), SystemFile}
    BY <1>2 DEF Files, Sources, StandardFiles
  <2> HIDE DEF a, b, c
  <2>2. \/ o \in DOMAIN a /\ Files(l, fs)[o] = a[o]
        \/ o \in DOMAIN b /\ Files(l, fs)[o] = b[o]
        \/ o \in DOMAIN c /\ Files(l, fs)[o] = c[o]
    <3>1. o \in DOMAIN a \/ o \in DOMAIN b \/ o \in DOMAIN c
      BY <2>1 DEF Fallback
    <3>2. CASE o \in DOMAIN a
      BY <2>1, <3>2 DEF Fallback
    <3>3. CASE o \notin DOMAIN a
      BY <2>1, <3>1, <3>3 DEF Fallback
    <3> QED
      BY <3>2, <3>3
  <2> QED
    BY <1>0, <2>1, <2>2 DEF Present, a, b, c
<1> QED
  BY <1>1, <1>2

(* No value that is rejected gets past load_config().                      *)
LEMMA LoadValidates ==
  ASSUME NEW l, NEW fs, ~LoadFails(l, fs), NEW o \in Reads(l.kind)
  PROVE  Valid(o, Load(l, fs)[o])
<1>1. CASE o \in DOMAIN Cli(l)
  BY <1>1, LoadedFrom DEF LoadFails
<1>2. CASE o \notin DOMAIN Cli(l) /\ o \in DOMAIN Files(l, fs)
  <2>1. PICK s \in Present(l, fs) :
          o \in DOMAIN fs[s].layer /\ Files(l, fs)[o] = fs[s].layer[o]
    BY <1>2, FromAFile
  <2> QED
    BY <1>2, <2>1, LoadedFrom DEF LoadFails
<1>3. CASE o \notin DOMAIN Cli(l) /\ o \notin DOMAIN Files(l, fs)
  <2>1. o \in Options
    BY OptionsRead
  <2> QED
    BY <1>3, <2>1, LoadedFrom, DefaultsAreValid
<1> QED
  BY <1>1, <1>2, <1>3

(* Only the layers of the files at the sources matter.                     *)
LEMMA LoadIsLocal ==
  ASSUME NEW l, NEW fs
  PROVE  LET read == [s \in Present(l, fs) |-> [layer |-> fs[s].layer]]
         IN  Load(l, fs) = Load(l, read)
<1> DEFINE read == [s \in Present(l, fs) |-> [layer |-> fs[s].layer]]
<1>1. \A s \in Sources(l) : Layer(s, fs) = Layer(s, read)
  BY DEF Layer, Present
<1>2. Files(l, fs) = Files(l, read)
  <2> HIDE DEF read
  <2>1. CASE l.config_file # Unset
    BY <1>1, <2>1 DEF Files, Sources
  <2>2. CASE l.config_file = Unset
    <3>1. /\ Layer(LocalFile(l), fs) = Layer(LocalFile(l), read)
          /\ Layer(UserFile(l), fs) = Layer(UserFile(l), read)
          /\ Layer(SystemFile, fs) = Layer(SystemFile, read)
      BY <1>1, <2>2 DEF Sources
    <3> QED
      BY <2>2, <3>1 DEF Files, StandardFiles
  <2> QED
    BY <2>1, <2>2
<1> QED
  BY <1>2 DEF Load

-----------------------------------------------------------------------------
(* Types and stages.                                                       *)

States == {"none", "logging", "database", "admin", "http", "running", "leaving",
           "directory", "connect", "asking", "prune", "open", "write", "done",
           "failed", "killed"}

LEMMA TypeInit == Init => TypeOK /\ StageInv
<1> SUFFICES ASSUME Init PROVE TypeOK /\ StageInv
  OBVIOUS
<1>1. TypeOK
  BY DEF Init, TypeOK
<1>2. StageInv
  BY DEF Init, StageInv, StageAllows
<1> QED
  BY <1>1, <1>2

(* Starting a process: what it is started with, and where it begins.       *)
LEMMA Started ==
  ASSUME TypeOK, StageInv, NEW p \in Processes, NEW l \in Launches, Start(p, l)
  PROVE  /\ pc[p] = "none" /\ launch' = [launch EXCEPT ![p] = l] /\ l.kind \in Kinds
         /\ UNCHANGED <<disk, request, met>>
         /\ \E to \in States \ {"none"} :
              /\ pc' = [pc EXCEPT ![p] = to]
              /\ \/ to = First(l.kind) /\ error' = error
                 \/ to = "failed" /\ error' = [error EXCEPT ![p] = "config"]
              /\ \/ /\ l.kind # "config-template" /\ to = First(l.kind)
                    /\ ~LoadFails(l, files)
                    /\ config' = [config EXCEPT ![p] = Load(l, files)]
                    /\ seen' = [seen EXCEPT ![p] =
                                  [s \in Present(l, files) |-> files[s].layer]]
                 \/ /\ l.kind = "config-template" \/ to = "failed"
                    /\ UNCHANGED <<config, seen>>
<1>1. First(l.kind) \in States \ {"none"}
  BY LaunchesAssumption DEF First, States, Kinds
<1>2. "failed" \in States \ {"none"}
  BY DEF States
<1> QED
  BY <1>1, <1>2, LaunchesAssumption DEF Start, Go, Because

LEMMA OthersStay ==
  ASSUME TypeOK, StageInv, NEW p \in Processes, NEW l \in Launches, Start(p, l),
         NEW q \in Processes, q # p
  PROVE  /\ launch'[q] = launch[q] /\ config'[q] = config[q] /\ seen'[q] = seen[q]
         /\ pc'[q] = pc[q] /\ error'[q] = error[q]
<1>1. launch'[q] = launch[q]
  BY Started DEF StageInv
<1>2. config'[q] = config[q] /\ seen'[q] = seen[q]
  <2>1. \/ UNCHANGED <<config, seen>>
        \/ /\ config' = [config EXCEPT ![p] = Load(l, files)]
           /\ seen' = [seen EXCEPT ![p] = [s \in Present(l, files) |-> files[s].layer]]
    BY Started
  <2> QED
    BY <2>1 DEF StageInv
<1>3. \E to : pc' = [pc EXCEPT ![p] = to]
  BY Started
<1>4. pc'[q] = pc[q]
  BY <1>3 DEF TypeOK
<1>5. error' = error \/ error' = [error EXCEPT ![p] = "config"]
  BY Started
<1>6. error'[q] = error[q]
  BY <1>5 DEF TypeOK
<1> QED
  BY <1>1, <1>2, <1>4, <1>6

(* What a configuration means stays as long as it does.                    *)
LEMMA SameConfig ==
  ASSUME NEW p, launch'[p] = launch[p], config'[p] = config[p]
  PROVE  /\ AtSocket(p)' = AtSocket(p) /\ Address(p)' = Address(p)
         /\ Database(p)' = Database(p) /\ BackupsOf(p)' = BackupsOf(p)
         /\ Kind(p)' = Kind(p) /\ (IsServer(p)' <=> IsServer(p))
         /\ (Asks(p)' <=> Asks(p)) /\ (Loaded(p)' <=> Loaded(p))
<1>1. /\ AtSocket(p)' = AtSocket(p) /\ Address(p)' = Address(p)
      /\ Database(p)' = Database(p) /\ BackupsOf(p)' = BackupsOf(p)
  BY DEF AtSocket, Address, Database, BackupsOf
<1>2. /\ Kind(p)' = Kind(p) /\ (IsServer(p)' <=> IsServer(p))
      /\ (Asks(p)' <=> Asks(p)) /\ (Loaded(p)' <=> Loaded(p))
  BY DEF Kind, IsServer, Loaded, Asks
<1> QED
  BY <1>1, <1>2

Moves(p) ==
  Fails(p) \/ Serve(p) \/ AskServer(p)
    \/ OpenFile(p) \/ OpenFileFails(p) \/ WriteTemplate(p)

(* A step of a process that has been started leaves what it was started    *)
(* with and has loaded, and other processes where they are.                *)
LEMMA Moved ==
  ASSUME TypeOK, StageInv, AnswerInv, NEW p \in Processes, Moves(p)
  PROVE  /\ UNCHANGED <<launch, config, seen>>
         /\ pc[p] # "none"
         /\ \E to \in States \ {"none"} :
              pc' = [pc EXCEPT ![p] = to] /\ StageAllows(p, to)
<1> DEFINE Goes(to) == pc' = [pc EXCEPT ![p] = to] /\ StageAllows(p, to)
<1> USE DEF started, history, disk, request, Go, Because
<1>0. StageAllows(p, pc[p]) /\ pc[p] \in States
  BY DEF TypeOK, StageInv, States
<1>s. /\ StageAllows(p, "failed") /\ StageAllows(p, "done")
      /\ IsServer(p) => \A to \in {"database", "admin", "http", "running", "leaving",
                                   "killed"} : StageAllows(p, to)
      /\ Asks(p) /\ Loaded(p) => StageAllows(p, "connect") /\ StageAllows(p, "asking")
      /\ Kind(p) = "backup" /\ Loaded(p) => StageAllows(p, "prune")
      /\ Kind(p) = "config-template" => StageAllows(p, "write")
  BY DEF StageAllows
<1>t. /\ pc[p] \in {"logging", "database", "admin", "http", "running", "leaving"}
           => IsServer(p)
      /\ pc[p] = "directory" => Kind(p) = "backup" /\ Asks(p) /\ Loaded(p)
      /\ pc[p] \in {"connect", "asking"} => Asks(p) /\ Loaded(p)
      /\ pc[p] = "open" => Kind(p) = "config-template"
  BY <1>0 DEF StageAllows, Asks
<1>a. ASSUME NEW to \in States \ {"none"}, Goes(to), pc[p] # "none",
             UNCHANGED <<launch, config, seen>>
      PROVE  /\ UNCHANGED <<launch, config, seen>> /\ pc[p] # "none"
             /\ \E s \in States \ {"none"} :
                  pc' = [pc EXCEPT ![p] = s] /\ StageAllows(p, s)
  BY <1>a
<1> HIDE DEF Goes
<1>b. {"database", "admin", "http", "running", "leaving", "killed", "connect", "asking",
       "prune", "write", "done", "failed"} \subseteq States \ {"none"}
  BY DEF States
<1>1. CASE Fails(p)
  <2>1. CASE pc[p] = "http"
    <3>1. Goes("leaving") /\ UNCHANGED <<launch, config, seen>>
      BY <1>1, <1>s, <1>t, <2>1 DEF Fails, Goes
    <3> QED
      BY <1>a, <1>b, <2>1, <3>1
  <2>2. CASE pc[p] # "http"
    <3>1. Goes("failed") /\ UNCHANGED <<launch, config, seen>> /\ pc[p] # "none"
      BY <1>1, <1>s, <2>2 DEF Fails, Goes
    <3> QED
      BY <1>a, <1>b, <3>1
  <2> QED
    BY <2>1, <2>2
<1>2. CASE InitLogging(p)
  <2>1. Goes("database") /\ UNCHANGED <<launch, config, seen>> /\ pc[p] # "none"
    BY <1>2, <1>s, <1>t DEF InitLogging, Goes
  <2> QED
    BY <1>a, <1>b, <2>1
<1>3. CASE OpenDatabase(p)
  <2>1. Goes("admin") /\ UNCHANGED <<launch, config, seen>> /\ pc[p] # "none"
    BY <1>3, <1>s, <1>t DEF OpenDatabase, Goes
  <2> QED
    BY <1>a, <1>b, <2>1
<1>4. CASE BindAdmin(p)
  <2>1. Goes("http") /\ UNCHANGED <<launch, config, seen>> /\ pc[p] # "none"
    BY <1>4, <1>s, <1>t DEF BindAdmin, Goes
  <2> QED
    BY <1>a, <1>b, <2>1
<1>5. CASE BindHttp(p)
  <2>1. Goes("running") /\ UNCHANGED <<launch, config, seen>> /\ pc[p] # "none"
    BY <1>5, <1>s, <1>t DEF BindHttp, Goes
  <2> QED
    BY <1>a, <1>b, <2>1
<1>6. CASE BindHttpFails(p) \/ Stop(p)
  <2>1. Goes("leaving") /\ UNCHANGED <<launch, config, seen>> /\ pc[p] # "none"
    BY <1>6, <1>s, <1>t DEF BindHttpFails, Stop, Goes
  <2> QED
    BY <1>a, <1>b, <2>1
<1>7. CASE Leave(p)
  <2>1. /\ Goes("done") \/ Goes("failed")
        /\ UNCHANGED <<launch, config, seen>> /\ pc[p] # "none"
    BY <1>7, <1>s DEF Leave, Goes
  <2> QED
    BY <1>a, <1>b, <2>1
<1>8. CASE Kill(p)
  <2>1. Goes("killed") /\ UNCHANGED <<launch, config, seen>> /\ pc[p] # "none"
    BY <1>8, <1>s, <1>t DEF Kill, Up, Goes
  <2> QED
    BY <1>a, <1>b, <2>1
<1>9. CASE MakeBackupDir(p)
  <2>1. Goes("connect") /\ UNCHANGED <<launch, config, seen>> /\ pc[p] # "none"
    BY <1>9, <1>s, <1>t DEF MakeBackupDir, Goes
  <2> QED
    BY <1>a, <1>b, <2>1
<1>10. CASE \E q \in Processes : Connect(p, q)
  <2>1. Goes("asking") /\ UNCHANGED <<launch, config, seen>> /\ pc[p] # "none"
    BY <1>10, <1>s, <1>t DEF Connect, Goes
  <2> QED
    BY <1>a, <1>b, <2>1
<1>11. CASE ConnectFails(p) \/ ReceiveFails(p) \/ OpenFileFails(p)
  <2>1. Goes("failed") /\ UNCHANGED <<launch, config, seen>> /\ pc[p] # "none"
    BY <1>11, <1>s DEF ConnectFails, ReceiveFails, OpenFileFails, Goes
  <2> QED
    BY <1>a, <1>b, <2>1
<1>12. CASE Handle(p)
  <2>1. pc[p] # "none"
    BY <1>12 DEF Handle, AnswerInv, Answered
  <2>2. Goes(pc[p]) /\ UNCHANGED <<launch, config, seen>>
    BY <1>0, <1>12 DEF Handle, TypeOK, Goes
  <2> QED
    BY <1>0, <1>a, <2>1, <2>2
<1>13. CASE Receive(p)
  <2>1. CASE Kind(p) = "backup"
    <3>1. Goes("prune") /\ UNCHANGED <<launch, config, seen>> /\ pc[p] # "none"
      BY <1>13, <1>s, <1>t, <2>1 DEF Receive, Goes
    <3> QED
      BY <1>a, <1>b, <3>1
  <2>2. CASE Kind(p) # "backup"
    <3>1. Goes("done") /\ UNCHANGED <<launch, config, seen>> /\ pc[p] # "none"
      BY <1>13, <1>s, <2>2 DEF Receive, Goes
    <3> QED
      BY <1>a, <1>b, <3>1
  <2> QED
    BY <2>1, <2>2
<1>14. CASE Prune(p) \/ WriteTemplate(p)
  <2>1. Goes("done") /\ UNCHANGED <<launch, config, seen>> /\ pc[p] # "none"
    BY <1>14, <1>s DEF Prune, WriteTemplate, Goes
  <2> QED
    BY <1>a, <1>b, <2>1
<1>15. CASE OpenFile(p)
  <2>1. Goes("write") /\ UNCHANGED <<launch, config, seen>> /\ pc[p] # "none"
    BY <1>15, <1>s, <1>t DEF OpenFile, Goes
  <2> QED
    BY <1>a, <1>b, <2>1
<1> QED
  BY <1>1, <1>2, <1>3, <1>4, <1>5, <1>6, <1>7, <1>8, <1>9, <1>10, <1>11, <1>12,
     <1>13, <1>14, <1>15
     DEF Moves, Serve, AskServer

(* Every step is the start of a process, a step of a started one, or an    *)
(* edit of a config file.                                                  *)
LEMMA Steps ==
  ASSUME [Next]_vars
  PROVE  \/ \E p \in Processes : \E l \in Launches : Start(p, l)
         \/ \E p \in Processes : Moves(p)
         \/ \E e \in Edits : Edit(e[1], e[2])
         \/ UNCHANGED vars
  BY DEF Next, Moves

(* What a process was started with and has loaded stays.                   *)
LEMMA Kept ==
  ASSUME TypeOK, StageInv, AnswerInv, [Next]_vars, NEW p \in Processes, pc[p] # "none"
  PROVE  /\ launch'[p] = launch[p] /\ config'[p] = config[p] /\ seen'[p] = seen[p]
         /\ pc'[p] # "none"
<1>1. ASSUME NEW q \in Processes, NEW l \in Launches, Start(q, l)
      PROVE  /\ launch'[p] = launch[p] /\ config'[p] = config[p] /\ seen'[p] = seen[p]
             /\ pc'[p] # "none"
  <2>1. p # q
    BY <1>1, Started
  <2> QED
    BY <1>1, <2>1, OthersStay
<1>2. ASSUME NEW q \in Processes, Moves(q)
      PROVE  /\ launch'[p] = launch[p] /\ config'[p] = config[p] /\ seen'[p] = seen[p]
             /\ pc'[p] # "none"
  BY <1>2, Moved DEF TypeOK
<1> QED
  BY <1>1, <1>2, Steps DEF Edit, vars, started, history

LEMMA StageNext ==
  ASSUME TypeOK, StageInv, AnswerInv, [Next]_vars
  PROVE  StageInv'
<1>1. ASSUME NEW p \in Processes, NEW l \in Launches, Start(p, l) PROVE StageInv'
  <2>1. PICK to \in States \ {"none"} :
          /\ pc' = [pc EXCEPT ![p] = to]
          /\ \/ /\ l.kind # "config-template" /\ to = First(l.kind)
                /\ config' = [config EXCEPT ![p] = Load(l, files)]
                /\ seen' = [seen EXCEPT ![p] =
                              [s \in Present(l, files) |-> files[s].layer]]
             \/ /\ \/ l.kind = "config-template" /\ to = First(l.kind)
                   \/ to = "failed"
                /\ UNCHANGED <<config, seen>>
    BY <1>1, Started
  <2>2. /\ pc[p] = "none" /\ launch' = [launch EXCEPT ![p] = l] /\ l.kind \in Kinds
        /\ UNCHANGED <<disk, request, met>>
    BY <1>1, Started
  <2>3. /\ launch' \in [Processes -> Launches \cup {NoLaunch}]
        /\ DOMAIN config' = Processes /\ DOMAIN seen' = Processes
        /\ DOMAIN written' = Processes
    BY <2>1, <2>2 DEF StageInv, request
  <2>4. ASSUME NEW q \in Processes \ {p} PROVE StageAllows(q, pc[q])'
    <3>1. /\ launch'[q] = launch[q] /\ config'[q] = config[q] /\ pc'[q] = pc[q]
          /\ StageAllows(q, pc[q])
      BY <1>1, OthersStay DEF StageInv
    <3> QED
      BY <3>1, SameConfig DEF StageAllows
  <2>5. ASSUME pc'[p] = to PROVE StageAllows(p, pc[p])'
    <3>1. Kind(p)' = l.kind
      BY <2>2 DEF StageInv, Kind
    <3>2. l.kind # "config-template" /\ to = First(l.kind) => Loaded(p)'
      <4>1. config' = [config EXCEPT ![p] = Load(l, files)] => config'[p] = Load(l, files)
        BY DEF StageInv
      <4>2. Load(l, files) # <<>>
        <5>1. DOMAIN Load(l, files) # {}
          BY LoadReads, OptionsRead
        <5>2. DOMAIN <<>> = {}
          OBVIOUS
        <5> QED
          BY <5>1, <5>2
      <4>3. First("config-template") # "failed" /\ First("serve") # "failed"
            /\ First("backup") # "failed" /\ First("health-check") # "failed"
        BY DEF First
      <4> QED
        BY <2>1, <2>2, <4>1, <4>2, <4>3 DEF Loaded, Kinds
    <3>3. /\ First("serve") = "logging" /\ First("backup") = "directory"
          /\ First("health-check") = "connect" /\ First("config-template") = "open"
      BY DEF First
    <3> QED
      BY <2>1, <2>2, <2>5, <3>1, <3>2, <3>3 DEF StageAllows, IsServer, Asks, Kinds
  <2>6. pc'[p] = to
    BY <2>1 DEF TypeOK
  <2> QED
    BY <2>3, <2>4, <2>5, <2>6 DEF StageInv
<1>2. ASSUME NEW p \in Processes, Moves(p) PROVE StageInv'
  <2>1. PICK to \in States \ {"none"} :
          pc' = [pc EXCEPT ![p] = to] /\ StageAllows(p, to)
    BY <1>2, Moved
  <2>2. UNCHANGED <<launch, config, seen>>
    BY <1>2, Moved
  <2>4. ASSUME NEW q \in Processes PROVE StageAllows(q, pc[q])'
    <3>1. launch'[q] = launch[q] /\ config'[q] = config[q]
      BY <2>2
    <3>2. CASE q = p
      <4>1. pc'[q] = to
        BY <2>1, <3>2 DEF TypeOK
      <4> QED
        BY <2>1, <3>1, <3>2, <4>1, SameConfig DEF StageAllows
    <3>3. CASE q # p
      <4>1. pc'[q] = pc[q] /\ StageAllows(q, pc[q])
        BY <2>1, <3>3 DEF TypeOK, StageInv
      <4> QED
        BY <3>1, <4>1, SameConfig DEF StageAllows
    <3> QED
      BY <3>2, <3>3
  <2>5. DOMAIN written' = Processes
    <3>1. CASE Handle(p)
      BY <3>1 DEF Handle, StageInv
    <3>2. CASE ~Handle(p)
      BY <1>2, <3>2
         DEF Moves, Fails, Serve, InitLogging, OpenDatabase, BindAdmin, BindHttp,
             BindHttpFails, Stop, Leave, Kill, AskServer, MakeBackupDir, Connect,
             ConnectFails, Receive, ReceiveFails, Prune, OpenFile, OpenFileFails,
             WriteTemplate, request, StageInv
    <3> QED
      BY <3>1, <3>2
  <2> QED
    BY <2>2, <2>4, <2>5 DEF StageInv
<1>3. ASSUME UNCHANGED <<pc, launch, config, seen, written>> PROVE StageInv'
  <2>1. ASSUME NEW q \in Processes PROVE StageAllows(q, pc[q])'
    BY <1>3, SameConfig DEF StageInv, StageAllows
  <2> QED
    BY <1>3, <2>1 DEF StageInv
<1> QED
  BY <1>1, <1>2, <1>3, Steps DEF Edit, vars, started, history, request

-----------------------------------------------------------------------------
(* What the steps touch.                                                   *)

(* Each of the variables that processes share or keep about their requests *)
(* is changed by a few steps only.                                         *)
LEMMA Touched ==
  ASSUME [Next]_vars
  PROVE  /\ \/ sockets' = sockets
            \/ \E p \in Processes : BindAdmin(p) \/ BindHttp(p) \/ Leave(p)
         /\ met' = met \/ \E p \in Processes : BindAdmin(p)
         /\ peer' = peer \/ \E p, q \in Processes : Connect(p, q)
         /\ UNCHANGED <<answer, written>> \/ \E p \in Processes : Handle(p)
         /\ \/ files' = files
            \/ \E p \in Processes : OpenFile(p) \/ WriteTemplate(p)
            \/ \E e \in Edits : Edit(e[1], e[2])
         /\ directories \subseteq directories'
<1> USE DEF disk, request, history, MakeDir
<1>1. ASSUME NEW p \in Processes, NEW l \in Launches, Start(p, l)
      PROVE  UNCHANGED <<sockets, met, peer, answer, written, files, directories>>
  BY <1>1 DEF Start
<1>2. ASSUME NEW p \in Processes, Fails(p)
      PROVE  UNCHANGED <<sockets, met, peer, answer, written, files, directories>>
  BY <1>2 DEF Fails
<1>3. ASSUME NEW p \in Processes, Serve(p)
      PROVE  /\ sockets' = sockets \/ BindAdmin(p) \/ BindHttp(p) \/ Leave(p)
             /\ met' = met \/ BindAdmin(p)
             /\ UNCHANGED <<peer, answer, written, files>>
             /\ directories \subseteq directories'
  <2>1. CASE InitLogging(p)
    BY <2>1 DEF InitLogging
  <2>2. CASE OpenDatabase(p)
    BY <2>2 DEF OpenDatabase
  <2>3. CASE BindAdmin(p)
    BY <2>3 DEF BindAdmin
  <2>4. CASE BindHttp(p)
    BY <2>4 DEF BindHttp
  <2>5. CASE BindHttpFails(p) \/ Stop(p) \/ Leave(p) \/ Kill(p)
    BY <2>5 DEF BindHttpFails, Stop, Leave, Kill
  <2> QED
    BY <1>3, <2>1, <2>2, <2>3, <2>4, <2>5 DEF Serve
<1>4. ASSUME NEW p \in Processes, AskServer(p)
      PROVE  /\ UNCHANGED <<sockets, met, files>>
             /\ peer' = peer \/ \E q \in Processes : Connect(p, q)
             /\ UNCHANGED <<answer, written>> \/ Handle(p)
             /\ directories \subseteq directories'
  <2>1. CASE MakeBackupDir(p)
    BY <2>1 DEF MakeBackupDir
  <2>2. CASE \E q \in Processes : Connect(p, q)
    BY <2>2 DEF Connect
  <2>3. CASE Handle(p)
    BY <2>3 DEF Handle
  <2>4. CASE ConnectFails(p) \/ Receive(p) \/ ReceiveFails(p) \/ Prune(p)
    BY <2>4 DEF ConnectFails, Receive, ReceiveFails, Prune
  <2> QED
    BY <1>4, <2>1, <2>2, <2>3, <2>4 DEF AskServer
<1>5. ASSUME NEW p \in Processes, OpenFile(p) \/ OpenFileFails(p) \/ WriteTemplate(p)
      PROVE  /\ UNCHANGED <<sockets, met, peer, answer, written, directories>>
             /\ files' = files \/ OpenFile(p) \/ WriteTemplate(p)
  BY <1>5 DEF OpenFile, OpenFileFails, WriteTemplate
<1>6. ASSUME NEW e \in Edits, Edit(e[1], e[2])
      PROVE  UNCHANGED <<sockets, met, peer, answer, written, directories>>
  BY <1>6 DEF Edit
<1> QED
  BY <1>1, <1>2, <1>3, <1>4, <1>5, <1>6, Steps DEF Moves, vars

Reasons == {"none", "config", "io", "in_use", "disabled", "unreachable", "error",
            "lost", "exists"}

(* An error is that of a process which has been started, and it is about   *)
(* an address in use only if the server found it so.                       *)
LEMMA Errors ==
  ASSUME [Next]_vars
  PROVE  \/ error' = error
         \/ \E p \in Processes : BindHttpFails(p)
         \/ \E p \in Processes : \E e \in Reasons \ {"in_use"} :
              /\ error' = [error EXCEPT ![p] = e]
              /\ \E to \in {"failed", "leaving"} : pc' = [pc EXCEPT ![p] = to]
<1> DEFINE Errs(p) == \E e \in Reasons \ {"in_use"} :
              /\ error' = [error EXCEPT ![p] = e]
              /\ \E to \in {"failed", "leaving"} : pc' = [pc EXCEPT ![p] = to]
<1> USE DEF Go, Because
<1>a. ASSUME NEW p, NEW e \in Reasons \ {"in_use"}, NEW to \in {"failed", "leaving"},
             Because(p, e), pc' = [pc EXCEPT ![p] = to]
      PROVE  Errs(p)
  BY <1>a
<1>b. {"none", "config", "io", "disabled", "unreachable", "error", "lost", "exists"}
        \subseteq Reasons \ {"in_use"}
  BY DEF Reasons
<1> HIDE DEF Errs
<1>1. ASSUME NEW p \in Processes, NEW l \in Launches, Start(p, l)
      PROVE  error' = error \/ Errs(p)
  BY <1>1, <1>a, <1>b DEF Start
<1>2. ASSUME NEW p \in Processes, Fails(p) PROVE Errs(p)
  BY <1>2, <1>a, <1>b DEF Fails
<1>3. ASSUME NEW p \in Processes, Serve(p) PROVE error' = error \/ BindHttpFails(p)
  BY <1>3 DEF Serve, InitLogging, OpenDatabase, BindAdmin, BindHttp, Stop, Leave, Kill
<1>4. ASSUME NEW p \in Processes, AskServer(p) PROVE error' = error \/ Errs(p)
  <2>1. CASE ConnectFails(p)
    BY <2>1, <1>a, <1>b DEF ConnectFails
  <2>2. CASE ReceiveFails(p)
    BY <2>2, <1>a, <1>b DEF ReceiveFails
  <2> QED
    BY <1>4, <2>1, <2>2 DEF AskServer, MakeBackupDir, Connect, Handle, Receive, Prune
<1>5. ASSUME NEW p \in Processes, OpenFile(p) \/ OpenFileFails(p) \/ WriteTemplate(p)
      PROVE  error' = error \/ Errs(p)
  BY <1>5, <1>a, <1>b DEF OpenFile, OpenFileFails, WriteTemplate
<1>6. ASSUME NEW e \in Edits, Edit(e[1], e[2]) PROVE error' = error
  BY <1>6 DEF Edit
<1>7. \/ error' = error
      \/ \E p \in Processes : BindHttpFails(p)
      \/ \E p \in Processes : Errs(p)
  BY <1>1, <1>2, <1>3, <1>4, <1>5, <1>6, Steps DEF Moves, vars
<1> QED
  BY <1>7 DEF Errs

LEMMA TypeNext ==
  ASSUME TypeOK, StageInv, AnswerInv, [Next]_vars
  PROVE  TypeOK'
<1>1. \A f \in DOMAIN files' : DOMAIN files'[f] = {"layer", "whole"}
  <2>1. ASSUME NEW p \in Processes, OpenFile(p) \/ WriteTemplate(p)
        PROVE  \A f \in DOMAIN files' : DOMAIN files'[f] = {"layer", "whole"}
    <3>1. CASE OpenFile(p)
      BY <3>1 DEF OpenFile, Put, TypeOK
    <3>2. CASE WriteTemplate(p)
      BY <3>2 DEF WriteTemplate, TypeOK
    <3> QED
      BY <2>1, <3>1, <3>2
  <2>2. ASSUME NEW e \in Edits, Edit(e[1], e[2])
        PROVE  \A f \in DOMAIN files' : DOMAIN files'[f] = {"layer", "whole"}
    BY <2>2 DEF Edit, Put, TypeOK
  <2> QED
    BY <2>1, <2>2, Touched DEF TypeOK
<1>2. Existing \subseteq directories'
  BY Touched DEF TypeOK
<1>3. \A s \in DOMAIN sockets' : sockets'[s] \in Processes \X {"admin", "http"}
  <2>1. ASSUME NEW p \in Processes, BindAdmin(p) \/ BindHttp(p)
        PROVE  \/ sockets' = sockets
               \/ \E s : \E use \in {"admin", "http"} :
                    sockets' = Put(sockets, s, <<p, use>>)
    BY <2>1 DEF BindAdmin, BindHttp
  <2>2. ASSUME NEW p \in Processes, Leave(p)
        PROVE  \/ sockets' = sockets
               \/ sockets' = Restrict(sockets, DOMAIN sockets \ {AtSocket(p)})
    BY <2>2 DEF Leave
  <2>3. ASSUME NEW p \in Processes, NEW s, NEW use \in {"admin", "http"},
               sockets' = Put(sockets, s, <<p, use>>)
        PROVE  \A t \in DOMAIN sockets' : sockets'[t] \in Processes \X {"admin", "http"}
    BY <2>3 DEF Put, TypeOK
  <2>4. ASSUME NEW S, sockets' = Restrict(sockets, DOMAIN sockets \ S)
        PROVE  \A t \in DOMAIN sockets' : sockets'[t] \in Processes \X {"admin", "http"}
    BY <2>4 DEF Restrict, TypeOK
  <2>5. CASE sockets' = sockets
    BY <2>5 DEF TypeOK
  <2>6. ASSUME NEW p \in Processes, BindAdmin(p) \/ BindHttp(p), sockets' # sockets
        PROVE  \A t \in DOMAIN sockets' : sockets'[t] \in Processes \X {"admin", "http"}
    BY <2>1, <2>3, <2>6
  <2>7. ASSUME NEW p \in Processes, Leave(p), sockets' # sockets
        PROVE  \A t \in DOMAIN sockets' : sockets'[t] \in Processes \X {"admin", "http"}
    BY <2>2, <2>4, <2>7
  <2> QED
    BY <2>5, <2>6, <2>7, Touched
<1>4. pc' \in [Processes -> States]
  <2>1. pc \in [Processes -> States]
    BY DEF TypeOK, States
  <2>2. ASSUME NEW p \in Processes, Moves(p) \/ \E l \in Launches : Start(p, l)
        PROVE  \E to \in States : pc' = [pc EXCEPT ![p] = to]
    BY <2>2, Moved, Started
  <2> QED
    BY <2>1, <2>2, Steps DEF Edit, vars
<1>5. \A p \in Processes : launch'[p] \in Launches \cup {NoLaunch}
  BY StageNext DEF StageInv
<1>6. \A p \in Processes : config'[p] # <<>> => DOMAIN config'[p] = Reads(Kind(p)')
  <2>1. ASSUME NEW p \in Processes, NEW l \in Launches, Start(p, l), config'[p] # <<>>
        PROVE  DOMAIN config'[p] = Reads(Kind(p)')
    <3>1. pc[p] = "none" /\ launch' = [launch EXCEPT ![p] = l]
      BY <2>1, Started
    <3>2. config[p] = <<>>
      BY <3>1 DEF StageInv, StageAllows
    <3>3. config' = [config EXCEPT ![p] = Load(l, files)] \/ config' = config
      BY <2>1, Started
    <3>4. config'[p] = Load(l, files) /\ Kind(p)' = l.kind
      BY <2>1, <3>1, <3>2, <3>3 DEF StageInv, Kind
    <3> QED
      BY <3>4, LoadReads
  <2>2. ASSUME NEW p \in Processes, config'[p] = config[p], launch'[p] = launch[p],
               config'[p] # <<>>
        PROVE  DOMAIN config'[p] = Reads(Kind(p)')
    BY <2>2 DEF TypeOK, Kind
  <2>3. ASSUME NEW p \in Processes, NEW q \in Processes, NEW l \in Launches,
               Start(q, l), config'[p] # <<>>
        PROVE  DOMAIN config'[p] = Reads(Kind(p)')
    BY <2>1, <2>2, <2>3, OthersStay
  <2>4. ASSUME NEW q \in Processes, Moves(q)
        PROVE  config' = config /\ launch' = launch
    BY <2>4, Moved
  <2> QED
    BY <2>2, <2>3, <2>4, Steps DEF Edit, vars, started
<1>7. error' \in [Processes -> Reasons]
  <2>1. error \in [Processes -> Reasons] /\ "in_use" \in Reasons
    BY DEF TypeOK, Reasons
  <2>2. ASSUME NEW p \in Processes, BindHttpFails(p)
        PROVE  error' = [error EXCEPT ![p] = "in_use"]
    BY <2>2 DEF BindHttpFails, Because
  <2> QED
    BY <2>1, <2>2, Errors
<1>8. peer' \in [Processes -> Processes]
  <2>1. ASSUME NEW p \in Processes, NEW q \in Processes, Connect(p, q)
        PROVE  peer' = [peer EXCEPT ![p] = q]
    BY <2>1 DEF Connect
  <2> QED
    BY <2>1, Touched DEF TypeOK
<1>9. answer' \in [Processes -> {"none", "ok", "error", "dropped"}]
  <2>1. ASSUME NEW p \in Processes, Handle(p)
        PROVE  \E a \in {"ok", "error", "dropped"} : answer' = [answer EXCEPT ![p] = a]
    BY <2>1 DEF Handle
  <2> QED
    BY <2>1, Touched DEF TypeOK
<1>10. met' \in [Processes -> SUBSET Processes]
  <2>1. ASSUME NEW p \in Processes, BindAdmin(p)
        PROVE  met' \in [Processes -> SUBSET Processes]
    BY <2>1 DEF BindAdmin, Meet, TypeOK
  <2> QED
    BY <2>1, Touched DEF TypeOK
<1> QED
  BY <1>1, <1>2, <1>3, <1>4, <1>5, <1>6, <1>7, <1>8, <1>9, <1>10
     DEF TypeOK, States, Reasons
-----------------------------------------------------------------------------
(* Sockets and requests.                                                   *)

(* A server that has loaded its configuration keeps it.                    *)
LEMMA ServerStays ==
  ASSUME TypeOK, StageInv, AnswerInv, [Next]_vars, NEW q \in Processes, Loaded(q)
  PROVE  /\ config'[q] = config[q] /\ launch'[q] = launch[q] /\ seen'[q] = seen[q]
         /\ AtSocket(q)' = AtSocket(q) /\ Address(q)' = Address(q)
         /\ Database(q)' = Database(q)
         /\ (IsServer(q)' <=> IsServer(q)) /\ Loaded(q)'
<1>1. pc[q] # "none"
  BY DEF StageInv, StageAllows, Loaded
<1>2. config'[q] = config[q] /\ launch'[q] = launch[q] /\ seen'[q] = seen[q]
  BY <1>1, Kept
<1> QED
  BY <1>2, SameConfig

LEMMA SocketNext ==
  ASSUME TypeOK, StageInv, AnswerInv, SocketInv, [Next]_vars
  PROVE  SocketInv'
<1> SUFFICES ASSUME NEW s \in DOMAIN sockets', NEW q \in Processes,
                    sockets'[s] = <<q, "admin">>
             PROVE  (IsServer(q) /\ config[q]["admin.enabled"] /\ AtSocket(q) = s)'
  BY DEF SocketInv
<1>1. CASE s \in DOMAIN sockets /\ sockets[s] = <<q, "admin">>
  <2>1. IsServer(q) /\ config[q]["admin.enabled"] /\ AtSocket(q) = s
    BY <1>1 DEF SocketInv
  <2> QED
    BY <2>1, ServerStays DEF IsServer
<1>2. CASE ~(s \in DOMAIN sockets /\ sockets[s] = <<q, "admin">>)
  <2>1. ASSUME NEW p \in Processes, BindHttp(p) PROVE FALSE
    <3>1. \/ sockets' = sockets
          \/ \E t : sockets' = Put(sockets, t, <<p, "http">>)
      BY <2>1 DEF BindHttp
    <3>2. ASSUME NEW t, sockets' = Put(sockets, t, <<p, "http">>) PROVE FALSE
      <4>1. s # t => s \in DOMAIN sockets /\ sockets'[s] = sockets[s]
        BY <3>2 DEF Put
      <4>2. s = t => sockets'[s] = <<p, "http">>
        BY <3>2 DEF Put
      <4>3. <<p, "http">> # <<q, "admin">>
        OBVIOUS
      <4> QED
        BY <1>2, <4>1, <4>2, <4>3
    <3> QED
      BY <1>2, <3>1, <3>2
  <2>2. ASSUME NEW p \in Processes, Leave(p) PROVE FALSE
    <3>1. \/ sockets' = sockets
          \/ \E S : sockets' = Restrict(sockets, DOMAIN sockets \ S)
      BY <2>2 DEF Leave
    <3> QED
      BY <1>2, <3>1 DEF Restrict
  <2>3. PICK p \in Processes : BindAdmin(p)
    BY <1>2, <2>1, <2>2, Touched
  <2>4. /\ config[p]["admin.enabled"] /\ sockets' = Put(sockets, AtSocket(p), <<p, "admin">>)
        /\ pc[p] = "admin"
    BY <1>2, <2>3 DEF BindAdmin, Go
  <2>5. s = AtSocket(p) /\ q = p
    BY <1>2, <2>4 DEF Put
  <2>6. IsServer(p)
    BY <2>4 DEF StageInv, StageAllows
  <2> QED
    BY <2>4, <2>5, <2>6, ServerStays DEF IsServer
<1> QED
  BY <1>1, <1>2

(* A command that has connected goes on to receive an answer and, if it    *)
(* made a backup, to remove old ones.                                      *)
LEMMA AsksOn ==
  ASSUME TypeOK, StageInv, AnswerInv, NEW p \in Processes, Moves(p), Asks(p)
  PROVE  /\ pc[p] \in {"asking", "prune", "done", "failed"} =>
              pc'[p] \in {"asking", "prune", "done", "failed"}
         /\ pc'[p] \in {"prune", "done"} => answer[p] = "ok"
         /\ peer[p] # p \/ pc'[p] # "none"
<1> USE DEF Go
<1>0. /\ ~IsServer(p) /\ Kind(p) # "config-template" /\ Answered(p)
      /\ StageAllows(p, pc[p]) /\ pc \in [Processes -> States]
  BY DEF Asks, IsServer, AnswerInv, StageInv, TypeOK, States
<1>1. /\ pc[p] \notin {"logging", "database", "admin", "http", "running", "leaving",
                       "open", "write", "none"}
  <2>1. pc[p] # "none"
    BY Moved
  <2> QED
    BY <1>0, <2>1 DEF StageAllows
<1>2. CASE Fails(p)
  BY <1>0, <1>1, <1>2 DEF Fails
<1>3. CASE Serve(p)
  BY <1>1, <1>3 DEF Serve, InitLogging, OpenDatabase, BindAdmin, BindHttp, BindHttpFails,
                    Stop, Leave, Kill, Up
<1>4. CASE MakeBackupDir(p) \/ (\E q \in Processes : Connect(p, q)) \/ ConnectFails(p)
  BY <1>0, <1>4 DEF MakeBackupDir, Connect, ConnectFails
<1>5. CASE Handle(p)
  BY <1>0, <1>1, <1>5 DEF Handle, Answered
<1>6. CASE Receive(p)
  BY <1>0, <1>6 DEF Receive
<1>7. CASE ReceiveFails(p)
  BY <1>0, <1>7 DEF ReceiveFails
<1>8. CASE Prune(p)
  BY <1>0, <1>8 DEF Prune, Answered
<1>9. CASE OpenFile(p) \/ OpenFileFails(p) \/ WriteTemplate(p)
  BY <1>1, <1>9 DEF OpenFile, OpenFileFails, WriteTemplate
<1> QED
  BY <1>2, <1>3, <1>4, <1>5, <1>6, <1>7, <1>8, <1>9 DEF Moves, AskServer

(* What a process that stays as it is has asked for and got stays too.     *)
LEMMA StillAnswered ==
  ASSUME TypeOK, StageInv, AnswerInv, [Next]_vars, NEW p \in Processes, pc[p] # "none",
         peer'[p] = peer[p], answer'[p] = answer[p], written'[p] = written[p],
         Asks(p) => /\ peer[p] # p => pc'[p] \in {"asking", "prune", "done", "failed"}
                    /\ pc'[p] \in {"prune", "done"} => answer[p] = "ok"
  PROVE  Answered(p)'
<1>1. Answered(p) /\ launch'[p] = launch[p] /\ config'[p] = config[p]
  BY Kept DEF AnswerInv
<1>2. /\ Kind(p)' = Kind(p) /\ (Asks(p)' <=> Asks(p)) /\ AtSocket(p)' = AtSocket(p)
      /\ (Loaded(p)' <=> Loaded(p))
  BY <1>1, SameConfig
<1>3. CASE peer[p] = p
  BY <1>1, <1>2, <1>3 DEF Answered
<1>4. CASE peer[p] # p
  <2>1. IsServer(peer[p]) /\ peer[p] \in Processes
    BY <1>1, <1>4 DEF Answered, TypeOK
  <2>2. /\ launch'[peer[p]] = launch[peer[p]] /\ AtSocket(peer[p])' = AtSocket(peer[p])
        /\ IsServer(peer[p])' /\ Database(peer[p])' = Database(peer[p])
    <3>1. PICK q \in Processes : q = peer[p] /\ q = peer'[p] /\ IsServer(q)
      BY <2>1
    <3>2. /\ launch'[q] = launch[q] /\ AtSocket(q)' = AtSocket(q)
          /\ IsServer(q)' /\ Database(q)' = Database(q)
      BY <3>1, ServerStays DEF IsServer
    <3> QED
      BY <3>1, <3>2
  <2>3. Authorized(p, peer[p]) => Authorized(p, peer[p])'
    BY <1>1, <2>2 DEF Authorized
  <2>4. Target(p, peer[p])' = Target(p, peer[p])
    BY <1>1, <2>2 DEF Target
  <2> QED
    BY <1>1, <1>2, <1>4, <2>1, <2>2, <2>3, <2>4 DEF Answered
<1> QED
  BY <1>3, <1>4

LEMMA AnswerNext ==
  ASSUME TypeOK, StageInv, SocketInv, AnswerInv, [Next]_vars
  PROVE  AnswerInv'
<1> SUFFICES ASSUME NEW p \in Processes PROVE Answered(p)'
  BY DEF AnswerInv
<1>0. Answered(p) /\ StageAllows(p, pc[p])
  BY DEF AnswerInv, StageInv
<1>1. CASE UNCHANGED <<pc, request>>
  <2>1. CASE pc[p] # "none"
    BY <1>0, <1>1, <2>1, StillAnswered DEF request, Answered
  <2>2. CASE pc[p] = "none"
    BY <1>0, <1>1, <2>2 DEF Answered, request
  <2> QED
    BY <2>1, <2>2
<1>2. ASSUME NEW r \in Processes, NEW l \in Launches, Start(r, l) PROVE Answered(p)'
  <2>1. UNCHANGED request /\ pc[r] = "none"
    BY <1>2, Started
  <2>2. CASE p = r
    <3>1. peer[p] = p /\ answer[p] = "none" /\ written[p] = Unset
      BY <1>0, <2>1, <2>2 DEF Answered
    <3>2. pc'[p] \notin {"prune", "done"}
      BY <1>2, <2>2, LaunchesAssumption DEF Start, Go, First, Kinds, TypeOK
    <3> QED
      BY <2>1, <3>1, <3>2 DEF Answered, request
  <2>3. CASE p # r /\ pc[p] # "none"
    <3>1. pc'[p] = pc[p]
      BY <1>2, <2>3, OthersStay
    <3> QED
      BY <1>0, <2>1, <2>3, <3>1, StillAnswered DEF request, Answered
  <2>4. CASE p # r /\ pc[p] = "none"
    <3>1. peer[p] = p /\ answer[p] = "none" /\ written[p] = Unset
      BY <1>0, <2>4 DEF Answered
    <3>2. pc'[p] = "none"
      BY <1>2, <2>4, OthersStay
    <3> QED
      BY <2>1, <3>1, <3>2 DEF Answered, request
  <2> QED
    BY <2>2, <2>3, <2>4
<1>3. ASSUME NEW r \in Processes, Moves(r), r # p PROVE Answered(p)'
  <2>1. pc'[p] = pc[p]
    BY <1>3, Moved DEF TypeOK
  <2>2. peer'[p] = peer[p] /\ answer'[p] = answer[p] /\ written'[p] = written[p]
    <3>1. CASE Handle(r)
      BY <1>3, <3>1 DEF Handle, TypeOK, StageInv
    <3>2. CASE \E q \in Processes : Connect(r, q)
      BY <1>3, <3>2 DEF Connect, TypeOK
    <3>3. CASE ~Handle(r) /\ ~\E q \in Processes : Connect(r, q)
      BY <1>3, <3>3
         DEF Moves, Fails, Serve, InitLogging, OpenDatabase, BindAdmin, BindHttp,
             BindHttpFails, Stop, Leave, Kill, AskServer, MakeBackupDir,
             ConnectFails, Receive, ReceiveFails, Prune, OpenFile, OpenFileFails,
             WriteTemplate, request
    <3> QED
      BY <3>1, <3>2, <3>3
  <2>3. CASE pc[p] # "none"
    BY <1>0, <2>1, <2>2, <2>3, StillAnswered DEF Answered
  <2>4. CASE pc[p] = "none"
    <3>1. peer[p] = p /\ answer[p] = "none" /\ written[p] = Unset
      BY <1>0, <2>4 DEF Answered
    <3> QED
      BY <2>1, <2>2, <2>4, <3>1 DEF Answered
  <2> QED
    BY <2>3, <2>4
<1>4. ASSUME NEW q \in Processes, Connect(p, q) PROVE Answered(p)'
  <2>1. /\ pc[p] = "connect" /\ pc'[p] = "asking" /\ peer'[p] = q
        /\ \E applied \in ModeApplied : Reaches(p, q, applied)
        /\ UNCHANGED <<answer, written, launch, config>>
    BY <1>4 DEF Connect, Go, started, TypeOK
  <2>2. Asks(p) /\ Loaded(p) /\ peer[p] = p
    BY <1>0, <2>1 DEF StageAllows, Answered
  <2>3. answer[p] = "none" /\ written[p] = Unset
    BY <1>0, <2>2 DEF Answered
  <2>4. IsServer(q) /\ AtSocket(q) = AtSocket(p)
    BY <2>1 DEF Reaches, SocketInv
  <2>5. Asks(p)' /\ Loaded(p)' /\ IsServer(q)' /\ AtSocket(q)' = AtSocket(p)'
    BY <2>1, <2>2, <2>4, SameConfig
  <2> QED
    BY <2>1, <2>3, <2>5 DEF Answered
<1>5. CASE Handle(p)
  <2>1. PICK q \in Processes : q = peer[p] /\ q = peer'[p]
    BY <1>5 DEF Handle, TypeOK
  <2>2. /\ q # p /\ answer[p] = "none" /\ UNCHANGED <<pc, launch, config>>
    BY <1>5, <2>1 DEF Handle, started
  <2>3. /\ Asks(p) /\ Loaded(p) /\ pc[p] \in {"asking", "failed"} /\ written[p] = Unset
        /\ IsServer(q) /\ AtSocket(q) = AtSocket(p)
    BY <1>0, <2>1, <2>2 DEF Answered
  <2>4. /\ Asks(p)' /\ Loaded(p)' /\ IsServer(q)' /\ AtSocket(q)' = AtSocket(p)'
        /\ Kind(p)' = Kind(p) /\ Database(q)' = Database(q)
    BY <2>2, <2>3, SameConfig
  <2>5. /\ Target(p, q)' = Target(p, q) /\ (Authorized(p, q)' <=> Authorized(p, q))
    BY <2>2 DEF Target, Authorized
  <2>6. \/ answer'[p] \in {"dropped", "error"} /\ written'[p] = Unset
        \/ /\ answer'[p] = "ok" /\ Authorized(p, q)
           /\ \/ Kind(p) = "health-check" /\ written'[p] = Unset
              \/ written'[p] = <<Target(p, q), Database(q)>>
    BY <1>5, <2>1, <2>3 DEF Handle, TypeOK, StageInv
  <2>7. Answered(p)' <=>
          /\ q # p => /\ Asks(p)' /\ Loaded(p)' /\ pc'[p] \in {"asking", "prune", "done", "failed"}
                      /\ IsServer(q)' /\ AtSocket(q)' = AtSocket(p)'
          /\ answer'[p] # "none" => q # p
          /\ answer'[p] = "ok" => Authorized(p, q)'
          /\ answer'[p] = "ok" /\ Kind(p)' = "backup" =>
               written'[p] = <<Target(p, q)', Database(q)'>>
          /\ written'[p] # Unset => answer'[p] = "ok"
          /\ Asks(p)' /\ pc'[p] \in {"prune", "done"} => answer'[p] = "ok"
    BY <2>1 DEF Answered, Authorized
  <2> QED
    BY <2>2, <2>3, <2>4, <2>5, <2>6, <2>7
<1>6. ASSUME Moves(p), ~Handle(p), ~\E q \in Processes : Connect(p, q)
      PROVE  Answered(p)'
  <2>1. UNCHANGED request
    BY <1>6
       DEF Moves, Fails, Serve, InitLogging, OpenDatabase, BindAdmin, BindHttp,
           BindHttpFails, Stop, Leave, Kill, AskServer, MakeBackupDir, ConnectFails,
           Receive, ReceiveFails, Prune, OpenFile, OpenFileFails, WriteTemplate, request
  <2>2. pc[p] # "none"
    BY <1>6, Moved
  <2>3. Asks(p) => /\ peer[p] # p => pc'[p] \in {"asking", "prune", "done", "failed"}
                   /\ pc'[p] \in {"prune", "done"} => answer[p] = "ok"
    BY <1>0, <1>6, AsksOn DEF Answered
  <2> QED
    BY <2>1, <2>2, <2>3, StillAnswered DEF request
<1> QED
  BY <1>1, <1>2, <1>3, <1>4, <1>5, <1>6, Steps DEF Edit, vars
-----------------------------------------------------------------------------
(* Servers together.                                                       *)

(* A server gets to where it is up by binding its admin socket.            *)
LEMMA ComesUp ==
  ASSUME TypeOK, StageInv, AnswerInv, [Next]_vars, NEW p \in Processes, Up(p)'
  PROVE  Up(p) \/ BindAdmin(p)
<1> SUFFICES ASSUME ~Up(p), ~BindAdmin(p) PROVE FALSE
  OBVIOUS
<1>0. pc'[p] \in {"http", "running", "leaving"} /\ pc'[p] # pc[p]
  BY DEF Up
<1>1. ASSUME NEW r \in Processes, NEW l \in Launches, Start(r, l) PROVE FALSE
  <2>1. r = p
    BY <1>0, <1>1, OthersStay
  <2> QED
    BY <1>0, <1>1, <2>1, LaunchesAssumption DEF Start, Go, First, Kinds, TypeOK
<1>2. ASSUME NEW r \in Processes, Moves(r), r # p PROVE FALSE
  BY <1>0, <1>2, Moved DEF TypeOK
<1>3. CASE Moves(p)
  <2> USE DEF Go
  <2>0. pc \in [Processes -> States]
    BY DEF TypeOK, States
  <2>1. CASE Fails(p)
    BY <1>0, <2>0, <2>1 DEF Fails, Up
  <2>2. CASE Serve(p)
    BY <1>0, <2>0, <2>2 DEF Serve, InitLogging, OpenDatabase, BindHttp, BindHttpFails,
                            Stop, Leave, Kill, Up
  <2>3. CASE AskServer(p)
    <3>1. CASE Handle(p)
      BY <1>0, <3>1 DEF Handle
    <3>2. CASE ~Handle(p)
      BY <1>0, <2>0, <2>3, <3>2 DEF AskServer, MakeBackupDir, Connect, ConnectFails,
                                    Receive, ReceiveFails, Prune
    <3> QED
      BY <3>1, <3>2
  <2>4. CASE OpenFile(p) \/ OpenFileFails(p) \/ WriteTemplate(p)
    BY <1>0, <2>0, <2>4 DEF OpenFile, OpenFileFails, WriteTemplate
  <2> QED
    BY <1>3, <2>1, <2>2, <2>3, <2>4 DEF Moves
<1> QED
  BY <1>0, <1>1, <1>2, <1>3, Steps DEF Edit, vars

(* Who have met will have met.                                             *)
LEMMA Meeting ==
  ASSUME TypeOK, NEW p \in Processes, BindAdmin(p)
  PROVE  /\ met'[p] = met[p] \cup {q \in Processes : Up(q)}
         /\ \A q \in Processes \ {p} :
              met'[q] = IF Up(q) THEN met[q] \cup {p} ELSE met[q]
  BY DEF BindAdmin, Meet, TypeOK

LEMMA MetGrows ==
  ASSUME TypeOK, [Next]_vars, NEW p \in Processes
  PROVE  met[p] \subseteq met'[p]
<1>1. ASSUME NEW r \in Processes, BindAdmin(r) PROVE met[p] \subseteq met'[p]
  BY <1>1, Meeting
<1> QED
  BY <1>1, Touched

LEMMA MetNext ==
  ASSUME TypeOK, StageInv, AnswerInv, ReachInv, [Next]_vars,
         NEW p \in Processes, NEW q \in Processes
  PROVE  /\ q \in met'[p] => IsServer(q)'
         /\ Up(p)' /\ Up(q)' /\ p # q => q \in met'[p]
<1>1. ASSUME q \in met'[p] PROVE IsServer(q)'
  <2>1. CASE q \in met[p]
    BY <2>1, ServerStays DEF ReachInv, IsServer
  <2>2. CASE q \notin met[p]
    <3>1. PICK r \in Processes : BindAdmin(r)
      BY <1>1, <2>2, Touched
    <3>2. Up(q) \/ q = r
      BY <1>1, <2>2, <3>1, Meeting
    <3>3. IsServer(q)
      BY <3>1, <3>2 DEF BindAdmin, Go, Up, StageInv, StageAllows
    <3> QED
      BY <3>3, ServerStays DEF IsServer
  <2> QED
    BY <2>1, <2>2
<1>2. ASSUME Up(p)', Up(q)', p # q PROVE q \in met'[p]
  <2>1. CASE Up(p) /\ Up(q)
    BY <1>2, <2>1, MetGrows DEF ReachInv
  <2>2. CASE ~Up(p)
    <3>1. BindAdmin(p)
      BY <1>2, <2>2, ComesUp
    <3>2. pc'[q] = pc[q]
      BY <1>2, <3>1 DEF BindAdmin, Go, TypeOK
    <3>3. Up(q)
      BY <1>2, <3>2 DEF Up
    <3> QED
      BY <3>1, <3>3, Meeting
  <2>3. CASE ~Up(q)
    <3>1. BindAdmin(q)
      BY <1>2, <2>3, ComesUp
    <3>2. pc'[p] = pc[p]
      BY <1>2, <3>1 DEF BindAdmin, Go, TypeOK
    <3>3. Up(p)
      BY <1>2, <3>2 DEF Up
    <3> QED
      BY <1>2, <3>1, <3>3, Meeting
  <2> QED
    BY <2>1, <2>2, <2>3
<1> QED
  BY <1>1, <1>2

(* A rival of a server stays one.                                          *)
LEMMA RivalsStay ==
  ASSUME TypeOK, StageInv, AnswerInv, ReachInv, [Next]_vars,
         NEW p \in Processes, Loaded(p), NEW r \in Processes, Loaded(r),
         r \in met'[p], config[r]["admin.enabled"], AtSocket(r) = AtSocket(p)
  PROVE  Rivals(p)' # {}
<1>1. /\ AtSocket(p)' = AtSocket(p) /\ AtSocket(r)' = AtSocket(r)
      /\ config'[r] = config[r]
  BY ServerStays
<1>2. r \in Rivals(p)'
  BY <1>1 DEF Rivals
<1> QED
  BY <1>2

LEMMA ReachNext ==
  ASSUME TypeOK, StageInv, SocketInv, AnswerInv, ReachInv, [Next]_vars
  PROVE  ReachInv'
<1> SUFFICES
      ASSUME NEW p \in Processes, Listening(p)'
      PROVE  \/ /\ AtSocket(p)' \in DOMAIN sockets'
                /\ sockets'[AtSocket(p)'] = <<p, "admin">>
             \/ Rivals(p)' # {}
  BY MetNext DEF ReachInv
<1>0. Up(p)' /\ config'[p]["admin.enabled"]
  BY DEF Listening
<1>1. IsServer(p)
  <2>1. Up(p) \/ BindAdmin(p)
    BY <1>0, ComesUp
  <2> QED
    BY <2>1 DEF Up, BindAdmin, Go, StageInv, StageAllows
<1>2. Loaded(p) /\ config'[p] = config[p] /\ AtSocket(p)' = AtSocket(p)
  BY <1>1, ServerStays DEF IsServer
<1> DEFINE name == AtSocket(p)
           Own == name \in DOMAIN sockets /\ sockets[name] = <<p, "admin">>
           Owns == name \in DOMAIN sockets' /\ sockets'[name] = <<p, "admin">>
<1> SUFFICES Owns \/ Rivals(p)' # {}
  BY <1>2
<1>3. CASE BindAdmin(p)
  <2>1. sockets' = Put(sockets, name, <<p, "admin">>)
    BY <1>0, <1>2, <1>3 DEF BindAdmin
  <2> HIDE DEF name
  <2> QED
    BY <2>1 DEF Put
<1>4. CASE ~BindAdmin(p)
  <2>1. Up(p) /\ Listening(p)
    BY <1>0, <1>2, <1>4, ComesUp DEF Listening
  <2>2. CASE Rivals(p) # {}
    <3>1. PICK r \in Processes :
            /\ r \in met[p] /\ config[r]["admin.enabled"] /\ AtSocket(r) = AtSocket(p)
      BY <2>2 DEF Rivals, TypeOK
    <3>2. Loaded(r) /\ r \in met'[p]
      BY <3>1, MetGrows DEF ReachInv, IsServer
    <3> QED
      BY <1>2, <3>1, <3>2, RivalsStay
  <2>3. CASE Own
    <3>1. CASE sockets' = sockets
      BY <2>3, <3>1
    <3>2. ASSUME NEW r \in Processes, BindAdmin(r), sockets' # sockets
          PROVE  Owns \/ Rivals(p)' # {}
      <4>1. config[r]["admin.enabled"] /\ sockets' = Put(sockets, AtSocket(r), <<r, "admin">>)
        BY <3>2 DEF BindAdmin
      <4>2. CASE AtSocket(r) # name
        <5> HIDE DEF name
        <5> QED
          BY <2>3, <4>1, <4>2 DEF Put
      <4>3. CASE AtSocket(r) = name
        <5>1. r # p
          BY <1>4, <3>2
        <5>2. r \in met'[p]
          BY <2>1, <3>2, <5>1, Meeting
        <5>3. Loaded(r)
          BY <3>2 DEF BindAdmin, Go, StageInv, StageAllows, IsServer
        <5> QED
          BY <1>2, <4>1, <4>3, <5>2, <5>3, RivalsStay
      <4> QED
        BY <4>2, <4>3
    <3>3. ASSUME NEW r \in Processes, BindHttp(r), sockets' # sockets
          PROVE  Owns
      <4>1. PICK s : s \notin DOMAIN sockets /\ sockets' = Put(sockets, s, <<r, "http">>)
        BY <3>3 DEF BindHttp, InUse
      <4> HIDE DEF name
      <4> QED
        BY <2>3, <4>1 DEF Put
    <3>4. ASSUME NEW r \in Processes, Leave(r), sockets' # sockets
          PROVE  Owns \/ Rivals(p)' # {}
      <4>1. /\ config[r]["admin.enabled"] /\ pc[r] = "leaving"
            /\ sockets' = Restrict(sockets, DOMAIN sockets \ {AtSocket(r)})
        BY <3>4 DEF Leave, Go
      <4>2. CASE AtSocket(r) # name
        <5> HIDE DEF name
        <5> QED
          BY <2>3, <4>1, <4>2 DEF Restrict
      <4>3. CASE AtSocket(r) = name
        <5>1. r # p
          BY <1>0, <3>4 DEF Leave, Go, Up, TypeOK
        <5>2. Up(r) /\ r \in met'[p]
          BY <2>1, <4>1, <5>1, MetGrows DEF ReachInv, Up
        <5>3. Loaded(r)
          BY <4>1 DEF StageInv, StageAllows, IsServer
        <5> QED
          BY <1>2, <4>1, <4>3, <5>2, <5>3, RivalsStay
      <4> QED
        BY <4>2, <4>3
    <3> QED
      BY <3>1, <3>2, <3>3, <3>4, Touched
  <2> QED
    BY <2>1, <2>2, <2>3 DEF ReachInv
<1> QED
  BY <1>3, <1>4
-----------------------------------------------------------------------------
(* What is loaded, and what is in use.                                     *)

LEMMA LoadNext ==
  ASSUME TypeOK, StageInv, AnswerInv, LoadInv, LoadedIsValid, [Next]_vars
  PROVE  LoadInv' /\ LoadedIsValid'
<1> DEFINE Right(p) == /\ launch[p] \in Launches /\ Kind(p) # "config-template"
                       /\ config[p] = Load(launch[p], ReadFiles(p))
<1> SUFFICES ASSUME NEW p \in Processes
             PROVE  /\ (Loaded(p) => Right(p))'
                    /\ (\A o \in DOMAIN config[p] : Valid(o, config[p][o]))'
  BY DEF LoadInv, LoadedIsValid
<1>1. CASE Loaded(p)
  <2>1. config'[p] = config[p] /\ launch'[p] = launch[p] /\ seen'[p] = seen[p]
    BY <1>1, ServerStays
  <2>2. Right(p)
    BY <1>1 DEF LoadInv
  <2>3. ReadFiles(p)' = ReadFiles(p) /\ Kind(p)' = Kind(p)
    BY <2>1 DEF ReadFiles, Kind
  <2>4. Right(p)'
    BY <2>1, <2>2, <2>3
  <2> QED
    BY <2>1, <2>4 DEF LoadedIsValid
<1>2. CASE ~Loaded(p) /\ ~Loaded(p)'
  <2>1. config'[p] = <<>>
    BY <1>2 DEF Loaded
  <2>2. DOMAIN config'[p] = {}
    BY <2>1
  <2> QED
    BY <1>2, <2>2
<1>3. CASE ~Loaded(p) /\ Loaded(p)'
  <2>1. config'[p] # config[p]
    BY <1>3 DEF Loaded
  <2>2. PICK l \in Launches : Start(p, l)
    <3>1. ASSUME NEW r \in Processes, NEW l \in Launches, Start(r, l) PROVE r = p
      BY <2>1, <3>1, OthersStay
    <3>2. ASSUME NEW r \in Processes, Moves(r) PROVE FALSE
      BY <2>1, <3>2, Moved
    <3> QED
      BY <2>1, <3>1, <3>2, Steps DEF Edit, vars, started
  <2>3. /\ l.kind # "config-template" /\ ~LoadFails(l, files)
        /\ launch' = [launch EXCEPT ![p] = l]
        /\ config' = [config EXCEPT ![p] = Load(l, files)]
        /\ seen' = [seen EXCEPT ![p] = [s \in Present(l, files) |-> files[s].layer]]
    BY <2>1, <2>2, Started
  <2>4. /\ launch'[p] = l /\ config'[p] = Load(l, files)
        /\ seen'[p] = [s \in Present(l, files) |-> files[s].layer]
    BY <2>3 DEF StageInv
  <2>5. ReadFiles(p)' = [s \in Present(l, files) |-> [layer |-> files[s].layer]]
    BY <2>4 DEF ReadFiles
  <2>6. config'[p] = Load(launch'[p], ReadFiles(p)')
    BY <2>4, <2>5, LoadIsLocal
  <2>7. Right(p)'
    BY <2>3, <2>4, <2>6 DEF Kind
  <2>8. \A o \in DOMAIN config'[p] : Valid(o, config'[p][o])
    BY <2>3, <2>4, LoadReads, LoadValidates
  <2> QED
    BY <2>7, <2>8
<1> QED
  BY <1>1, <1>2, <1>3

ErrorInv == \A p \in Processes : error[p] = "in_use" => IsServer(p)

Blocked(p) ==
  IF Address(p).unix
  THEN \/ Address(p).path \in DOMAIN sockets
       \/ \E q \in Processes : IsServer(q) /\ AtSocket(q) = Address(p).path
  ELSE \E q \in met[p] : Conflict(Address(p), Address(q))

(* A name in the file system stays until the server whose admin socket it  *)
(* is, or was, leaves.                                                     *)
LEMMA NameStays ==
  ASSUME TypeOK, StageInv, [Next]_vars, NEW s \in DOMAIN sockets
  PROVE  s \in DOMAIN sockets' \/ \E q \in Processes : IsServer(q) /\ AtSocket(q) = s
<1>1. ASSUME NEW r \in Processes, BindAdmin(r) \/ BindHttp(r)
      PROVE  s \in DOMAIN sockets'
  BY <1>1 DEF BindAdmin, BindHttp, Put
<1>2. ASSUME NEW r \in Processes, Leave(r), s \notin DOMAIN sockets'
      PROVE  IsServer(r) /\ AtSocket(r) = s
  <2>1. pc[r] = "leaving" /\ sockets' = Restrict(sockets, DOMAIN sockets \ {AtSocket(r)})
    BY <1>2 DEF Leave, Go
  <2> QED
    BY <1>2, <2>1 DEF StageInv, StageAllows, Restrict
<1> QED
  BY <1>1, <1>2, Touched

LEMMA BlockedStays ==
  ASSUME TypeOK, StageInv, AnswerInv, ReachInv, [Next]_vars,
         NEW p \in Processes, IsServer(p), Blocked(p)
  PROVE  Blocked(p)'
<1>1. Address(p)' = Address(p)
  BY ServerStays DEF IsServer
<1>2. CASE Address(p).unix
  <2>1. \/ Address(p).path \in DOMAIN sockets'
        \/ \E q \in Processes : IsServer(q) /\ AtSocket(q) = Address(p).path
    BY <1>2, NameStays DEF Blocked
  <2>2. ASSUME NEW q \in Processes, IsServer(q), AtSocket(q) = Address(p).path
        PROVE  IsServer(q)' /\ AtSocket(q)' = Address(p).path
    BY <2>2, ServerStays DEF IsServer
  <2> QED
    BY <1>1, <1>2, <2>1, <2>2 DEF Blocked
<1>3. CASE ~Address(p).unix
  <2>1. PICK q \in met[p] : Conflict(Address(p), Address(q))
    BY <1>3 DEF Blocked
  <2>2. q \in Processes /\ IsServer(q) /\ q \in met'[p]
    BY MetGrows DEF TypeOK, ReachInv
  <2>3. Address(q)' = Address(q)
    BY <2>2, ServerStays DEF IsServer
  <2>4. Conflict(Address(p)', Address(q)')
    BY <1>1, <2>1, <2>3
  <2> QED
    BY <1>1, <1>3, <2>2, <2>4 DEF Blocked
<1> QED
  BY <1>2, <1>3

LEMMA BlockedNext ==
  ASSUME TypeOK, StageInv, AnswerInv, ReachInv, ErrorInv, StartBlockedByServer, [Next]_vars
  PROVE  ErrorInv' /\ StartBlockedByServer'
<1> SUFFICES ASSUME NEW p \in Processes, error'[p] = "in_use"
             PROVE  IsServer(p)' /\ Blocked(p)'
  BY DEF ErrorInv, StartBlockedByServer, Blocked
<1>1. CASE error[p] = "in_use"
  <2>1. IsServer(p) /\ Blocked(p)
    BY <1>1 DEF ErrorInv, StartBlockedByServer, Blocked
  <2> QED
    BY <2>1, BlockedStays, ServerStays DEF IsServer
<1>2. CASE error[p] # "in_use"
  <2>1. BindHttpFails(p)
    <3>1. ASSUME NEW q \in Processes, NEW e \in Reasons \ {"in_use"},
                 error' = [error EXCEPT ![q] = e]
          PROVE  FALSE
      BY <1>2, <3>1 DEF TypeOK
    <3>2. ASSUME NEW q \in Processes, BindHttpFails(q) PROVE q = p
      BY <1>2, <3>2 DEF BindHttpFails, Because, TypeOK
    <3> QED
      BY <1>2, <3>1, <3>2, Errors
  <2>2. pc[p] = "http" /\ InUse(Address(p))
    BY <2>1 DEF BindHttpFails, Go
  <2>3. IsServer(p)
    BY <2>2 DEF StageInv, StageAllows
  <2>4. Blocked(p)
    <3>1. CASE Address(p).unix /\ Address(p).path \in DOMAIN sockets
      BY <3>1 DEF Blocked
    <3>2. ASSUME NEW q \in Processes, pc[q] = "running", Conflict(Address(p), Address(q))
          PROVE  Blocked(p)
      <4>1. q \in met[p]
        BY <2>2, <3>2 DEF ReachInv, Up
      <4>2. ~Address(p).unix
        BY <3>2 DEF Conflict
      <4> QED
        BY <3>2, <4>1, <4>2 DEF Blocked
    <3> QED
      BY <2>2, <3>1, <3>2 DEF InUse
  <2> QED
    BY <2>3, <2>4, BlockedStays, ServerStays DEF IsServer
<1> QED
  BY <1>1, <1>2
-----------------------------------------------------------------------------
(* The inductive invariant.                                                *)

InstancesInv ==
  /\ TypeOK
  /\ StageInv
  /\ SocketInv
  /\ AnswerInv
  /\ ReachInv
  /\ LoadInv
  /\ LoadedIsValid
  /\ ErrorInv
  /\ StartBlockedByServer

LEMMA InstancesInit == Init => InstancesInv
<1> SUFFICES ASSUME Init PROVE InstancesInv
  OBVIOUS
<1>1. TypeOK /\ StageInv
  BY TypeInit
<1>2. SocketInv
  BY DEF Init, SocketInv
<1>3. AnswerInv
  BY DEF Init, AnswerInv, Answered
<1>4. ReachInv
  BY DEF Init, ReachInv, Listening, Up
<1>5. LoadInv /\ LoadedIsValid
  <2>1. \A p \in Processes : config[p] = <<>> /\ DOMAIN config[p] = {}
    BY DEF Init
  <2> QED
    BY <2>1 DEF LoadInv, LoadedIsValid, Loaded
<1>6. ErrorInv /\ StartBlockedByServer
  BY DEF Init, ErrorInv, StartBlockedByServer
<1> QED
  BY <1>1, <1>2, <1>3, <1>4, <1>5, <1>6 DEF InstancesInv

LEMMA InstancesInductive == InstancesInv /\ [Next]_vars => InstancesInv'
  BY TypeNext, StageNext, SocketNext, AnswerNext, ReachNext, LoadNext, BlockedNext
     DEF InstancesInv

LEMMA InstancesInvariant == Spec => []InstancesInv
  BY InstancesInit, InstancesInductive, PTL DEF Spec

(* What processes are started with, load, ask for and bind is of the types *)
(* the command, its configuration and the protocol give it.                *)
THEOREM InstancesTypeCorrect == Spec => []TypeOK
<1>1. InstancesInv => TypeOK
  BY DEF InstancesInv
<1> QED
  BY <1>1, InstancesInvariant, PTL

(* Whatever files, environments and arguments there are, no process runs   *)
(* with a value that the type of the option rejects.                       *)
THEOREM NoInvalidConfigRuns == Spec => []LoadedIsValid
<1>1. InstancesInv => LoadedIsValid
  BY DEF InstancesInv
<1> QED
  BY <1>1, InstancesInvariant, PTL

(* With any number of servers, killed and started again in any order, one  *)
(* that runs can be reached, or has been up with another one that has the  *)
(* same admin socket.                                                      *)
THEOREM ServersAreReachable == Spec => []Reachable
<1>1. InstancesInv => Reachable
  BY DEF InstancesInv, Reachable, ReachInv, Reaches, Admits
<1> QED
  BY <1>1, InstancesInvariant, PTL

(* A server does not start only because of another one that was up with it *)
(* or a name that was bound before.                                        *)
THEOREM OnlyServersBlockStart == Spec => []StartBlockedByServer
<1>1. InstancesInv => StartBlockedByServer
  BY DEF InstancesInv
<1> QED
  BY <1>1, InstancesInvariant, PTL

(* No user but root and the one of the server gets a backup or an answer.  *)
THEOREM OthersGetNothing == Spec => []OnlyAuthorized
<1>1. ASSUME InstancesInv, NEW p \in Processes, Asks(p), pc[p] = "done" \/ written[p] # Unset
      PROVE  launch[p].user \in {Root, launch[peer[p]].user}
  BY <1>1 DEF InstancesInv, AnswerInv, Answered, Authorized
<1>2. InstancesInv => OnlyAuthorized
  BY <1>1 DEF OnlyAuthorized, Asks
<1> QED
  BY <1>2, InstancesInvariant, PTL

(* Processes that were started alike have the same value for an option     *)
(* that both of them read, if both or neither accept it as an argument.    *)
LEMMA LoadedAlike ==
  ASSUME LoadInv, NEW p \in Processes, NEW q \in Processes, Loaded(p), Loaded(q),
         Alike(p, q), NEW o \in Reads(Kind(p)) \cap Reads(Kind(q)),
         o \in Accepted(Kind(p)), o \in Accepted(Kind(q))
  PROVE  config[p][o] = config[q][o]
<1> DEFINE l == launch[p]
           m == launch[q]
           fs == ReadFiles(p)
<1>1. fs = ReadFiles(q)
  BY DEF ReadFiles, Alike
<1>2. config[p] = Load(l, fs) /\ config[q] = Load(m, fs)
  BY <1>1 DEF LoadInv
<1>3. /\ l.args = <<>> /\ m.args = <<>> /\ l.vars = m.vars /\ l.cwd = m.cwd
      /\ l.dirs = m.dirs /\ l.config_file = m.config_file
      /\ l.kind = Kind(p) /\ m.kind = Kind(q)
  BY DEF Alike, Kind
<1> HIDE DEF l, m, fs
<1>4. Files(l, fs) = Files(m, fs)
  BY <1>3 DEF Files, StandardFiles, GivenFile, LocalFile, UserFile
<1>5. /\ o \in DOMAIN Cli(l) <=> o \in DOMAIN Cli(m)
      /\ o \in DOMAIN Cli(l) => Cli(l)[o] = Cli(m)[o]
  <2> DEFINE given == Fallback(<<>>, l.vars)
  <2>1. /\ Cli(l) = Restrict(given, DOMAIN given \cap Accepted(Kind(p)))
        /\ Cli(m) = Restrict(given, DOMAIN given \cap Accepted(Kind(q)))
    BY <1>3 DEF Cli
  <2> HIDE DEF given
  <2> QED
    BY <2>1 DEF Restrict
<1>6. o \in Reads(l.kind) /\ o \in Reads(m.kind)
  BY <1>3
<1> QED
  BY <1>2, <1>4, <1>5, <1>6, LoadedFrom

LEMMA CommandsAccept ==
  ASSUME NEW kind \in {"serve", "backup", "health-check"}
  PROVE  /\ {"admin.enabled", "admin.socket_path"} \subseteq Accepted(kind) \cap Reads(kind)
         /\ kind # "health-check" =>
              "database.directory" \in Accepted(kind) \cap Reads(kind)
<1>1. /\ Accepted("serve") = Options /\ Accepted("backup") = BackupOptions
      /\ Accepted("health-check") = AdminConfig
  BY DEF Accepted
<1>2. /\ {"admin.enabled", "admin.socket_path"} \subseteq AdminConfig
      /\ AdminConfig \subseteq Options /\ AdminConfig \subseteq BackupOptions
      /\ "database.directory" \in Options /\ "database.directory" \in BackupOptions
  BY DEF AdminConfig, Options, BackupOptions, DatabaseConfig
<1>3. Accepted(kind) \subseteq Reads(kind)
  BY <1>1 DEF Reads, BackupOptions, Options
<1> QED
  BY <1>1, <1>2, <1>3

(* A backup is of the database that the command is configured with, if the *)
(* servers at its admin socket are configured like it.                     *)
THEOREM BackupsAreOfTheirDatabase == Spec => []BacksUpItsDatabase
<1>1. ASSUME InstancesInv, NEW p \in Processes, Kind(p) = "backup", pc[p] = "done",
             \A q \in Processes : IsServer(q) /\ AtSocket(q) = AtSocket(p) => Alike(p, q)
      PROVE  written[p][2] = Database(p)
  <2>1. answer[p] = "ok" /\ Answered(p)
    BY <1>1 DEF InstancesInv, AnswerInv, Answered, Asks
  <2>2. PICK q \in Processes : q = peer[p]
    BY <1>1 DEF InstancesInv, TypeOK
  <2>3. /\ written[p] = <<Target(p, q), Database(q)>> /\ Loaded(p)
        /\ IsServer(q) /\ AtSocket(q) = AtSocket(p)
    BY <1>1, <2>1, <2>2 DEF Answered
  <2>4. Alike(p, q)
    BY <1>1, <2>3
  <2>5. config[p]["database.directory"] = config[q]["database.directory"]
    BY <1>1, <2>3, <2>4, LoadedAlike, CommandsAccept DEF InstancesInv, IsServer
  <2>6. launch[p].cwd = launch[q].cwd /\ launch[p].dirs = launch[q].dirs
    BY <2>4 DEF Alike
  <2>7. Database(p) = Database(q)
    BY <2>5, <2>6 DEF Database, DatabaseDirectory
  <2> QED
    BY <2>3, <2>7
<1>2. InstancesInv => BacksUpItsDatabase
  BY <1>1 DEF BacksUpItsDatabase
<1> QED
  BY <1>2, InstancesInvariant, PTL

(* Only a command that cannot connect gives up for want of a server.       *)
LEMMA Unreachable ==
  ASSUME TypeOK, [Next]_vars, NEW p \in Processes,
         error'[p] = "unreachable", error[p] # "unreachable"
  PROVE  ConnectFails(p)
<1> USE DEF Because
<1>0. error \in [Processes -> Reasons] /\ error' # error
  BY DEF TypeOK, Reasons
<1>a. ASSUME NEW q \in Processes, NEW e, Because(q, e) PROVE q = p /\ e = "unreachable"
  BY <1>0, <1>a
<1>1. ASSUME NEW q \in Processes, NEW l \in Launches, Start(q, l) PROVE FALSE
  BY <1>0, <1>1, <1>a DEF Start
<1>2. ASSUME NEW q \in Processes, Fails(q) PROVE FALSE
  BY <1>2, <1>a DEF Fails
<1>3. ASSUME NEW q \in Processes, Serve(q) PROVE FALSE
  BY <1>0, <1>3, <1>a DEF Serve, InitLogging, OpenDatabase, BindAdmin, BindHttp,
                          BindHttpFails, Stop, Leave, Kill
<1>4. ASSUME NEW q \in Processes, AskServer(q) PROVE ConnectFails(p)
  <2>1. CASE ConnectFails(q)
    BY <2>1, <1>a DEF ConnectFails
  <2>2. CASE ReceiveFails(q)
    BY <2>2, <1>a DEF ReceiveFails
  <2> QED
    BY <1>0, <1>4, <2>1, <2>2
       DEF AskServer, MakeBackupDir, Connect, Handle, Receive, Prune
<1>5. ASSUME NEW q \in Processes, OpenFile(q) \/ OpenFileFails(q) \/ WriteTemplate(q)
      PROVE  FALSE
  BY <1>0, <1>5, <1>a DEF OpenFile, OpenFileFails, WriteTemplate
<1>6. ASSUME NEW e \in Edits, Edit(e[1], e[2]) PROVE FALSE
  BY <1>0, <1>6 DEF Edit
<1> QED
  BY <1>0, <1>1, <1>2, <1>3, <1>4, <1>5, <1>6, Steps DEF Moves, vars

(* A command of root or of the user of a server that runs with the same    *)
(* configuration finds that server, unless it has or had a rival.          *)
THEOREM ServersAreFound == Spec => CommandsFindServer
<1>1. ASSUME InstancesInv, [Next]_vars, NEW p \in Processes, NEW q \in Processes,
             error'[p] = "unreachable", error[p] = "none", pc[q] = "running", Alike(p, q),
             launch[p].user \in {Root, launch[q].user}
      PROVE  Rivals(q) # {}
  <2>1. ConnectFails(p)
    BY <1>1, Unreachable DEF InstancesInv
  <2>2. /\ pc[p] = "connect" /\ config[p]["admin.enabled"]
        /\ \E applied \in ModeApplied : ~Reaches(p, q, applied)
    BY <1>1, <2>1 DEF ConnectFails, Go, Because, InstancesInv, TypeOK
  <2>3. Asks(p) /\ Loaded(p) /\ IsServer(q)
    BY <1>1, <2>2 DEF InstancesInv, StageInv, StageAllows
  <2>4. ASSUME NEW o \in {"admin.enabled", "admin.socket_path"}
        PROVE  config[p][o] = config[q][o]
    BY <1>1, <2>3, LoadedAlike, CommandsAccept DEF InstancesInv, IsServer, Asks
  <2>5. launch[p].cwd = launch[q].cwd /\ launch[p].dirs = launch[q].dirs
    BY <1>1 DEF Alike
  <2>6. AtSocket(p) = AtSocket(q)
    BY <2>4, <2>5 DEF AtSocket, SocketPath
  <2>7. Listening(q)
    BY <1>1, <2>2, <2>4 DEF Listening, Up
  <2>8. \A applied \in ModeApplied : Admits(p, q, applied)
    BY <1>1 DEF Admits
  <2> QED
    BY <1>1, <2>2, <2>6, <2>7, <2>8 DEF InstancesInv, ReachInv, Reaches
<1>2. InstancesInv /\ [Next]_vars =>
        [\A p, q \in Processes :
           /\ error'[p] = "unreachable" /\ error[p] = "none"
           /\ pc[q] = "running" /\ Alike(p, q)
           /\ launch[p].user \in {Root, launch[q].user}
           => Rivals(q) # {}]_vars
  BY <1>1
<1> QED
  BY <1>2, InstancesInvariant, PTL DEF Spec, CommandsFindServer

(* Without --overwrite config-template leaves every file alone that it has *)
(* not created.                                                            *)
THEOREM TemplatesKeepFiles == Spec => TemplateKeepsFiles
<1>1. ASSUME InstancesInv, [Next]_vars, NEW f \in DOMAIN files,
             files'[f].layer # files[f].layer
      PROVE  \/ \E e \in Edits : e[1] = f /\ files'[f].layer = e[2]
             \/ \E p \in Processes :
                  /\ pc'[p] # pc[p] /\ Kind(p) = "config-template" /\ Template(p) = f
                  /\ launch[p].overwrite \/ pc[p] = "write"
  <2>1. ASSUME NEW e \in Edits, Edit(e[1], e[2])
        PROVE  e[1] = f /\ files'[f].layer = e[2]
    BY <1>1, <2>1 DEF Edit, Put
  <2>2. ASSUME NEW p \in Processes, OpenFile(p) \/ WriteTemplate(p)
        PROVE  /\ pc'[p] # pc[p] /\ Kind(p) = "config-template" /\ Template(p) = f
               /\ launch[p].overwrite \/ pc[p] = "write"
    <3>1. pc[p] \in {"open", "write"} /\ pc'[p] # pc[p]
      BY <1>1, <2>2 DEF OpenFile, WriteTemplate, Go, InstancesInv, TypeOK
    <3>2. Kind(p) = "config-template"
      BY <1>1, <3>1 DEF InstancesInv, StageInv, StageAllows
    <3>3. CASE OpenFile(p)
      BY <1>1, <3>1, <3>2, <3>3 DEF OpenFile, Put
    <3>4. CASE WriteTemplate(p)
      BY <1>1, <3>1, <3>2, <3>4 DEF WriteTemplate, Go
    <3> QED
      BY <2>2, <3>3, <3>4
  <2>3. files' # files
    BY <1>1
  <2> QED
    BY <1>1, <2>1, <2>2, <2>3, Touched
<1>2. InstancesInv /\ [Next]_vars =>
        [\A f \in DOMAIN files :
           files'[f].layer # files[f].layer =>
             \/ \E e \in Edits : e[1] = f /\ files'[f].layer = e[2]
             \/ \E p \in Processes :
                  /\ pc'[p] # pc[p] /\ Kind(p) = "config-template" /\ Template(p) = f
                  /\ launch[p].overwrite \/ pc[p] = "write"]_vars
  BY <1>1
<1> QED
  BY <1>2, InstancesInvariant, PTL DEF Spec, TemplateKeepsFiles

-----------------------------------------------------------------------------
(* Which source wins.                                                      *)

(* The first of a sequence that sets an option.                            *)
LEMMA FirstSetter ==
  ASSUME NEW chain, Len(chain) \in Nat, NEW o, NEW i \in 1..Len(chain),
         o \in DOMAIN chain[i], \A j \in 1..Len(chain) : j < i => o \notin DOMAIN chain[j]
  PROVE  Winner(chain, o) = chain[i]
<1> DEFINE I == {j \in 1..Len(chain) : o \in DOMAIN chain[j]}
<1>1. i \in I /\ \A j \in I : i <= j
  OBVIOUS
<1>2. \A k \in I : (\A j \in I : k <= j) => k = i
  BY <1>1
<1>3. SelectInSeq(chain, LAMBDA c : o \in DOMAIN c) = IF I # {} THEN Min(I) ELSE 0
  BY DEF SelectInSeq
<1>4. Min(I) = CHOOSE k \in I : \A j \in I : k <= j
  BY DEF Min
<1> HIDE DEF I
<1>5. (CHOOSE k \in I : \A j \in I : k <= j) = i
  BY <1>1, <1>2
<1> QED
  BY <1>1, <1>3, <1>4, <1>5 DEF Winner

LEMMA FirstOfFour ==
  ASSUME NEW a, NEW b, NEW f, NEW d, NEW o, o \in DOMAIN d,
         NEW chain, chain = <<a, b, f, d>>
  PROVE  Winner(chain, o)[o] =
           IF o \in DOMAIN a THEN a[o]
           ELSE IF o \in DOMAIN b THEN b[o]
           ELSE IF o \in DOMAIN f THEN f[o] ELSE d[o]
<1>1. /\ Len(chain) = 4
      /\ chain[1] = a /\ chain[2] = b /\ chain[3] = f /\ chain[4] = d
  OBVIOUS
<1>2. PICK i \in 1..Len(chain) :
        /\ o \in DOMAIN chain[i]
        /\ \A j \in 1..Len(chain) : j < i => o \notin DOMAIN chain[j]
  <2>1. CASE o \in DOMAIN a
    BY <1>1, <2>1
  <2>2. CASE o \notin DOMAIN a /\ o \in DOMAIN b
    BY <1>1, <2>2
  <2>3. CASE o \notin DOMAIN a /\ o \notin DOMAIN b /\ o \in DOMAIN f
    BY <1>1, <2>3
  <2>4. CASE o \notin DOMAIN a /\ o \notin DOMAIN b /\ o \notin DOMAIN f
    BY <1>1, <2>4
  <2> QED
    BY <2>1, <2>2, <2>3, <2>4
<1>3. Winner(chain, o) = chain[i]
  BY <1>1, <1>2, FirstSetter
<1>4. chain[i][o] = IF o \in DOMAIN a THEN a[o]
                    ELSE IF o \in DOMAIN b THEN b[o]
                    ELSE IF o \in DOMAIN f THEN f[o] ELSE d[o]
  BY <1>1, <1>2
<1> QED
  BY <1>3, <1>4

LEMMA FirstOfSix ==
  ASSUME NEW a, NEW b, NEW f, NEW g, NEW h, NEW d, NEW o, o \in DOMAIN d,
         NEW chain, chain = <<a, b, f, g, h, d>>
  PROVE  Winner(chain, o)[o] =
           IF o \in DOMAIN a THEN a[o]
           ELSE IF o \in DOMAIN b THEN b[o]
           ELSE IF o \in DOMAIN f THEN f[o]
           ELSE IF o \in DOMAIN g THEN g[o]
           ELSE IF o \in DOMAIN h THEN h[o] ELSE d[o]
<1>1. /\ Len(chain) = 6
      /\ chain[1] = a /\ chain[2] = b /\ chain[3] = f /\ chain[4] = g /\ chain[5] = h
      /\ chain[6] = d
  OBVIOUS
<1>2. PICK i \in 1..Len(chain) :
        /\ o \in DOMAIN chain[i]
        /\ \A j \in 1..Len(chain) : j < i => o \notin DOMAIN chain[j]
  <2>1. CASE o \in DOMAIN a
    BY <1>1, <2>1
  <2>2. CASE o \notin DOMAIN a /\ o \in DOMAIN b
    BY <1>1, <2>2
  <2>3. CASE o \notin DOMAIN a /\ o \notin DOMAIN b /\ o \in DOMAIN f
    BY <1>1, <2>3
  <2>4. CASE /\ o \notin DOMAIN a /\ o \notin DOMAIN b /\ o \notin DOMAIN f
             /\ o \in DOMAIN g
    BY <1>1, <2>4
  <2>5. CASE /\ o \notin DOMAIN a /\ o \notin DOMAIN b /\ o \notin DOMAIN f
             /\ o \notin DOMAIN g /\ o \in DOMAIN h
    BY <1>1, <2>5
  <2>6. CASE /\ o \notin DOMAIN a /\ o \notin DOMAIN b /\ o \notin DOMAIN f
             /\ o \notin DOMAIN g /\ o \notin DOMAIN h
    BY <1>1, <2>6
  <2> QED
    BY <2>1, <2>2, <2>3, <2>4, <2>5, <2>6
<1>3. Winner(chain, o) = chain[i]
  BY <1>1, <1>2, FirstSetter, SMTT(30)
<1>4. chain[i][o] = IF o \in DOMAIN a THEN a[o]
                    ELSE IF o \in DOMAIN b THEN b[o]
                    ELSE IF o \in DOMAIN f THEN f[o]
                    ELSE IF o \in DOMAIN g THEN g[o]
                    ELSE IF o \in DOMAIN h THEN h[o] ELSE d[o]
  BY <1>1, <1>2
<1> QED
  BY <1>3, <1>4

(* An option that the command accepts is that of its command line, else of *)
(* its environment, else of the file given or, without one, of the first   *)
(* of the standard files that sets it, else the default.                   *)
THEOREM FirstSourceWins == Spec => []DocumentedPrecedence
<1>1. ASSUME InstancesInv, NEW p \in Processes, Loaded(p)
      PROVE  LET l == launch[p]
                 File(path) == IF path \in DOMAIN seen[p] THEN seen[p][path] ELSE <<>>
                 chain ==
                   IF l.config_file # Unset
                   THEN <<l.args, l.vars, File(Join(l.cwd, l.config_file)), Defaults>>
                   ELSE <<l.args, l.vars, File(l.cwd \o FileName),
                          File(l.dirs.config \o FileName),
                          File(<<"/", "etc", "novelnote">> \o FileName), Defaults>>
             IN  \A o \in DOMAIN config[p] :
                   o \in Accepted(l.kind) =>
                     config[p][o] = Winner(chain, o)[o]
  <2> DEFINE l == launch[p]
             File(path) == IF path \in DOMAIN seen[p] THEN seen[p][path] ELSE <<>>
             given == <<l.args, l.vars, File(Join(l.cwd, l.config_file)), Defaults>>
             standard == <<l.args, l.vars, File(l.cwd \o FileName),
                           File(l.dirs.config \o FileName),
                           File(<<"/", "etc", "novelnote">> \o FileName), Defaults>>
             fs == ReadFiles(p)
             chain == IF l.config_file # Unset THEN given ELSE standard
  <2> SUFFICES ASSUME NEW o \in DOMAIN config[p], o \in Accepted(l.kind)
               PROVE  config[p][o] = Winner(chain, o)[o]
    OBVIOUS
  <2>1. /\ config[p] = Load(l, fs)
        /\ \A s : Layer(s, fs) = File(s)
    BY <1>1 DEF InstancesInv, LoadInv, ReadFiles, Layer
  <2>2. o \in Reads(l.kind) /\ o \in DOMAIN Defaults
    BY <2>1, LoadReads, OptionsRead
  <2>3. config[p][o] = IF o \in DOMAIN l.args THEN l.args[o]
                       ELSE IF o \in DOMAIN l.vars THEN l.vars[o]
                       ELSE IF o \in DOMAIN Files(l, fs) THEN Files(l, fs)[o]
                       ELSE Defaults[o]
    <3> HIDE DEF l, fs
    <3>1. /\ o \in DOMAIN Cli(l) <=> o \in DOMAIN l.args \/ o \in DOMAIN l.vars
          /\ o \in DOMAIN Cli(l) =>
               Cli(l)[o] = IF o \in DOMAIN l.args THEN l.args[o] ELSE l.vars[o]
      BY DEF Cli, Restrict, Fallback
    <3> QED
      BY <2>1, <2>2, <3>1, LoadedFrom
  <2>4. CASE l.config_file # Unset
    <3>1. chain = <<l.args, l.vars, File(GivenFile(l)), Defaults>>
      BY <2>4 DEF GivenFile
    <3>2. Files(l, fs) = File(GivenFile(l))
      BY <2>1, <2>4 DEF Files
    <3> HIDE DEF l, fs, File, chain
    <3>3. Winner(chain, o)[o] =
            IF o \in DOMAIN l.args THEN l.args[o]
            ELSE IF o \in DOMAIN l.vars THEN l.vars[o]
            ELSE IF o \in DOMAIN File(GivenFile(l)) THEN File(GivenFile(l))[o]
            ELSE Defaults[o]
      BY <2>2, <3>1, FirstOfFour
    <3> QED
      BY <2>3, <3>2, <3>3
  <2>5. CASE l.config_file = Unset
    <3> DEFINE a == File(LocalFile(l))
               b == File(UserFile(l))
               c == File(SystemFile)
    <3>1. chain = <<l.args, l.vars, a, b, c, Defaults>>
      BY <2>5 DEF LocalFile, UserFile, SystemFile
    <3>2. Files(l, fs) = Fallback(a, Fallback(b, c))
      BY <2>1, <2>5 DEF Files, StandardFiles
    <3> HIDE DEF l, fs, File, chain, a, b, c
    <3>3. /\ o \in DOMAIN Files(l, fs) <=> o \in DOMAIN a \/ o \in DOMAIN b \/ o \in DOMAIN c
          /\ o \in DOMAIN Files(l, fs) =>
               Files(l, fs)[o] = IF o \in DOMAIN a THEN a[o]
                                 ELSE IF o \in DOMAIN b THEN b[o] ELSE c[o]
      BY <3>2 DEF Fallback
    <3>4. Winner(chain, o)[o] =
            IF o \in DOMAIN l.args THEN l.args[o]
            ELSE IF o \in DOMAIN l.vars THEN l.vars[o]
            ELSE IF o \in DOMAIN a THEN a[o]
            ELSE IF o \in DOMAIN b THEN b[o]
            ELSE IF o \in DOMAIN c THEN c[o] ELSE Defaults[o]
      BY <2>2, <3>1, FirstOfSix
    <3> QED
      BY <2>3, <3>3, <3>4
  <2> QED
    BY <2>4, <2>5
<1>2. InstancesInv => DocumentedPrecedence
  BY <1>1 DEF DocumentedPrecedence
<1> QED
  BY <1>2, InstancesInvariant, PTL
=============================================================================
