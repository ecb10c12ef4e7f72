----------------------------- MODULE Instances -----------------------------
(***************************************************************************)
(* Processes of `novelnote' on one machine over time: servers that are     *)
(* started, stopped, killed and started again, also while another one is   *)
(* running, and the commands health-check, backup and config-template.     *)
(* They share the config files, the file system, the names of the sockets  *)
(* and the addresses; each resolves what it has loaded in its own          *)
(* environment.  Inside a server see Serve, inside a backup see Backup.    *)
(***************************************************************************)
EXTENDS Config

CONSTANTS Processes,    \* the processes that are ever started
          Launches,     \* what they may be started with, see Config
          ConfigFiles,  \* the config files at the start, by path
          Edits,        \* <<path, layer>> the operator may write
          Existing,     \* the directories that exist at the start
          ModeApplied,  \* may the platform apply the mode of a socket (TRUE:
                        \* Linux, FreeBSD, OpenBSD), or leave it out (FALSE)?
          MayFail       \* may the operating system report errors?

Root == "root"
Kinds == {"serve", "backup", "health-check", "config-template"}

ASSUME LaunchesAssumption ==
  \A l \in Launches : l.kind \in Kinds /\ Absolute(l.cwd)
ASSUME ModeAssumption == ModeApplied \subseteq BOOLEAN /\ ModeApplied # {}
ASSUME FailAssumption == MayFail \in BOOLEAN

VARIABLES
  files,        \* the config files
  directories,  \* the directories that exist
  sockets,      \* socket names in the file system, with who bound them last
                \* and for what
  pc,           \* what each process does next
  launch,       \* what it was started with
  config,       \* what it has loaded
  error,        \* why it failed
  peer,         \* the server a command is connected to
  answer,       \* what that server made of the request
  written,      \* where a backup went, and of which database
  seen,         \* the layers of the files it has read (history)
  met           \* servers that were up together with it (history)

disk == <<files, directories, sockets>>
request == <<peer, answer, written>>
history == <<seen, met>>
started == <<launch, config>>
vars == <<disk, pc, started, error, request, history>>

NoLaunch == [kind |-> "none"]
First(kind) ==
  CASE kind = "serve" -> "logging"
    [] kind = "backup" -> "directory"
    [] kind = "health-check" -> "connect"
    [] kind = "config-template" -> "open"

Ended(p) == pc[p] \in {"done", "failed", "killed"}
Kind(p) == launch[p].kind
Up(p) == pc[p] \in {"http", "running", "leaving"}
Listening(p) == Up(p) /\ config[p]["admin.enabled"]

AtSocket(p) == SocketPath(config[p], launch[p])
Address(p) == ServerAddress(config[p], launch[p])
Database(p) == Join(launch[p].cwd, DatabaseDirectory(config[p], launch[p]))

BackupsOf(p) == Join(launch[p].cwd, BackupDirectory(config[p], launch[p]))

Ancestors(path) == {SubSeq(path, 1, i) : i \in DOMAIN path}
MakeDir(path) == directories' = directories \cup Ancestors(path)

Init ==
  /\ files = [f \in DOMAIN ConfigFiles |-> [layer |-> ConfigFiles[f], whole |-> TRUE]]
  /\ directories = Existing
  /\ sockets = <<>>
  /\ pc = [p \in Processes |-> "none"]
  /\ launch = [p \in Processes |-> NoLaunch]
  /\ config = [p \in Processes |-> <<>>]
  /\ error = [p \in Processes |-> "none"]
  /\ peer = [p \in Processes |-> p]
  /\ answer = [p \in Processes |-> "none"]
  /\ written = [p \in Processes |-> Unset]
  /\ seen = [p \in Processes |-> <<>>]
  /\ met = [p \in Processes |-> {}]

Go(p, from, to) == pc[p] = from /\ pc' = [pc EXCEPT ![p] = to]
Because(p, e) == error' = [error EXCEPT ![p] = e]

-----------------------------------------------------------------------------
(* Command::run(): load the configuration first.  A file that is only      *)
(* partly written may or may not parse.                                    *)
Start(p, l) ==
  /\ pc[p] = "none"
  /\ launch' = [launch EXCEPT ![p] = l]
  /\ UNCHANGED <<disk, request, met>>
  /\ IF l.kind = "config-template"
     THEN Go(p, "none", First(l.kind)) /\ UNCHANGED <<config, error, seen>>
     ELSE \/ /\ ~LoadFails(l, files)
             /\ config' = [config EXCEPT ![p] = Load(l, files)]
             /\ seen' = [seen EXCEPT ![p] =
                           [s \in Present(l, files) |-> files[s].layer]]
             /\ Go(p, "none", First(l.kind))
             /\ UNCHANGED error
          \/ /\ \/ LoadFails(l, files)
                \/ \E s \in Present(l, files) : ~files[s].whole
             /\ Go(p, "none", "failed")
             /\ Because(p, "config")
             /\ UNCHANGED <<config, seen>>

(* A step other than a server's clean-up fails with an I/O error: a        *)
(* directory that cannot be created or read, no journald, a write that     *)
(* fails.  A server that has bound its admin socket goes on to leave.      *)
Fails(p) ==
  /\ MayFail
  /\ pc[p] \in {"logging", "database", "admin", "http", "directory", "prune", "write"}
  /\ Go(p, pc[p], IF pc[p] = "http" THEN "leaving" ELSE "failed")
  /\ Because(p, "io")
  /\ UNCHANGED <<disk, started, request, history>>

(* The operator writes a config file.                                      *)
Edit(path, layer) ==
  /\ files' = Put(files, path, [layer |-> layer, whole |-> TRUE])
  /\ UNCHANGED <<directories, sockets, pc, started, error, request, history>>

-----------------------------------------------------------------------------
(* novelnote serve                                                         *)

(* LogConfig::init_logging() creates the directory of the log files.       *)
InitLogging(p) ==
  /\ Go(p, "logging", "database")
  /\ IF config[p]["log.output"] = "file"
     THEN MakeDir(LogDirectory(config[p], launch[p]))
     ELSE UNCHANGED directories
  /\ UNCHANGED <<files, sockets, started, error, request, history>>

OpenDatabase(p) ==
  /\ Go(p, "database", "admin")
  /\ MakeDir(Database(p))
  /\ UNCHANGED <<files, sockets, started, error, request, history>>

Meet(p) ==
  LET others == {q \in Processes : Up(q)}
  IN  met' = [q \in Processes |-> IF q = p THEN met[p] \cup others
                                  ELSE IF q \in others THEN met[q] \cup {p}
                                  ELSE met[q]]

(* Mutants: a socket name that exists is an error; is taken for bound.     *)
BindAdminRefused(p) ==
  /\ pc[p] = "admin"
  /\ IF config[p]["admin.enabled"] /\ AtSocket(p) \in DOMAIN sockets
     THEN Go(p, "admin", "failed") /\ Because(p, "in_use")
          /\ UNCHANGED <<disk, met>>
     ELSE /\ Go(p, "admin", "http")
          /\ IF config[p]["admin.enabled"]
             THEN /\ MakeDir(Front(AtSocket(p)))
                  /\ sockets' = Put(sockets, AtSocket(p), <<p, "admin">>)
             ELSE UNCHANGED <<directories, sockets>>
          /\ Meet(p)
          /\ UNCHANGED <<files, error>>
  /\ UNCHANGED <<started, request, seen>>

BindAdminKept(p) ==
  /\ Go(p, "admin", "http")
  /\ IF config[p]["admin.enabled"]
     THEN /\ MakeDir(Front(AtSocket(p)))
          /\ sockets' = Fallback(sockets, Put(<<>>, AtSocket(p), <<p, "admin">>))
     ELSE UNCHANGED <<directories, sockets>>
  /\ Meet(p)
  /\ UNCHANGED <<files, started, error, request, seen>>

(* AdminConfig::into_server(): the name of the socket is taken over from   *)
(* whoever bound it, dead or alive.  It is the server's user's from then   *)
(* on, with a mode that Admits() nobody else.                              *)
BindAdmin(p) ==
  /\ Go(p, "admin", "http")
  /\ IF config[p]["admin.enabled"]
     THEN /\ MakeDir(Front(AtSocket(p)))
          /\ sockets' = Put(sockets, AtSocket(p), <<p, "admin">>)
     ELSE UNCHANGED <<directories, sockets>>
  /\ Meet(p)
  /\ UNCHANGED <<files, started, error, request, seen>>

(* Server::run(): a Unix domain socket is bound only to a new name, which  *)
(* stays; a TCP address only if nobody listens on it.                      *)
InUse(a) ==
  \/ a.unix /\ a.path \in DOMAIN sockets
  \/ \E q \in Processes : pc[q] = "running" /\ Conflict(a, Address(q))

BindHttp(p) ==
  /\ Go(p, "http", "running")
  /\ ~InUse(Address(p))
  /\ IF Address(p).unix
     THEN sockets' = Put(sockets, Address(p).path, <<p, "http">>)
     ELSE UNCHANGED sockets
  /\ UNCHANGED <<files, directories, started, error, request, history>>

BindHttpFails(p) ==
  /\ Go(p, "http", "leaving")
  /\ InUse(Address(p))
  /\ Because(p, "in_use")
  /\ UNCHANGED <<disk, started, request, history>>

(* SIGINT or SIGTERM: the HTTP server stops listening.                     *)
Stop(p) ==
  /\ Go(p, "running", "leaving")
  /\ UNCHANGED <<disk, started, error, request, history>>

(* The end of run_servers(): the admin listener is dropped, which removes  *)
(* the name it was bound to, whosever it is now, if that can be done.      *)
Leave(p) ==
  /\ Go(p, "leaving", IF error[p] = "none" THEN "done" ELSE "failed")
  /\ \/ /\ config[p]["admin.enabled"]
        /\ sockets' = Restrict(sockets, DOMAIN sockets \ {AtSocket(p)})
     \/ UNCHANGED sockets
  /\ UNCHANGED <<files, directories, started, error, request, history>>

(* A server that is killed earlier might as well have failed.              *)
Kill(p) ==
  /\ Up(p)
  /\ pc' = [pc EXCEPT ![p] = "killed"]
  /\ UNCHANGED <<disk, started, error, request, history>>

-----------------------------------------------------------------------------
(* novelnote backup and novelnote health-check                             *)

(* BackupArgs::backup() creates the directory where the command runs.      *)
MakeBackupDir(p) ==
  /\ Go(p, "directory", "connect")
  /\ MakeDir(BackupsOf(p))
  /\ UNCHANGED <<files, sockets, started, error, request, history>>

(* The mode of the admin socket is 0o0750: where it is applied, only the   *)
(* user of the server and root may write to it, and so connect.            *)
Admits(p, q, applied) == applied => launch[p].user \in {Root, launch[q].user}

Reaches(p, q, applied) ==
  /\ AtSocket(p) \in DOMAIN sockets
  /\ sockets[AtSocket(p)] = <<q, "admin">>
  /\ Listening(q)
  /\ Admits(p, q, applied)

Connect(p, q) ==
  /\ Go(p, "connect", "asking")
  /\ config[p]["admin.enabled"]
  /\ \E applied \in ModeApplied : Reaches(p, q, applied)
  /\ peer' = [peer EXCEPT ![p] = q]
  /\ UNCHANGED <<disk, started, error, answer, written, history>>

(* "admin socket is disabled", or "error connecting to admin socket", for  *)
(* want of a server or of the permission; an HTTP server at that name is   *)
(* as little use to the command.                                           *)
ConnectFails(p) ==
  /\ Go(p, "connect", "failed")
  /\ \/ ~config[p]["admin.enabled"] /\ Because(p, "disabled")
     \/ /\ config[p]["admin.enabled"]
        /\ \E applied \in ModeApplied :
             \A q \in Processes : ~Reaches(p, q, applied)
        /\ Because(p, "unreachable")
  /\ UNCHANGED <<disk, started, request, history>>

(* Mutant: any UID that can be determined will do.                         *)
AuthorizedKnown(p, q) == launch[p].user # "unknown"

(* accept(): the peer is root or the user of the server.                   *)
Authorized(p, q) == launch[p].user \in {Root, launch[q].user}

(* Where the server writes a backup: the path is the one the command has   *)
(* named, in the directory the server runs in.                             *)
Target(p, q) == Join(launch[q].cwd, BackupDirectory(config[p], launch[p]))

(* The server handles the request, whether or not the client still waits.  *)
(* VACUUM INTO does not create directories.                                *)
Handle(p) ==
  LET q == peer[p]
  IN  /\ q # p /\ answer[p] = "none"
      /\ Listening(q)
      /\ \/ /\ ~Authorized(p, q)
            /\ answer' = [answer EXCEPT ![p] = "dropped"]
            /\ UNCHANGED written
         \/ /\ Authorized(p, q)
            /\ Kind(p) = "health-check"
            /\ answer' = [answer EXCEPT ![p] = "ok"]
            /\ UNCHANGED written
         \/ /\ Authorized(p, q)
            /\ Kind(p) = "backup" /\ Target(p, q) \in directories
            /\ answer' = [answer EXCEPT ![p] = "ok"]
            /\ written' = [written EXCEPT ![p] = <<Target(p, q), Database(q)>>]
         \/ /\ Authorized(p, q)
            /\ Kind(p) = "backup" /\ (MayFail \/ Target(p, q) \notin directories)
            /\ answer' = [answer EXCEPT ![p] = "error"]
            /\ UNCHANGED written
      /\ UNCHANGED <<disk, pc, started, error, peer, history>>

Receive(p) ==
  /\ answer[p] = "ok"
  /\ Go(p, "asking", IF Kind(p) = "backup" THEN "prune" ELSE "done")
  /\ UNCHANGED <<disk, started, error, request, history>>

(* The answer is an error, the connection ends, or the timeout expires.    *)
ReceiveFails(p) ==
  /\ Go(p, "asking", "failed")
  /\ Because(p, IF answer[p] = "error" THEN "error" ELSE "lost")
  /\ UNCHANGED <<disk, started, request, history>>

(* remove_old_backups() in the directory the command has named.            *)
Prune(p) ==
  /\ Go(p, "prune", "done")
  /\ BackupsOf(p) \in directories
  /\ UNCHANGED <<disk, started, error, request, history>>

-----------------------------------------------------------------------------
(* novelnote config-template, which writes where a configuration is read.  *)
Template(p) == launch[p].cwd \o FileName

(* Mutant: a file that exists is opened for writing in any case.           *)
OpenFileAnyway(p) ==
  /\ pc[p] = "open"
  /\ files' = Put(files, Template(p), [layer |-> <<>>, whole |-> FALSE])
  /\ Go(p, "open", "write")
  /\ UNCHANGED <<directories, sockets, started, error, request, history>>

(* open_file(): a new file, or with --overwrite one that is truncated.     *)
OpenFile(p) ==
  /\ pc[p] = "open"
  /\ launch[p].overwrite \/ Template(p) \notin DOMAIN files
  /\ files' = Put(files, Template(p), [layer |-> <<>>, whole |-> FALSE])
  /\ Go(p, "open", "write")
  /\ UNCHANGED <<directories, sockets, started, error, request, history>>

OpenFileFails(p) ==
  /\ Go(p, "open", "failed")
  /\ ~launch[p].overwrite /\ Template(p) \in DOMAIN files
  /\ Because(p, "exists")
  /\ UNCHANGED <<disk, started, request, history>>

(* Every option of the template is commented out.  If the file was written *)
(* by others meanwhile, it may be another one than the file that is open.  *)
WriteTemplate(p) ==
  /\ Go(p, "write", "done")
  /\ \/ files' = [files EXCEPT ![Template(p)] = [layer |-> <<>>, whole |-> TRUE]]
     \/ files[Template(p)].whole /\ UNCHANGED files
  /\ UNCHANGED <<directories, sockets, started, error, request, history>>

-----------------------------------------------------------------------------
Serve(p) ==
  \/ InitLogging(p)
  \/ OpenDatabase(p)
  \/ BindAdmin(p)
  \/ BindHttp(p)
  \/ BindHttpFails(p)
  \/ Stop(p)
  \/ Leave(p)
  \/ Kill(p)

AskServer(p) ==
  \/ MakeBackupDir(p)
  \/ \E q \in Processes : Connect(p, q)
  \/ ConnectFails(p)
  \/ Handle(p)
  \/ Receive(p)
  \/ ReceiveFails(p)
  \/ Prune(p)

Next ==
  \/ \E p \in Processes :
       \/ \E l \in Launches : Start(p, l)
       \/ Fails(p)
       \/ Serve(p)
       \/ AskServer(p)
       \/ OpenFile(p) \/ OpenFileFails(p) \/ WriteTemplate(p)
  \/ \E e \in Edits : Edit(e[1], e[2])
  \/ (\A p \in Processes : Ended(p)) /\ UNCHANGED vars

Spec == Init /\ [][Next]_vars

-----------------------------------------------------------------------------
TypeOK ==
  /\ \A f \in DOMAIN files : DOMAIN files[f] = {"layer", "whole"}
  /\ Existing \subseteq directories
  /\ \A s \in DOMAIN sockets : sockets[s] \in Processes \X {"admin", "http"}
  /\ pc \in [Processes -> {"none", "logging", "database", "admin", "http",
                           "running", "leaving", "directory", "connect", "asking",
                           "prune", "open", "write", "done", "failed", "killed"}]
  /\ \A p \in Processes : launch[p] \in Launches \cup {NoLaunch}
  /\ \A p \in Processes : config[p] # <<>> => DOMAIN config[p] = Reads(Kind(p))
  /\ error \in [Processes -> {"none", "config", "io", "in_use", "disabled",
                              "unreachable", "error", "lost", "exists"}]
  /\ peer \in [Processes -> Processes]
  /\ answer \in [Processes -> {"none", "ok", "error", "dropped"}]
  /\ met \in [Processes -> SUBSET Processes]

Loaded(p) == config[p] # <<>>
IsServer(p) == Kind(p) = "serve" /\ Loaded(p)
Rivals(p) == {q \in met[p] : config[q]["admin.enabled"] /\ AtSocket(q) = AtSocket(p)}

(* The first of a sequence of layers that sets an option.                  *)
Winner(chain, o) == chain[SelectInSeq(chain, LAMBDA c : o \in DOMAIN c)]

(* The order the help text of --config-file documents: each option has the *)
(* value of the first source that sets it, and files other than the one    *)
(* given play no part.                                                     *)
DocumentedPrecedence ==
  \A p \in Processes : Loaded(p) =>
    LET l == launch[p]
        File(path) == IF path \in DOMAIN seen[p] THEN seen[p][path] ELSE <<>>
        chain ==
          IF l.config_file # Unset
          THEN <<l.args, l.vars, File(Join(l.cwd, l.config_file)), Defaults>>
          ELSE <<l.args, l.vars, File(l.cwd \o FileName), File(l.dirs.config \o FileName),
                 File(<<"/", "etc", "novelnote">> \o FileName), Defaults>>
    IN  \A o \in DOMAIN config[p] :
          o \in Accepted(l.kind) =>
            config[p][o] = Winner(chain, o)[o]

(* Whatever source a value comes from, no process runs with one that its   *)
(* type rejects: a timeout of more than a minute, no backups to keep, an   *)
(* address that is none.                                                   *)
LoadedIsValid ==
  \A p \in Processes : \A o \in DOMAIN config[p] : Valid(o, config[p][o])

(* "It must be less than 1 minute.": what the help text of --admin-timeout *)
(* and the message of a timeout that is rejected say.                      *)
DocumentedTimeout ==
  \A p \in Processes : Loaded(p) => config[p]["admin.timeout"] < MaxTimeout

(* A server that runs can be reached at its admin socket, also after one   *)
(* that was killed and left its socket behind, unless another server with  *)
(* the same socket was up together with it: that one has taken the name    *)
(* over, or has removed it when it left.                                   *)
Reachable ==
  \A p \in Processes :
    pc[p] = "running" /\ Listening(p) =>
      (\A applied \in ModeApplied : Reaches(p, p, applied)) \/ Rivals(p) # {}

(* What keeps a server from starting, other than its configuration and the *)
(* operating system, is a server that was up together with it, or for a    *)
(* Unix domain socket a name that was bound before, to HTTP or as an admin *)
(* socket: after a crash the server can be started again.                  *)
StartBlockedByServer ==
  \A p \in Processes :
    error[p] = "in_use" =>
      IF Address(p).unix
      THEN \/ Address(p).path \in DOMAIN sockets
           \/ \E q \in Processes : IsServer(q) /\ AtSocket(q) = Address(p).path
      ELSE \E q \in met[p] : Conflict(Address(p), Address(q))

(* Launched in the same environment, with the same files and without       *)
(* arguments.                                                              *)
Alike(p, q) ==
  /\ seen[p] = seen[q]
  /\ launch[p].args = <<>> /\ launch[q].args = <<>>
  /\ \A field \in {"cwd", "dirs", "config_file", "vars"} :
       launch[p][field] = launch[q][field]

(* A command of root or of the user of a running server does not fail to   *)
(* find that server if it was configured like it and has never had a rival.*)
CommandsFindServer ==
  [][\A p, q \in Processes :
       /\ error'[p] = "unreachable" /\ error[p] = "none"
       /\ pc[q] = "running" /\ Alike(p, q)
       /\ launch[p].user \in {Root, launch[q].user}
       => Rivals(q) # {}]_vars

(* A backup command that ends well has made a backup of the database it is *)
(* configured with, as long as every server that used the admin socket was *)
(* configured like it.                                                     *)
BacksUpItsDatabase ==
  \A p \in Processes :
    /\ Kind(p) = "backup" /\ pc[p] = "done"
    /\ \A q \in Processes : IsServer(q) /\ AtSocket(q) = AtSocket(p) => Alike(p, q)
    => written[p][2] = Database(p)

(* Only root and the user of the server get anything done: others neither  *)
(* end well nor leave a backup behind.                                     *)
OnlyAuthorized ==
  \A p \in Processes :
    Kind(p) \in {"backup", "health-check"} /\ (pc[p] = "done" \/ written[p] # Unset)
      => launch[p].user \in {Root, launch[peer[p]].user}

(* "Whether to overwrite any existing file at the given path": without it, *)
(* config-template changes no file that it has not created itself, however *)
(* other commands and the operator write that file at the same time.       *)
TemplateKeepsFiles ==
  [][\A f \in DOMAIN files :
       files'[f].layer # files[f].layer =>
         \/ \E e \in Edits : e[1] = f /\ files'[f].layer = e[2]
         \/ \E p \in Processes :
              /\ pc'[p] # pc[p] /\ Kind(p) = "config-template" /\ Template(p) = f
              /\ launch[p].overwrite \/ pc[p] = "write"]_vars
=============================================================================
