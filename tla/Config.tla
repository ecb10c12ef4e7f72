------------------------------- MODULE Config -------------------------------
(***************************************************************************)
(* The configuration: which sources are read and which of them wins, what  *)
(* values are rejected, and what paths and addresses the options stand     *)
(* for in the environment a process is started in.                         *)
(*                                                                         *)
(* A layer is a function from the options it sets to their values.  A path *)
(* is the sequence of its components, absolute if the first is "/".  A     *)
(* launch is a record of what a process is started with:                   *)
(*   kind         the command                                              *)
(*   cwd, user    the working directory and the UID                        *)
(*   dirs         the ProjectDirs, with Unset for those there are not      *)
(*   config_file  the path given, or Unset                                 *)
(*   args, vars   the layers of the command line and of the environment    *)
(***************************************************************************)
EXTENDS Naturals, SequencesExt

Unset == <<>>
OrElse(value, default) == IF value = Unset THEN default ELSE value

Absolute(path) == path[1] = "/"
Join(dir, path) == IF Absolute(path) THEN path ELSE dir \o path

(* Functions: a layer with another one for what it does not set, and one   *)
(* with a further value.                                                   *)
Fallback(f, g) ==
  [x \in DOMAIN f \cup DOMAIN g |-> IF x \in DOMAIN f THEN f[x] ELSE g[x]]

Put(f, x, value) == [y \in DOMAIN f \cup {x} |-> IF y = x THEN value ELSE f[y]]

-----------------------------------------------------------------------------
(* The options, by the struct that they are in, and their defaults.        *)
AdminConfig == {"admin.enabled", "admin.socket_path", "admin.timeout"}
LogConfig ==
  {"log.output", "log.directives", "log.file_directory", "log.max_log_files"}
DatabaseBackupConfig == {"database.backup.directory", "database.backup.keep_last"}
DatabaseConfig == {"database.directory"} \cup DatabaseBackupConfig
HttpServerConfig == {"http.bind_address", "http.port", "http.asset_directory"}

Options ==
  {"timezone"} \cup AdminConfig \cup LogConfig \cup DatabaseConfig \cup HttpServerConfig

Defaults ==
  [o \in Options |->
     CASE o = "timezone" -> "system"
       [] o = "admin.enabled" -> TRUE
       [] o = "admin.timeout" -> 5
       [] o = "log.output" -> "stdout"
       [] o = "log.directives" -> {"info"}
       [] o = "log.max_log_files" -> 3
       [] o = "database.backup.keep_last" -> 5
       [] o = "http.bind_address" -> <<"0.0.0.0">>
       [] o = "http.port" -> 8080
       [] OTHER -> Unset]

(* Mutants: From<BackupArgs> leaves out the admin or the database layer.    *)
BackupOptionsNoAdmin == {"timezone"} \cup DatabaseConfig
BackupOptionsNoDatabase == {"timezone"} \cup AdminConfig

BackupOptions == {"timezone"} \cup AdminConfig \cup DatabaseConfig

(* What a command takes from its command line and environment, and what it *)
(* reads from files: health-check deserializes [admin] only, backup the    *)
(* whole file although it takes no [log] or [http] option.                 *)
Accepted(kind) ==
  CASE kind = "serve" -> Options
    [] kind = "backup" -> BackupOptions
    [] kind = "health-check" -> AdminConfig

Reads(kind) ==
  IF kind = "health-check" THEN AdminConfig ELSE Options

-----------------------------------------------------------------------------
(* Parsing.                                                                *)
IsIp(address) == address[1] \in {"0.0.0.0", "127.0.0.1"}
IsUnix(address) == ~IsIp(address) /\ address[1] \in {"/", ".", ".."}

MaxTimeout == 60
MaxPort == 65535
MaxBackups == 255
Valid(o, value) ==
  /\ o = "admin.timeout" => value \in 0..MaxTimeout
  /\ o = "database.backup.keep_last" => value \in 1..MaxBackups
  /\ o = "http.bind_address" => IsIp(value) \/ IsUnix(value)
  /\ o = "http.port" => value \in 0..MaxPort
  /\ o = "log.output" =>
       value \in {"stdout", "stdout-no-timestamp", "journald", "file", "none"}

(* clap takes an option from the environment if it is not an argument.     *)
Cli(l) ==
  LET given == Fallback(l.args, l.vars)
  IN  Restrict(given, DOMAIN given \cap Accepted(l.kind))

-----------------------------------------------------------------------------
(* load_config(): a file is a record of its layer and whether it has been  *)
(* written to the end; a file that does not exist is skipped.              *)
FileName == <<"novelnote.toml">>

GivenFile(l) == Join(l.cwd, l.config_file)
LocalFile(l) == l.cwd \o FileName
UserFile(l) == l.dirs.config \o FileName
SystemFile == <<"/", "etc", "novelnote">> \o FileName

Sources(l) ==
  IF l.config_file # Unset THEN {GivenFile(l)}
  ELSE {LocalFile(l), UserFile(l), SystemFile}

Present(l, files) == Sources(l) \cap DOMAIN files

(* The format of a file follows from the extension of its name; names that *)
(* are given and have none, or one that is not known:                      *)
NoFormat == {"novelnote", "novelnote.conf"}

Layer(s, files) == IF s \in DOMAIN files THEN files[s].layer ELSE <<>>

(* The builder reads one file after the other; each is a fallback for      *)
(* those before it.                                                        *)
StandardFiles(l, files) ==
  Fallback(Layer(LocalFile(l), files),
           Fallback(Layer(UserFile(l), files), Layer(SystemFile, files)))

(* Mutant: the file given is read before the others, not instead of them.  *)
FilesInAddition(l, files) ==
  IF l.config_file # Unset
  THEN Fallback(Layer(GivenFile(l), files), StandardFiles(l, files))
  ELSE StandardFiles(l, files)

Files(l, files) ==
  IF l.config_file # Unset THEN Layer(GivenFile(l), files) ELSE StandardFiles(l, files)

(* Mutant: only the values of the command line are validated.              *)
LoadFailsCliOnly(l, files) == \E o \in DOMAIN Cli(l) : ~Valid(o, Cli(l)[o])

(* A value that is rejected makes loading fail also where a source of      *)
(* higher priority sets the option, and so does a file without a format,   *)
(* whether or not it exists.                                               *)
LoadFails(l, files) ==
  \/ l.config_file # Unset /\ Last(l.config_file) \in NoFormat
  \/ \E o \in DOMAIN Cli(l) : ~Valid(o, Cli(l)[o])
  \/ \E s \in Present(l, files) :
       \E o \in DOMAIN files[s].layer \cap Reads(l.kind) : ~Valid(o, files[s].layer[o])

(* Mutant: without the defaults.                                           *)
LoadNoDefaults(l, files) == Fallback(Cli(l), Files(l, files))

Load(l, files) ==
  Restrict(Fallback(Cli(l), Fallback(Files(l, files), Defaults)), Reads(l.kind))

-----------------------------------------------------------------------------
(* What a configuration c means to a process launched as l.                *)
DefaultSocketPath(dirs) ==
  OrElse(dirs.runtime, OrElse(dirs.state, dirs.data)) \o <<"novelnote_admin.sock">>

SocketPath(c, l) ==
  Join(l.cwd, OrElse(c["admin.socket_path"], DefaultSocketPath(l.dirs)))

LogDirectory(c, l) ==
  Join(l.cwd, OrElse(c["log.file_directory"], OrElse(l.dirs.state, l.dirs.data)))

(* As configured, to be resolved by the process that uses them.            *)
DatabaseDirectory(c, l) == OrElse(c["database.directory"], l.dirs.data)

BackupDirectory(c, l) ==
  OrElse(c["database.backup.directory"], DatabaseDirectory(c, l) \o <<"backup">>)

(* What the HTTP server binds to: a path, or an IP address with a port.    *)
ServerAddress(c, l) ==
  IF IsUnix(c["http.bind_address"])
  THEN [unix |-> TRUE, path |-> Join(l.cwd, c["http.bind_address"]), port |-> 0]
  ELSE [unix |-> FALSE, path |-> c["http.bind_address"], port |-> c["http.port"]]

(* The kernel: a port is taken on one address or on all of them; port 0 is *)
(* one that is free.                                                       *)
Conflict(a, b) ==
  /\ ~a.unix /\ ~b.unix
  /\ a.port = b.port /\ a.port # 0
  /\ a.path = b.path \/ <<"0.0.0.0">> \in {a.path, b.path}
=============================================================================
