# Formal models of NovelNote

TLA+ specifications of the concurrent parts of NovelNote, TLC configurations
that check them on small instances, and TLAPS proofs of the properties that
matter most. Paths below are relative to the repository.

## 1. Inventory

NovelNote is one binary (`src/main.rs`) with three library crates.

| Component | State | Operations | Hard behaviour |
| --- | --- | --- | --- |
| Database service, `database/src/lib.rs` | clonable handles (a channel sender, an `Arc<CloseHandle>`), a bounded channel of closures, a oneshot channel per call, a close channel, one thread with the SQLite connection | `open`, clone, `call`/`backup`, `is_open`, `close`, drop; the thread's loop | tasks waiting for a place in the channel, callers dropped while they wait, a closure that panics, closing while others call, a thread asleep when the close signal comes |
| Server process, `run_servers` in `src/main.rs`, `server/src/lib.rs`, `admin/src/server.rs` | where `run_servers` and both servers are, the tasks of the connections and their handles, the cancellation token | start, bind, accept, serve, signal, drain, close the database, drop the runtime, exit | shutdown with connections open, clients that hold on to theirs, one server failing while the other serves, handles that outlive the task that reports itself done |
| Admin socket, `admin/src/{lib,client,server}.rs` | frames in both directions, the client's outstanding request, the task that serves the connection | `health_check`, `backup`, timeouts at both ends | a late answer after a timeout, a client that asks again, a silent peer, an answer lost |
| Backup command, `BackupArgs::backup` and `remove_old_backups` in `src/main.rs` | the backup directory, what a command has listed and has yet to remove, the server's queue of backups | name, request, wait, list, remove | concurrent commands, equal names, the clock, a server that dies or fails half-way, timeouts |
| Configuration, `src/config.rs` | config files, the environment, the command line; nothing after loading | load layers, defaults, reject values, derive paths and addresses | precedence, boundaries, relative directories, files that change between two processes that should agree |
| Processes on one machine: `serve`, `health-check`, `backup`, `config-template` in `src/main.rs` | socket names, addresses, directories and config files they share | start, bind, stop, be killed, connect, ask, write a template | two servers, a restart after a crash, who may write to a socket, a command in another environment or of another user, a partly written config file |
| Authentication, `AdminServer::accept` in `admin/src/server.rs` | the server's UID | compare with the peer's | which commands of which users get anything done |
| HTTP API, `server/src/api.rs` | none | health check | its answer while connections come and go and the thread dies |
| Logging, `init_logging` in `src/config.rs` | log directory | create it, connect to journald | failures at start-up |
| CLI parsing, web frontend, build files | constant, or in libraries | | |

How they interact. `run_servers` opens the database and gives a clone of its
handle to the HTTP server and one to the admin server; every connection is a
task with a further clone. Tasks talk to the connection thread only through the
channel (`call`). The admin client is another process on the other end of the
admin socket; the backup command uses one, shares the backup directory with the
connection thread (which writes into it by `VACUUM INTO`) and with other backup
commands. Commands find a server only because both derive the same path from the
configuration each of them has loaded. Shutdown runs the other way: signal, cancellation token, servers
drain, `run_servers` closes the database.

What makes each of them correct:

* Database service: nobody is refused unless the thread panicked; every closure
  that was sent runs before the database is closed; no place in the channel is
  lost; exactly one owner joins the thread; calls and `close` return.
* Server process: the database is closed after the connections; an exit code of
  success means a clean close; an error ends the process, and so does a signal
  as far as it depends on the program.
* Admin socket: Ok comes from an answer of the server; "closed" means closed;
  neither end holds up the other.
* Backup: removal starts only after a backup that succeeded, never touches the
  `keep_last` newest files, and leaves at most `keep_last` of those it found.
* Configuration: the documented order of the sources, no invalid value in force.
* Processes: a server that runs is reachable and can be restarted after a crash,
  authorized commands of the same environment find it, a backup is one of the
  configured database, only authorized users are served, and no config file is
  overwritten unasked.

The full list of hazards, each at its line and with the properties aimed at it,
is in `PROJECT.json`.

## 2. Modules

| Module | What it is |
| --- | --- |
| `Database` | The database service in detail, with its properties and the refinement mapping to `DatabaseService` |
| `DatabaseService` | What the database service promises: a request, its execution, its answer |
| `DatabaseProofs` | Type, safety and the joining of the thread: proofs about `Database` |
| `PermitProofs` | The permits of the channel; extends `DatabaseProofs` |
| `DatabaseRefinement` | `Database` implements `DatabaseService`; extends `DatabaseProofs` |
| `Serve` | The server process; extends `Database` and takes its steps |
| `Backup`, `BackupProofs` | Concurrent backup commands and proofs about them |
| `AdminExchange`, `AdminExchangeProofs` | Both ends of one admin connection and proofs about it |
| `Config` | Options, sources, values and what they stand for, as operators |
| `Instances` | Processes of every command on one machine; extends `Config` |
| `InstancesProofs` | Proofs about `Instances` and the loading of `Config` |
| `ServeProofs` | Proofs about `Serve`; extends `PermitProofs` and `DatabaseRefinement` |
| `MCDatabase` | Symmetry sets for TLC |
| `MCInstances` | The launches, config files and edits of the `Instances` run |

### Database

One *handle* is used by one task at a time (`call` borrows it, `close` consumes
it), so the task's program counter is a function of the handle, `phase`. `call`
becomes `CallReserve` or `CallClosed` (`reserve()`), `TakePermit` or `Refused`
(waking up from `reserve().await`), `Send`, and `Answer` (`receiver.await`).
Between `TakePermit` and `Send` the code has no await point but it runs on
another thread than the connection, so they are two actions. The channel is
modelled from tokio's documented and implemented behaviour as used here: a FIFO
semaphore with `free` permits, `waiters` in order, a permit handed to the oldest
waiter (`GiveBack`), and a closed flag that wins over an assigned permit. `Abort`
is the runtime dropping a task at an await point. Dropping a handle takes two
steps, sender first (`DropSender`, `DropCloseHandle`), as does `close`
(`BeginClose`, `IntoInner`), because tasks do so in parallel. The thread is
`Recv`, `Run`, `CheckClose`, `RecvNone`, `Optimize`, and `Unwind` for a panic,
which closes the channel and drops the closures in it. `Thread` names its steps.

SQLite is abstracted to an outcome of each closure ("ok", "err", "panic") and of
the final PRAGMAs and close. Opening in memory or on disk is one action.

### Serve

`main`, `http`, `admin` and `conn` are the program counters of `run_servers`,
`Server::run`, `AdminServer::run` and the connection tasks. Every step that
touches the database is an action of `Database` conjoined with the step of the
task that takes it; for instance `AdminBackup(c)` is `CallReserve(c)` or
`CallClosed(c)` together with the task leaving "reading". A task that has
finished is "ended" and still owns its handle until `ConnDrop`, because the code
drops `closed_receiver` first (`admin/src/server.rs:162`). When `run_servers`
returns, its own handle goes first (`MainDrop`, `RootDrop`), then the runtime
drops the remaining tasks where they are (`RuntimeDrop`), then the process exits
and takes the connection thread with it. axum's graceful shutdown is external:
it stops accepting, closes idle connections and waits for the others. An HTTP
connection is "idle", then at the "head" of a request (`HttpHead`), which its
client may send in parts, then at what was asked for (`HttpRequest`).
`HttpHealthCheck` is the handler of `/api/health-check`, which only asks
`is_open` and waits for nothing; `HttpRespond` is the end of a response, which
comes when the client has read it, `HttpLeave` a client that leaves, and
`HttpClose` the server closing an idle connection. Only these are closed by the
server: neither axum nor the code bounds the time of a head or of a response.

Because its steps are those of `Database`, `Serve` implements `Database` by
construction, which is how the theorems about `Database` reach the server
process; it is a lemma in `ServeProofs` and not a property.

### Backup

Files are known by the timestamp in their name. `clock` counts seconds,
`offset` is what a single change of local time has taken away. A command is
`Name`, `Request`, `Receive` or `Timeout`, `List`, `Remove` for each file, and
`Finish`; `Fail` stands for each `?` in between. The server handles one request
at a time, as the connection thread does: `VacuumExists`, `VacuumStart`,
`VacuumDone`, `VacuumFails`; `Crash` ends the server process and every waiting
client reads an end of file. `created` and `started` are history for the
properties only.

### AdminExchange

Requests are numbered; the number is never part of a frame, as in the code. The
client's `request_response` is `Send`, then `Receive`, `ReceiveEof` or
`ReceiveTimeout`; the server's task is `Accept`, `Read` or `ReadFails`,
`Execute` or `ExecuteRefused`, `Write`. A frame that answers a request of another
kind decodes to "ok" or to an error.

### Config

A layer is a function from option names to values, and `Fallback` is one layer
with another one for what it does not set. The options are listed by the struct
they are in (`AdminConfig`, `LogConfig` and so on). `Cli` is what clap has made
of command line and environment, restricted to the options the command has
(`Accepted`); `Files` is the builder chain of `load_config` over the file given
or, without one, the three standard files (`Layer` is empty for a file that does
not exist: confique skips it, also the one given with `--config-file`).
`Sources` are the files that are tried, `Present` those that exist. `Load` puts
`Cli` before `Files` and `Files` before `Defaults`. `LoadFails` holds
if any layer that is read holds a value its type rejects, whichever layer wins,
or the file given has a name without a format (`NoFormat`);
`Reads` tells that `health-check` deserializes only `[admin]`, so that it works
with a file in which `[http]` is invalid while `backup` does not. Paths are
sequences of components: `Join` is what tells absolute from relative ones.
`SocketPath`, `DatabaseDirectory`, `BackupDirectory`, `LogDirectory` and
`ServerAddress` are the methods that derive paths and addresses, for Linux.
Values are abstract members of small sets; only the sets a type accepts matter.

### Instances

A process is started once with a `launch`: command, working directory, user,
project directories, arguments, environment. `pc` is where it is. For a server
the steps are those of `Command::run` and `run_servers` in their order:
`Start` (load), `InitLogging`, `OpenDatabase`, `BindAdmin`, `BindHttp` or
`BindHttpFails`, `Stop`, `Leave`; each may be an I/O error (`Fails`), and `Kill`
ends a server without clean-up. `sockets` maps a name in the file system to the
process that bound it last and what for, admin or HTTP. `BindAdmin` overwrites an
entry (`try_overwrite`),
`BindHttp` needs a fresh name or a free address, and `Leave` removes the name of
the admin socket when the listener is dropped, even if it belongs to another
process by now; the name of an HTTP socket is never removed. A command is
`MakeBackupDir`, `Connect` or `ConnectFails`, then `Handle` in the server. The
admin socket has the mode 0o0750 (`admin/src/server.rs:72-76`), so that where the
platform applies it a command of a user other than root and the server's cannot
connect (`Admits`), and elsewhere it connects and the server drops it; each
attempt is checked for both (`ModeApplied`). `Handle`
drops the connection of an unauthorized user (`Authorized`), then `Receive` or
`ReceiveFails`, and `Prune`. `config-template` is `OpenFile`, which truncates or
creates the file, and `WriteTemplate`; in between the file is not `whole` and
loading it may succeed with nothing in it or fail. `Edit` is the operator.
`seen` and `met` are history for the properties only.

What goes on inside a server or a backup is left to `Serve`, `AdminExchange` and
`Backup`: here a server is up or not, and a backup is written at once or fails.

## 3. Runs

| Run | Shows | Bounds |
| --- | --- | --- |
| `Database_safety` | `TypeOK`, `ClosedMeansPanicked`, `QuietEnd`, `PermitsAccounted`, `LastCloseJoins`, and `ImplementsService`: `Database` implements `DatabaseService` | 4 handles, capacity 2, errors, panics, aborts |
| `Database_live` | `EveryCallReturns`, `SentClosuresRun`, `CloseReturns`, `ThreadFinishes` | 3 handles, capacity 1, no panics |
| `Serve` | `ServeTypeOK`, `ClosedAfterConnections`, `OkExitIsClean`, `OpenConnectionIsLate`, `HealthCheckTells`, `ShutdownCompletes`, `FailureExits` | 2 admin and 1 HTTP connection, capacity 1, health checks and static files, panics, failures, debug assertions |
| `Backup_safety` | `TypeOK`, `NewestKept`, `RemovesAfterSuccess`, `AtMostKeepLast`, `RemovesOlderUnlessSetBack`, `CommandsEnd` | 3 commands, 1 second after the start, 2 older files, `keep_last` 1, clock set back, crashes |
| `AdminExchange` | `TypeOK`, `OkMeansCarriedOut`, `ClosedIsTrue`, `OneAnswerPerConnection`, `RequestsReturn`, `TaskEnds` | 3 requests of both kinds |
| `Instances` | `TypeOK`, `DocumentedPrecedence`, `LoadedIsValid`, `Reachable`, `StartBlockedByServer`, `BacksUpItsDatabase`, `OnlyAuthorized`, `CommandsFindServer`, `TemplateKeepsFiles` | 3 processes, 13 launches, 2 config files, one edit that disables the admin socket |

Why these bounds reach the interesting cases. With more handles than places in
the channel, a task waits, is granted a permit, is dropped or refused; with one
handle more than places plus one there are two waiters and the order of the
queue matters. Two connections on one place make one admin task wait for the
other. Three commands within two seconds give equal names, overlapping
listings and removals of the same file. Three requests put a timed-out request
before and after an answered one. Three processes are a server, its successor or
rival, and a command that looks for either; or a server and two commands, one of
which creates the directory the other needs. The launches differ in what the
code tells apart: defaults and options from the command line, the environment,
the file given and the files found; absolute and relative directories with equal
and different working directories; a TCP address, a Unix domain
socket, also at the name of an admin socket; root, the server's user and
another; a missing runtime directory; a file with a value that is invalid for
some of the commands, and one whose name has no known format.

Some properties hold under a condition, each of which names what the code does
not do:

* `ShutdownCompletes` if no HTTP client holds on to its connection for ever, with
  a head it does not finish or a response it does not read, and the connection
  thread has not panicked (see `Database_call_returns`). Admin clients may do
  what they like.
* `Reachable` and `CommandsFindServer` except for servers that were up together
  with another one with the same socket. A second server started by mistake
  first takes the admin socket over, then fails because the HTTP address is in
  use, and on its way out removes the socket; the first server goes on serving
  but no command finds it any more.
* `CommandsFindServer`, further, for root and the user of the server: where the
  mode of the socket is applied, commands of others report that there is no
  server to connect to.
* `CommandsFindServer` and `BacksUpItsDatabase` for processes launched alike that
  have read the same files; a config file that is edited between the start of
  the server and that of the command may well lead them apart. That includes
  the working directory: with different ones a relative backup directory means
  that backups are written where the server runs, and old ones removed where the
  command runs.
* `StartBlockedByServer` except for HTTP Unix domain sockets, whose name stays
  behind even after an orderly shutdown and prevents the next start, and which
  may also be the name of some server's admin socket.
* `OkMeansCarriedOut` says "carried out" of requests of one kind only, and allows
  for a late answer to an earlier request that the client has given up: no frame
  says which request it answers. The commands make one request per client, so
  only users of the library interface are exposed.

`Serve` and `Database_call_returns` do not check deadlock: after a panic a
stranded call (see below) holds up everything. In the other passing runs the end
of the program is a stuttering step, and TLC checks that nothing stops before it.

### Runs that fail

Six runs check what a comment or a document says and find that the code does
something else; each is a finding in `PROJECT.json`.

* `Database_call_returns`: a caller that has its permit when the thread panics
  sends into a channel nobody reads and waits for ever (`database/src/lib.rs:130`).
* `Serve_late_handle`: the task of an admin connection reports itself done before
  it drops its handle; `close` then fails with `OpenConnection` after an orderly
  shutdown. The run has no HTTP connections.
* `Serve_static`: a client that stops reading a static file prevents the graceful
  shutdown. The timeout layer, which is there to prevent this, does not cover
  the static files; nor would it help if it did, since it bounds the time until
  there is a response and not that of reading it. The run assumes that clients
  finish the heads of their requests, which nothing bounds either.
* `Backup_turned_back`: order by local time is not order of age.
* `Backup_partial`: an unfinished file counts as a backup to keep.
* `Config_timeout`: a timeout of exactly 60 seconds is accepted
  (`src/config.rs:421`), although the help text and the message say "less than"
  (`:211`, `:422`). `Valid` follows the code.

One smaller disagreement is not a run: the comment "receiver is never dropped"
(`database/src/lib.rs:134`) does not hold when the caller's task is dropped,
which `Abort` models. `SentClosuresRun` shows that the closure runs all the same.

## 4. Fairness

* `Database`: the thread's steps, and the steps of a task that are enabled once
  something woke it, are weakly fair: the operating system and tokio schedule
  them. Whether a task calls, clones, closes or drops is its own choice. A task
  that was dropped goes on to drop its handle. Closures end.
* `Serve`: in addition the start, the drain and the end of the servers. A read
  or write on the admin socket ends by its timeout. The handler of an HTTP
  request ends, and the server closes an idle connection when it drains; nothing
  is assumed of HTTP clients, of signals, or of new connections.
* `Backup`: commands and the connection thread; the admin timeout expires. No
  error has to occur.
* `Instances` has no liveness property and no fairness.
* `AdminExchange`: only what a timeout bounds, `Receive`, `Read` and `Write`. That
  a connection is accepted or that a database call returns is not assumed.

All are weak: no action needs to be taken that is only sometimes enabled.

## 5. Proofs

Every safety invariant, action property and refinement that a passing run checks
is also a theorem, for every value of the constants. They rest on the named
assumptions about the constants (`HandlesAssumption`, `BufferAssumption` and so
on) in the modules, which TLC evaluates in the runs, and nothing else.

### Database

For any finite set of handles, any capacity, any outcomes, with and without
aborts. `DatabaseProofs`:

* `TypeCorrect`: `Spec => []TypeOK`.
* `CloseRefusesNobody`: `Spec => []ClosedMeansPanicked`.
* `OptimizesLast`: `Spec => []QuietEnd`.
* `ThreadIsJoinedOnce`: `Spec => []LastCloseJoins`.

`ClosedMeansPanicked` is not inductive: that the thread does not close the
channel under a living handle rests on the close signal being sent by the last
owner only. The inductive invariant `IInv` adds: before the database is open
nothing is (`UnopenedInv`); the queue of waiters holds distinct tasks that are
reserving, and is empty once the channel is closed (`WaitersInv`); a close
signal means that no owner is left, a closed channel has a panic or a close
signal as its reason, a dropped oneshot sender and a refused call have a panic
as theirs, and the thread's state fits `running` and `threadResult`
(`SafetyInv`). `WaitersInv` is needed because a permit is handed to the head of
the queue: it must be a task that waits, not one that has been given up.
`JoinInv` adds, for the last theorem, that a handle which joins has sent the
close signal: a second one would have to be the last owner too.

`PermitProofs`: `PermitsAreNeverLost`, `Spec => []PermitsAccounted`. With `IInv`
the property is inductive; the work is in counting. Each step adds one holder of
a permit, removes one or keeps the set (`TakesPermit`, `LetsGoOfPermit`,
`KeepsPermits`), and giving one back frees it or hands it to the oldest waiter
(`GiveBackCounts`), which is where a permit assigned to a task that is dropped
could be lost.

`DatabaseRefinement`: `DatabaseImplementsService`, `Spec => ImplementsService`,
by a step simulation under `IInv` and `ClosuresInv`. The mapping: what a caller
sees is derived from its `phase`, the closures the service has yet to run are
those in the channel and the one that runs, and the service is open, failed or
closed according to the thread. `ClosuresInv` says that a closure is at one place
only, in the channel, with the thread or answered; without it one closure could
run twice for the abstract service. One lemma for each kind of step
(`TaskRefines`, `GiveUpRefines`, `ThreadRefines`, `OpenRefines`) names the
abstract step or shows a stutter.

### Serve

For any number of connections, in `ServeProofs`:

* `ServerKeepsPromises` and `ServerUsesService`: all that is proved of `Database`
  holds in the server process, which implements `DatabaseService`. They rest on
  `ServerUsesDatabase`, `ServeSpec => Spec`: each action of `Serve` is conjoined
  with one of `Database` or leaves its variables alone.
* `ServeTypeCorrect`: `ServeSpec => []ServeTypeOK`.
* `DatabaseClosesLast`: `ServeSpec => []ClosedAfterConnections`.
* `GracefulExitIsClean`: `ServeSpec => []OkExitIsClean`.
* `OnlyEndedTasksHoldHandles`: `ServeSpec => OpenConnectionIsLate`.
* `HealthCheckIsRight`: `ServeSpec => HealthCheckTells`.

The invariant `ServersInv` says of each connection what its place in the code
means for its handle (`HandlesInv`: one that serves a request still owns it) and
of each server that has shut down that it has neither connections nor a handle
left (`StoppedInv`). A clean exit combines that with `QuietEnd` of the database.
That the health check answers rightly uses `ClosedMeansPanicked`: while its own
handle lives, a closed channel can only be a panic.

### Backup

For any number of commands, any `keep_last`, any clock and any existing files, in
`BackupProofs`:

* `BackupTypeCorrect`: `Spec => []TypeOK`.
* `NewestAreKept`: `Spec => []NewestKept`. The invariant says that each file that
  is missing, and each that a command is about to remove, has `keep_last` newer
  ones among all files that ever were; the central lemma is that this stays true
  when files are added (`SupersededGrows`), so that a listing that is out of date
  is harmless.
* `RemovalFollowsBackup`: `Spec => []RemovesAfterSuccess`. A command has at most
  one request with the server, which answers it once (`RequestInv`), and what was
  called written stays whole until another command claims the name (`WholeInv`).
* `OldBackupsAreRemoved`: `Spec => []AtMostKeepLast`. What a command listed and no
  longer has to remove is gone, or claimed by another one (`RemovedInv`); that the
  files that are not old are `keep_last` at most is a fact about finite sets,
  proved by taking the least of too many (`LeastFile`, `AllButKeepLastAreOld`).
* `OlderAreRemoved`: `Spec => []RemovesOlderUnlessSetBack`. Each name is that of a
  file that was there or of the local time at which its command started
  (`NamesInv`).

### AdminExchange

For any number of requests of any kinds, in `AdminExchangeProofs`:

* `ExchangeTypeCorrect`, `OkIsCarriedOut`, `ClosedIsNeverWrong`,
  `ConnectionAnswersOnce`: `Spec => []Inv` for `TypeOK`, `OkMeansCarriedOut`,
  `ClosedIsTrue` and `OneAnswerPerConnection`.

A frame does not tell which request it answers, so the invariant has to: there is
one response at most, it is to the request the task handled last, and once it is
read nothing else comes (`OneResponse`); a request has returned unless it is the
last one and waited for (`CountInv`); and a closed database stays closed
(`ClosedInv`).

### Instances and Config

For any processes, launches, config files and edits, in `InstancesProofs`:

* About the configuration: `FirstSourceWins` (`DocumentedPrecedence`) and
  `NoInvalidConfigRuns` (`LoadedIsValid`). They rest on lemmas about `Load`: it
  gives each option that is read the first value that is set (`LoadedFrom`), each
  value from a file is in a file that was read (`FromAFile`), so what does not
  fail to load is valid (`LoadValidates`), and nothing but the layers of the
  sources matters (`LoadIsLocal`), which is why `seen` determines `config`
  (`LoadInv`).
* About servers: `ServersAreReachable` (`Reachable`) and `OnlyServersBlockStart`
  (`StartBlockedByServer`). Servers that are up have met, and one that is up owns
  its name or has met the server that took it (`ReachInv`); whoever removes a
  name is or was a server with that admin socket.
* About commands: `OthersGetNothing` (`OnlyAuthorized`),
  `BackupsAreOfTheirDatabase` (`BacksUpItsDatabase`) and the action property
  `ServersAreFound` (`CommandsFindServer`). A name bound as an admin socket is
  that of the server that bound it (`SocketInv`), so a command's peer is a server
  at its own admin socket, and what was done for it that server has allowed
  (`AnswerInv`). That two processes launched alike derive the same paths is
  `LoadedAlike`.
* `TemplatesKeepFiles`: `Spec => TemplateKeepsFiles`, an action property.
* `InstancesTypeCorrect`: `Spec => []TypeOK`.

All of them follow from one inductive invariant, `InstancesInv`. The attempt to
prove `StartBlockedByServer` in an earlier form, that a Unix domain socket is
blocked by its own name only, failed: the address can be the name of an admin
socket, which its server removes. The property says so now, and one of the
launches of the run is such a server.

### Only model-checked

Liveness (`EveryCallReturns`, `SentClosuresRun`, `CloseReturns`, `ThreadFinishes`,
`ShutdownCompletes`, `FailureExits`, `CommandsEnd`, `RequestsReturn`,
`TaskEnds`): fairness is beyond the prover. The findings are counterexamples and
stay with TLC as well.

## 6. What is not modelled

* SQLite, its files and its crash recovery; tokio, axum, rkyv, interprocess
  beyond the behaviour the code relies on.
* The content of requests and responses, and HTTP routing: the routes other than
  the health check are constant documents and files.
* Two servers on one database directory: SQLite locks the file for each write,
  and nothing else is shared.
* Windows and macOS: named pipes and other default directories. That the mode of
  the admin socket is left out on some platforms is modelled (`ModeApplied`).
* The permissions of files and directories other than the admin socket's mode.
* A home directory that cannot be determined, a backup directory that is not
  UTF-8, an asset directory that is missing: each ends one process with an error
  before it does anything, or is served as 404.
* A process that exits while a detached thread is in the middle of a closure:
  `Exit` ends the thread wherever it is, but what SQLite makes of it is not part
  of the model.
* The syntax of TOML, durations, time zones and log directives: libraries decide
  what they accept, the model only distinguishes accepted from rejected values.
  Log files beyond their directory: rotation and formatting are a library's.
  Command line parsing, which is generated, and the frontend, a placeholder.

## 7. Plan

Done: all components with behaviour of their own are modelled, and what the
passing runs check is proved except for liveness. What may come next:

1. The parts of a liveness argument that are not temporal, as invariants and
   lemmas: whoever waits for a permit has one ahead of it that is held, in the
   channel or free; a server that drains has a task that can step or times out.
2. `Instances` and `Serve` describe a server at two levels. A mapping from the
   process of `Serve` to the steps `BindAdmin` to `Leave` of `Instances` would
   connect the order of the start and of the clean-up.
3. `AdminExchange` and `Backup` likewise: a backup's request and its timeout.
