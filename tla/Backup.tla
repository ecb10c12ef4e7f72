------------------------------- MODULE Backup -------------------------------
(***************************************************************************)
(* `novelnote backup': each command names a new backup after the local     *)
(* time, asks the server over the admin socket to write it with VACUUM     *)
(* INTO, and when told that this succeeded removes all but the keep_last   *)
(* newest backups.  Commands run concurrently (a timer and a person, say); *)
(* the server's connection thread writes one backup at a time.             *)
(*                                                                         *)
(* A file of the backup directory is known by the timestamp in its name.   *)
(***************************************************************************)
EXTENDS Naturals, Sequences, FiniteSets

CONSTANTS Commands,   \* the invocations of `novelnote backup'
          KeepLast,   \* database.backup.keep_last
          StartTime,  \* the clock at the start, in seconds
          MaxTime,    \* bound on the clock
          Existing,   \* complete backups that are there at the start
          SetBack,    \* how far the local time may be set back, 0 for never
          MayCrash    \* may the server process die?

ASSUME KeepLastAssumption == KeepLast \in 1..255
ASSUME TimeAssumption ==
  StartTime \in Nat /\ MaxTime \in Nat /\ SetBack \in 0..StartTime
ASSUME ExistingAssumption ==
  Existing \subseteq 0..StartTime /\ IsFiniteSet(Existing)
ASSUME CrashAssumption == MayCrash \in BOOLEAN

VARIABLES
  clock,      \* seconds that have passed
  offset,     \* what is subtracted from the clock to get the local time
  files,      \* timestamps of the files in the directory
  complete,   \* those of them that hold a whole backup
  created,    \* timestamps of all files there ever were
  pc,         \* where each command is
  started,    \* when each command read the clock
  stamp,      \* the timestamp of each command's backup
  listed,     \* what each command found in the directory
  doomed,     \* what it has yet to remove
  queue,      \* requests the server has read and not finished, oldest first
  response,   \* what the server has answered to each command
  writing     \* is the connection thread writing the first backup in queue?

directory == <<files, complete, created>>
time == <<clock, offset>>
server == <<queue, response, writing>>
command == <<pc, started, stamp, listed, doomed>>
vars == <<time, directory, command, server>>

Init ==
  /\ clock = StartTime
  /\ offset = 0
  /\ files = Existing
  /\ complete = Existing
  /\ created = Existing
  /\ pc = [c \in Commands |-> "start"]
  /\ started = [c \in Commands |-> 0]
  /\ stamp = [c \in Commands |-> 0]
  /\ listed = [c \in Commands |-> {}]
  /\ doomed = [c \in Commands |-> {}]
  /\ queue = <<>>
  /\ response = [c \in Commands |-> "none"]
  /\ writing = FALSE

Move(c, from, to) == pc[c] = from /\ pc' = [pc EXCEPT ![c] = to]

(* Time passes, and the local time may be set back once: the end of        *)
(* daylight saving time, or another timezone.                              *)
Tick ==
  /\ clock < MaxTime
  /\ clock' = clock + 1
  /\ UNCHANGED <<offset, directory, command, server>>

TurnBack ==
  /\ offset = 0
  /\ offset' = SetBack
  /\ UNCHANGED <<clock, directory, command, server>>

-----------------------------------------------------------------------------
(* BackupArgs::backup(): name the backup, connect, send the request.       *)
Name(c) ==
  /\ Move(c, "start", "named")
  /\ started' = [started EXCEPT ![c] = clock]
  /\ stamp' = [stamp EXCEPT ![c] = clock - offset]
  /\ UNCHANGED <<time, directory, listed, doomed, server>>

Request(c) ==
  /\ Move(c, "named", "waiting")
  /\ queue' = Append(queue, c)
  /\ UNCHANGED <<time, directory, started, stamp, listed, doomed, response,
                 writing>>

(* The directory cannot be created or read, there is no server, or a file  *)
(* cannot be removed: the command ends with an error.                      *)
Fail(c) ==
  /\ \E from \in {"named", "list", "remove"} : Move(c, from, "failed")
  /\ UNCHANGED <<time, directory, started, stamp, listed, doomed, server>>

(* Mutants: any response is taken for success; the response is taken for   *)
(* the command's next state.                                               *)
ReceiveAny(c) ==
  /\ response[c] # "none"
  /\ Move(c, "waiting", "list")
  /\ UNCHANGED <<time, directory, started, stamp, listed, doomed, server>>

ReceiveRaw(c) ==
  /\ response[c] # "none"
  /\ Move(c, "waiting", IF response[c] = "ok" THEN "list" ELSE response[c])
  /\ UNCHANGED <<time, directory, started, stamp, listed, doomed, server>>

(* The response is read: an error ends the command.                        *)
Receive(c) ==
  /\ response[c] # "none"
  /\ Move(c, "waiting", IF response[c] = "ok" THEN "list" ELSE "failed")
  /\ UNCHANGED <<time, directory, started, stamp, listed, doomed, server>>

(* The admin timeout expires first; the server goes on with the request.   *)
Timeout(c) ==
  /\ Move(c, "waiting", "failed")
  /\ UNCHANGED <<time, directory, started, stamp, listed, doomed, server>>

-----------------------------------------------------------------------------
(* remove_old_backups()                                                    *)

(* Mutant: sorted from oldest to newest.                                   *)
NewerAscending(f, fs) == {g \in fs : g < f}

(* Sorted from newest to oldest, without the first KeepLast.               *)
Newer(f, fs) == {g \in fs : g > f}
(* Mutants: one backup too few is skipped, or one too many.                *)
OldSkipsLess(fs) == {f \in fs : Cardinality(Newer(f, fs)) + 1 >= KeepLast}
OldSkipsMore(fs) == {f \in fs : Cardinality(Newer(f, fs)) > KeepLast}

Old(fs) == {f \in fs : Cardinality(Newer(f, fs)) >= KeepLast}

(* Every file with a matching name counts, written or still being written. *)
List(c) ==
  /\ Move(c, "list", "remove")
  /\ listed' = [listed EXCEPT ![c] = files]
  /\ doomed' = [doomed EXCEPT ![c] = Old(files)]
  /\ UNCHANGED <<time, directory, started, stamp, server>>

(* Mutant: a file that cannot be removed is tried again.                   *)
RemoveRetries(c) ==
  /\ pc[c] = "remove"
  /\ \E f \in doomed[c] :
       /\ \A g \in doomed[c] : g <= f
       /\ doomed' = [doomed EXCEPT ![c] = IF f \in files THEN @ \ {f} ELSE @]
       /\ files' = files \ {f}
       /\ complete' = complete \ {f}
  /\ UNCHANGED <<time, created, pc, started, stamp, listed, server>>

(* The files go one by one, newest first; one that another command has     *)
(* removed in the meantime is an error that ends the command.              *)
Remove(c) ==
  /\ pc[c] = "remove"
  /\ \E f \in doomed[c] :
       /\ \A g \in doomed[c] : g <= f
       /\ doomed' = [doomed EXCEPT ![c] = @ \ {f}]
       /\ files' = files \ {f}
       /\ complete' = complete \ {f}
       /\ pc' = [pc EXCEPT ![c] = IF f \in files THEN "remove" ELSE "failed"]
  /\ UNCHANGED <<time, created, started, stamp, listed, server>>

Finish(c) ==
  /\ doomed[c] = {}
  /\ Move(c, "remove", "done")
  /\ UNCHANGED <<time, directory, started, stamp, listed, doomed, server>>

-----------------------------------------------------------------------------
(* The server: the connection thread runs VACUUM INTO for one request      *)
(* after the other and the connection's task writes the response.          *)

Respond(r) ==
  /\ response' = [response EXCEPT ![Head(queue)] = r]
  /\ queue' = Tail(queue)
  /\ writing' = FALSE

(* VACUUM INTO refuses a file that exists, unless it is empty (as one that *)
(* was not written to the end may be), and otherwise creates it.           *)
VacuumExists ==
  /\ queue # <<>>
  /\ ~writing
  /\ stamp[Head(queue)] \in files
  /\ Respond("err")
  /\ UNCHANGED <<time, directory, command>>

VacuumStart ==
  /\ queue # <<>>
  /\ ~writing
  /\ stamp[Head(queue)] \notin complete
  /\ files' = files \cup {stamp[Head(queue)]}
  /\ created' = created \cup {stamp[Head(queue)]}
  /\ writing' = TRUE
  /\ UNCHANGED <<time, complete, command, queue, response>>

VacuumDone ==
  /\ writing
  /\ complete' = complete \cup ({stamp[Head(queue)]} \cap files)
  /\ Respond("ok")
  /\ UNCHANGED <<time, files, created, command>>

(* The disk is full, say; what was written stays.                          *)
VacuumFails ==
  /\ writing
  /\ Respond("err")
  /\ UNCHANGED <<time, directory, command>>

(* The server process dies, and each client reads an end of file.          *)
Crash ==
  /\ MayCrash
  /\ queue # <<>>
  /\ response' = [c \in Commands |->
                    IF \E i \in DOMAIN queue : queue[i] = c THEN "eof"
                    ELSE response[c]]
  /\ queue' = <<>>
  /\ writing' = FALSE
  /\ UNCHANGED <<time, directory, command>>

-----------------------------------------------------------------------------
Step(c) ==
  \/ Name(c)
  \/ Request(c)
  \/ Receive(c)
  \/ Timeout(c)
  \/ List(c)
  \/ Remove(c)
  \/ Finish(c)

Vacuum == VacuumExists \/ VacuumStart \/ VacuumDone \/ VacuumFails

Ended == \A c \in Commands : pc[c] \in {"done", "failed"}

Next ==
  \/ Tick
  \/ TurnBack
  \/ \E c \in Commands : Step(c) \/ Fail(c)
  \/ Vacuum
  \/ Crash
  \/ Ended /\ queue = <<>> /\ UNCHANGED vars

Spec == Init /\ [][Next]_vars

(* Commands and the connection thread are scheduled, and the admin timeout  *)
(* expires; no error has to occur.                                         *)
Fairness ==
  /\ \A c \in Commands : WF_vars(Step(c))
  /\ WF_vars(Vacuum)

FairSpec == Spec /\ Fairness

-----------------------------------------------------------------------------
TypeOK ==
  /\ clock \in Nat
  /\ offset \in Nat
  /\ files \in SUBSET Nat
  /\ complete \in SUBSET Nat
  /\ created \in SUBSET Nat
  /\ pc \in [Commands -> {"start", "named", "waiting", "list", "remove", "done", "failed"}]
  /\ started \in [Commands -> Nat]
  /\ stamp \in [Commands -> Nat]
  /\ listed \in [Commands -> SUBSET Nat]
  /\ doomed \in [Commands -> SUBSET Nat]
  /\ queue \in Seq(Commands)
  /\ response \in [Commands -> {"none", "ok", "err", "eof"}]
  /\ writing \in BOOLEAN

(* However the commands interleave, none of the KeepLast newest files that *)
(* ever were in the directory, by their names, has been removed.           *)
NewestKept ==
  \A f \in created : Cardinality(Newer(f, created)) < KeepLast => f \in files

(* Only a command whose own backup was written whole removes anything: the *)
(* file it asked for is whole, or was removed as an old one, after which   *)
(* only another command of the same second can create it again.            *)
RemovesAfterSuccess ==
  \A c \in Commands :
    pc[c] \in {"list", "remove", "done"} =>
      /\ stamp[c] \in created
      /\ stamp[c] \in files \ complete =>
           \E d \in Commands \ {c} : stamp[d] = stamp[c]

(* A command that ends well has removed all but KeepLast of the files it   *)
(* found; only another command that took the same name can bring one back. *)
AtMostKeepLast ==
  \A c \in Commands :
    pc[c] = "done" =>
      Cardinality((listed[c] \cap files) \ {stamp[d] : d \in Commands \ {c}})
        <= KeepLast

(* "Remove backups older than the last `keep_last` backups": each file a   *)
(* command is about to remove is older than KeepLast others it found, by   *)
(* the time at which their commands started.                               *)
StartedBefore(f, g) ==
  IF {f, g} \subseteq Existing THEN f < g
  ELSE \E c \in Commands :
         /\ stamp[c] = g /\ pc[c] # "start"
         /\ f \in Existing
              \/ \E d \in Commands : stamp[d] = f /\ started[d] < started[c]

RemovesOlder ==
  \A c \in Commands : \A f \in doomed[c] :
    Cardinality({g \in listed[c] : StartedBefore(f, g)}) >= KeepLast

(* The names tell the age of the backups until local time is set back.     *)
RemovesOlderUnlessSetBack == offset = 0 => RemovesOlder

(* A command that ends well has left a backup that can be restored:        *)
(* keep_last is "How many database backups to keep", "at least 1".         *)
BackupRemains == (\E c \in Commands : pc[c] = "done") => complete # {}

(* Every command ends, whatever the server does.                           *)
CommandsEnd == <>Ended
=============================================================================
