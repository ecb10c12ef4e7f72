---------------------------- MODULE BackupProofs ----------------------------
(***************************************************************************)
(* Theorems about Backup, for any number of concurrent commands, any       *)
(* keep_last, any clock and any files that were there before.              *)
(***************************************************************************)
EXTENDS Backup, FiniteSetTheorems, WellFoundedInduction, TLAPS

(* The local time is the clock, or the clock set back once; the backup     *)
(* being written is the one that was asked for first.                      *)
TimeInv ==
  /\ clock >= SetBack /\ offset \in {0, SetBack}
  /\ writing => queue # <<>>

LEMMA AppendType ==
  ASSUME NEW S, NEW s \in Seq(S), NEW e \in S
  PROVE  Append(s, e) \in Seq(S) /\ Append(s, e) # <<>>
<1>1. Len(Append(s, e)) = Len(s) + 1 /\ Len(s) \in Nat /\ Len(<<>>) = 0
  OBVIOUS
<1> QED
  BY <1>1

LEMMA TypeInit == Init => TypeOK /\ TimeInv
<1> SUFFICES ASSUME Init PROVE TypeOK /\ TimeInv
  OBVIOUS
<1>1. <<>> \in Seq(Commands)
  OBVIOUS
<1>2. Existing \in SUBSET Nat
  BY ExistingAssumption, TimeAssumption
<1>3. /\ clock \in Nat /\ clock >= SetBack /\ offset \in {0, SetBack}
      /\ offset \in Nat
  BY TimeAssumption DEF Init
<1> QED
  BY <1>1, <1>2, <1>3 DEF Init, TypeOK, TimeInv

LEMMA TypeNext == TypeOK /\ TimeInv /\ [Next]_vars => (TypeOK /\ TimeInv)'
<1> SUFFICES ASSUME TypeOK, TimeInv, [Next]_vars PROVE (TypeOK /\ TimeInv)'
  OBVIOUS
<1> USE DEF TypeOK, TimeInv, directory, time, server, command, Move
<1>1. CASE Tick
  BY <1>1, TimeAssumption DEF Tick
<1>2. CASE TurnBack
  BY <1>2, TimeAssumption DEF TurnBack
<1>3. ASSUME NEW c \in Commands, Step(c) \/ Fail(c) PROVE (TypeOK /\ TimeInv)'
  <2>1. CASE Name(c)
    <3>1. clock - offset \in Nat
      BY TimeAssumption
    <3> QED
      BY <2>1, <3>1 DEF Name
  <2>2. CASE Request(c)
    <3>1. Append(queue, c) \in Seq(Commands) /\ Append(queue, c) # <<>>
      BY AppendType
    <3> QED
      BY <2>2, <3>1 DEF Request
  <2>3. ASSUME UNCHANGED <<time, directory, started, stamp, listed, doomed, server>>,
               NEW to \in {"list", "done", "failed"}, pc' = [pc EXCEPT ![c] = to]
        PROVE  (TypeOK /\ TimeInv)'
    BY <2>3
  <2>6. CASE Fail(c) \/ Receive(c) \/ Timeout(c) \/ Finish(c)
    BY <2>3, <2>6 DEF Fail, Receive, Timeout, Finish
  <2>4. CASE List(c)
    <3>1. Old(files) \in SUBSET Nat
      BY DEF Old
    <3> QED
      BY <2>4, <3>1 DEF List
  <2>5. CASE Remove(c)
    BY <2>5 DEF Remove
  <2> QED
    BY <1>3, <2>1, <2>2, <2>6, <2>4, <2>5 DEF Step
<1>4. CASE Vacuum
  <2>1. queue # <<>> /\ Head(queue) \in Commands /\ Tail(queue) \in Seq(Commands)
    <3>1. queue # <<>>
      BY <1>4 DEF Vacuum, VacuumExists, VacuumStart, VacuumDone, VacuumFails
    <3> QED
      BY <3>1
  <2>2. CASE VacuumExists
    BY <2>1, <2>2 DEF VacuumExists, Respond
  <2>3. CASE VacuumStart
    BY <2>1, <2>3 DEF VacuumStart
  <2>4. CASE VacuumDone
    BY <2>1, <2>4 DEF VacuumDone, Respond
  <2>5. CASE VacuumFails
    BY <2>1, <2>5 DEF VacuumFails, Respond
  <2> QED
    BY <1>4, <2>2, <2>3, <2>4, <2>5 DEF Vacuum
<1>5. CASE Crash
  <2>1. <<>> \in Seq(Commands)
    OBVIOUS
  <2> QED
    BY <1>5, <2>1 DEF Crash
<1>6. CASE UNCHANGED vars
  BY <1>6 DEF vars
<1> QED
  BY <1>1, <1>2, <1>3, <1>4, <1>5, <1>6 DEF Next

(* Type correctness; with it, that the local time is a natural number      *)
(* although it may be set back.                                            *)
THEOREM BackupTypeCorrect == Spec => []TypeOK
<1>1. Init => TypeOK /\ TimeInv
  BY TypeInit
<1>2. (TypeOK /\ TimeInv) /\ [Next]_vars => (TypeOK /\ TimeInv)'
  BY TypeNext
<1> QED
  BY <1>1, <1>2, PTL DEF Spec

-----------------------------------------------------------------------------
(* The newest files.                                                       *)

(* A file with KeepLast newer ones among those that ever were.             *)
Superseded(f, fs) == Cardinality(Newer(f, fs)) >= KeepLast

(* More files supersede no fewer.                                          *)
LEMMA SupersededGrows ==
  ASSUME NEW fs \in SUBSET Nat, NEW gs \in SUBSET Nat, fs \subseteq gs,
         IsFiniteSet(gs), NEW f \in Nat, Superseded(f, fs)
  PROVE  Superseded(f, gs)
<1>1. Newer(f, fs) \subseteq Newer(f, gs)
  BY DEF Newer
<1>2. IsFiniteSet(Newer(f, gs))
  <2>1. Newer(f, gs) \subseteq gs
    BY DEF Newer
  <2> QED
    BY <2>1, FS_Subset
<1>3. /\ Cardinality(Newer(f, fs)) <= Cardinality(Newer(f, gs))
      /\ Cardinality(Newer(f, gs)) \in Nat
      /\ Cardinality(Newer(f, fs)) \in Nat
  BY <1>1, <1>2, FS_Subset, FS_CardinalityType
<1> QED
  BY <1>3, KeepLastAssumption DEF Superseded

FilesInv == files \subseteq created /\ IsFiniteSet(created)

(* What is missing, and what a command is about to remove, is superseded.  *)
SupersededInv ==
  /\ \A f \in created \ files : Superseded(f, created)
  /\ \A c \in Commands : \A f \in doomed[c] : Superseded(f, created)

IInv == TypeOK /\ TimeInv /\ FilesInv /\ SupersededInv

LEMMA InvInit == Init => IInv
  BY TypeInit, ExistingAssumption
     DEF Init, IInv, FilesInv, SupersededInv

LEMMA InvNext == IInv /\ [Next]_vars => IInv'
<1> SUFFICES ASSUME IInv, [Next]_vars PROVE (FilesInv /\ SupersededInv)'
  BY TypeNext DEF IInv
<1> USE DEF IInv, FilesInv, SupersededInv, directory, time, server, command, Move
<1>0. TypeOK'
  BY TypeNext
(* Steps that leave the files alone and doom nothing.                      *)
<1>a. ASSUME UNCHANGED <<files, created, doomed>> PROVE (FilesInv /\ SupersededInv)'
  BY <1>a
<1>1. CASE Tick \/ TurnBack
  BY <1>a, <1>1 DEF Tick, TurnBack
<1>2. ASSUME NEW c \in Commands, Step(c) \/ Fail(c) PROVE (FilesInv /\ SupersededInv)'
  <2>1. CASE Name(c) \/ Request(c) \/ Fail(c) \/ Receive(c) \/ Timeout(c)
               \/ Finish(c)
    BY <1>a, <2>1 DEF Name, Request, Fail, Receive, Timeout, Finish
  <2>2. CASE List(c)
    <3>1. \A f \in Old(files) : f \in Nat /\ Superseded(f, files)
      BY DEF Old, Superseded, TypeOK
    <3>2. \A f \in Old(files) : Superseded(f, created)
      BY <3>1, SupersededGrows DEF TypeOK
    <3>3. doomed' = [doomed EXCEPT ![c] = Old(files)] /\ UNCHANGED <<files, created>>
      BY <2>2 DEF List
    <3> QED
      BY <3>2, <3>3 DEF TypeOK
  <2>3. CASE Remove(c)
    <3>1. PICK f \in doomed[c] :
            /\ doomed' = [doomed EXCEPT ![c] = @ \ {f}]
            /\ files' = files \ {f}
      BY <2>3 DEF Remove
    <3>2. created' = created
      BY <2>3 DEF Remove
    <3>3. Superseded(f, created)
      BY <3>1
    <3> QED
      BY <3>1, <3>2, <3>3 DEF TypeOK
  <2> QED
    BY <1>2, <2>1, <2>2, <2>3 DEF Step
<1>3. CASE Vacuum
  <2>1. CASE VacuumExists \/ VacuumDone \/ VacuumFails
    BY <1>a, <2>1 DEF VacuumExists, VacuumDone, VacuumFails
  <2>2. CASE VacuumStart
    <3>1. PICK s : files' = files \cup {s} /\ created' = created \cup {s}
                   /\ doomed' = doomed
      BY <2>2 DEF VacuumStart
    <3>2. IsFiniteSet(created') /\ files' \subseteq created'
      BY <3>1, FS_AddElement
    <3>3. ASSUME NEW f \in Nat, Superseded(f, created) PROVE Superseded(f, created')
      BY <1>0, <3>1, <3>2, <3>3, SupersededGrows DEF TypeOK
    <3>4. \A f \in created' \ files' : Superseded(f, created')
      BY <3>1, <3>3 DEF TypeOK
    <3>5. \A c \in Commands : \A f \in doomed'[c] : Superseded(f, created')
      BY <3>1, <3>3 DEF TypeOK
    <3> QED
      BY <3>2, <3>4, <3>5
  <2> QED
    BY <1>3, <2>1, <2>2 DEF Vacuum
<1>4. CASE Crash
  BY <1>a, <1>4 DEF Crash
<1>5. CASE UNCHANGED vars
  BY <1>a, <1>5 DEF vars
<1> QED
  BY <1>1, <1>2, <1>3, <1>4, <1>5 DEF Next

(* None of the KeepLast newest files, by their names, is ever removed,     *)
(* however many commands list and remove at the same time and whatever the *)
(* clock does.                                                             *)
THEOREM NewestAreKept == Spec => []NewestKept
<1>1. Init => IInv
  BY InvInit
<1>2. IInv /\ [Next]_vars => IInv'
  BY InvNext
<1>3. IInv => NewestKept
  <2> SUFFICES ASSUME IInv, NEW f \in created, Cardinality(Newer(f, created)) < KeepLast
               PROVE  f \in files
    BY DEF NewestKept
  <2>1. Cardinality(Newer(f, created)) \in Nat
    <3>1. Newer(f, created) \subseteq created /\ IsFiniteSet(created)
      BY DEF Newer, IInv, FilesInv
    <3> QED
      BY <3>1, FS_Subset, FS_CardinalityType
  <2>2. ~Superseded(f, created)
    BY <2>1, KeepLastAssumption DEF Superseded
  <2> QED
    BY <2>2 DEF IInv, SupersededInv
<1> QED
  BY <1>1, <1>2, <1>3, PTL DEF Spec
-----------------------------------------------------------------------------
(* Requests and names.                                                     *)

(* Another command has taken the name.                                     *)
Claimed(f, c) == \E d \in Commands \ {c} : pc[d] # "start" /\ stamp[d] = f

(* A command has at most one request with the server, which answers it     *)
(* once, and no command goes on to remove backups without an Ok.           *)
RequestInv ==
  /\ \A i, j \in 1..Len(queue) : queue[i] = queue[j] => i = j
  /\ \A i \in 1..Len(queue) :
       /\ response[queue[i]] = "none"
       /\ pc[queue[i]] \in {"waiting", "failed"}
  /\ \A c \in Commands :
       /\ pc[c] \in {"start", "named"} => response[c] = "none"
       /\ pc[c] \in {"list", "remove", "done"} => response[c] = "ok"
  /\ writing => stamp[Head(queue)] \in created

(* Each file was there at the start or is named after the local time at    *)
(* which its command started.                                              *)
NamesInv ==
  /\ clock >= StartTime
  /\ \A f \in created \ Existing :
       \E c \in Commands : pc[c] # "start" /\ stamp[c] = f
  /\ \A c \in Commands : pc[c] # "start" => started[c] >= StartTime
  /\ offset = 0 => \A c \in Commands : stamp[c] = started[c]

(* What the server has called written is whole, until the same name is     *)
(* used again.                                                             *)
WholeInv ==
  \A c \in Commands : response[c] = "ok" =>
    /\ stamp[c] \in created
    /\ stamp[c] \in files \ complete => Claimed(stamp[c], c)

(* Of the old files that a command found, those it no longer has to remove *)
(* are gone, until the same name is used again.                            *)
RemovedInv ==
  \A c \in Commands :
    /\ listed[c] \subseteq created
    /\ doomed[c] \subseteq Old(listed[c])
    /\ pc[c] = "done" => doomed[c] = {}
    /\ pc[c] \in {"remove", "done"} =>
         \A f \in (Old(listed[c]) \ doomed[c]) \cap files : Claimed(f, c)

BackupInv == IInv /\ RequestInv /\ NamesInv /\ WholeInv /\ RemovedInv

LEMMA BackupInit == Init => BackupInv
<1> SUFFICES ASSUME Init PROVE BackupInv
  OBVIOUS
<1>1. IInv
  BY InvInit
<1>2. Len(queue) = 0
  BY DEF Init
<1>3. RequestInv /\ WholeInv
  BY <1>2 DEF Init, RequestInv, WholeInv
<1>4. NamesInv
  BY TimeAssumption DEF Init, NamesInv
<1>5. RemovedInv
  BY DEF Init, RemovedInv
<1> QED
  BY <1>1, <1>3, <1>4, <1>5 DEF BackupInv

(* Which state a command moves from and to, and that the others stay.      *)
LEMMA CommandMoves ==
  ASSUME TypeOK, NEW c \in Commands, Step(c) \/ Fail(c)
  PROVE  /\ \A d \in Commands \ {c} :
              /\ pc'[d] = pc[d] /\ stamp'[d] = stamp[d] /\ started'[d] = started[d]
              /\ listed'[d] = listed[d] /\ doomed'[d] = doomed[d]
         /\ pc'[c] # "start"
         /\ \/ Name(c)
            \/ pc[c] # "start" /\ stamp'[c] = stamp[c] /\ started'[c] = started[c]
         /\ \/ List(c) \/ Remove(c)
            \/ UNCHANGED <<listed, doomed>>
         /\ \/ Remove(c)
            \/ UNCHANGED directory
         /\ UNCHANGED <<clock, offset, created, response, writing>>
<1> USE DEF Move, directory, time, server, command, TypeOK
<1>1. CASE Name(c)
  BY <1>1 DEF Name
<1>2. CASE Request(c)
  BY <1>2 DEF Request
<1>3. CASE Fail(c)
  BY <1>3 DEF Fail
<1>4. CASE Receive(c)
  BY <1>4 DEF Receive
<1>5. CASE Timeout(c) \/ Finish(c)
  BY <1>5 DEF Timeout, Finish
<1>6. CASE List(c)
  BY <1>6 DEF List
<1>7. CASE Remove(c)
  BY <1>7 DEF Remove
<1> QED
  BY <1>1, <1>2, <1>3, <1>4, <1>5, <1>6, <1>7 DEF Step

(* A command that has its name keeps it.                                   *)
LEMMA NamesAreKept ==
  ASSUME TypeOK, [Next]_vars, NEW c \in Commands, pc[c] # "start"
  PROVE  pc'[c] # "start" /\ stamp'[c] = stamp[c] /\ started'[c] = started[c]
<1>1. ASSUME NEW d \in Commands, Step(d) \/ Fail(d)
      PROVE  pc'[c] # "start" /\ stamp'[c] = stamp[c] /\ started'[c] = started[c]
  <2>1. ~Name(d) \/ d # c
    BY DEF Name, Move
  <2> QED
    BY <1>1, <2>1, CommandMoves
<1>2. CASE UNCHANGED command
  BY <1>2 DEF command
<1> QED
  BY <1>1, <1>2
     DEF Next, Tick, TurnBack, Vacuum, VacuumExists, VacuumStart, VacuumDone,
         VacuumFails, Crash, vars

LEMMA ClaimsAreKept ==
  ASSUME TypeOK, [Next]_vars, NEW c, NEW f, Claimed(f, c)
  PROVE  Claimed(f, c)'
<1>1. PICK d \in Commands \ {c} : pc[d] # "start" /\ stamp[d] = f
  BY DEF Claimed
<1>2. pc'[d] # "start" /\ stamp'[d] = f
  BY <1>1, NamesAreKept
<1> QED
  BY <1>1, <1>2 DEF Claimed

(* The command whose request comes first.                                  *)
LEMMA FirstRequest ==
  ASSUME TypeOK, RequestInv, queue # <<>>
  PROVE  /\ Head(queue) \in Commands /\ Head(queue) = queue[1]
         /\ 1 \in 1..Len(queue)
         /\ response[Head(queue)] = "none"
         /\ pc[Head(queue)] \in {"waiting", "failed"}
         /\ Tail(queue) \in Seq(Commands)
         /\ Len(Tail(queue)) = Len(queue) - 1
         /\ \A i \in 1..Len(Tail(queue)) :
              /\ i + 1 \in 1..Len(queue) /\ Tail(queue)[i] = queue[i + 1]
              /\ Tail(queue)[i] # Head(queue)
<1>1. queue \in Seq(Commands) /\ queue # <<>>
  BY DEF TypeOK
<1>2. /\ Len(queue) \in Nat \ {0} /\ Head(queue) = queue[1] /\ Head(queue) \in Commands
      /\ Tail(queue) \in Seq(Commands) /\ Len(Tail(queue)) = Len(queue) - 1
      /\ \A i \in 1..Len(Tail(queue)) : Tail(queue)[i] = queue[i + 1]
  BY <1>1
<1>3. 1 \in 1..Len(queue) /\ \A i \in 1..(Len(queue) - 1) : i + 1 \in 1..Len(queue) /\ i + 1 # 1
  BY <1>2
<1> QED
  BY <1>2, <1>3 DEF RequestInv

LEMMA RequestNext == BackupInv /\ [Next]_vars => RequestInv'
<1> SUFFICES ASSUME BackupInv, [Next]_vars PROVE RequestInv'
  OBVIOUS
<1> USE DEF BackupInv, IInv, directory, time, server, command
<1>0. /\ queue \in Seq(Commands) /\ Len(queue) \in Nat
      /\ \A i \in 1..Len(queue) : queue[i] \in Commands
      /\ writing => queue # <<>>
  BY DEF TypeOK, TimeInv
<1>a. ASSUME UNCHANGED <<pc, stamp, queue, response, writing>>, created' = created
      PROVE  RequestInv'
  BY <1>a DEF RequestInv
<1>1. ASSUME NEW c \in Commands, Step(c) \/ Fail(c) PROVE RequestInv'
  <2>1. /\ \A d \in Commands \ {c} : pc'[d] = pc[d] /\ stamp'[d] = stamp[d]
        /\ pc'[c] # "start" /\ UNCHANGED <<created, response, writing>>
        /\ pc[c] = "start" \/ stamp'[c] = stamp[c]
    BY <1>1, CommandMoves DEF Name, Move
  <2>2. CASE Request(c)
    <3>1. /\ pc[c] = "named" /\ pc'[c] = "waiting" /\ queue' = Append(queue, c)
          /\ stamp' = stamp
      BY <2>2 DEF Request, Move, TypeOK
    <3>2. /\ Len(queue') = Len(queue) + 1 /\ queue'[Len(queue) + 1] = c
          /\ \A i \in 1..Len(queue) : queue'[i] = queue[i] /\ queue[i] # c
      BY <1>0, <3>1 DEF RequestInv
    <3>3. \A i \in 1..(Len(queue) + 1) : i \in 1..Len(queue) \/ i = Len(queue) + 1
      BY <1>0
    <3>4. \A i, j \in 1..Len(queue') : queue'[i] = queue'[j] => i = j
      BY <3>2, <3>3 DEF RequestInv
    <3>5. \A i \in 1..Len(queue') :
            response'[queue'[i]] = "none" /\ pc'[queue'[i]] \in {"waiting", "failed"}
      <4>1. response[c] = "none"
        BY <3>1 DEF RequestInv
      <4>2. ASSUME NEW i \in 1..Len(queue)
            PROVE  response'[queue'[i]] = "none" /\ pc'[queue'[i]] \in {"waiting", "failed"}
        BY <1>0, <2>1, <3>2, <4>2 DEF RequestInv
      <4> QED
        BY <2>1, <3>1, <3>2, <3>3, <4>1, <4>2
    <3>6. writing' => Head(queue') = Head(queue)
      <4>1. writing => 1 \in 1..Len(queue) /\ 1 \in 1..(Len(queue) + 1)
        BY <1>0
      <4>2. writing => queue'[1] = queue[1]
        BY <3>2, <4>1
      <4>3. queue' # <<>> /\ queue' \in Seq(Commands)
        BY <1>0, <3>1, AppendType
      <4> QED
        BY <1>0, <2>1, <4>2, <4>3
    <3> QED
      BY <2>1, <3>1, <3>4, <3>5, <3>6 DEF RequestInv
  <2>3. CASE ~Request(c)
    <3>1. queue' = queue
      BY <1>1, <2>3
         DEF Step, Name, Fail, Receive, Timeout, List, Remove, Finish
    <3>2. /\ pc'[c] = "named" => pc[c] = "start"
          /\ pc[c] \in {"waiting", "failed"} =>
               pc'[c] = "failed" \/ response[c] # "none"
          /\ pc'[c] \in {"list", "remove", "done"} =>
               pc[c] \in {"list", "remove", "done"} \/ response[c] = "ok"
      BY <1>1, <2>3
         DEF Step, Name, Fail, Receive, Timeout, List, Remove, Finish, Move, TypeOK
    <3>3. \A i \in 1..Len(queue) :
            response'[queue[i]] = "none" /\ pc'[queue[i]] \in {"waiting", "failed"}
      BY <1>0, <2>1, <3>2 DEF RequestInv
    <3>4. \A d \in Commands :
            /\ pc'[d] \in {"start", "named"} => response[d] = "none"
            /\ pc'[d] \in {"list", "remove", "done"} => response[d] = "ok"
      BY <2>1, <3>2 DEF RequestInv
    <3>5. writing => stamp'[Head(queue)] = stamp[Head(queue)]
      <4> SUFFICES ASSUME writing PROVE stamp'[Head(queue)] = stamp[Head(queue)]
        OBVIOUS
      <4>1. Head(queue) \in Commands /\ pc[Head(queue)] \in {"waiting", "failed"}
        BY <1>0, FirstRequest
      <4> QED
        BY <2>1, <4>1
    <3> QED
      BY <2>1, <3>1, <3>3, <3>4, <3>5 DEF RequestInv
  <2> QED
    BY <2>2, <2>3
<1>2. ASSUME NEW r \in {"ok", "err"}, queue # <<>>, Respond(r), UNCHANGED command
      PROVE  RequestInv'
  <2>1. /\ queue' = Tail(queue) /\ pc' = pc /\ stamp' = stamp /\ writing' = FALSE
        /\ response'[Head(queue)] = r
        /\ \A d \in Commands \ {Head(queue)} : response'[d] = response[d]
    BY <1>2, FirstRequest DEF Respond, TypeOK
  <2>2. \A i \in 1..Len(queue') :
          /\ i + 1 \in 1..Len(queue) /\ queue'[i] = queue[i + 1]
          /\ queue'[i] \in Commands \ {Head(queue)}
    BY <1>0, <1>2, <2>1, FirstRequest
  <2>3. \A i, j \in 1..Len(queue') : queue'[i] = queue'[j] => i = j
    BY <2>2 DEF RequestInv
  <2>4. \A i \in 1..Len(queue') :
          response'[queue'[i]] = "none" /\ pc'[queue'[i]] \in {"waiting", "failed"}
    BY <2>1, <2>2 DEF RequestInv
  <2>5. pc[Head(queue)] \in {"waiting", "failed"}
    BY <1>2, FirstRequest
  <2> QED
    BY <2>1, <2>3, <2>4, <2>5 DEF RequestInv
<1>3. CASE Vacuum
  <2>1. CASE VacuumStart
    BY <2>1 DEF VacuumStart, RequestInv
  <2> QED
    BY <1>0, <1>2, <1>3, <2>1 DEF Vacuum, VacuumExists, VacuumDone, VacuumFails
<1>4. CASE Crash
  <2>1. /\ pc' = pc /\ Len(queue') = 0 /\ writing' = FALSE
        /\ \A c \in Commands :
             \/ response'[c] = response[c]
             \/ response'[c] = "eof" /\ \E i \in DOMAIN queue : queue[i] = c
    BY <1>4 DEF Crash
  <2>2. \A c \in Commands : response'[c] # response[c] => pc[c] \in {"waiting", "failed"}
    BY <1>0, <2>1 DEF RequestInv
  <2> QED
    BY <2>1, <2>2 DEF RequestInv
<1> QED
  BY <1>a, <1>1, <1>3, <1>4 DEF Next, Tick, TurnBack, vars

LEMMA NamesNext == BackupInv /\ [Next]_vars => NamesInv'
<1> SUFFICES ASSUME BackupInv, [Next]_vars PROVE NamesInv'
  OBVIOUS
<1> USE DEF BackupInv, IInv, directory, time, server, command
(* Steps that create no file keep the names of those there are.            *)
<1>a. \A f \in created \ Existing : \E c \in Commands : pc'[c] # "start" /\ stamp'[c] = f
  BY NamesAreKept DEF NamesInv
<1>b. ASSUME UNCHANGED <<offset, created, pc, started, stamp>>,
             clock' = clock \/ clock' = clock + 1
      PROVE  NamesInv'
  BY <1>b, TimeAssumption DEF NamesInv, TypeOK
<1>1. CASE Tick
  BY <1>1, <1>b DEF Tick
<1>2. CASE TurnBack
  BY <1>2 DEF TurnBack, NamesInv
<1>3. ASSUME NEW c \in Commands, Step(c) \/ Fail(c) PROVE NamesInv'
  <2>1. /\ \A d \in Commands \ {c} : /\ pc'[d] = pc[d] /\ stamp'[d] = stamp[d]
                                     /\ started'[d] = started[d]
        /\ UNCHANGED <<clock, offset, created>>
        /\ \/ Name(c)
           \/ pc[c] # "start" /\ stamp'[c] = stamp[c] /\ started'[c] = started[c]
    BY <1>3, CommandMoves
  <2>2. Name(c) => started'[c] = clock /\ stamp'[c] = clock - offset
    BY DEF Name, TypeOK
  <2>3. clock \in Nat /\ (offset = 0 => clock - offset = clock)
    BY DEF TypeOK
  <2> QED
    BY <1>a, <2>1, <2>2, <2>3 DEF NamesInv
<1>4. CASE Vacuum
  <2>1. CASE VacuumStart
    <3>1. /\ created' = created \cup {stamp[Head(queue)]}
          /\ UNCHANGED <<clock, offset, pc, started, stamp>>
      BY <2>1 DEF VacuumStart
    <3>2. Head(queue) \in Commands /\ pc[Head(queue)] # "start"
      BY <2>1, FirstRequest DEF VacuumStart
    <3> QED
      BY <3>1, <3>2 DEF NamesInv
  <2> QED
    BY <1>4, <1>b, <2>1 DEF Vacuum, VacuumExists, VacuumDone, VacuumFails
<1>5. CASE Crash \/ UNCHANGED vars
  BY <1>5, <1>b DEF Crash, vars
<1> QED
  BY <1>1, <1>2, <1>3, <1>4, <1>5 DEF Next

LEMMA WholeNext == BackupInv /\ [Next]_vars => WholeInv'
<1> SUFFICES ASSUME BackupInv, [Next]_vars PROVE WholeInv'
  OBVIOUS
<1> USE DEF BackupInv, IInv, directory, time, server, command
<1>0. \A c \in Commands : \A f : Claimed(f, c) => Claimed(f, c)'
  BY ClaimsAreKept
<1>1. \A c \in Commands : response[c] = "ok" => stamp'[c] = stamp[c]
  BY NamesAreKept DEF RequestInv
(* Steps that leave no new file unfinished.                                *)
<1>a. ASSUME created \subseteq created', files' \ complete' \subseteq files \ complete,
             \A c \in Commands : response'[c] = "ok" => response[c] = "ok"
      PROVE  WholeInv'
  BY <1>0, <1>1, <1>a DEF WholeInv
<1>2. ASSUME NEW c \in Commands, Step(c) \/ Fail(c) PROVE WholeInv'
  <2>1. created' = created /\ response' = response
    BY <1>2, CommandMoves
  <2>2. files' \ complete' \subseteq files \ complete
    <3>1. CASE Remove(c)
      BY <3>1 DEF Remove
    <3> QED
      BY <1>2, <3>1, CommandMoves
  <2> QED
    BY <1>a, <2>1, <2>2
<1>3. CASE VacuumExists \/ VacuumFails
  <2>1. /\ UNCHANGED directory /\ queue # <<>>
        /\ response' = [response EXCEPT ![Head(queue)] = "err"]
    BY <1>3 DEF VacuumExists, VacuumFails, Respond, TimeInv
  <2>2. \A c \in Commands : response'[c] = "ok" => response[c] = "ok"
    BY <2>1 DEF TypeOK
  <2> QED
    BY <1>a, <2>1, <2>2
<1>4. CASE VacuumStart
  <2> DEFINE h == Head(queue)
  <2>1. /\ files' = files \cup {stamp[h]} /\ created' = created \cup {stamp[h]}
        /\ UNCHANGED <<complete, pc, stamp, response>>
    BY <1>4 DEF VacuumStart
  <2>2. h \in Commands /\ response[h] = "none" /\ pc[h] # "start"
    BY <1>4, FirstRequest DEF VacuumStart
  <2>3. ASSUME NEW c \in Commands, response[c] = "ok", stamp[c] \in files' \ complete
        PROVE  Claimed(stamp[c], c)
    <3>1. CASE stamp[c] = stamp[h]
      BY <2>2, <2>3, <3>1 DEF Claimed
    <3> QED
      BY <2>1, <2>3, <3>1 DEF WholeInv
  <2> QED
    BY <1>0, <2>1, <2>3 DEF WholeInv
<1>5. CASE VacuumDone
  <2> DEFINE h == Head(queue)
  <2>1. /\ complete' = complete \cup ({stamp[h]} \cap files)
        /\ UNCHANGED <<files, created, pc, stamp>> /\ queue # <<>>
        /\ response' = [response EXCEPT ![h] = "ok"]
    BY <1>5 DEF VacuumDone, Respond, TimeInv
  <2>2. stamp[h] \in created
    BY <1>5 DEF VacuumDone, RequestInv
  <2>3. \A c \in Commands \ {h} : response'[c] = response[c]
    BY <2>1 DEF TypeOK
  <2>4. stamp[h] \notin files' \ complete'
    BY <2>1
  <2> QED
    BY <1>0, <2>1, <2>2, <2>3, <2>4 DEF WholeInv
<1>6. CASE Crash
  BY <1>a, <1>6 DEF Crash
<1>7. CASE Tick \/ TurnBack \/ UNCHANGED vars
  BY <1>a, <1>7 DEF Tick, TurnBack, vars
<1> QED
  BY <1>2, <1>3, <1>4, <1>5, <1>6, <1>7 DEF Next, Vacuum

LEMMA RemovedNext == BackupInv /\ [Next]_vars => RemovedInv'
<1> SUFFICES ASSUME BackupInv, [Next]_vars PROVE RemovedInv'
  OBVIOUS
<1> USE DEF BackupInv, IInv, directory, time, server, command
<1>0. \A c \in Commands : \A f : Claimed(f, c) => Claimed(f, c)'
  BY ClaimsAreKept
(* Steps that bring no file back leave what is to be removed right.        *)
<1>a. ASSUME UNCHANGED <<pc, listed, doomed>>, created \subseteq created',
             files' \subseteq files
      PROVE  RemovedInv'
  BY <1>0, <1>a DEF RemovedInv
<1>1. ASSUME NEW c \in Commands, Step(c) \/ Fail(c) PROVE RemovedInv'
  <2>1. /\ \A d \in Commands \ {c} : /\ pc'[d] = pc[d] /\ listed'[d] = listed[d]
                                     /\ doomed'[d] = doomed[d]
        /\ created' = created /\ files' \subseteq files
    <3>1. Remove(c) => files' \subseteq files
      BY DEF Remove
    <3> QED
      BY <1>1, <3>1, CommandMoves
  <2> DEFINE Right(d) ==
        /\ listed'[d] \subseteq created'
        /\ doomed'[d] \subseteq Old(listed'[d])
        /\ pc'[d] = "done" => doomed'[d] = {}
        /\ pc'[d] \in {"remove", "done"} =>
             \A f \in (Old(listed'[d]) \ doomed'[d]) \cap files' : Claimed(f, d)'
  <2>2. \A d \in Commands \ {c} : Right(d)
    BY <1>0, <2>1 DEF RemovedInv
  <2>3. Right(c)
    <3>1. CASE List(c)
      <4>1. listed'[c] = files /\ doomed'[c] = Old(files) /\ pc'[c] = "remove"
        BY <3>1 DEF List, Move, TypeOK
      <4>2. \A f \in Old(files) : f \in files
        BY DEF Old
      <4> QED
        BY <2>1, <4>1, <4>2 DEF FilesInv
    <3>2. CASE Remove(c)
      <4>1. PICK f \in doomed[c] :
              /\ doomed' = [doomed EXCEPT ![c] = @ \ {f}]
              /\ files' = files \ {f}
              /\ pc' = [pc EXCEPT ![c] = IF f \in files THEN "remove" ELSE "failed"]
        BY <3>2 DEF Remove
      <4>2. /\ doomed'[c] = doomed[c] \ {f} /\ listed' = listed
            /\ pc'[c] # "done" /\ pc[c] = "remove"
        BY <3>2, <4>1 DEF Remove, TypeOK
      <4> QED
        BY <1>0, <2>1, <4>1, <4>2 DEF RemovedInv
    <3>3. CASE ~List(c) /\ ~Remove(c)
      <4>1. UNCHANGED <<listed, doomed>>
        BY <1>1, <3>3, CommandMoves
      <4>2. /\ pc'[c] = "done" => pc[c] = "remove" /\ doomed[c] = {}
            /\ pc'[c] # "remove"
        BY <1>1, <3>3
           DEF Step, Name, Request, Fail, Receive, Timeout, Finish, Move, TypeOK
      <4> QED
        BY <1>0, <2>1, <4>1, <4>2 DEF RemovedInv
    <3> QED
      BY <3>1, <3>2, <3>3
  <2> QED
    BY <2>2, <2>3 DEF RemovedInv
<1>2. CASE VacuumStart
  <2> DEFINE h == Head(queue)
  <2>1. /\ files' = files \cup {stamp[h]} /\ created' = created \cup {stamp[h]}
        /\ UNCHANGED <<pc, stamp, listed, doomed>>
    BY <1>2 DEF VacuumStart
  <2>2. h \in Commands /\ pc[h] \in {"waiting", "failed"}
    BY <1>2, FirstRequest DEF VacuumStart
  <2>3. ASSUME NEW c \in Commands, pc[c] \in {"remove", "done"} PROVE Claimed(stamp[h], c)
    BY <2>2, <2>3 DEF Claimed
  <2> QED
    BY <1>0, <2>1, <2>3 DEF RemovedInv
<1>3. CASE VacuumExists \/ VacuumDone \/ VacuumFails
  BY <1>a, <1>3 DEF VacuumExists, VacuumDone, VacuumFails
<1>4. CASE Crash \/ Tick \/ TurnBack \/ UNCHANGED vars
  BY <1>a, <1>4 DEF Crash, Tick, TurnBack, vars
<1> QED
  BY <1>1, <1>2, <1>3, <1>4 DEF Next, Vacuum

LEMMA BackupInductive == Spec => []BackupInv
<1>1. BackupInv /\ [Next]_vars => BackupInv'
  <2>1. BackupInv => IInv
    BY DEF BackupInv
  <2> QED
    BY <2>1, InvNext, RequestNext, NamesNext, WholeNext, RemovedNext DEF BackupInv
<1> QED
  BY <1>1, BackupInit, PTL DEF Spec

(* Only a command whose own backup was written whole goes on to remove     *)
(* backups: no request is answered twice or for another, and neither a     *)
(* timeout nor a crash of the server is taken for an Ok.                   *)
THEOREM RemovalFollowsBackup == Spec => []RemovesAfterSuccess
<1>1. BackupInv => RemovesAfterSuccess
  BY DEF BackupInv, RequestInv, WholeInv, Claimed, RemovesAfterSuccess
<1> QED
  BY <1>1, BackupInductive, PTL

-----------------------------------------------------------------------------
(* How many files are kept, and which.                                     *)

LEMMA LeastFile ==
  ASSUME NEW fs \in SUBSET Nat, fs # {}
  PROVE  \E f \in fs : \A g \in fs : f <= g
<1>1. IsWellFoundedOn(OpToRel(<, Nat), Nat)
  BY NatLessThanWellFounded
<1>2. PICK f \in fs : \A g \in fs : ~(<<g, f>> \in OpToRel(<, Nat))
  BY <1>1, WFMin
<1>3. \A g \in fs : ~(g < f)
  BY <1>2 DEF OpToRel
<1> QED
  BY <1>3

(* However many files there are, all but KeepLast are old.                 *)
LEMMA AllButKeepLastAreOld ==
  ASSUME NEW fs \in SUBSET Nat, IsFiniteSet(fs)
  PROVE  IsFiniteSet(fs \ Old(fs)) /\ Cardinality(fs \ Old(fs)) <= KeepLast
<1> DEFINE young == fs \ Old(fs)
<1>1. IsFiniteSet(young)
  BY FS_Subset
<1>2. CASE young = {}
  BY <1>1, <1>2, FS_EmptySet, KeepLastAssumption
<1>3. CASE young # {}
  <2>1. PICK f \in young : \A g \in young : f <= g
    BY <1>3, LeastFile
  <2>2. young \ {f} \subseteq Newer(f, fs)
    <3>1. \A g \in young \ {f} : g \in fs /\ g > f
      BY <2>1
    <3> QED
      BY <3>1 DEF Newer
  <2>3. IsFiniteSet(Newer(f, fs))
    <3>1. Newer(f, fs) \subseteq fs
      BY DEF Newer
    <3> QED
      BY <3>1, FS_Subset
  <2>4. Cardinality(young \ {f}) <= Cardinality(Newer(f, fs))
    BY <2>2, <2>3, FS_Subset
  <2>5. Cardinality(young \ {f}) = Cardinality(young) - 1
    BY <1>1, <2>1, FS_RemoveElement
  <2>6. Cardinality(young) \in Nat /\ Cardinality(Newer(f, fs)) \in Nat
    BY <1>1, <2>3, FS_CardinalityType
  <2>7. Cardinality(Newer(f, fs)) < KeepLast
    BY <2>1, <2>6, KeepLastAssumption DEF Old
  <2> QED
    BY <1>1, <2>4, <2>5, <2>6, <2>7, KeepLastAssumption
<1> QED
  BY <1>2, <1>3

(* A command that ends well has left at most KeepLast of the files it      *)
(* found, however other commands list and remove at the same time.         *)
THEOREM OldBackupsAreRemoved == Spec => []AtMostKeepLast
<1>1. BackupInv => AtMostKeepLast
  <2> SUFFICES ASSUME BackupInv, NEW c \in Commands, pc[c] = "done"
               PROVE  Cardinality((listed[c] \cap files) \ {stamp[d] : d \in Commands \ {c}})
                        <= KeepLast
    BY DEF AtMostKeepLast
  <2> DEFINE left == (listed[c] \cap files) \ {stamp[d] : d \in Commands \ {c}}
             young == listed[c] \ Old(listed[c])
  <2>1. listed[c] \in SUBSET Nat /\ IsFiniteSet(listed[c])
    <3>1. listed[c] \subseteq created /\ IsFiniteSet(created)
      BY DEF BackupInv, IInv, FilesInv, RemovedInv
    <3> QED
      BY <3>1, FS_Subset DEF BackupInv, IInv, TypeOK
  <2>2. left \subseteq young
    BY DEF BackupInv, RemovedInv, Claimed
  <2>3. IsFiniteSet(young) /\ Cardinality(young) <= KeepLast
    BY <2>1, AllButKeepLastAreOld
  <2>4. /\ Cardinality(left) <= Cardinality(young)
        /\ Cardinality(left) \in Nat /\ Cardinality(young) \in Nat
    BY <2>2, <2>3, FS_Subset, FS_CardinalityType
  <2> QED
    BY <2>3, <2>4, KeepLastAssumption
<1> QED
  BY <1>1, BackupInductive, PTL

(* As long as the local time is not set back, what is removed is older     *)
(* than KeepLast other backups by when their commands started.             *)
THEOREM OlderAreRemoved == Spec => []RemovesOlderUnlessSetBack
<1>1. BackupInv => RemovesOlderUnlessSetBack
  <2> SUFFICES ASSUME BackupInv, offset = 0, NEW c \in Commands, NEW f \in doomed[c]
               PROVE  Cardinality({g \in listed[c] : StartedBefore(f, g)}) >= KeepLast
    BY DEF RemovesOlderUnlessSetBack, RemovesOlder
  <2> DEFINE younger == {g \in listed[c] : StartedBefore(f, g)}
  <2>1. /\ f \in listed[c] /\ Cardinality(Newer(f, listed[c])) >= KeepLast
        /\ listed[c] \subseteq created /\ listed[c] \in SUBSET Nat
        /\ IsFiniteSet(listed[c])
    <3>1. listed[c] \subseteq created /\ IsFiniteSet(created)
      BY DEF BackupInv, IInv, FilesInv, RemovedInv
    <3> QED
      BY <3>1, FS_Subset DEF BackupInv, IInv, TypeOK, RemovedInv, Old
  <2>2. ASSUME NEW g \in Newer(f, listed[c]) PROVE StartedBefore(f, g)
    <3>1. g \in listed[c] /\ f < g /\ f \in Nat /\ g \in Nat
      BY <2>1, <2>2 DEF Newer
    <3>2. \A h \in Existing : h \in 0..StartTime
      BY ExistingAssumption
    <3>3. \A h \in created \ Existing :
            \E d \in Commands : /\ pc[d] # "start" /\ stamp[d] = h
                                /\ started[d] = h /\ h >= StartTime
      BY DEF BackupInv, NamesInv
    <3>4. g \in Existing => f \in Existing
      <4> SUFFICES ASSUME g \in Existing, f \notin Existing PROVE FALSE
        OBVIOUS
      <4>1. f >= StartTime /\ g <= StartTime
        BY <2>1, <3>1, <3>2, <3>3
      <4> QED
        BY <3>1, <4>1, TimeAssumption
    <3>5. CASE g \in Existing
      BY <3>1, <3>4, <3>5 DEF StartedBefore
    <3>6. CASE g \notin Existing
      <4>1. PICK e \in Commands : pc[e] # "start" /\ stamp[e] = g /\ started[e] = g
        BY <2>1, <3>1, <3>3, <3>6
      <4>2. f \in Existing \/ \E d \in Commands : stamp[d] = f /\ started[d] < started[e]
        BY <2>1, <3>1, <3>3, <4>1
      <4> QED
        BY <3>6, <4>1, <4>2 DEF StartedBefore
    <3> QED
      BY <3>5, <3>6
  <2>3. Newer(f, listed[c]) \subseteq younger /\ IsFiniteSet(younger)
    <3>1. younger \subseteq listed[c]
      OBVIOUS
    <3> QED
      BY <2>1, <2>2, <3>1, FS_Subset DEF Newer
  <2>4. /\ Cardinality(Newer(f, listed[c])) <= Cardinality(younger)
        /\ Cardinality(Newer(f, listed[c])) \in Nat /\ Cardinality(younger) \in Nat
    BY <2>3, FS_Subset, FS_CardinalityType
  <2> QED
    BY <2>1, <2>4, KeepLastAssumption
<1> QED
  BY <1>1, BackupInductive, PTL
=============================================================================
