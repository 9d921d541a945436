------------------------------- MODULE Pfind -------------------------------
(***************************************************************************)
(* pfind (OS/HW2/pfind.c): a manager process and num worker processes      *)
(* search a directory tree.  The manager writes the tasks of a round to    *)
(* pipe1, wakes one worker per task with SIGCONT and stops itself with     *)
(* SIGSTOP once per task; each worker reports on pipe2, wakes the manager  *)
(* with SIGCONT and stops itself.                                          *)
(*                                                                         *)
(* SIGCONT is not counted: it continues a stopped process and does nothing *)
(* to one that is running.  write_bytes and read_bytes move one field of a *)
(* message at a time; a pipe is the sequence of the fields in it.  The     *)
(* flock of a pipe is released by exit, too.                               *)
(***************************************************************************)
EXTENDS Integers, Sequences, FiniteSets

CONSTANTS
  Num,        (* the number of workers, -p num                             *)
  NULL,       (* no task, no holder of a lock                              *)
  Root,       (* the directory given on the command line                   *)
  Entry,      (* what directories may hold                                 *)
  Trees,      (* the file systems to search                                *)
  Capacity,   (* the fields a pipe holds                                   *)
  FdLimit,    (* the descriptors a worker may open besides its pipes       *)
  Slots       (* the size of new_task: 20 in the code                      *)

Worker == 1 .. Num
Manager == 0
Path == Entry \cup {Root}

(* A file system: what readdir returns for each directory opendir can open *)
(* ("." and ".." are left out), which of "text" and "directory" occur in   *)
(* the line file(1) prints for an entry, the lines the scan of a text file *)
(* finds, whether one of its lines holds one of the keywords, and which    *)
(* entries fopen may refuse.                                               *)
Tree == [dirs : SUBSET Path, listing : [Path -> SUBSET Entry],
         says : [Entry -> SUBSET {"text", "directory"}],
         hits : [Entry -> Nat], has_keyword : SUBSET Entry,
         no_open : SUBSET Entry]

(* An entry is named by the path of its directory and its own name: it is  *)
(* in one directory only, and never the directory the search began with.   *)
Hierarchy(tr) ==
  \A d, e \in Path : tr.listing[d] \cap tr.listing[e] # {} => d = e

ASSUME PfindAssumption ==
  /\ Num \in Nat \ {0}
  /\ Root \notin Entry
  /\ NULL \notin Nat \cup Path
  /\ {"len", "f", "l", "d", "n"} \cap Path = {}
  /\ IsFiniteSet(Entry)
  /\ \A tr \in Trees : tr \in Tree /\ Root \in tr.dirs /\ Hierarchy(tr)
  /\ Capacity \in Nat \ {0}
  /\ FdLimit \in Nat
  /\ Slots \in Nat

VARIABLES
  tree,             (* the file system: no step changes it                 *)
  mpc, wpc,         (* where the manager and each worker are               *)
  stopped,          (* the processes SIGSTOP has stopped                   *)
  lock1, lock2,     (* who holds the flock of each pipe                    *)
  pipe1, pipe2,     (* the fields in each pipe                             *)
  queue,            (* the manager's task queue                            *)
  available,        (* available_task                                      *)
  i,                (* the manager's loop counter                          *)
  ind,              (* the slots of new_task that are used                 *)
  out,              (* the fields a process has still to write             *)
  task, remaining,  (* each worker's directory, and its entries to come    *)
  fds,              (* the descriptors each worker has opened              *)
  seen,             (* history: the entries readdir has returned           *)
  file_count, line_count, dir_count,
  lost              (* history: a SIGCONT met a process that was running   *)

pipes == <<lock1, lock2, pipe1, pipe2>>
managed == <<queue, available, i, ind, file_count, line_count, dir_count>>
worked == <<task, remaining, fds, seen>>
vars == <<tree, mpc, wpc, stopped, pipes, managed, out, worked, lost>>

Dir == tree.dirs
Text == {e \in Entry : "text" \in tree.says[e]}
TreatedAsDirectory == {e \in Entry : tree.says[e] = {"directory"}}

(* What the search can reach: the least set that holds the entries of the  *)
(* root and those of each directory in it.                                 *)
Searchable == Dir \cap ({Root} \cup TreatedAsDirectory)
Closed(S) == \A d \in S \cap Searchable : tree.listing[d] \subseteq S
Found == {e \in Entry : \A S \in SUBSET Path : Root \in S /\ Closed(S) => e \in S}

MPC == {"fork", "open1", "open2", "plan", "lock1", "write", "wake", "stop",
        "lock2", "length", "option", "dir_length", "dir",
        "kill", "done", "overrun"}
WPC == {"none", "open1", "open2", "setup", "stop", "lock1", "length", "task",
        "unlock1", "lock2", "open", "read", "last", "wake", "exited", "spin",
        "killed"}

-----------------------------------------------------------------------------
Init ==
  /\ tree \in Trees
  /\ mpc = "fork"
  /\ wpc = [w \in Worker |-> "none"]
  /\ stopped = {}
  /\ lock1 = NULL /\ lock2 = NULL
  /\ pipe1 = <<>> /\ pipe2 = <<>>
  /\ queue = <<Root>>
  /\ available = 0
  /\ i = 0
  /\ ind = 0
  /\ out = [p \in Worker \cup {Manager} |-> <<>>]
  /\ task = [w \in Worker |-> NULL]
  /\ remaining = [w \in Worker |-> {}]
  /\ fds = [w \in Worker |-> 0]
  /\ seen = {}
  /\ file_count = 0 /\ line_count = 0 /\ dir_count = 0
  /\ lost = FALSE

(* The two fields of a message: its length and its text.                   *)
Message(text) == <<"len", text>>

ManagerGoto(from, to) ==
  /\ Manager \notin stopped
  /\ mpc = from
  /\ mpc' = to
  /\ UNCHANGED wpc

WorkerGoto(w, from, to) ==
  /\ w \notin stopped
  /\ wpc[w] = from
  /\ wpc' = [wpc EXCEPT ![w] = to]
  /\ UNCHANGED mpc

(* kill(p, SIGCONT)                                                        *)
Continue(p) ==
  /\ stopped' = stopped \ {p}
  /\ lost' = (lost \/ p \notin stopped)

(* kill(getpid(), SIGSTOP): the process does not return from the call      *)
(* before another process continues it.                                    *)
Stop(p) ==
  /\ stopped' = stopped \cup {p}
  /\ UNCHANGED lost

signals == <<stopped, lost>>

-----------------------------------------------------------------------------
(* What plausible mistakes in the two processes would do: the variants of  *)
(* the actions below on which the properties must fail.                    *)
NoClampManagerPlan ==        \* no "if(available_task > num)"
  /\ ManagerGoto("plan", "lock1")
  /\ available' = Len(queue)
  /\ i' = 0
  /\ UNCHANGED <<signals, pipes, queue, ind, file_count, line_count,
                 dir_count, out, worked>>

PeekManagerNextTask ==       \* queue.front is read and not removed
  /\ ManagerGoto("write", "write")
  /\ i < available /\ out[Manager] = <<>>
  /\ out' = [out EXCEPT ![Manager] = Message(Head(queue))]
  /\ i' = i + 1
  /\ UNCHANGED <<signals, pipes, queue, available, ind, file_count,
                 line_count, dir_count, worked>>

OnceManagerStop ==           \* one SIGSTOP per round
  /\ ManagerGoto("stop", "lock2")
  /\ Stop(Manager)
  /\ UNCHANGED <<pipes, managed, out, worked>>

EarlyManagerUnlock2 ==       \* if(queue.count <= 1) break
  /\ ManagerGoto("length", IF Len(queue) <= 1 THEN "kill" ELSE "plan")
  /\ i = available
  /\ lock2' = NULL
  /\ i' = 0
  /\ UNCHANGED <<signals, lock1, pipe1, pipe2, queue, available, ind,
                 file_count, line_count, dir_count, out, worked>>

UnlockedWorkerLock2(w) ==    \* no flock(pipe2, LOCK_EX)
  /\ WorkerGoto(w, "lock2", "open")
  /\ lock2' = w
  /\ UNCHANGED <<signals, lock1, pipe1, pipe2, managed, out, worked>>

KeepWorkerUnlock2(w) ==      \* no flock(pipe2, LOCK_UN)
  /\ WorkerGoto(w, "last", "wake")
  /\ out[w] = <<>>
  /\ task' = [task EXCEPT ![w] = NULL]
  /\ UNCHANGED <<signals, pipes, managed, out, remaining, fds, seen>>

-----------------------------------------------------------------------------
(* The manager forks the workers and both sides open the named pipes.      *)
(* open blocks until the other end is opened, or is being opened, by any   *)
(* process: one worker is enough to let the manager go on.                 *)
ManagerFork ==
  /\ Manager \notin stopped
  /\ mpc = "fork"
  /\ wpc' = [wpc EXCEPT ![i + 1] = "open1"]
  /\ i' = i + 1
  /\ mpc' = IF i' = Num THEN "open1" ELSE "fork"
  /\ UNCHANGED <<signals, pipes, queue, available, ind, file_count,
                 line_count, dir_count, out, worked>>

ManagerOpen1 ==
  /\ ManagerGoto("open1", "open2")
  /\ \E w \in Worker : wpc[w] # "none"
  /\ UNCHANGED <<signals, pipes, managed, out, worked>>

ManagerOpen2 ==
  /\ ManagerGoto("open2", "plan")
  /\ \E w \in Worker : wpc[w] \notin {"none", "open1"}
  /\ UNCHANGED <<signals, pipes, managed, out, worked>>

WorkerOpen1(w) ==
  /\ WorkerGoto(w, "open1", "open2")
  /\ mpc # "fork"
  /\ UNCHANGED <<signals, pipes, managed, out, worked>>

WorkerOpen2(w) ==
  /\ WorkerGoto(w, "open2", "setup")
  /\ mpc \notin {"fork", "open1"}
  /\ UNCHANGED <<signals, pipes, managed, out, worked>>

(* mkfifo finds the pipes in place; the unnamed pipe is made.              *)
WorkerSetup(w) ==
  /\ WorkerGoto(w, "setup", "stop")
  /\ UNCHANGED <<signals, pipes, managed, out, worked>>

-----------------------------------------------------------------------------
(* The manager gives out the tasks of a round.                             *)
ManagerPlan ==
  /\ ManagerGoto("plan", "lock1")
  /\ available' = IF Len(queue) > Num THEN Num ELSE Len(queue)
  /\ i' = 0
  /\ UNCHANGED <<signals, pipes, queue, ind, file_count, line_count,
                 dir_count, out, worked>>

ManagerLock1 ==
  /\ ManagerGoto("lock1", "write")
  /\ lock1 = NULL
  /\ lock1' = Manager
  /\ UNCHANGED <<signals, lock2, pipe1, pipe2, managed, out, worked>>

ManagerNextTask ==
  /\ ManagerGoto("write", "write")
  /\ i < available /\ out[Manager] = <<>>
  /\ out' = [out EXCEPT ![Manager] = Message(Head(queue))]
  /\ queue' = Tail(queue)
  /\ i' = i + 1
  /\ UNCHANGED <<signals, pipes, available, ind, file_count, line_count,
                 dir_count, worked>>

(* A write blocks while the pipe is full.                                  *)
ManagerWrite ==
  /\ ManagerGoto("write", "write")
  /\ out[Manager] # <<>>
  /\ Len(pipe1) < Capacity
  /\ pipe1' = Append(pipe1, Head(out[Manager]))
  /\ out' = [out EXCEPT ![Manager] = Tail(@)]
  /\ UNCHANGED <<signals, lock1, lock2, pipe2, managed, worked>>

ManagerUnlock1 ==
  /\ ManagerGoto("write", "wake")
  /\ i = available /\ out[Manager] = <<>>
  /\ lock1' = NULL
  /\ i' = 0
  /\ UNCHANGED <<signals, lock2, pipe1, pipe2, queue, available, ind,
                 file_count, line_count, dir_count, out, worked>>

(* Wake child[0] .. child[available_task - 1].                             *)
ManagerWake ==
  /\ ManagerGoto("wake", IF i + 1 = available THEN "stop" ELSE "wake")
  /\ Continue(i + 1)
  /\ i' = IF i + 1 = available THEN 0 ELSE i + 1
  /\ UNCHANGED <<pipes, queue, available, ind, file_count, line_count,
                 dir_count, out, worked>>

ManagerStop ==
  /\ ManagerGoto("stop", IF i + 1 = available THEN "lock2" ELSE "stop")
  /\ Stop(Manager)
  /\ i' = IF i + 1 = available THEN 0 ELSE i + 1
  /\ UNCHANGED <<pipes, queue, available, ind, file_count, line_count,
                 dir_count, out, worked>>

-----------------------------------------------------------------------------
(* The manager collects the reports of a round.                            *)
ManagerLock2 ==
  /\ ManagerGoto("lock2", "length")
  /\ lock2 = NULL
  /\ lock2' = Manager
  /\ UNCHANGED <<signals, lock1, pipe1, pipe2, managed, out, worked>>

ManagerRead ==
  /\ pipe2 # <<>>
  /\ pipe2' = Tail(pipe2)
  /\ UNCHANGED <<signals, lock1, lock2, pipe1, out, worked>>

ManagerReadLength ==
  /\ ManagerGoto("length", "option")
  /\ i < available
  /\ ManagerRead
  /\ UNCHANGED managed

ManagerReadFile ==
  /\ ManagerGoto("option", "length")
  /\ ManagerRead /\ Head(pipe2) = "f"
  /\ file_count' = file_count + 1
  /\ UNCHANGED <<queue, available, i, ind, line_count, dir_count>>

ManagerReadLine ==
  /\ ManagerGoto("option", "length")
  /\ ManagerRead /\ Head(pipe2) = "l"
  /\ line_count' = line_count + 1
  /\ UNCHANGED <<queue, available, i, ind, file_count, dir_count>>

ManagerReadDirectory ==
  /\ ManagerGoto("option", "dir_length")
  /\ ManagerRead /\ Head(pipe2) = "d"
  /\ UNCHANGED managed

ManagerReadNothing ==
  /\ ManagerGoto("option", "length")
  /\ ManagerRead /\ Head(pipe2) = "n"
  /\ i' = i + 1
  /\ UNCHANGED <<queue, available, ind, file_count, line_count, dir_count>>

ManagerReadDirLength ==
  /\ ManagerGoto("dir_length", "dir")
  /\ ManagerRead
  /\ UNCHANGED managed

(* The path is kept in new_task[ind], where the queue points to it.  There *)
(* is no check of ind: a path beyond the last slot is written over what    *)
(* lies behind the array, and anything may happen.                         *)
ManagerReadDir ==
  /\ ManagerGoto("dir", IF ind < Slots THEN "length" ELSE "overrun")
  /\ ManagerRead
  /\ queue' = Append(queue, Head(pipe2))
  /\ dir_count' = dir_count + 1
  /\ ind' = ind + 1
  /\ UNCHANGED <<available, i, file_count, line_count>>

ManagerUnlock2 ==
  /\ ManagerGoto("length", IF queue = <<>> THEN "kill" ELSE "plan")
  /\ i = available
  /\ lock2' = NULL
  /\ i' = 0
  /\ UNCHANGED <<signals, lock1, pipe1, pipe2, queue, available, ind,
                 file_count, line_count, dir_count, out, worked>>

(* kill(child[i], SIGKILL); wait(NULL).  Then the summary is printed.      *)
ManagerKill ==
  /\ Manager \notin stopped
  /\ mpc = "kill"
  /\ wpc' = [wpc EXCEPT ![i + 1] = "killed"]
  /\ i' = i + 1
  /\ mpc' = IF i' = Num THEN "done" ELSE "kill"
  /\ stopped' = stopped \ {i + 1}
  /\ lock1' = IF lock1 = i + 1 THEN NULL ELSE lock1
  /\ lock2' = IF lock2 = i + 1 THEN NULL ELSE lock2
  /\ UNCHANGED <<pipe1, pipe2, queue, available, ind, file_count,
                 line_count, dir_count, out, worked, lost>>

-----------------------------------------------------------------------------
(* The worker: one task per SIGCONT.                                       *)
WorkerStop(w) ==
  /\ WorkerGoto(w, "stop", "lock1")
  /\ Stop(w)
  /\ UNCHANGED <<pipes, managed, out, worked>>

WorkerLock1(w) ==
  /\ WorkerGoto(w, "lock1", "length")
  /\ lock1 = NULL
  /\ lock1' = w
  /\ UNCHANGED <<signals, lock2, pipe1, pipe2, managed, out, worked>>

WorkerReadLength(w) ==
  /\ WorkerGoto(w, "length", "task")
  /\ pipe1 # <<>>
  /\ pipe1' = Tail(pipe1)
  /\ UNCHANGED <<signals, lock1, lock2, pipe2, managed, out, worked>>

WorkerReadTask(w) ==
  /\ WorkerGoto(w, "task", "unlock1")
  /\ pipe1 # <<>>
  /\ pipe1' = Tail(pipe1)
  /\ task' = [task EXCEPT ![w] = Head(pipe1)]
  /\ UNCHANGED <<signals, lock1, lock2, pipe2, managed, out, remaining, fds,
                 seen>>

WorkerUnlock1(w) ==
  /\ WorkerGoto(w, "unlock1", "lock2")
  /\ lock1' = NULL
  /\ UNCHANGED <<signals, lock2, pipe1, pipe2, managed, out, worked>>

(* pipe2 stays locked during the whole search of the directory.            *)
WorkerLock2(w) ==
  /\ WorkerGoto(w, "lock2", "open")
  /\ lock2 = NULL
  /\ lock2' = w
  /\ UNCHANGED <<signals, lock1, pipe1, pipe2, managed, out, worked>>

(* Neither the directory nor a file opened in it is ever closed.           *)
OpenDescriptor(w) ==
  /\ fds[w] < FdLimit
  /\ fds' = [fds EXCEPT ![w] = @ + 1]

WorkerOpenDir(w) ==
  /\ WorkerGoto(w, "open", "read")
  /\ task[w] \in Dir
  /\ OpenDescriptor(w)
  /\ remaining' = [remaining EXCEPT ![w] = tree.listing[task[w]]]
  /\ UNCHANGED <<signals, pipes, managed, out, task, seen>>

(* opendir or fopen fails.  exit(1) closes the pipes, which releases the   *)
(* lock; nobody is told.                                                   *)
OpenFails(w) ==
  \/ wpc[w] = "open" /\ (task[w] \notin Dir \/ fds[w] = FdLimit)
  \/ /\ wpc[w] = "read" /\ out[w] = <<>>
     /\ \E e \in remaining[w] \cap Text : fds[w] = FdLimit \/ e \in tree.no_open

WorkerExit(w) ==
  /\ WorkerGoto(w, wpc[w], "exited")
  /\ OpenFails(w)
  /\ lock2' = NULL
  /\ UNCHANGED <<signals, lock1, pipe1, pipe2, managed, out, worked>>

ReadEntry(w, e, to, report) ==
  /\ WorkerGoto(w, "read", to)
  /\ out[w] = <<>>
  /\ e \in remaining[w]
  /\ remaining' = [remaining EXCEPT ![w] = @ \ {e}]
  /\ seen' = seen \cup {e}
  /\ out' = [out EXCEPT ![w] = report]
  /\ UNCHANGED <<signals, pipes, managed, task>>

(* One "l" per line found, then one "f" if there is a keyword in the file. *)
TextReport(e) ==
  [k \in 1 .. 2 * tree.hits[e] |-> IF k % 2 = 1 THEN "len" ELSE "l"]
  \o (IF e \in tree.has_keyword THEN Message("f") ELSE <<>>)

WorkerReadText(w, e) ==
  /\ e \in Text \ Dir
  /\ OpenDescriptor(w)
  /\ ReadEntry(w, e, "read", TextReport(e))

(* fopen opens a directory, too; then fgets fails without end.             *)
WorkerReadEndless(w, e) ==
  /\ e \in Text \cap Dir
  /\ OpenDescriptor(w)
  /\ ReadEntry(w, e, "spin", <<>>)

WorkerReadDirectory(w, e) ==
  /\ e \in TreatedAsDirectory
  /\ ReadEntry(w, e, "read", Message("d") \o Message(e))
  /\ UNCHANGED fds

WorkerReadOther(w, e) ==
  /\ tree.says[e] = {}
  /\ ReadEntry(w, e, "read", <<>>)
  /\ UNCHANGED fds

WorkerReadLast(w) ==
  /\ WorkerGoto(w, "read", "last")
  /\ out[w] = <<>>
  /\ remaining[w] = {}
  /\ out' = [out EXCEPT ![w] = Message("n")]
  /\ UNCHANGED <<signals, pipes, managed, worked>>

WorkerWrite(w) ==
  /\ w \notin stopped
  /\ wpc[w] \in {"read", "last"}
  /\ out[w] # <<>>
  /\ Len(pipe2) < Capacity
  /\ pipe2' = Append(pipe2, Head(out[w]))
  /\ out' = [out EXCEPT ![w] = Tail(@)]
  /\ UNCHANGED <<mpc, wpc, signals, lock1, lock2, pipe1, managed, worked>>

WorkerUnlock2(w) ==
  /\ WorkerGoto(w, "last", "wake")
  /\ out[w] = <<>>
  /\ lock2' = NULL
  /\ task' = [task EXCEPT ![w] = NULL]
  /\ UNCHANGED <<signals, lock1, pipe1, pipe2, managed, out, remaining, fds,
                 seen>>

WorkerWake(w) ==
  /\ WorkerGoto(w, "wake", "stop")
  /\ Continue(Manager)
  /\ UNCHANGED <<pipes, managed, out, worked>>

-----------------------------------------------------------------------------
ManagerAction ==
  \/ ManagerFork \/ ManagerOpen1 \/ ManagerOpen2
  \/ ManagerPlan \/ ManagerLock1 \/ ManagerNextTask \/ ManagerWrite
  \/ ManagerUnlock1 \/ ManagerWake \/ ManagerStop
  \/ ManagerLock2 \/ ManagerReadLength \/ ManagerReadFile \/ ManagerReadLine
  \/ ManagerReadDirectory \/ ManagerReadNothing \/ ManagerReadDirLength
  \/ ManagerReadDir \/ ManagerUnlock2 \/ ManagerKill

WorkerAction(w) ==
  \/ WorkerOpen1(w) \/ WorkerOpen2(w) \/ WorkerSetup(w) \/ WorkerStop(w)
  \/ WorkerLock1(w) \/ WorkerReadLength(w) \/ WorkerReadTask(w)
  \/ WorkerUnlock1(w) \/ WorkerLock2(w) \/ WorkerOpenDir(w) \/ WorkerExit(w)
  \/ \E e \in Entry : \/ WorkerReadText(w, e)
                      \/ WorkerReadEndless(w, e)
                      \/ WorkerReadDirectory(w, e)
                      \/ WorkerReadOther(w, e)
  \/ WorkerReadLast(w) \/ WorkerWrite(w) \/ WorkerUnlock2(w) \/ WorkerWake(w)

ManagerStep == ManagerAction /\ UNCHANGED tree
WorkerStep(w) == WorkerAction(w) /\ UNCHANGED tree

Next == ManagerStep \/ \E w \in Worker : WorkerStep(w)

Spec == Init /\ [][Next]_vars

(* The kernel runs every process that can run, and a process that waits    *)
(* for a flock gets it in the end.                                         *)
Fairness == WF_vars(ManagerStep) /\ \A w \in Worker : WF_vars(WorkerStep(w))

FairSpec == Spec /\ Fairness

-----------------------------------------------------------------------------
Field == {"len", "f", "l", "d", "n"} \cup Path

TypeOK ==
  /\ tree \in Trees
  /\ mpc \in MPC
  /\ wpc \in [Worker -> WPC]
  /\ stopped \subseteq Worker \cup {Manager}
  /\ {lock1, lock2} \subseteq Worker \cup {Manager, NULL}
  /\ pipe1 \in Seq({"len"} \cup Path) /\ Len(pipe1) <= Capacity
  /\ pipe2 \in Seq(Field) /\ Len(pipe2) <= Capacity
  /\ queue \in Seq(Path)
  /\ available \in 0 .. Num
  /\ i \in 0 .. Num
  /\ ind \in Nat
  /\ out \in [Worker \cup {Manager} -> Seq(Field)]
  /\ task \in [Worker -> Path \cup {NULL}]
  /\ remaining \in [Worker -> SUBSET Entry]
  /\ fds \in [Worker -> 0 .. FdLimit]
  /\ seen \subseteq Entry
  /\ {file_count, line_count, dir_count} \subseteq Nat
  /\ lost \in BOOLEAN

(* The locks keep the fields of a message together: whoever is about to    *)
(* read a length finds a length, and then the field that belongs to it.    *)
Framed ==
  /\ pipe2 # <<>> =>
       /\ mpc \in {"length", "dir_length"} => Head(pipe2) = "len"
       /\ mpc = "option" => Head(pipe2) \in {"f", "l", "d", "n"}
       /\ mpc = "dir" => Head(pipe2) \in Path
  /\ pipe1 # <<>> => \A w \in Worker :
       /\ wpc[w] = "length" => Head(pipe1) = "len"
       /\ wpc[w] = "task" => Head(pipe1) \in Path

(* No process reads from a pipe that will stay empty: a worker is woken    *)
(* only when a task is there for it, and the manager reads the reports     *)
(* only when each worker of the round has finished its own, although       *)
(* SIGCONTs are not counted (pfind.c:171-182).                             *)
ReadersFindData ==
  /\ \A w \in Worker : wpc[w] \in {"length", "task"} => pipe1 # <<>>
  /\ mpc \in {"option", "dir_length", "dir"} \/ (mpc = "length" /\ i < available)
       => pipe2 # <<>>

(* The places a path can be in, from its discovery to its search: the      *)
(* fields of the queue, of the pipes and of what a process has still to    *)
(* write, and the tasks of the workers.                                    *)
Fields(name, q, s, p) ==
  {<<name, q, k>> : k \in {k \in 1 .. Len(s) : s[k] = p}}

Places(p) ==
  Fields("queue", Manager, queue, p)
  \cup Fields("pipe1", Manager, pipe1, p) \cup Fields("pipe2", Manager, pipe2, p)
  \cup (UNION {Fields("out", q, out[q], p) : q \in Worker \cup {Manager}})
  \cup {<<"task", w, 1>> : w \in {w \in Worker : task[w] = p}}

(* A directory travels through the queue, the two pipes and the workers as *)
(* one task: two workers never search the same directory.                  *)
OneTaskPerDirectory == \A p \in Path : \A x, y \in Places(p) : x = y

(* The lines the scan of the files S finds.                                *)
HitLines(S) == UNION {{e} \X (1 .. tree.hits[e]) : e \in S}

(* What the summary tells, whatever the order in which the workers ran:    *)
(* each line found, each text file read that holds a keyword, and each     *)
(* directory searched but the root are counted once.  They are printed as  *)
(* "explored files" and "explored directories" (pfind.c:476-477), though   *)
(* the root and the files without a keyword (pfind.c:363) are explored and *)
(* not counted.                                                            *)
SummaryCounts ==
  mpc = "done" =>
    LET read == Found \cap Text
        searched == {Root} \cup (Found \cap TreatedAsDirectory)
    IN /\ line_count = Cardinality(HitLines(read))
       /\ file_count = Cardinality(read \cap tree.has_keyword)
       /\ dir_count = Cardinality(searched \ {Root})
       /\ pipe1 = <<>> /\ pipe2 = <<>>

(* A SIGCONT that meets a running process is fatal: once one is lost, the  *)
(* summary is never printed.                                               *)
LostSignalIsFatal == lost => mpc \notin {"kill", "done"}

(* What can keep pfind from finishing: a lost SIGCONT, a worker that ended *)
(* or reads a directory as text, an overrun of new_task, or a report that  *)
(* does not fit in pipe2 while the manager is stopped.  Nothing else does. *)
Disturbed ==
  \/ lost
  \/ \E w \in Worker : wpc[w] \in {"exited", "spin"}
  \/ mpc = "overrun"
  \/ Len(pipe2) = Capacity /\ \E w \in Worker : out[w] # <<>>

FinishesUndisturbed == <>(mpc = "done" \/ Disturbed)

(* "And finally, if the queue size is 0, it means that there are no more   *)
(* tasks, so the result is summarized and the program is terminated"       *)
(* (readme.md:34).                                                         *)
Finishes == <>(mpc = "done")
=============================================================================
