------------------------------- MODULE Tfind -------------------------------
(***************************************************************************)
(* tfind (OS/HW4/tfind.c): main searches a directory tree in rounds.  In   *)
(* each round it starts at most one thread per queued directory, waits for *)
(* all of them, and stops when the queue's count is zero.  A worker takes  *)
(* one directory, scans its text files for the keywords and queues its     *)
(* subdirectories.                                                         *)
(*                                                                         *)
(* The queue is TwoLockQueue, at the granularity of its memory accesses.   *)
(* file_count++ and line_count++ are a load and a store as well.           *)
(***************************************************************************)
EXTENDS Integers, Sequences, FiniteSets

CONSTANTS
  Worker,    (* the slots of worker_thread[num]; -t num                      *)
  Main,      (* the main thread                                              *)
  Node,      (* the memory blocks of the queue                               *)
  NULL,      (* the null pointer                                             *)
  Root,      (* the directory given on the command line                      *)
  Listing,   (* what readdir returns, for each path opendir can open; the    *)
             (* entries "." and ".." are skipped and left out                *)
  Says,      (* for each entry, which of "text" and "directory" occur in the *)
             (* line file(1) prints: the path, then the type                 *)
  Hits,      (* for each text file, the lines the scan counts (LineScan)     *)
  NoLine,    (* the entries of which file(1) may print no line: the shell    *)
             (* that popen starts takes "(" or "'" in a name for its own     *)
             (* syntax                                                       *)
  NoOpen,    (* the entries that fopen may refuse, for their permissions or  *)
             (* because they are gone                                        *)
  FdLimit,   (* the file descriptors the process may have open               *)
  SpinBound  (* how many of the endless hits of a directory taken for a text *)
             (* file are followed                                            *)

Dir == DOMAIN Listing
Entry == DOMAIN Says
Path == Entry \cup {Root}

(* An entry is named by the path of its directory and its own name, so it  *)
(* is in one directory only.                                               *)
Hierarchy == \A d, e \in Dir : Listing[d] \cap Listing[e] # {} => d = e

ASSUME TfindAssumption ==
  /\ IsFiniteSet(Worker)
  /\ Main \notin Worker
  /\ NULL \notin Worker \cup {Main} \cup Node \cup Path
  /\ IsFiniteSet(Entry) /\ Root \notin Entry
  /\ Root \in Dir /\ Dir \subseteq Path
  /\ Listing \in [Dir -> SUBSET Entry] /\ Hierarchy
  /\ Says \in [Entry -> SUBSET {"text", "directory"}]
  /\ Hits \in [{e \in Entry : "text" \in Says[e] /\ e \notin Dir} -> Nat]
  /\ NoLine \subseteq Entry /\ NoOpen \subseteq Entry
  /\ FdLimit \in Nat
  /\ SpinBound \in Nat

VARIABLES
  (* the queue, see TwoLockQueue *)
  next, data, allocated, head, tail, count, head_lock, tail_lock, pc, temp,
  new_head, reg, val, chain,
  main_pc,     (* where main is                                            *)
  to_create,   (* available_task minus the threads already created         *)
  at,          (* where each worker is outside Enqueue and Dequeue         *)
  remaining,   (* the entries readdir has yet to return to each worker     *)
  entry,       (* the entry each worker is treating                        *)
  lines_left,  (* the hits each worker has yet to count in its file        *)
  loaded,      (* the register that holds a loaded file_count, line_count  *)
  file_count, line_count,
  fds,         (* the file descriptors the process has open                *)
  opened,      (* history: how often each path was opened by opendir       *)
  scanned,     (* history: the text entries, once file_count++ was begun   *)
  raced        (* history: the counters of which an update was lost        *)

Thread == Worker \cup {Main}

Q == INSTANCE TwoLockQueue WITH Data <- Path

queue == <<next, data, allocated, head, tail, count, head_lock, tail_lock, pc,
           temp, new_head, reg, val, chain>>
search == <<at, remaining, entry, lines_left, loaded, file_count, line_count,
            opened, scanned, raced, fds>>
vars == <<queue, main_pc, to_create, search>>

MainPC == {"start", "enqueue", "plan", "create", "join", "check",
           "finished", "failed"}
WorkerPC == {"none", "start", "dequeue", "read", "files_load", "files_store",
             "scan", "lines_store", "returned"}

(* exit(1) in any thread ends the process, and so does main's return.      *)
Running == main_pc \notin {"finished", "failed"}
Exit1 == main_pc' = "failed"
-----------------------------------------------------------------------------
(* What plausible mistakes in main and worker would do: the variants of    *)
(* the actions below on which the properties must fail.                    *)
NoClampMainPlan ==
  /\ main_pc = "plan"
  /\ main_pc' = "create"
  /\ to_create' = Cardinality(Worker)
  /\ UNCHANGED <<queue, search>>

ResetCountMainPlan ==
  /\ main_pc = "plan"
  /\ main_pc' = "create"
  /\ to_create' = IF count > Cardinality(Worker)
                    THEN Cardinality(Worker) ELSE count
  /\ count' = 0
  /\ UNCHANGED <<next, data, allocated, head, tail, head_lock, tail_lock, pc,
                 temp, new_head, reg, val, chain, search>>

NeverEndMainCheck ==
  /\ main_pc = "check"
  /\ main_pc' = "plan"
  /\ UNCHANGED <<queue, to_create, search>>

NoWaitMainJoin ==              \* pthread_detach for pthread_join
  /\ main_pc = "join"
  /\ main_pc' = "check"
  /\ UNCHANGED <<queue, to_create, search>>

ForgetWorkerReadDirectory(w, e) ==
  /\ Running /\ at[w] = "read" /\ pc[w] = "idle"
  /\ e \in remaining[w]
  /\ Says[e] = {"directory"}
  /\ fds' = fds + 1
  /\ remaining' = [remaining EXCEPT ![w] = @ \ {e}]
  /\ UNCHANGED <<queue, main_pc, to_create, at, entry, lines_left, loaded,
                 file_count, line_count, opened, scanned, raced>>

OneMoreWorkerLoadLines(w) ==
  /\ Running /\ at[w] = "scan" /\ pc[w] = "idle"
  /\ lines_left[w] >= 0
  /\ at' = [at EXCEPT ![w] = "lines_store"]
  /\ loaded' = [loaded EXCEPT ![w] = line_count]
  /\ UNCHANGED <<queue, main_pc, to_create, remaining, entry, lines_left,
                 file_count, line_count, opened, scanned, raced, fds>>

RepeatWorkerStoreLines(w) ==
  /\ Running /\ at[w] = "lines_store" /\ pc[w] = "idle"
  /\ at' = [at EXCEPT ![w] = "scan"]
  /\ line_count' = loaded[w] + 1
  /\ loaded' = [loaded EXCEPT ![w] = 0]
  /\ UNCHANGED <<queue, main_pc, to_create, remaining, entry, lines_left,
                 file_count, opened, scanned, raced, fds>>

-----------------------------------------------------------------------------
Init ==
  /\ Q!Init
  /\ main_pc = "start"
  /\ to_create = 0
  /\ at = [w \in Worker |-> "none"]
  /\ remaining = [w \in Worker |-> {}]
  /\ entry = [w \in Worker |-> NULL]
  /\ lines_left = [w \in Worker |-> 0]
  /\ loaded = [w \in Worker |-> 0]
  /\ file_count = 0
  /\ line_count = 0
  /\ opened = [p \in Path |-> 0]
  /\ scanned = {}
  /\ raced = {}
  /\ fds = 0

-----------------------------------------------------------------------------
(* main                                                                    *)
MainGoto(from, to) ==
  /\ main_pc = from
  /\ main_pc' = to

(* Enqueue(&q, dir), alone; the call runs to its end before main goes on.  *)
MainEnqueue ==
  /\ MainGoto("start", "enqueue")
  /\ Q!EnqCall(Main, Root)
  /\ UNCHANGED <<to_create, search>>

MainInEnqueue ==
  /\ main_pc = "enqueue"
  /\ Q!EnqStep(Main)
  /\ main_pc' = IF pc'[Main] = "idle" THEN "plan" ELSE main_pc
  /\ UNCHANGED <<to_create, search>>

(* available_task = min(q.count, num)                                      *)
MainPlan ==
  /\ MainGoto("plan", "create")
  /\ to_create' = IF count > Cardinality(Worker)
                    THEN Cardinality(Worker) ELSE count
  /\ UNCHANGED <<queue, search>>

MainCreate(w) ==
  /\ main_pc = "create"
  /\ to_create > 0
  /\ at[w] = "none"
  /\ to_create' = to_create - 1
  /\ at' = [at EXCEPT ![w] = "start"]
  /\ UNCHANGED <<queue, main_pc, remaining, entry, lines_left, loaded,
                 file_count, line_count, opened, scanned, raced, fds>>

MainCreated ==
  /\ MainGoto("create", "join")
  /\ to_create <= 0
  /\ UNCHANGED <<queue, to_create, search>>

(* The pthread_join calls return when every worker of the round has.       *)
MainJoin ==
  /\ MainGoto("join", "check")
  /\ \A w \in Worker : at[w] \in {"none", "returned"}
  /\ at' = [w \in Worker |-> "none"]
  /\ UNCHANGED <<queue, to_create, remaining, entry, lines_left, loaded,
                 file_count, line_count, opened, scanned, raced, fds>>

MainCheck ==
  /\ main_pc = "check"
  /\ main_pc' = IF Q!IsEmpty THEN "finished" ELSE "plan"
  /\ UNCHANGED <<queue, to_create, search>>

-----------------------------------------------------------------------------
(* worker                                                                  *)
WorkerGoto(w, from, to) ==
  /\ Running
  /\ at[w] = from
  /\ pc[w] = "idle"
  /\ at' = [at EXCEPT ![w] = to]

(* The calls of Dequeue and Enqueue a worker is in.  A store that is not   *)
(* based on the current value undoes what was stored in between.           *)
LosesUpdate(counter, lost) ==
  raced' = IF lost THEN raced \cup {counter} ELSE raced

WorkerInQueue(w) ==
  /\ Running
  /\ Q!EnqStep(w) \/ Q!DeqStep(w)
  /\ LosesUpdate("count", pc[w] \in {"e_store", "d_store"} /\ reg[w] # count)
  /\ UNCHANGED <<main_pc, to_create, at, remaining, entry, lines_left, loaded,
                 file_count, line_count, opened, scanned, fds>>

WorkerDequeue(w) ==
  /\ WorkerGoto(w, "start", "dequeue")
  /\ Q!DeqCall(w)
  /\ UNCHANGED <<main_pc, to_create, remaining, entry, lines_left, loaded,
                 file_count, line_count, opened, scanned, raced, fds>>

(* Dequeue has returned.  NULL, or a path opendir cannot open, is exit(1). *)
WorkerOpen(w) ==
  /\ WorkerGoto(w, "dequeue", "read")
  /\ val[w] \in Dir
  /\ fds < FdLimit
  /\ fds' = fds + 1
  /\ remaining' = [remaining EXCEPT ![w] = Listing[val[w]]]
  /\ opened' = [opened EXCEPT ![val[w]] = @ + 1]
  /\ UNCHANGED <<queue, main_pc, to_create, entry, lines_left, loaded,
                 file_count, line_count, scanned, raced>>

(* What else ends the process: popen fails or its fgets returns NULL; the *)
(* entry taken for a text file cannot be opened.                           *)
Unusable(w) ==
  \/ at[w] = "dequeue" /\ val[w] \notin Dir
  \/ at[w] = "read" /\ remaining[w] \cap NoLine # {}
  \/ at[w] = "files_store" /\ entry[w] \in NoOpen

WorkerFails(w) ==
  /\ Running /\ pc[w] = "idle"
  /\ Unusable(w)
  /\ Exit1
  /\ UNCHANGED <<queue, to_create, search>>

(* opendir and fopen need one descriptor, popen two.  It is exit(1) when   *)
(* they are not there; the directory and the pipe are never closed.        *)
Needed == [dequeue |-> 1, read |-> 2, files_store |-> 1]

OutOfDescriptors(w) ==
  /\ at[w] \in DOMAIN Needed
  /\ at[w] = "dequeue" => val[w] \in Dir
  /\ at[w] = "read" => remaining[w] # {}
  /\ fds + Needed[at[w]] > FdLimit

WorkerOutOfDescriptors(w) ==
  /\ Running /\ pc[w] = "idle"
  /\ OutOfDescriptors(w)
  /\ Exit1
  /\ UNCHANGED <<queue, to_create, search>>

(* readdir returns the entries in any order; popen runs file(1) on each.   *)
ReadEntry(w, e, to) ==
  /\ WorkerGoto(w, "read", to)
  /\ e \in remaining[w]
  /\ fds + Needed.read <= FdLimit
  /\ fds' = fds + 1
  /\ remaining' = [remaining EXCEPT ![w] = @ \ {e}]

WorkerReadText(w, e) ==
  /\ ReadEntry(w, e, "files_load")
  /\ "text" \in Says[e]
  /\ entry' = [entry EXCEPT ![w] = e]
  /\ scanned' = scanned \cup {e}
  /\ UNCHANGED <<queue, main_pc, to_create, lines_left, loaded, file_count,
                 line_count, opened, raced>>

WorkerReadDirectory(w, e) ==
  /\ ReadEntry(w, e, "read")
  /\ "text" \notin Says[e] /\ "directory" \in Says[e]
  /\ Q!EnqCall(w, e)
  /\ UNCHANGED <<main_pc, to_create, entry, lines_left, loaded, file_count,
                 line_count, opened, scanned, raced>>

WorkerReadOther(w, e) ==
  /\ ReadEntry(w, e, "read")
  /\ Says[e] = {}
  /\ UNCHANGED <<queue, main_pc, to_create, entry, lines_left, loaded,
                 file_count, line_count, opened, scanned, raced>>

WorkerReturn(w) ==
  /\ WorkerGoto(w, "read", "returned")
  /\ remaining[w] = {}
  /\ UNCHANGED <<queue, main_pc, to_create, remaining, entry, lines_left,
                 loaded, file_count, line_count, opened, scanned, raced, fds>>

(* file_count++                                                            *)
WorkerLoadFiles(w) ==
  /\ WorkerGoto(w, "files_load", "files_store")
  /\ loaded' = [loaded EXCEPT ![w] = file_count]
  /\ UNCHANGED <<queue, main_pc, to_create, remaining, entry, lines_left,
                 file_count, line_count, opened, scanned, raced, fds>>

(* The scan of a text file counts its hits.  A directory can be opened by  *)
(* fopen too, but every fgets fails and leaves the buffer as it was: what  *)
(* is in it matches the keywords each time or never.                       *)
ScanHits(e) == IF e \in Dir THEN {0, SpinBound} ELSE {Hits[e]}

WorkerStoreFiles(w) ==
  /\ WorkerGoto(w, "files_store", "scan")
  /\ fds < FdLimit
  /\ fds' = fds + 1
  /\ file_count' = loaded[w] + 1
  /\ LosesUpdate("files", loaded[w] # file_count)
  /\ loaded' = [loaded EXCEPT ![w] = 0]
  /\ \E n \in ScanHits(entry[w]) : lines_left' = [lines_left EXCEPT ![w] = n]
  /\ UNCHANGED <<queue, main_pc, to_create, remaining, entry, line_count,
                 opened, scanned>>

(* line_count++, once for each hit of the scan                             *)
WorkerLoadLines(w) ==
  /\ WorkerGoto(w, "scan", "lines_store")
  /\ lines_left[w] > 0
  /\ loaded' = [loaded EXCEPT ![w] = line_count]
  /\ UNCHANGED <<queue, main_pc, to_create, remaining, entry, lines_left,
                 file_count, line_count, opened, scanned, raced, fds>>

WorkerStoreLines(w) ==
  /\ WorkerGoto(w, "lines_store", "scan")
  /\ line_count' = loaded[w] + 1
  /\ LosesUpdate("lines", loaded[w] # line_count)
  /\ loaded' = [loaded EXCEPT ![w] = 0]
  /\ lines_left' = [lines_left EXCEPT ![w] = @ - 1]
  /\ UNCHANGED <<queue, main_pc, to_create, remaining, entry, file_count,
                 opened, scanned, fds>>

WorkerEndScan(w) ==
  /\ WorkerGoto(w, "scan", "read")
  /\ lines_left[w] = 0
  /\ entry[w] \notin Dir
  /\ fds' = fds - 1
  /\ entry' = [entry EXCEPT ![w] = NULL]
  /\ UNCHANGED <<queue, main_pc, to_create, remaining, lines_left, loaded,
                 file_count, line_count, opened, scanned, raced>>

(* A failing fgets does not set the end-of-file flag the loop waits for.   *)
WorkerSpin(w) ==
  /\ WorkerGoto(w, "scan", "scan")
  /\ lines_left[w] = 0
  /\ entry[w] \in Dir
  /\ UNCHANGED vars

-----------------------------------------------------------------------------
MainStep ==
  \/ MainEnqueue \/ MainInEnqueue \/ MainPlan
  \/ \E w \in Worker : MainCreate(w)
  \/ MainCreated \/ MainJoin \/ MainCheck

WorkerStep(w) ==
  \/ WorkerDequeue(w) \/ WorkerInQueue(w) \/ WorkerOpen(w) \/ WorkerFails(w)
  \/ WorkerOutOfDescriptors(w)
  \/ \E e \in Entry : \/ WorkerReadText(w, e)
                      \/ WorkerReadDirectory(w, e)
                      \/ WorkerReadOther(w, e)
  \/ WorkerReturn(w) \/ WorkerLoadFiles(w) \/ WorkerStoreFiles(w)
  \/ WorkerSpin(w)
  \/ WorkerLoadLines(w) \/ WorkerStoreLines(w) \/ WorkerEndScan(w)

(* The process is gone.                                                    *)
Terminated ==
  /\ ~Running
  /\ UNCHANGED vars

Next == MainStep \/ (\E w \in Worker : WorkerStep(w)) \/ Terminated

Spec == Init /\ [][Next]_vars

(* The scheduler runs every thread that can take a step.  Nothing more is  *)
(* assumed of the mutexes: a thread may be overtaken at a lock any number  *)
(* of times.                                                               *)
Fairness == WF_vars(MainStep) /\ \A w \in Worker : WF_vars(WorkerStep(w))

FairSpec == Spec /\ Fairness
-----------------------------------------------------------------------------
TypeOK ==
  /\ main_pc \in MainPC
  /\ to_create \in 0 .. Cardinality(Worker)
  /\ at \in [Worker -> WorkerPC]
  /\ remaining \in [Worker -> SUBSET Entry]
  /\ entry \in [Worker -> Entry \cup {NULL}]
  /\ lines_left \in [Worker -> Nat]
  /\ loaded \in [Worker -> Nat]
  /\ file_count \in Nat
  /\ line_count \in Nat
  /\ opened \in [Path -> Nat]
  /\ scanned \subseteq Entry
  /\ raced \subseteq {"count", "files", "lines"}
  /\ fds \in 0 .. FdLimit

(* What the queue promises (and TwoLockQueue_proofs proves) carries    *)
(* over to the program: tfind only steps the queue as TwoLockQueue does.   *)
UsesTwoLockQueue == Q!Spec

(* The entries tfind has read and takes for directories.                   *)
TreatedAsDirectory(e) == Says[e] = {"directory"}

Found(p) ==
  IF p = Root
    THEN main_pc # "start"
    ELSE /\ TreatedAsDirectory(p)
         /\ \E d \in Dir : opened[d] > 0 /\ p \in Listing[d]
         /\ \A w \in Worker : p \notin remaining[w]

(* The places a path can be in: being enqueued, in the list, taken by a    *)
(* worker that has not opened it yet, or opened.                           *)
Places(p) ==
  Cardinality({t \in Thread : pc[t] \in {"e_lock", "e_link"} /\ val[t] = p})
  + Cardinality({i \in 1 .. Len(Q!items) : Q!items[i] = p})
  + Cardinality({w \in Worker : at[w] = "dequeue" /\ val[w] = p})
  + opened[p]

(* Every directory tfind finds is in exactly one place until it is         *)
(* searched, and is searched once: the threads of a round never share a    *)
(* directory, and none is forgotten between two rounds.                    *)
SearchAccounted ==
  Running => \A p \in Path : Places(p) = IF Found(p) THEN 1 ELSE 0

(* count never falls below the Dequeues the current round still has to do. *)
(* A negative count would be fatal: main would start no thread for it and  *)
(* yet never take the queue for empty (tfind.c:100-111).                   *)
Undone(w) == at[w] = "start"
             \/ pc[w] \in {"d_lock", "d_read", "d_take", "d_load", "d_store"}

CountCoversRound ==
  Running => count >= to_create + Cardinality({w \in Worker : Undone(w)})

(* The lines the scan of the files S finds.                                *)
HitLines(S) == UNION {{e} \X (1 .. Hits[e]) : e \in S}

(* The summary never reports more than was found: the unsynchronised       *)
(* counters lose increments but invent none, as long as no directory is    *)
(* read as a text file.                                                    *)
NeverOvercounts ==
  /\ file_count <= Cardinality(scanned)
  /\ scanned \cap Dir = {} => line_count <= Cardinality(HitLines(scanned))

(* What there is to search: the least set that holds the root and the      *)
(* entries of each directory in it that opendir can open.                  *)
Searchable == Dir \cap ({Root} \cup {e \in Entry : TreatedAsDirectory(e)})
Closed(S) == \A d \in S \cap Searchable : Listing[d] \subseteq S
Reachable == {p \in Path : \A S \in SUBSET Path : Root \in S /\ Closed(S) => p \in S}
ReachableText == {e \in Entry \cap Reachable : "text" \in Says[e]}

AllOpened == \A d \in Reachable \cap Searchable : opened[d] = 1

(* A worker stands before a call the system refuses: a descriptor is       *)
(* missing, file(1) prints nothing for an entry, or a text file or a path  *)
(* queued for a directory cannot be opened.                                *)
Refused(w) ==
  /\ pc[w] = "idle"
  /\ OutOfDescriptors(w) \/ Unusable(w)
  /\ at[w] = "dequeue" => val[w] = Root \/ TreatedAsDirectory(val[w])

(* While no update of count is lost, no fault comes from the threads       *)
(* themselves.  No worker meets an empty queue; the process ends with      *)
(* exit(1) only where the system refuses a call; main ends with the whole  *)
(* tree searched, and reports exactly each counter of which no update was  *)
(* lost either.                                                            *)
FaultsExplained ==
  "count" \notin raced =>
    /\ \A w \in Worker : at[w] = "dequeue" /\ pc[w] = "idle" => val[w] # NULL
    /\ main_pc = "failed" => \E w \in Worker : Refused(w)
    /\ main_pc = "finished" =>
         /\ AllOpened
         /\ scanned = ReachableText /\ scanned \cap Dir = {}
         /\ "files" \notin raced => file_count = Cardinality(scanned)
         /\ "lines" \notin raced => line_count = Cardinality(HitLines(scanned))

(* Whatever the threads do to count, the search ends, with the summary or  *)
(* with exit(1), or a worker reads a directory as if it were a text file.  *)
Terminates == <>(~Running \/ \E w \in Worker : entry[w] \in Dir)

(* "Repeat until queue is empty" (README.md:32): when main ends, every     *)
(* directory is searched.                                                  *)
Complete == main_pc = "finished" => AllOpened
=============================================================================
