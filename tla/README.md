# A verification project for the systems programs of this repository

TLA+ modules, TLC configurations and TLAPS proofs about the programs under
`src/`. The repository is a year of course work: four operating-systems
assignments in C, four algorithms assignments, a small script and documents.
The programs with state, concurrency and failure are the operating-systems
ones, and the project is about them first.

## 1. Inventory

| Component | Source | State it keeps | Operations | Interacts by | Status |
|---|---|---|---|---|---|
| Task queue of tfind | `OS/HW4/queue.h` | linked list with a dummy node, `count`, two mutexes | `Queue_Init`, `Enqueue`, `Dequeue`, `IsEmpty` | memory shared by all threads | modelled, proved |
| tfind | `OS/HW4/tfind.c` | rounds of threads, `file_count`, `line_count`, open descriptors | main's loop, `worker`, `summary` | the queue, `pthread_create`/`join`, file(1) through `popen` | modelled, without options and SIGINT; safety proved |
| pfind | `OS/HW2/pfind.c`, `que.h` | task queue, two named pipes, locks on them, stopped processes, totals | manager's loop, worker's loop | messages on pipes, `flock`, SIGSTOP/SIGCONT/SIGKILL | modelled, without options and SIGINT; safety proved |
| Line scan | `tfind.c:156-175`, `pfind.c:325-361` | the buffer, the line number | one loop | called by both searches | modelled, proved |
| rmalloc | `OS/HW3/rmalloc.c` | free list, used list, table of regions, policy | `rmalloc`, `rfree`, `rrealloc`, `rmshrink`, `rmconfig` | called by a client; `mmap`, `munmap` | modelled, without copied bytes and failing `mmap`; safety and refinement proved |
| pctest | `OS/HW1/pctest.c` | children, pipes, result files | compile, run, compare; SIGCHLD and SIGALRM handlers | fork, pipes, signals | modelled, without options, statistics and failing compiles; safety proved |
| Sorting | `Algorithm/HW3` | one array | `insertion_sort`, `heap_sort`, `quick_sort` on the same values | - | modelled, proved |
| Matrix chain | `Algorithm/HW2/mcm.cpp` | the tables `cost_mat` and `s` | `mcm`, `result` | - | modelled, proved |
| 8-puzzle | `Algorithm/HW4` | a queue and a search tree of boards | the search level by level, the path that is printed | - | modelled, proved |
| Bot | `OSS/project/final.py` | none of its own | calls of web services | network | not modelled: I/O |
| Drafts, test drivers, search data, documents | `OS/HW2/dir1/test3.c`, `OS/HW3/test*.c`, `OS/HW*/bible`, `DB` | - | - | - | not modelled |

What is hard in this code, and what makes each part correct:

* **Queue.** Two locks, one per end. On an empty queue both ends are the same
  node; `Dequeue` reads `head->next` while an `Enqueue` may write it
  (queue.h:54), and frees a node that `tail` may still point to (queue.h:63).
  `count++` and `count--` run under different locks. Correct means: an atomic
  FIFO queue, no use after free, no leak.
* **tfind.** `main` uses the racy `count` twice: for the number of threads of a
  round and as the condition to end. Correct means: every directory is
  searched once, the totals are exact, the program ends. It is not always so,
  and the model says exactly when.
* **pfind.** SIGCONT is not counted, so waking a process that is not stopped
  does nothing; pipes are finite and their readers block; a lock is released
  by exit. Correct means: messages stay whole, each directory is given out
  once, the printed totals are those of what was found, and the program ends.
* **Line scan.** `while(!feof)` notices the end one round late; a long line is
  several pieces; the buffer is not initialised.
* **rmalloc.** Sizes are unsigned; the free list is ordered by where blocks
  happened to be inserted; regions are never removed from their table. Correct
  means: blocks tile the mapped memory and the client's blocks never overlap.
* **pctest.** A child is waited for by main and by the handler of SIGCHLD, and
  whoever is first gets its status; the handler blocks in the midst of main; the
  timer is set from a field nobody wrote; main writes the tests into pipes of
  finite length whose read ends it keeps open itself. Correct means: one test at a time, no
  child left behind, answers of the same test compared, and the program ends.
* **Sorting.** Bounds: the sift that starts at the last index of the array, the
  child that is just inside the heap, the pivot that must not be sorted again.
  Correct means: in order, with the same values, for every array.
* **Matrix chain.** Two tables filled side by side, of which one is printed as a
  number and the other as parentheses: they must belong together. A cell that is read
  before it is filled holds INT_MAX, to which nothing can be added.
* **8-puzzle.** Boards are strings and a move is an index, so a step over the edge
  of the board is an index like any other; half of all boards have no path, which
  is noticed only when the queue is empty. Correct means: the least number of
  moves, a path of real moves, and "no path" exactly for those boards.

`PROJECT.json` lists every hazard at its line with the properties that cover it.

## 2. Modules

| Module | Models | Notes |
|---|---|---|
| `FifoQueue` | abstract | an atomic FIFO queue with calls in progress |
| `TwoLockQueue` | `queue.h` | one action per access to shared memory; refines `FifoQueue` |
| `TwoLockQueue_proofs` | - | the inductive invariant and the refinement, proved |
| `Tfind` | `tfind.c` | composes `Q == INSTANCE TwoLockQueue` with main and the workers |
| `Tfind_proofs` | - | composition with the queue, `count` and types; where each directory is and what the totals are, proved |
| `LineScan` | both scan loops | gives meaning to `Tfind`'s constant `Hits` and `Pfind`'s `hits` |
| `LineScan_proofs` | - | what the scan reports, proved |
| `Pfind` | `pfind.c`, `que.h` | manager, workers, pipes, locks and signals |
| `Pfind_proofs` | - | the two protocols of pfind, its tasks and its summary, proved |
| `Allocator` | abstract | what an allocator promises its client |
| `Rmalloc` | `rmalloc.c` | the lists on addresses; refines `Allocator` |
| `Rmalloc_proofs` | - | its blocks, its accounting and the refinement, proved |
| `Pctest` | `pctest.c` | main, children, the handlers of SIGCHLD and SIGALRM |
| `Pctest_proofs` | - | who waits for which child, and the verdicts, proved |
| `Sorts` | `Algorithm/HW3` | the three sorts, one after the other |
| `Sorts_proofs` | - | the three sorts, proved |
| `Mcm` | `mcm.cpp` | the tables, and the text that is printed from them |
| `Puzzle` | `Algorithm/HW4` | queue, tree and search |
| `Algorithms_proofs` | - | of `Mcm`, the printed cost, the text and that no sum overflows; of `Puzzle`, the tree, the path and "no path"; proved |
| `MC*` | - | the instances for TLC: trees, symmetry, bounds, arrays, boards |

### TwoLockQueue and the code

`next`, `data` and `allocated` are the heap; `head`, `tail`, `count` and the two
locks are `queue_t`; `temp`, `new_head`, `reg` and `val` are the locals of the
call each thread is in, and `pc` where it is. `EnqCall` is `malloc` and the two
stores to the fresh node; `malloc` may return a block freed a moment ago.
`EnqLink` is queue.h:43, `EnqSwing` :44, and line 45 is two actions, a load and
a store, since the makefile builds without optimisation. `DeqRead` is :53-55,
the read of `head->next` without `tail_lock`; on x86 and in this build pointers
are read and written whole. `DeqFree` is after the unlock, as in the code.
`chain` is a history variable: the nodes linked and not yet passed by `head`.

### Tfind and the code

`main_pc` follows tfind.c:92-120, `at[w]` the worker's lines 132-189; inside
`Enqueue` and `Dequeue` a thread's `pc` in the queue moves instead. `readdir`
returns the entries of a directory in any order. What file(1) says of an entry
is a constant: which of the words "text" and "directory" its output line holds.
`opened`, `scanned` and `raced` are history variables; `raced` records the
counters of which a store overwrote another thread's update. `fds` counts open
descriptors, of which those of `opendir` and `popen` are never closed.
`NoLine` are the entries of which file(1) may print no line, so that `fgets` of
`popen` brings nothing and the process ends (tfind.c:153): a name with a parenthesis
or an apostrophe, like those under `OS/HW2/bible`, is an error of the shell. `NoOpen`
are those `fopen` may refuse (tfind.c:161). `WorkerFails` is every such end.
`WorkerSpin` is the endless loop over a directory that was taken for a text
file. An entry is in one directory (`Hierarchy`: its path names it); `HitLines`
are the lines with the keywords, of which the endless scan has no end, so that
`NeverOvercounts` speaks of them only while no directory is read as text.

### Pfind and the code

The manager is process 0, worker `w` is `child[w - 1]`. A message is two fields,
its length and its text, written and read one at a time; within a field no
other process can come between. `stopped` is the set of processes that SIGSTOP
has stopped; `Continue` is SIGCONT, and `lost` records that it met a running
process. `exit` of a worker releases the lock it holds because its descriptors
close; killing it does too. The descriptors of the two ends of pipe2 stay open
in the other processes, so that a reader blocks and does not see the end of the
file. que.h is used by one process only and is a sequence. Running over the end
of `new_task` stops the model. `tree` never changes: pfind searches a file system
that nobody changes meanwhile, in which an entry is in one directory (`Hierarchy`:
its path names its directory). `seen` is a history variable, the entries `readdir`
has returned; no guard reads it. The field `no_open` of the tree are the files
`fopen` may refuse; then a worker ends (`OpenFails`), as it does when `opendir` fails.
`SummaryCounts` says what the two totals printed as "explored" are: the text files
that hold a keyword, and the directories but the root.

### LineScan and the code

A file is a sequence of the pieces `fgets` returns, each with the keywords it
holds and with how it ends: with a newline, because the buffer is full, or with
the end of the file. A failing `fgets` leaves the buffer alone. The buffer
starts with any content.

### Rmalloc and the code

The program is sequential: each call is one action, computed by operators on the
heap record that follow the code's steps (`Candidates` and `Hole` the search,
`Mapped` the mmap branch, `Split` `rsplit`, `Insert` the long loop of `rfree`).
Addresses are numbers and `mmap` may return any free place, next to another
region too. Sizes that wrap round are followed where they matter: the
comparison of FirstFit and the -1 WorstFit accepts. Where the code writes
outside its blocks, the model records the cause in `damage` and stops. `Tiles` and
`Owned` speak of the single bytes of blocks and pages: what the list operations do
is then an equation between sets, in TLC's runs and in the proofs.

### Pctest and the code

`mpc` follows main from system call to system call. A handler runs when main
returns to its own code, so a signal that arrives finds main in at most one more
call: `pending` is "new" then, and "due" after it, when only the handler may go
on. SIGCHLD is one bit, blocked while its handler runs; SIGALRM may interrupt
everything. What a child will do is chosen in the first state: answer, print
nothing, crash or hang. An answer is appended when the child exits, as a file is
the output of a buffered stream, which may be before its input is written or read.
A pipe is the number of its lines that are `unread`, `left` the lines of the test main
has still to write, first to the target and then to the solution (`MainWrite`). A
write waits for room; `ChildReads` makes some, if the program reads at all. The path
of a test is `./tests/` and its name, whatever directory the option gave, so that
`fopen` may refuse it (`NoOpen`). `armed` says whether `setitimer` accepted a timer whose microseconds were never set.
`Ended` names the ways to stop: main's return, exit(1) (there is no test, or one
cannot be opened), the handler's exit after
an abnormal end or a timeout, and a store behind `tester_tar`, where the model
stops. `reaper` is a history variable.

### Sorts, Mcm and Puzzle and the code

The three programs of `Algorithm/` are sequential. A step is one round of a loop
or one call, so that the properties see the tables while they are filled, and so
that the proofs have loop invariants to work with.

`Sorts`: the array is a function on `0 .. size - 1`. `i`, `j`, `key` and
`heap_size` are the variables of the function that runs; `max_heapify` is the
steps `sift_build` and `sift_extract`, one per recursive call, with `j` the node.
`partition` is a round per comparison. The recursion of `quick_sort` is `todo`,
the ranges it has still to be called for: any of them may be next, since the
calls work on disjoint ranges. `a0` is a history variable, `init_array`'s copy.

`Mcm`: `FillCell` is one cell of the tables; the loop over `k` is the first of the
least costs. `printed` is the text as a sequence of matrix numbers and
parentheses. `AllCosts` and `Follow` are the references: all ways to multiply,
and what the printed text costs to follow. The numbers of the model are unbounded,
those of the code are ints: `McmAssumption` says of the arrays beyond main's that
their costs fit (`Fits`, which main's own do), and `CostsFit` that then no sum of
the loop overflows. Only the cells that are not filled hold INT_MAX.

`Puzzle`: a board that is found gets one node in `Queue` and one in the tree of
`Set`; they are one node here, with `parent` from the one and `left` and `right`
from the other. `Check` pops, `Look` treats one neighbour, `NextLevel` is the end
of the loop over a level. `Width` is the 3 of the code and the size of the board its
9, so that TLC can search all boards of two rows. `Moves`, `Within` and `Solvable` are
the references; the last is the parity argument, which says which boards have a path.
`TasksOfMain` is what main's boards have in common: three columns, different tiles,
and the same tiles on both.

## 3. Runs

| Run | Module, cfg | Expect | Shows |
|---|---|---|---|
| `queue` | `MCTwoLockQueue` | pass | the queue's invariants, its inductive invariant, `FifoSpec` |
| `tfind` | `MCTfind` | pass | accounting of directories, `count`, totals; `Q!Spec` |
| `tfind_live` | `MCTfind`, `MCTfindLive.cfg` | pass | termination |
| `tfind_complete` | `MCTfind`, `MCTfindComplete.cfg` | violation | a lost update of `count` leaves a directory unsearched |
| `linescan` | `MCLineScan` | pass | exactly what the scan reports |
| `linescan_lines` | `MCLineScan`, `MCLineScanLines.cfg` | violation | a matching last line counts twice |
| `pfind` | `MCPfind` | pass | framing, tasks, totals, signals, what can keep it from ending |
| `pfind_freeze` | `MCPfind`, `MCPfindFreeze.cfg` | violation | a lost SIGCONT stops pfind for ever |
| `rmalloc` | `MCRmalloc` | pass | tiling, accounting, the allocator's promise, the corrupting requests |
| `rmalloc_firstfit` | `MCRmalloc`, `MCRmallocFirstFit.cfg` | violation | FirstFit hands out a hole that is too small |
| `pctest` | `MCPctest` | pass | no child left, exact verdicts, which crashes are seen, termination |
| `algorithms` | `MCAlgorithms` | pass | sorted and the same values; optimal products, printed as computed and without an overflow; shortest paths, "no path" exactly; all end |

### Bounds, and why they are enough

* `queue`: three threads, so that two can contend for each lock while the third
  works at the other end; four blocks, fewer than the threads and the list could
  use, so that a freed block is reused while another thread is in a call; two
  values. The drifting `count` is followed to `CountBound`: nothing in the queue
  reads it. Threads, blocks and values are symmetric.
* `tfind`: two workers, a root with two directories that each hold a directory
  and a file, so that an Enqueue and a Dequeue meet in a round and `count` can
  drift either way. Five blocks are as many as the tree needs, plus the dummy.
  `FdLimit` is 20, out of reach in this tree; the tree of `tfind_live` reaches
  its limit of 10. Of one file file(1) may print nothing, the other `fopen` may
  refuse; in the tree of `tfind_live` they change places, and in that of
  `tfind_complete` nothing is refused. `SpinBound` is how many hits of the endless scan are counted.
  No symmetry is used in the liveness run.
* `linescan`: two keywords and three pieces: a piece before, one at and one
  behind any boundary.
* `pfind`: two workers, `Capacity`, `FdLimit` and `Slots` small enough that the
  wide and the heavy tree exceed them; in the unreadable tree a directory and a file
  cannot be opened. Deadlock is not an error of this run:
  the program does freeze, and `FinishesUndisturbed` says when.
* `rmalloc`: pages of ten bytes, headers of three, three pages and a table of two
  regions. The sizes 2, 5 and 7 leave, of a new region, a remainder smaller than
  a header, no room for a header, and need two pages. `Slots` stands for 100.
* `pctest`: two tests, one on which the programs agree and one on which they
  differ, so that answers paired wrongly show. On the second each program does any
  of the four things a child may do; on the first the target may crash, and `fopen`
  may refuse the file. The first test is empty, the second has two lines, one more
  than `Capacity`, which stands for the 8192 of a pipe of 64 kB. `Slots` stands for 10
  and is one less than the entries of the directory: some orders of `readdir` exceed
  it and some do not. Deadlock is not an error of this run: with the timer refused,
  a program that hangs keeps pctest waiting for ever, and so does one that ends with
  more of its input unread than the pipe holds (`WriteBlocked`); `Ends` says that
  nothing else does.
* `algorithms`: a behaviour runs one of the three programs on one input. All
  arrays of one to five of three values: enough for a heap of three levels, for a
  range left and right of the pivot, and for equal values everywhere. The products
  of main, and all of two to five dimensions from {1, 2, 3}, in which most costs
  are equal. Boards of two rows up to nineteen moves apart, one of them without a
  path, which are all of their 360 boards to search; and near boards of three rows.
  The starts of the real program need up to 160 000 boards and are out of reach.

### Fairness

`tfind_live`: weak fairness of main and of each worker as a whole. The kernel
schedules every runnable thread; nothing is assumed of a mutex, so a thread may
be overtaken at a lock any number of times. The search is finite, which is why
that is enough. `pfind`: the same for each process. A stopped process has no
enabled step, so fairness never wakes it: only SIGCONT does.
`pctest`: weak fairness of main together with its handlers, which are one
thread; of each child that does not hang, since the kernel runs it; and of the
alarm, since a timer that was started runs out. That a program reads its input is not
assumed.
`algorithms`: weak fairness of the next step, since a sequential program runs on.

## 4. Proofs

For every set of threads, blocks and values (`NullAssumption` only says that
NULL is none of them):

* `Invariance`: `Spec => []IInv`. `IInv` is `TypeOK`, `LockInv` (a mutex is held
  by exactly the thread inside its section), `LocalsInv` (what a call's locals
  hold between two accesses), `NodeOwnership` and `ListShape`. None is inductive
  alone: the list keeps its shape when an `Enqueue` links a node only if the node
  is private to that call and its `next` is NULL; the node is private only if no
  other call owns it; `tail` is the last node only if no other thread is between
  its two writes, which is the lock's doing. One lemma per action shows that it
  keeps `IInv`; `OwnershipStable` and `OwnershipGivenUp` carry the arguments about
  ownership several actions share.
* `MemorySafety`, `Ownership`, `Shape`, `TypeCorrect`: the properties of the run
  `queue`, each from `IInv`. The first needs an argument: `tail` may point to a
  freed node, but only while `e_swing` holds the tail lock.
* `Linearizable`, the refinement: `Spec => FifoSpec`. Enqueue takes effect at
  `EnqLink`, Dequeue at `DeqTake`, or at `DeqRead` when it finds the queue empty;
  every other step is a call, a return or a stutter of `FifoQueue`.

`Tfind_proofs`, for every finite set of workers and every tree:

* `Composes`: `Spec => Q!Spec`. Each step of main and of a worker steps the queue as
  `TwoLockQueue` does or leaves it alone. Hence `SafeQueue`: the theorems about
  the queue, instantiated with the threads and paths of tfind, hold in tfind.
* `Covered` and `TypeCorrect`, by `IInv`: `TypeOK`; `CallsInv` (which call a thread
  can be in); `RoundInv` (outside a round there is no worker and nothing left to
  create); `ScanInv` (open files are among the descriptors); and `CoverInv`. The
  last is the point. `Due` is the number of Dequeues main has planned for the
  round and no worker has counted yet. It only falls in a round. So a value of
  `count` that was loaded covers `Due` when it is stored, however old it is; and a
  Dequeue that stores `count - 1` lowers `Due` itself. Lost updates are therefore
  harmless for this property, and the locks are not needed for it. The types of
  the queue's variables come from `SafeQueue`.

The second part of `Tfind_proofs`, for every finite set of workers and entries, and
every tree: `EachDirectoryOnce`, `TotalsBounded` and `FaultsHaveCauses`, by `SearchInvariance`:

* `ReadInv`: the text entries that were counted are those `readdir` has returned;
  two workers read different directories, so no entry is treated twice.
* `PlacesInv`: a directory that is found and not yet searched is in one of four
  places: an Enqueue before it links the node, the list, a Dequeue that has taken
  the node, its worker. It is `SearchAccounted`, with the paths in the queue's
  registers; the steps of the queue move a path from one place to the next.
* `FilesInv`, `LinesInv`: a counter and what the workers have in hand is at most what
  was scanned, and exactly that while no update of it was lost. A store may write
  a value loaded long ago, so the same is said of the value in the register.
* `CountInv`: while no update of `count` was lost, `count` is the number of items,
  less the Enqueues that have linked a node and not counted it, plus the Dequeues
  that have taken one and not counted that.
* `EnoughInv`: then the Dequeues a round still has to do are at most the items, so
  that none of them meets an empty queue. Main starts as many as `count` says when
  no worker runs, which is where `CountInv` is needed.
* `EndInv`: `main_pc` is "finished" only with an empty queue, so with every directory
  in none of the four places: opened, and so all that can be reached. And it is
  "failed" only with a worker before a call the system refuses (`Refused`), or after
  an update of `count` was lost.

`LineScan_proofs`, for every set of keywords and files of every length: `ReportIsPlain`,
`NothingMissed` and `FilesCounted`, by an invariant of the loop. `PlaceInv` says that
`line` is one ahead of the pieces read, or two after the `fgets` that brings nothing;
`FoundInv` that the reports so far are the pieces with all keywords, in order, and
then perhaps the last piece again; `CheckInv` the same of `filecheck`.

`Pctest_proofs`, for every set of tests: `NobodyLeft` and `Crashes`, by `AliveInv`
(the children that may still be there at each point of main), `TestedInv` (of a
test that is no longer to do, both children were waited for, unless it is the one
that runs) and `ReaperInv` (a child that was waited for has one who did, and a
crash the handler waited for has ended main). The argument is that main's wait
and the handler's remove the same children, so that it does not matter whose wait
comes first. `VerdictsRight` adds `AnswersInv`, for runs in which every child
answers: there is one enumeration of the tests done so far, and both result files
hold the answers to them in that order (`FilesInv`), although each child appends its
line when it ends; a test that is to do has no child yet (`FreshInv`). So the lines
the detector compares belong to the same test, and it counts each test once.

`Pfind_proofs`, for every number of workers, capacity of the pipes, size of
`new_task` and set of file systems (`PfindAssumption`: of these, only that a path is
not a letter of the protocol and that an entry is in one directory):
`TypeOK`, `Framed`, `ReadersFindData` and `LostSignalIsFatal`, by one invariant
with a part for each thing that has to be known:

* `ManagerInv` and `LockInv`: where the processes are, and which lock each holds.
* `OutInv`: what a process has still to write; only the holder of a lock has
  anything.
* `FrameInv`: a pipe followed by what its writer has still to write takes its reader
  from where it stands to the end of a message (`Frames`). A pipe alone need not:
  a message is cut while a writer waits for room, and the part that is not yet
  written is what makes the statement inductive.
* `RoundInv`: between the manager's first SIGCONT and its last SIGSTOP, the tasks in
  pipe1, the workers that have one and the reports made are together `available`;
  the workers that are awake without a task are at most the tasks; and the manager
  has returned from at most as many SIGSTOPs as it was sent SIGCONTs. Outside these
  states no worker is busy or awake. That is why no reader waits for ever at an empty
  pipe, and why no worker is killed at work.
* `LostInv`: after a lost SIGCONT one of the two inequalities is strict, and no step
  can make it an equality again. So the manager never leaves the round, which is
  `LostSignalIsFatal`.

The second part of `Pfind_proofs`, from the same assumption: `OneTaskPerDirectory` and
`SummaryCounts`. The fields on their way to the manager are one sequence, `Stream`:
pipe2, and what the worker that holds its lock has still to write. `SeenInv`: a
directory is in one place at most from its discovery to its search (`Present`), and
one that is in none was searched. `CountInv`: what the manager has counted and what
is in `Stream` is what `readdir` has returned. At the end all places are empty, so
`seen` is closed, and it is the least such set; so the totals are those of `Found`.

`Sorts_proofs`, for every size and all integers: `Sorted` and `Permuted`, by
`PermutationInv` (the array is a permutation of the first one, with `key` put into
the free place while `insertion_sort` shifts), `InsertionInv` (the sorted part is
in order, the free place left out), `HeapInv` (the heap is in order but at the
sinking node, whose children are not above its parent; behind the heap stand the
largest values, in order) and `QuickInv` (the ranges still to be sorted are
disjoint, and only two places of the same range may be out of order). That the
root of a heap is its largest value needs an induction, which is done with the
least-number principle: of the places with a larger value take the first; its
parent has one too.

`Rmalloc_proofs`, for every size of a header, of a page, of the address space and of
the table, any requests and policies (`RmallocAssumption`: a header is not empty, a
page is larger than two of them, and requests are positive): `BlocksTile`,
`SizeIsOwned`, `FailuresExplained` and the refinement `Implements`. `IInv` adds to the
first two what the types hide: a region of the table is whole pages without its
header, and each block has a natural size, although sizes are subtracted.

* `BlocksTile`: every operation on the lists exchanges some blocks for others that
  cover the same bytes (`Swap`, from `Repartition`): `rsplit` cuts one in two
  (`CutBytes`), `rfree` joins it with its neighbours (`JoinBytes`) or inserts it. So
  it does not matter where in the list the long loop of `rfree` puts the block,
  nor with which neighbour it finds it adjacent first, and the proof looks at
  neither. Only `mmap` and `munmap` change the bytes, by those of whole pages
  (`RegionBytes`); an entry of the table that was unmapped before does no harm,
  since `rmshrink` takes only a hole with its address and size.
* `SizeIsOwned`: the data of blocks that do not overlap are as many bytes as their
  sizes say together; one block more or less is its size more or less (`OneMore`).
* `FailuresExplained`: the hole that is taken is a candidate of the policy (`HoleIs`).
  That there is a first or a best one is because each policy orders the candidates
  totally, down to their place in the list; the least-number principle finds it.
* `rmshrink` is a recursion over the table. Of the entries after which the heap
  might be wrong the least one would have a predecessor (`AfterExists`, `ShrunkIs`).
* `Implements`: `Spec => ImplementsAllocator`. `Rmalloc` is `Alloc` or, where the model
  stops, a stutter; `Rfree` is `Free`, `Rrealloc` is `Realloc`, since the old block is
  freed only when the new one is taken; `Rmshrink` is `Shrink`, because a
  region that is a hole contains no block in use; a wrong pointer is `Exit`.

`Algorithms_proofs`, of `Mcm`, for every array whose costs fit an int (`McmAssumption`):
`ValueIsOptimal`, `TextIsRight` and `NoOverflow`, by `McmInvariance`.

* `TablesInv`: a cell of a diagonal that is filled (`Filled`) holds the least of all
  costs of its product, and in `s` a place to split at that costs as much. The cells from which a cell is computed are of shorter diagonals, so
  filled. That the least of a union is the least of the parts' leasts is why the loop
  over `k` need not look at all ways.
* The references are recursive functions over the products. Each exists and is what
  its equation says for every array; the least-number principle, over the length of a
  product, takes the place of an induction.
* `TextIsRight`: what `result` prints of a product, followed from any stack, leaves the
  stack with that product on it (`Means`, `Goes`), and the cost it has there is the
  one of the table. Here the two tables meet.
* `NoOverflow`: all ways to multiply cost at most the number of products times the
  cube of the greatest dimension, which `Fits` keeps in an int.

Of `Puzzle`, for rows of any width above one and boards of any size
(`PuzzleAssumption`: a board has one empty place; in a single column the moves to the
left and to the right of the code would be moves up and down): `BoardsFoundOnce`,
`PathIsShortest` and `NoPathIsRight`, by `PuzzleInv`; and from it `FoundIsSolvable` and
`NoPathIsExact`.

* `MovesAre`: the indices that main computes are the neighbours in the rows and
  columns, `(ind - 1) / 3 == row` included.
* `AllFound`: the tree finds each node that is in it. A new node hangs where the way
  down to its board ended; the way to another board either does not pass there, or
  ended there before, and then it ended at its own node and still does
  (`PushKeeps`). The ways are recursive functions over nodes that only link to later
  ones, so that the last node for which a claim fails refutes it (`Latest`). The proof
  uses nothing of the order of the boards: `insert` and `find` agree, and that is all.
* `NearInv`: the nodes up to `level_end` are exactly the boards within `result` moves;
  `MovesInv`: of each popped board all moves are nodes, but those still to be looked
  at; `LevelInv`: the parents of a node of the level lead to the first board in
  `result` steps. At the end of a level the next one follows from these.
* `PathIsShortest`: the final board is not among the popped ones (`FinalInv`), so it
  is not within the moves of the last level. `NoPathIsRight`: when the queue is empty,
  the nodes are closed under moves and none is final.
* `FoundIsSolvable`, for boards of different tiles: a move changes the number of
  inversions by an odd number (`OddInversions`), and the row and column of the empty
  place by one together, so it keeps the parity (`MoveKeepsParity`); a board that is
  found has the parity of the first one.
* `NoPathIsExact` is the other half: when "no path" is printed, the parities differ. Its
  hypothesis `TasksOfMain` is three columns, two rows or more, different tiles, the same
  ones on both boards. The places are numbered along a snake through the rows, and
  the tiles read along it are a `Word`. The empty place slides along the snake without
  changing the word (`Slides`); a step between two rows turns three or five tiles of it
  (`Turns`); and so any three neighbours in the word can be turned (`ThreeTurn`). With such
  turns the tiles get to their places one after another, all but the last two
  (`Settles`). If these were exchanged the parity would be the other one
  (`OtherParity`), so the final board is among those that moves reach
  (`ParityIsEnough`), and the search reaches all of these.

TLC checked each of these formulas, the inductive invariants included, before it
was proved.

Every safety property and every refinement that a passing run checks is proved. Only
model-checked: liveness (`Terminates`, `FinishesUndisturbed`, `Ends`, `AllEnd`), which
with fairness and ENABLED is out of the prover's reach. What the theorems assume beyond
the modules' own assumptions is `TasksOfMain`, or a part of it, for the two about
parity; TLC evaluates it on the boards of `MCAlgorithms`.

## 5. Where the code and its documents disagree

1. `count` is protected by two different locks, so tfind can end with directories
   unsearched (README.md of HW4 says the race is gone and that it repeats until the
   queue is empty). `FaultsExplained` says that, while no update of `count` is lost,
   the threads do nothing else wrong, and that exit(1) is then taken only where the
   system refuses a call.
2. pfind can freeze: SIGCONT is not counted (its readme reports freezes without
   a cause). `FinishesUndisturbed` lists every other cause.
3. A matching last line counts twice in both programs.
4. FirstFit, the default policy of rmalloc, takes any hole smaller than a header.
   `DamageExplained` lists the other requests that corrupt the heap.
5. pfind prints "total number of explored files" and "of explored directories"
   (pfind.c:476-477), and its readme says "if it finds a file, it sends f"
   (readme.md:29). An "f" is sent only for a text file with a keyword in it
   (pfind.c:363), a "d" only for a directory found in another, so that the files
   without a keyword and the root are explored and not counted. The comment at
   pfind.c:362 says what the code does. `SummaryCounts` states what is counted.
6. The readme of HW1 says that "if an error occurs in the child process and the child
   process is stopped, a signal is sent to the parent process to print an error
   message" (readme.md:21). A crash that main's own wait collects, which looks at no
   status, is not reported; `CrashSeen` says that no other one is missed.
7. pctest takes the directory of the tests as an option and looks the names up there,
   but opens each in `./tests/` (pctest.c:258): with another directory it ends at the
   first test.

## 6. Plan

Done in this order: the queue, its proofs and refinement; tfind on top of it;
pfind; the scan; the allocator; pctest; the three algorithms; the proofs about the
sorts, pctest, tfind, pfind, the scan, the allocator, the puzzle and the matrix chain.
What is left is pctest with a failing compile, in which a child goes on in main's loop.

Not modelled, and why:

* Option parsing, a sequence of checks that end the program, and what the options
  only pass on; the SIGINT handlers, unfinished in pfind and only printing in tfind.
* A failing compile in pctest: the child becomes a second pctest that shares the
  open files, directory stream and answers with the first, which doubles the model
  for a case the program does not handle at all. Its time statistics are output.
* Calls of the system that fail where nothing fails in practice: fork, pipe,
  `pthread_create`, `malloc`, and in pctest `opendir`. Files that change while they
  are searched, and files whose reading blocks (a FIFO with "text" in its path).
* What a name means to the shell that `popen` starts, beyond that file(1) may
  print no line for it; a line of file(1) is taken for its own.
* Which bytes of a line pctest writes: always eight, the size of a pointer. What the
  programs answer is a constant, as their input is not looked at.
* The bytes copied by `rrealloc`, `rmprint`, and a failing `mmap`, after which the
  program dies at the next write. `rmalloc`'s test programs are fixed sequences of
  calls without an assertion; the run `rmalloc` takes every sequence.
* String buffers that are one byte too short: below the level at which paths are
  values.
* Of the algorithms: the random input and the clock, the printed tables, freeing
  memory, and the functions nobody calls (`Queue::find_puzzle`, `Set::head`).
* The draft of pfind among the search data, which does not compile; the bot, which
  is input and output; the sample programs for pctest; the documents.
