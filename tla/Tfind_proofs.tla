---------------------------- MODULE Tfind_proofs ----------------------------
(***************************************************************************)
(* Proofs about tfind, in two parts.  It uses the queue as TwoLockQueue    *)
(* does, so that the queue's theorems hold in it, and count, for all its   *)
(* lost updates, never falls below the Dequeues the current round still    *)
(* has to do.  And what the search finds: every directory is in one place  *)
(* from its discovery to its search, the totals never say too much, and a  *)
(* lost update is the only cause of a wrong one.                           *)
(***************************************************************************)
EXTENDS Tfind, SequenceTheorems, FiniteSetTheorems, TLAPS

(* The theorems about the queue, for the threads and paths of tfind.       *)
QP == INSTANCE TwoLockQueue_proofs WITH Data <- Path

-----------------------------------------------------------------------------
LEMMA QueueSteps == [Next]_vars => [Q!Next]_(Q!vars)
<1> SUFFICES ASSUME [Next]_vars
             PROVE  [Q!Next]_(Q!vars)
  OBVIOUS
<1> USE DEF queue, search, vars, Q!vars, Q!heap, Q!locks, Q!locals
<1>1. \A w \in Worker : w \in Thread
  BY DEF Thread
<1>2. Main \in Thread
  BY DEF Thread
<1>3. Root \in Path /\ \A e \in Entry : e \in Path
  BY DEF Path
<1>4. CASE MainEnqueue \/ MainInEnqueue
  BY <1>2, <1>3, <1>4 DEF MainEnqueue, MainInEnqueue, Q!Next
<1>5. CASE MainPlan \/ (\E w \in Worker : MainCreate(w)) \/ MainCreated
           \/ MainJoin \/ MainCheck
  BY <1>5 DEF MainPlan, MainCreate, MainCreated, MainJoin, MainCheck
<1>6. ASSUME NEW w \in Worker, WorkerStep(w)
      PROVE  [Q!Next]_(Q!vars)
  <2>1. CASE WorkerDequeue(w) \/ WorkerInQueue(w)
    BY <1>1, <2>1 DEF WorkerDequeue, WorkerInQueue, Q!Next
  <2>2. CASE \E e \in Entry : WorkerReadDirectory(w, e)
    BY <1>1, <1>3, <2>2 DEF WorkerReadDirectory, Q!Next
  <2>3. CASE \/ WorkerOpen(w) \/ WorkerFails(w) \/ WorkerOutOfDescriptors(w)
             \/ \E e \in Entry : WorkerReadText(w, e) \/ WorkerReadOther(w, e)
    BY <2>3 DEF WorkerOpen, WorkerFails, WorkerOutOfDescriptors,
                WorkerReadText, WorkerReadOther
  <2>4. CASE \/ WorkerReturn(w) \/ WorkerLoadFiles(w) \/ WorkerStoreFiles(w)
             \/ WorkerSpin(w) \/ WorkerLoadLines(w) \/ WorkerStoreLines(w)
             \/ WorkerEndScan(w)
    BY <2>4 DEF WorkerReturn, WorkerLoadFiles, WorkerStoreFiles, WorkerSpin,
                WorkerLoadLines, WorkerStoreLines, WorkerEndScan
  <2> QED
    BY <1>6, <2>1, <2>2, <2>3, <2>4 DEF WorkerStep
<1>7. CASE Terminated \/ UNCHANGED vars
  BY <1>7 DEF Terminated
<1> QED
  BY <1>4, <1>5, <1>6, <1>7 DEF Next, MainStep

(* The threads of tfind use the queue as TwoLockQueue says.                *)
THEOREM Composes == Spec => UsesTwoLockQueue
<1>1. Init => Q!Init
  BY DEF Init
<1> QED
  BY <1>1, QueueSteps, PTL DEF Spec, UsesTwoLockQueue, Q!Spec

(* The same instance under both names.                                     *)
LEMMA SameQueue ==
  /\ Q!Init => QP!Init
  /\ [Q!Next]_(Q!vars) => [QP!Next]_(QP!vars)
  /\ QP!NoDanglingAccess => Q!NoDanglingAccess
  /\ QP!TypeOK => Q!TypeOK
<1>1. Q!Init => QP!Init
  BY DEF Q!Init, QP!Init
<1>2. QP!NoDanglingAccess => Q!NoDanglingAccess
  BY DEF Q!NoDanglingAccess, QP!NoDanglingAccess
<1>3. QP!TypeOK => Q!TypeOK
  BY DEF Q!TypeOK, QP!TypeOK, Q!PC, QP!PC, Q!EnqPC, QP!EnqPC, Q!DeqPC,
         QP!DeqPC
<1>4. Q!vars = QP!vars /\ Q!vars' = QP!vars'
  BY DEF Q!vars, QP!vars, Q!heap, QP!heap, Q!locks, QP!locks, Q!locals,
         QP!locals
<1>5. ASSUME NEW t, Q!EnqStep(t)
      PROVE  QP!EnqStep(t)
  BY <1>5 DEF Q!EnqStep, QP!EnqStep, Q!Goto, QP!Goto,
     Q!EnqLock, Q!EnqLink, Q!EnqSwing, Q!EnqLoadCount, Q!EnqStoreCount,
     Q!EnqUnlock, QP!EnqLock, QP!EnqLink, QP!EnqSwing, QP!EnqLoadCount,
     QP!EnqStoreCount, QP!EnqUnlock, Q!heap, QP!heap, Q!locks, QP!locks,
     Q!locals, QP!locals
<1>6. ASSUME NEW t, Q!DeqStep(t)
      PROVE  QP!DeqStep(t)
  BY <1>6 DEF Q!DeqStep, QP!DeqStep, Q!Goto, QP!Goto,
     Q!DeqLock, Q!DeqRead, Q!DeqEmpty, Q!DeqTake, Q!DeqLoadCount,
     Q!DeqStoreCount, Q!DeqUnlock, Q!DeqFree, QP!DeqLock, QP!DeqRead,
     QP!DeqEmpty, QP!DeqTake, QP!DeqLoadCount, QP!DeqStoreCount,
     QP!DeqUnlock, QP!DeqFree, Q!heap, QP!heap, Q!locks, QP!locks, Q!locals,
     QP!locals
<1>7. ASSUME NEW t, (\E d \in Path : Q!EnqCall(t, d)) \/ Q!DeqCall(t)
      PROVE  (\E d \in Path : QP!EnqCall(t, d)) \/ QP!DeqCall(t)
  BY <1>7 DEF Q!EnqCall, Q!DeqCall, QP!EnqCall, QP!DeqCall, Q!Goto, QP!Goto,
     Q!heap, QP!heap, Q!locks, QP!locks
<1>8. Q!Next => QP!Next
  BY <1>5, <1>6, <1>7 DEF Q!Next, QP!Next
<1> QED
  BY <1>1, <1>2, <1>3, <1>4, <1>8

(* So what is proved of the queue holds in tfind: no thread touches a      *)
(* block of it that is already freed.                                      *)
THEOREM SafeQueue == Spec => [](Q!NoDanglingAccess /\ Q!TypeOK)
<1>1. NULL \notin Thread \cup Node \cup Path
  BY TfindAssumption DEF Thread, Path
<1>2. QP!Spec => [](QP!NoDanglingAccess)
  BY <1>1, QP!MemorySafety
<1>3. QP!Spec => [](QP!TypeOK)
  BY <1>1, QP!TypeCorrect
<1>4. Init => QP!Init
  BY SameQueue DEF Init
<1>5. [Next]_vars => [QP!Next]_(QP!vars)
  BY QueueSteps, SameQueue
<1>6. Spec => QP!Spec
  BY <1>4, <1>5, PTL DEF Spec, QP!Spec
<1>7. (QP!NoDanglingAccess /\ QP!TypeOK) => (Q!NoDanglingAccess /\ Q!TypeOK)
  BY SameQueue
<1> QED
  BY <1>2, <1>3, <1>6, <1>7, PTL

-----------------------------------------------------------------------------
(* The calls of the queue each thread can be in, from where it stands.     *)
CallsInv ==
  /\ pc[Main] \in Q!EnqPC \cup {"idle"}
  /\ main_pc \notin {"enqueue", "failed"} => pc[Main] = "idle"
  /\ \A w \in Worker :
       /\ pc[w] \in Q!EnqPC => at[w] = "read"
       /\ pc[w] \in Q!DeqPC => at[w] = "dequeue"

(* No worker is there but between the pthread_create and the pthread_join  *)
(* calls of a round, and main creates as many as it planned.               *)
RoundInv ==
  /\ main_pc \in {"start", "enqueue", "plan", "check", "finished"} =>
       \A w \in Worker : at[w] = "none"
  /\ main_pc \notin {"create", "failed"} => to_create = 0

(* The text file a worker treats; the files open are among the descriptors.*)
Scanning == {w \in Worker : at[w] \in {"scan", "lines_store"}}

ScanInv ==
  /\ \A w \in Worker :
       /\ at[w] \in {"files_load", "files_store", "scan", "lines_store"} =>
            entry[w] \in Entry /\ "text" \in Says[entry[w]]
       /\ at[w] = "lines_store" => lines_left[w] > 0
  /\ fds >= Cardinality(Scanning)

(* The Dequeues the round still has to do: count covers them, and so does  *)
(* every value of count that is about to be stored again.                  *)
ToDequeue == {w \in Worker : Undone(w)}
Due == to_create + Cardinality(ToDequeue)

CoverInv ==
  Running =>
    /\ count >= Due
    /\ \A t \in Thread : pc[t] \in {"e_store", "d_store"} => reg[t] >= Due

IInv == TypeOK /\ CallsInv /\ RoundInv /\ ScanInv /\ CoverInv

-----------------------------------------------------------------------------
LEMMA SetSizes ==
  ASSUME NEW S \in SUBSET Worker
  PROVE  /\ Cardinality(S) \in Nat
         /\ S = {} => Cardinality(S) = 0
         /\ Cardinality(S) = 0 => S = {}
         /\ \A w \in Worker \ S : Cardinality(S \cup {w}) = Cardinality(S) + 1
         /\ \A w \in S : Cardinality(S \ {w}) = Cardinality(S) - 1
<1>1. IsFiniteSet(S)
  BY TfindAssumption, FS_Subset
<1>2. \A w \in Worker \ S : Cardinality(S \cup {w}) = Cardinality(S) + 1
  BY <1>1, FS_AddElement
<1>3. \A w \in S : Cardinality(S \ {w}) = Cardinality(S) - 1
  BY <1>1, FS_RemoveElement
<1> QED
  BY <1>1, <1>2, <1>3, FS_CardinalityType, FS_EmptySet

LEMMA ThreadIs == Main \in Thread /\ \A w \in Worker : w \in Thread /\ w # Main
BY TfindAssumption DEF Thread

LEMMA DueIsInteger ==
  /\ TypeOK => Due \in Int
  /\ TypeOK' => Due' \in Int
<1>1. Cardinality(Worker) \in Nat
  BY SetSizes
<1>2. Cardinality(ToDequeue) \in Nat /\ Cardinality(ToDequeue') \in Nat
  BY SetSizes DEF ToDequeue
<1> QED
  BY <1>1, <1>2 DEF TypeOK, Due

(* No worker waits for a Dequeue while main is not in a round.             *)
LEMMA NothingDue ==
  ASSUME TypeOK, CallsInv, Q!TypeOK, to_create = 0,
         \A w \in Worker : at[w] = "none"
  PROVE  ToDequeue = {} /\ Due = 0 /\ \A w \in Worker : pc[w] = "idle"
<1>1. \A w \in Worker : pc[w] \in Q!PC
  BY ThreadIs DEF Q!TypeOK
<1>2. \A w \in Worker : pc[w] = "idle"
  BY <1>1 DEF CallsInv, Q!PC
<1>3. ToDequeue = {}
  BY <1>2 DEF ToDequeue, Undone
<1> QED
  BY <1>2, <1>3, SetSizes DEF Due

LEMMA CoverKept ==
  ASSUME TypeOK, TypeOK', Q!TypeOK, CoverInv, Running' => Running,
         Due' <= Due, count' = count, reg' = reg,
         \A t \in Thread : pc'[t] \in {"e_store", "d_store"} => pc'[t] = pc[t]
  PROVE  CoverInv'
<1>1. Due \in Int /\ Due' \in Int /\ count \in Int /\ reg \in [Thread -> Int]
  BY DueIsInteger DEF Q!TypeOK
<1> QED
  BY <1>1 DEF CoverInv

LEMMA InitInv == Init => IInv
<1> SUFFICES ASSUME Init
             PROVE  IInv
  OBVIOUS
<1>1. Cardinality(Worker) \in Nat
  BY SetSizes
<1>2. pc = [t \in Thread |-> "idle"] /\ count = 0
  BY DEF Init, Q!Init
<1>3. Scanning = {} /\ ToDequeue = {}
  BY <1>2, ThreadIs DEF Init, Scanning, ToDequeue, Undone
<1>4. Cardinality(Scanning) = 0 /\ Cardinality(ToDequeue) = 0
  BY <1>3, SetSizes
<1>5. TypeOK
  BY <1>1, TfindAssumption DEF Init, TypeOK, MainPC, WorkerPC
<1>6. CallsInv /\ RoundInv
  BY <1>2, ThreadIs DEF Init, CallsInv, RoundInv, Q!EnqPC, Q!DeqPC
<1>7. ScanInv
  BY <1>4 DEF Init, ScanInv
<1>8. CoverInv
  BY <1>2, <1>4 DEF Init, CoverInv, Due
<1> QED
  BY <1>5, <1>6, <1>7, <1>8 DEF IInv

-----------------------------------------------------------------------------
(* main's only Enqueue, before any worker is there.                        *)
LEMMA MainEnqueueInv ==
  ASSUME IInv, Q!TypeOK, Q!TypeOK', MainEnqueue \/ MainInEnqueue
  PROVE  IInv'
<1>0. TypeOK /\ CallsInv /\ RoundInv /\ ScanInv /\ CoverInv
  BY DEF IInv
<1>1. /\ UNCHANGED search /\ to_create' = to_create
      /\ main_pc \in {"start", "enqueue"} /\ main_pc' \in {"enqueue", "plan"}
  BY DEF MainEnqueue, MainInEnqueue, MainGoto
<1>2. to_create = 0 /\ \A w \in Worker : at[w] = "none"
  BY <1>0, <1>1 DEF RoundInv
<1>3. Due = 0 /\ \A w \in Worker : pc[w] = "idle"
  BY <1>0, <1>2, NothingDue
<1>4. /\ pc' = [pc EXCEPT ![Main] = pc'[Main]]
      /\ pc'[Main] \in Q!EnqPC \cup {"idle"}
      /\ main_pc' # "enqueue" => pc'[Main] = "idle"
  <2>1. CASE MainEnqueue
    BY <2>1, ThreadIs DEF MainEnqueue, MainGoto, Q!EnqCall, Q!Goto, Q!TypeOK,
                          Q!EnqPC
  <2>2. CASE MainInEnqueue
    <3>1. \E c \in Q!EnqPC \cup {"idle"} : pc' = [pc EXCEPT ![Main] = c]
      BY <2>2 DEF MainInEnqueue, Q!EnqStep, Q!EnqLock, Q!EnqLink, Q!EnqSwing,
                  Q!EnqLoadCount, Q!EnqStoreCount, Q!EnqUnlock, Q!Goto, Q!EnqPC
    <3> QED
      BY <1>1, <2>2, <3>1, ThreadIs DEF MainInEnqueue, Q!TypeOK
  <2> QED
    BY <2>1, <2>2
<1>5. TypeOK'
  BY <1>0, <1>1 DEF TypeOK, search, MainPC
<1>6. CallsInv'
  BY <1>1, <1>2, <1>3, <1>4, ThreadIs
     DEF CallsInv, search, Q!EnqPC, Q!DeqPC, Q!TypeOK
<1>7. RoundInv' /\ ScanInv'
  BY <1>0, <1>1, <1>2 DEF RoundInv, ScanInv, Scanning, search
<1>8. \A w \in Worker : at'[w] = "none"
  BY <1>1, <1>2 DEF search
<1>9. Due' = 0
  <2>1. to_create' = 0
    BY <1>1, <1>2
  <2>2. \A w \in Worker : pc'[w] = "idle"
    BY <1>3, <1>4, ThreadIs DEF Q!TypeOK
  <2>3. ToDequeue' = {}
    BY <1>8, <2>2 DEF ToDequeue, Undone
  <2> QED
    BY <2>1, <2>3, SetSizes DEF Due
<1>10. count >= 0 /\ (pc[Main] = "e_store" => reg[Main] >= 0)
  BY <1>0, <1>1, <1>3, ThreadIs DEF CoverInv, Running
<1>11. /\ count' >= 0
       /\ pc'[Main] \in {"e_store", "d_store"} => reg'[Main] >= 0
  <2> USE <1>10, ThreadIs DEF Q!TypeOK, Q!Goto, Q!heap, Q!locks, Q!locals
  <2>1. CASE MainEnqueue
    BY <2>1 DEF MainEnqueue, Q!EnqCall
  <2>2. CASE Q!EnqLock(Main) \/ Q!EnqLink(Main) \/ Q!EnqSwing(Main)
    BY <2>2 DEF Q!EnqLock, Q!EnqLink, Q!EnqSwing
  <2>3. CASE Q!EnqLoadCount(Main) \/ Q!EnqStoreCount(Main) \/ Q!EnqUnlock(Main)
    BY <2>3 DEF Q!EnqLoadCount, Q!EnqStoreCount, Q!EnqUnlock
  <2> QED
    BY <2>1, <2>2, <2>3 DEF MainInEnqueue, Q!EnqStep
<1>12. \A t \in Thread : t = Main \/ pc'[t] = "idle"
  BY <1>3, <1>4, ThreadIs DEF Thread, Q!TypeOK
<1>13. CoverInv'
  BY <1>9, <1>11, <1>12 DEF CoverInv
<1> QED
  BY <1>5, <1>6, <1>7, <1>13 DEF IInv

(* The rounds of main: the queue stays as it is.                           *)
LEMMA MainRoundInv ==
  ASSUME IInv, Q!TypeOK, Q!TypeOK',
         \/ MainPlan \/ MainCreated \/ MainJoin \/ MainCheck
         \/ \E w \in Worker : MainCreate(w)
  PROVE  IInv'
<1>0. TypeOK /\ CallsInv /\ RoundInv /\ ScanInv /\ CoverInv
  BY DEF IInv
<1>1. /\ UNCHANGED <<count, pc, reg, remaining, entry, lines_left, loaded>>
      /\ UNCHANGED <<file_count, line_count, opened, scanned, raced, fds>>
  BY DEF MainPlan, MainCreated, MainJoin, MainCheck, MainCreate, queue, search
<1>2. pc[Main] = "idle" /\ main_pc \notin {"enqueue", "failed"} /\ Running
  BY <1>0 DEF MainPlan, MainCreated, MainJoin, MainCheck, MainCreate, MainGoto,
              CallsInv, Running
<1>3. Cardinality(Worker) \in Nat
  BY SetSizes
<1>4. CASE MainPlan
  <2>1. UNCHANGED at /\ main_pc = "plan" /\ main_pc' = "create"
    BY <1>4 DEF MainPlan, MainGoto, search
  <2>2. to_create = 0 /\ \A w \in Worker : at[w] = "none"
    BY <1>0, <2>1 DEF RoundInv
  <2>3. Due = 0 /\ ToDequeue = {} /\ \A w \in Worker : pc[w] = "idle"
    BY <1>0, <2>2, NothingDue
  <2>4. count \in Int /\ count >= 0
    BY <1>0, <1>2, <2>3 DEF CoverInv, Q!TypeOK
  <2>5. to_create' \in 0 .. Cardinality(Worker) /\ to_create' <= count
    BY <1>3, <1>4, <2>4 DEF MainPlan
  <2>6. ToDequeue' = {}
    BY <1>1, <2>1, <2>3 DEF ToDequeue, Undone
  <2>7. Due' = to_create'
    BY <2>5, <2>6, SetSizes DEF Due
  <2>8. TypeOK'
    BY <1>0, <1>1, <2>1, <2>5 DEF TypeOK, MainPC
  <2>9. CallsInv' /\ RoundInv' /\ ScanInv'
    BY <1>0, <1>1, <1>2, <2>1 DEF CallsInv, RoundInv, ScanInv, Scanning
  <2>10. \A t \in Thread : pc'[t] = "idle"
    BY <1>1, <1>2, <2>3 DEF Thread
  <2>11. CoverInv'
    BY <1>1, <2>5, <2>7, <2>10 DEF CoverInv
  <2> QED
    BY <2>8, <2>9, <2>11 DEF IInv
<1>5. ASSUME NEW w \in Worker, MainCreate(w)
      PROVE  IInv'
  <2>1. /\ at[w] = "none" /\ at' = [at EXCEPT ![w] = "start"]
        /\ to_create > 0 /\ to_create' = to_create - 1
        /\ main_pc = "create" /\ main_pc' = main_pc
    BY <1>5 DEF MainCreate
  <2>2. at \in [Worker -> WorkerPC] /\ at'[w] = "start"
        /\ \A v \in Worker \ {w} : at'[v] = at[v]
    BY <1>0, <2>1 DEF TypeOK
  <2>3. TypeOK'
    BY <1>0, <1>1, <1>3, <2>1 DEF TypeOK, WorkerPC
  <2>4. pc[w] = "idle"
    BY <1>0, <2>1, ThreadIs DEF CallsInv, Q!TypeOK, Q!PC
  <2>5. CallsInv' /\ RoundInv'
    BY <1>0, <1>1, <2>1, <2>2, <2>4 DEF CallsInv, RoundInv, Q!EnqPC, Q!DeqPC
  <2>6. Scanning' = Scanning
    BY <2>1, <2>2 DEF Scanning
  <2>7. ScanInv'
    BY <1>0, <1>1, <2>2, <2>6 DEF ScanInv
  <2>8. w \notin ToDequeue /\ ToDequeue' = ToDequeue \cup {w}
    BY <1>1, <2>1, <2>2, <2>4 DEF ToDequeue, Undone
  <2>9. Cardinality(ToDequeue') = Cardinality(ToDequeue) + 1
        /\ Cardinality(ToDequeue) \in Nat
    BY <2>8, SetSizes DEF ToDequeue
  <2>10. Due' <= Due
    BY <1>0, <2>1, <2>9 DEF Due, TypeOK
  <2>11. CoverInv'
    BY <1>0, <1>1, <1>2, <2>3, <2>10, CoverKept
  <2> QED
    BY <2>3, <2>5, <2>7, <2>11 DEF IInv
<1>6. CASE MainCreated \/ MainCheck
  <2>1. /\ UNCHANGED at /\ main_pc' \in {"join", "plan", "finished"}
        /\ to_create' = to_create
        /\ main_pc' = "join" => to_create <= 0
        /\ main_pc' # "join" => main_pc = "check"
    BY <1>6 DEF MainCreated, MainCheck, MainGoto, search
  <2>2. TypeOK'
    BY <1>0, <1>1, <2>1 DEF TypeOK, MainPC
  <2>3. CallsInv' /\ ScanInv'
    BY <1>0, <1>1, <1>2, <2>1 DEF CallsInv, ScanInv, Scanning
  <2>4. RoundInv'
    BY <1>0, <1>3, <2>1 DEF RoundInv, TypeOK
  <2>5. Due' = Due
    BY <1>1, <2>1 DEF Due, ToDequeue, Undone
  <2>6. Due \in Int
    BY <1>0, DueIsInteger
  <2>7. CoverInv'
    BY <1>0, <1>1, <1>2, <2>2, <2>5, <2>6, CoverKept
  <2> QED
    BY <2>2, <2>3, <2>4, <2>7 DEF IInv
<1>7. CASE MainJoin
  <2>1. /\ \A w \in Worker : at[w] \in {"none", "returned"}
        /\ at' = [w \in Worker |-> "none"]
        /\ main_pc = "join" /\ main_pc' = "check" /\ to_create' = to_create
    BY <1>7 DEF MainJoin, MainGoto
  <2>2. TypeOK'
    BY <1>0, <1>1, <2>1 DEF TypeOK, MainPC, WorkerPC
  <2>3. \A w \in Worker : pc[w] = "idle"
    BY <1>0, <2>1, ThreadIs DEF CallsInv, Q!TypeOK, Q!PC
  <2>4. CallsInv' /\ RoundInv'
    BY <1>0, <1>1, <1>2, <2>1, <2>3 DEF CallsInv, RoundInv, Q!EnqPC, Q!DeqPC
  <2>5. Scanning' = {} /\ ToDequeue' = {} /\ ToDequeue = {}
    BY <1>1, <2>1, <2>3 DEF Scanning, ToDequeue, Undone
  <2>6. ScanInv'
    <3>1. Cardinality(Scanning') = 0
      BY <2>5, SetSizes
    <3> QED
      BY <1>0, <1>1, <2>1, <3>1 DEF ScanInv, TypeOK
  <2>7. Due' = Due /\ Due \in Int
    BY <1>0, <2>1, <2>5, DueIsInteger DEF Due
  <2>8. CoverInv'
    BY <1>0, <1>1, <1>2, <2>2, <2>7, CoverKept
  <2> QED
    BY <2>2, <2>4, <2>6, <2>8 DEF IInv
<1> QED
  BY <1>4, <1>5, <1>6, <1>7

-----------------------------------------------------------------------------
(* A worker runs only in a round.                                          *)
LEMMA WorkerRuns ==
  ASSUME IInv, Q!TypeOK, Running, NEW w \in Worker, at[w] # "none"
  PROVE  main_pc \in {"create", "join"} /\ pc[Main] = "idle"
BY DEF IInv, TypeOK, MainPC, RoundInv, CallsInv, Running

(* Inside Enqueue and Dequeue only count and the lists of the calls move:  *)
(* a Dequeue is no longer due when it has found the queue empty or has     *)
(* stored its count.                                                       *)
LEMMA QueueStepCovers ==
  ASSUME IInv, Q!TypeOK, Q!TypeOK', TypeOK', NEW w \in Worker, WorkerInQueue(w),
         to_create' = to_create
  PROVE  CoverInv'
<1>0. TypeOK /\ CallsInv /\ CoverInv /\ Running /\ at' = at
  BY DEF IInv, WorkerInQueue
<1>1. \A t \in Thread : t # w => pc'[t] = pc[t] /\ reg'[t] = reg[t]
  <2> USE ThreadIs DEF Q!TypeOK, Q!Goto, Q!heap, Q!locks, Q!locals
  <2>1. CASE Q!EnqStep(w)
    BY <2>1 DEF Q!EnqStep, Q!EnqLock, Q!EnqLink, Q!EnqSwing, Q!EnqLoadCount,
                Q!EnqStoreCount, Q!EnqUnlock
  <2>2. CASE Q!DeqStep(w)
    BY <2>2 DEF Q!DeqStep, Q!DeqLock, Q!DeqRead, Q!DeqEmpty, Q!DeqTake,
                Q!DeqLoadCount, Q!DeqStoreCount, Q!DeqUnlock, Q!DeqFree
  <2> QED
    BY <2>1, <2>2 DEF WorkerInQueue
<1>2. \A v \in Worker \ {w} : v \in ToDequeue' <=> v \in ToDequeue
  BY <1>0, <1>1, ThreadIs DEF ToDequeue, Undone
<1>3. Due \in Int /\ Due' \in Int /\ count \in Int /\ count' \in Int
      /\ reg \in [Thread -> Int] /\ reg' \in [Thread -> Int]
      /\ pc \in [Thread -> Q!PC]
  BY <1>0, DueIsInteger DEF Q!TypeOK
<1>4. /\ count >= Due
      /\ \A t \in Thread : pc[t] \in {"e_store", "d_store"} => reg[t] >= Due
  BY <1>0 DEF CoverInv
<1>5. CASE Q!EnqStep(w)
  <2>1. pc[w] \in Q!EnqPC /\ pc'[w] \in Q!EnqPC \cup {"idle"}
    BY <1>3, <1>5, ThreadIs
       DEF Q!EnqStep, Q!EnqLock, Q!EnqLink, Q!EnqSwing, Q!EnqLoadCount,
           Q!EnqStoreCount, Q!EnqUnlock, Q!Goto, Q!EnqPC
  <2>2. w \notin ToDequeue /\ w \notin ToDequeue'
    <3>1. at[w] = "read"
      BY <1>0, <2>1 DEF CallsInv
    <3> QED
      BY <1>0, <2>1, <3>1 DEF ToDequeue, Undone, Q!EnqPC
  <2>3. ToDequeue' = ToDequeue
    BY <1>2, <2>2 DEF ToDequeue
  <2>4. Due' = Due
    BY <2>3 DEF Due
  <2>5. /\ count' >= Due
        /\ pc'[w] \in {"e_store", "d_store"} => reg'[w] >= Due
    <3> USE <1>3, <1>4, ThreadIs DEF Q!Goto, Q!heap, Q!locks, Q!locals
    <3>1. CASE Q!EnqLock(w) \/ Q!EnqLink(w) \/ Q!EnqSwing(w) \/ Q!EnqUnlock(w)
      BY <3>1 DEF Q!EnqLock, Q!EnqLink, Q!EnqSwing, Q!EnqUnlock
    <3>2. CASE Q!EnqLoadCount(w) \/ Q!EnqStoreCount(w)
      BY <3>2 DEF Q!EnqLoadCount, Q!EnqStoreCount
    <3> QED
      BY <1>5, <3>1, <3>2 DEF Q!EnqStep
  <2> QED
    BY <1>1, <1>4, <2>4, <2>5 DEF CoverInv
<1>6. CASE Q!DeqStep(w) /\ ~Q!DeqStoreCount(w)
  <2>1. /\ count' = count
        /\ pc'[w] = "d_store" => reg'[w] = count
        /\ pc'[w] # "e_store"
        /\ pc'[w] \in {"d_lock", "d_read", "d_take", "d_load", "d_store"} =>
             pc[w] \in {"d_lock", "d_read", "d_take", "d_load", "d_store"}
    <3> USE <1>3, ThreadIs DEF Q!Goto, Q!heap, Q!locks, Q!locals
    <3>1. CASE Q!DeqLock(w) \/ Q!DeqRead(w) \/ Q!DeqEmpty(w) \/ Q!DeqTake(w)
      BY <3>1 DEF Q!DeqLock, Q!DeqRead, Q!DeqEmpty, Q!DeqTake
    <3>2. CASE Q!DeqLoadCount(w) \/ Q!DeqUnlock(w) \/ Q!DeqFree(w)
      BY <3>2 DEF Q!DeqLoadCount, Q!DeqUnlock, Q!DeqFree
    <3> QED
      BY <1>6, <3>1, <3>2 DEF Q!DeqStep
  <2>2. ToDequeue' = ToDequeue \/ (w \in ToDequeue /\ ToDequeue' = ToDequeue \ {w})
    BY <1>0, <1>2, <2>1 DEF ToDequeue, Undone
  <2>3. Due' <= Due
    <3>1. Cardinality(ToDequeue) \in Nat
          /\ Cardinality(ToDequeue') <= Cardinality(ToDequeue)
      BY <2>2, SetSizes DEF ToDequeue
    <3> QED
      BY <1>0, <3>1, SetSizes DEF Due, TypeOK, ToDequeue
  <2> QED
    BY <1>1, <1>3, <1>4, <2>1, <2>3 DEF CoverInv
<1>7. CASE Q!DeqStoreCount(w)
  <2>1. /\ pc[w] = "d_store" /\ pc'[w] = "d_unlock" /\ count' = reg[w] - 1
    BY <1>3, <1>7, ThreadIs DEF Q!DeqStoreCount, Q!Goto
  <2>2. at[w] = "dequeue"
    BY <1>0, <2>1 DEF CallsInv, Q!DeqPC
  <2>3. w \in ToDequeue /\ ToDequeue' = ToDequeue \ {w}
    BY <1>0, <1>2, <2>1, <2>2 DEF ToDequeue, Undone
  <2>4. Due' = Due - 1
    <3>1. Cardinality(ToDequeue') = Cardinality(ToDequeue) - 1
          /\ Cardinality(ToDequeue) \in Nat
      BY <2>3, SetSizes DEF ToDequeue
    <3> QED
      BY <1>0, <3>1, SetSizes DEF Due, TypeOK
  <2> QED
    BY <1>1, <1>3, <1>4, <2>1, <2>4, ThreadIs DEF CoverInv
<1> QED
  BY <1>5, <1>6, <1>7 DEF WorkerInQueue

LEMMA WorkerInQueueInv ==
  ASSUME IInv, Q!TypeOK, Q!TypeOK', NEW w \in Worker, WorkerInQueue(w)
  PROVE  IInv'
<1>0. TypeOK /\ CallsInv /\ RoundInv /\ ScanInv /\ CoverInv /\ Running
  BY DEF IInv, WorkerInQueue
<1>1. /\ UNCHANGED <<main_pc, to_create, at, remaining, entry, lines_left,
                     loaded, file_count, line_count, opened, scanned, fds>>
      /\ raced' \in {raced, raced \cup {"count"}}
  BY DEF WorkerInQueue, LosesUpdate
<1>2. TypeOK'
  BY <1>0, <1>1 DEF TypeOK
<1>3. /\ pc'[w] \in Q!EnqPC => pc[w] \in Q!EnqPC
      /\ pc'[w] \in Q!DeqPC => pc[w] \in Q!DeqPC
      /\ pc[w] # "idle"
      /\ \A t \in Thread \ {w} : pc'[t] = pc[t]
  <2> USE ThreadIs DEF Q!TypeOK, Q!Goto, Q!EnqPC, Q!DeqPC
  <2>1. CASE Q!EnqStep(w)
    BY <2>1 DEF Q!EnqStep, Q!EnqLock, Q!EnqLink, Q!EnqSwing, Q!EnqLoadCount,
                Q!EnqStoreCount, Q!EnqUnlock
  <2>2. CASE Q!DeqStep(w)
    BY <2>2 DEF Q!DeqStep, Q!DeqLock, Q!DeqRead, Q!DeqEmpty, Q!DeqTake,
                Q!DeqLoadCount, Q!DeqStoreCount, Q!DeqUnlock, Q!DeqFree
  <2> QED
    BY <2>1, <2>2 DEF WorkerInQueue
<1>4. CallsInv'
  BY <1>0, <1>1, <1>3, ThreadIs DEF CallsInv
<1>5. RoundInv' /\ ScanInv'
  BY <1>0, <1>1 DEF RoundInv, ScanInv, Scanning
<1>6. CoverInv'
  BY <1>1, <1>2, QueueStepCovers
<1> QED
  BY <1>2, <1>4, <1>5, <1>6 DEF IInv

-----------------------------------------------------------------------------
(* A worker that goes on in its own code, or that calls Enqueue.           *)
LEMMA WorkerGoesOn ==
  ASSUME IInv, Q!TypeOK, TypeOK', Running, NEW w \in Worker, NEW to,
         at' = [at EXCEPT ![w] = to], at[w] \notin {"none", "start"},
         to \notin {"none", "start"}, pc[w] = "idle",
         pc' = pc \/ (to = "read" /\ pc' = [pc EXCEPT ![w] = "e_lock"]),
         UNCHANGED <<main_pc, to_create, count, reg>>
  PROVE  CallsInv' /\ RoundInv' /\ CoverInv'
<1>0. /\ TypeOK /\ CallsInv /\ RoundInv /\ CoverInv
      /\ at \in [Worker -> WorkerPC] /\ pc \in [Thread -> Q!PC]
  BY DEF IInv, TypeOK, Q!TypeOK
<1>1. main_pc \in {"create", "join"} /\ pc[Main] = "idle"
  BY WorkerRuns
<1>2. /\ at'[w] = to /\ \A v \in Worker \ {w} : at'[v] = at[v]
      /\ pc'[w] = "idle" \/ (to = "read" /\ pc'[w] = "e_lock")
      /\ \A t \in Thread \ {w} : pc'[t] = pc[t]
  BY <1>0, ThreadIs
<1>3. CallsInv'
  BY <1>0, <1>1, <1>2, ThreadIs DEF CallsInv, Q!EnqPC, Q!DeqPC
<1>4. RoundInv'
  BY <1>0, <1>1 DEF RoundInv
<1>5. ToDequeue' = ToDequeue
  BY <1>2, ThreadIs DEF ToDequeue, Undone
<1>6. Due' = Due /\ Due \in Int
  BY <1>0, <1>5, DueIsInteger DEF Due
<1>7. \A t \in Thread : pc'[t] \in {"e_store", "d_store"} => pc'[t] = pc[t]
  BY <1>2
<1>8. CoverInv'
  BY <1>0, <1>6, <1>7, CoverKept
<1> QED
  BY <1>3, <1>4, <1>8

(* pthread_create's thread calls Dequeue.                                  *)
LEMMA WorkerDequeueInv ==
  ASSUME IInv, Q!TypeOK, Q!TypeOK', NEW w \in Worker, WorkerDequeue(w)
  PROVE  IInv'
<1>0. /\ TypeOK /\ CallsInv /\ RoundInv /\ ScanInv /\ CoverInv /\ Running
      /\ at \in [Worker -> WorkerPC] /\ pc \in [Thread -> Q!PC]
  BY DEF IInv, TypeOK, Q!TypeOK, WorkerDequeue, WorkerGoto
<1>1. /\ at[w] = "start" /\ at' = [at EXCEPT ![w] = "dequeue"]
      /\ pc' = [pc EXCEPT ![w] = "d_lock"]
      /\ UNCHANGED <<main_pc, to_create, count, reg, remaining, entry,
                     lines_left, loaded, file_count, line_count, opened,
                     scanned, raced, fds>>
  BY DEF WorkerDequeue, WorkerGoto, Q!DeqCall, Q!Goto
<1>2. main_pc \in {"create", "join"} /\ pc[Main] = "idle"
  BY <1>0, <1>1, WorkerRuns
<1>3. /\ at'[w] = "dequeue" /\ \A v \in Worker \ {w} : at'[v] = at[v]
      /\ pc'[w] = "d_lock" /\ \A t \in Thread \ {w} : pc'[t] = pc[t]
  BY <1>0, <1>1, ThreadIs
<1>4. TypeOK'
  BY <1>0, <1>1 DEF TypeOK, WorkerPC
<1>5. CallsInv' /\ RoundInv'
  BY <1>0, <1>1, <1>2, <1>3, ThreadIs DEF CallsInv, RoundInv, Q!EnqPC, Q!DeqPC
<1>6. Scanning' = Scanning
  BY <1>1, <1>3 DEF Scanning
<1>7. ScanInv'
  BY <1>0, <1>1, <1>3, <1>6 DEF ScanInv
<1>8. ToDequeue' = ToDequeue
  BY <1>1, <1>3, ThreadIs DEF ToDequeue, Undone
<1>9. Due' = Due /\ Due \in Int
  BY <1>0, <1>1, <1>8, DueIsInteger DEF Due
<1>10. \A t \in Thread : pc'[t] \in {"e_store", "d_store"} => pc'[t] = pc[t]
  BY <1>3
<1>11. CoverInv'
  BY <1>0, <1>1, <1>4, <1>9, <1>10, CoverKept
<1> QED
  BY <1>4, <1>5, <1>7, <1>11 DEF IInv

(* opendir and readdir                                                     *)
LEMMA WorkerReadInv ==
  ASSUME IInv, Q!TypeOK, Q!TypeOK', NEW w \in Worker,
         \/ WorkerOpen(w) \/ WorkerReturn(w)
         \/ \E e \in Entry : \/ WorkerReadText(w, e)
                             \/ WorkerReadDirectory(w, e)
                             \/ WorkerReadOther(w, e)
  PROVE  IInv'
<1>0. /\ TypeOK /\ CallsInv /\ RoundInv /\ ScanInv /\ CoverInv
      /\ at \in [Worker -> WorkerPC] /\ Running /\ pc[w] = "idle"
  BY DEF IInv, TypeOK, WorkerOpen, WorkerReturn, WorkerReadText,
         WorkerReadDirectory, WorkerReadOther, ReadEntry, WorkerGoto
<1>1. PICK to \in {"read", "returned", "files_load"} :
        /\ at' = [at EXCEPT ![w] = to]
        /\ at[w] \in {"dequeue", "read"}
        /\ pc' = pc \/ (to = "read" /\ pc' = [pc EXCEPT ![w] = "e_lock"])
        /\ to = "files_load" => \E e \in Entry : WorkerReadText(w, e)
        /\ UNCHANGED <<main_pc, to_create, count, reg, lines_left, loaded,
                       file_count, line_count, raced>>
  BY DEF WorkerOpen, WorkerReturn, WorkerReadText, WorkerReadDirectory,
         WorkerReadOther, ReadEntry, WorkerGoto, queue, Q!EnqCall, Q!Goto,
         Q!locks
<1>2. fds' \in 0 .. FdLimit /\ fds' >= fds
  BY <1>0, TfindAssumption
     DEF TypeOK, WorkerOpen, WorkerReturn, WorkerReadText, WorkerReadDirectory,
         WorkerReadOther, ReadEntry, Needed
<1>3. /\ remaining' \in [Worker -> SUBSET Entry]
      /\ opened' \in [Path -> Nat]
      /\ scanned' \subseteq Entry
      /\ entry' \in [Worker -> Entry \cup {NULL}]
      /\ \A v \in Worker \ {w} : entry'[v] = entry[v]
  <2>1. CASE WorkerOpen(w)
    <3>1. val[w] \in Path /\ Listing[val[w]] \in SUBSET Entry
      BY <2>1, TfindAssumption DEF WorkerOpen
    <3> QED
      BY <1>0, <2>1, <3>1 DEF WorkerOpen, TypeOK
  <2>2. CASE WorkerReturn(w)
    BY <1>0, <2>2 DEF WorkerReturn, TypeOK
  <2>3. CASE \E e \in Entry : \/ WorkerReadText(w, e)
                             \/ WorkerReadDirectory(w, e)
                             \/ WorkerReadOther(w, e)
    BY <1>0, <2>3 DEF WorkerReadText, WorkerReadDirectory, WorkerReadOther,
                      ReadEntry, TypeOK
  <2> QED
    BY <2>1, <2>2, <2>3
<1>4. TypeOK'
  BY <1>0, <1>1, <1>2, <1>3 DEF TypeOK, WorkerPC
<1>5. CallsInv' /\ RoundInv' /\ CoverInv'
  BY <1>0, <1>1, <1>4, WorkerGoesOn
<1>6. /\ at'[w] = to /\ \A v \in Worker \ {w} : at'[v] = at[v]
  BY <1>0, <1>1
<1>7. Scanning' = Scanning
  BY <1>1, <1>6 DEF Scanning
<1>8. to = "files_load" => entry'[w] \in Entry /\ "text" \in Says[entry'[w]]
  BY <1>0, <1>1 DEF WorkerReadText, TypeOK
<1>9. ScanInv'
  <2>1. Cardinality(Scanning) \in Nat
    BY SetSizes DEF Scanning
  <2>2. fds' >= Cardinality(Scanning')
    BY <1>0, <1>2, <1>7, <2>1, TfindAssumption DEF ScanInv, TypeOK
  <2>3. ASSUME NEW v \in Worker
        PROVE  /\ at'[v] \in {"files_load", "files_store", "scan", "lines_store"} =>
                    entry'[v] \in Entry /\ "text" \in Says[entry'[v]]
               /\ at'[v] = "lines_store" => lines_left'[v] > 0
    BY <1>0, <1>1, <1>3, <1>6, <1>8 DEF ScanInv
  <2> QED
    BY <2>2, <2>3 DEF ScanInv
<1> QED
  BY <1>4, <1>5, <1>9 DEF IInv

(* file_count++, line_count++ and the scan                                 *)
LEMMA WorkerScanInv ==
  ASSUME IInv, Q!TypeOK, Q!TypeOK', NEW w \in Worker,
         \/ WorkerLoadFiles(w) \/ WorkerStoreFiles(w) \/ WorkerLoadLines(w)
         \/ WorkerStoreLines(w) \/ WorkerEndScan(w)
  PROVE  IInv'
<1>0. /\ TypeOK /\ CallsInv /\ RoundInv /\ ScanInv /\ CoverInv
      /\ at \in [Worker -> WorkerPC] /\ Running /\ pc[w] = "idle"
  BY DEF IInv, TypeOK, WorkerLoadFiles, WorkerStoreFiles, WorkerLoadLines,
         WorkerStoreLines, WorkerEndScan, WorkerGoto
<1>1. PICK to \in {"files_store", "scan", "lines_store", "read"} :
        /\ at' = [at EXCEPT ![w] = to]
        /\ at[w] \in {"files_load", "files_store", "scan", "lines_store"}
        /\ UNCHANGED <<queue, main_pc, to_create, remaining, opened, scanned>>
        /\ to # "read" => entry' = entry
        /\ to = "lines_store" => lines_left[w] > 0 /\ lines_left' = lines_left
  BY DEF WorkerLoadFiles, WorkerStoreFiles, WorkerLoadLines, WorkerStoreLines,
         WorkerEndScan, WorkerGoto
<1>2. pc' = pc /\ count' = count /\ reg' = reg
  BY <1>1 DEF queue
<1>3. at'[w] = to /\ \A v \in Worker \ {w} : at'[v] = at[v]
  BY <1>0, <1>1
<1>4. entry[w] \in Entry /\ "text" \in Says[entry[w]]
      /\ \A n \in ScanHits(entry[w]) : n \in Nat
  <2>1. entry[w] \in Entry /\ "text" \in Says[entry[w]]
    BY <1>0, <1>1 DEF ScanInv
  <2> QED
    BY <2>1, TfindAssumption DEF ScanHits
<1>5. /\ lines_left' \in [Worker -> Nat]
      /\ \A v \in Worker \ {w} : lines_left'[v] = lines_left[v]
                               /\ entry'[v] = entry[v]
  <2> USE <1>0, <1>4 DEF TypeOK
  <2>1. CASE WorkerLoadFiles(w) \/ WorkerLoadLines(w) \/ WorkerEndScan(w)
    BY <2>1 DEF WorkerLoadFiles, WorkerLoadLines, WorkerEndScan
  <2>2. CASE WorkerStoreFiles(w)
    BY <2>2 DEF WorkerStoreFiles
  <2>3. CASE WorkerStoreLines(w)
    <3>1. lines_left[w] > 0
      BY <2>3 DEF ScanInv, WorkerStoreLines, WorkerGoto
    <3> QED
      BY <2>3, <3>1 DEF WorkerStoreLines
  <2> QED
    BY <2>1, <2>2, <2>3
<1>6. /\ fds' \in 0 .. FdLimit
      /\ fds' >= Cardinality(Scanning')
  <2>1. Cardinality(Scanning) \in Nat /\ fds >= Cardinality(Scanning)
        /\ fds \in 0 .. FdLimit /\ FdLimit \in Nat
    BY <1>0, SetSizes, TfindAssumption DEF Scanning, ScanInv, TypeOK
  <2>2. CASE WorkerLoadFiles(w) \/ WorkerLoadLines(w) \/ WorkerStoreLines(w)
    <3>1. fds' = fds
          /\ (at'[w] \in {"scan", "lines_store"} <=> at[w] \in {"scan", "lines_store"})
      BY <1>0, <2>2
         DEF WorkerLoadFiles, WorkerLoadLines, WorkerStoreLines, WorkerGoto
    <3>2. Scanning' = Scanning
      BY <1>3, <3>1 DEF Scanning
    <3> QED
      BY <2>1, <3>1, <3>2
  <2>3. CASE WorkerStoreFiles(w)
    <3>1. fds' = fds + 1 /\ fds < FdLimit
          /\ at[w] = "files_store" /\ at'[w] = "scan"
      BY <1>0, <2>3 DEF WorkerStoreFiles, WorkerGoto
    <3>2. w \notin Scanning /\ Scanning' = Scanning \cup {w}
      BY <1>3, <3>1 DEF Scanning
    <3>3. Cardinality(Scanning') = Cardinality(Scanning) + 1
      BY <3>2, SetSizes DEF Scanning
    <3> QED
      BY <2>1, <3>1, <3>3
  <2>4. CASE WorkerEndScan(w)
    <3>1. fds' = fds - 1 /\ at[w] = "scan" /\ at'[w] = "read"
      BY <1>0, <2>4 DEF WorkerEndScan, WorkerGoto
    <3>2. w \in Scanning /\ Scanning' = Scanning \ {w}
      BY <1>3, <3>1 DEF Scanning
    <3>3. Cardinality(Scanning') = Cardinality(Scanning) - 1
          /\ Cardinality(Scanning') \in Nat
      BY <3>2, SetSizes DEF Scanning
    <3> QED
      BY <2>1, <3>1, <3>3
  <2> QED
    BY <2>2, <2>3, <2>4
<1>7. /\ loaded' \in [Worker -> Nat] /\ file_count' \in Nat /\ line_count' \in Nat
      /\ raced' \subseteq {"count", "files", "lines"}
      /\ entry' \in [Worker -> Entry \cup {NULL}]
  <2> USE <1>0 DEF TypeOK
  <2>1. CASE WorkerLoadFiles(w) \/ WorkerLoadLines(w)
    BY <2>1 DEF WorkerLoadFiles, WorkerLoadLines
  <2>2. CASE WorkerStoreFiles(w)
    BY <2>2 DEF WorkerStoreFiles, LosesUpdate
  <2>3. CASE WorkerStoreLines(w)
    BY <2>3 DEF WorkerStoreLines, LosesUpdate
  <2>4. CASE WorkerEndScan(w)
    BY <2>4 DEF WorkerEndScan
  <2> QED
    BY <2>1, <2>2, <2>3, <2>4
<1>8. TypeOK'
  BY <1>0, <1>1, <1>5, <1>6, <1>7 DEF TypeOK, WorkerPC
<1>9. CallsInv' /\ RoundInv' /\ CoverInv'
  BY <1>0, <1>1, <1>2, <1>8, WorkerGoesOn
<1>10. ScanInv'
  <2>1. ASSUME NEW v \in Worker
        PROVE  /\ at'[v] \in {"files_load", "files_store", "scan", "lines_store"} =>
                    entry'[v] \in Entry /\ "text" \in Says[entry'[v]]
               /\ at'[v] = "lines_store" => lines_left'[v] > 0
    BY <1>0, <1>1, <1>3, <1>4, <1>5 DEF ScanInv
  <2> QED
    BY <1>6, <2>1 DEF ScanInv
<1> QED
  BY <1>8, <1>9, <1>10 DEF IInv

(* exit(1), the endless scan, and the steps that change nothing.           *)
LEMMA WorkerStopsInv ==
  ASSUME IInv, NEW w \in Worker,
         WorkerFails(w) \/ WorkerOutOfDescriptors(w)
  PROVE  IInv'
<1>0. /\ TypeOK /\ CallsInv /\ RoundInv /\ ScanInv
  BY DEF IInv
<1>1. UNCHANGED <<queue, to_create, search>> /\ main_pc' = "failed"
  BY DEF WorkerFails, WorkerOutOfDescriptors, Exit1
<1>2. TypeOK' /\ CallsInv' /\ RoundInv' /\ ScanInv'
  BY <1>0, <1>1 DEF TypeOK, CallsInv, RoundInv, ScanInv, Scanning, queue, search,
                    MainPC
<1>3. CoverInv'
  BY <1>1 DEF CoverInv, Running
<1> QED
  BY <1>2, <1>3 DEF IInv

LEMMA StutterInv ==
  ASSUME IInv, UNCHANGED vars
  PROVE  IInv'
<1>1. UNCHANGED <<count, pc, reg, main_pc, to_create, at, remaining, entry,
                 lines_left, loaded, file_count, line_count, opened, scanned,
                 raced, fds>>
  BY DEF vars, queue, search
<1>2. TypeOK' /\ CallsInv' /\ RoundInv' /\ ScanInv'
  BY <1>1 DEF IInv, TypeOK, CallsInv, RoundInv, ScanInv, Scanning
<1>3. CoverInv'
  BY <1>1 DEF IInv, CoverInv, Running, Due, ToDequeue, Undone
<1> QED
  BY <1>2, <1>3 DEF IInv

-----------------------------------------------------------------------------
(* The inductive invariant of tfind, on top of the types of its queue.     *)
THEOREM Invariance == Spec => []IInv
<1>1. ASSUME IInv, Q!TypeOK, Q!TypeOK', [Next]_vars
      PROVE  IInv'
  <2>1. CASE MainStep
    BY <1>1, <2>1, MainEnqueueInv, MainRoundInv DEF MainStep
  <2>2. ASSUME NEW w \in Worker, WorkerStep(w)
        PROVE  IInv'
    <3>1. CASE WorkerSpin(w)
      BY <1>1, <3>1, StutterInv DEF WorkerSpin
    <3> QED
      BY <1>1, <2>2, <3>1, WorkerInQueueInv, WorkerDequeueInv, WorkerReadInv,
         WorkerScanInv, WorkerStopsInv DEF WorkerStep
  <2>3. CASE Terminated \/ UNCHANGED vars
    BY <1>1, <2>3, StutterInv DEF Terminated
  <2> QED
    BY <1>1, <2>1, <2>2, <2>3 DEF Next
<1>2. Spec => []Q!TypeOK
  BY SafeQueue, PTL
<1> QED
  BY <1>1, <1>2, InitInv, PTL DEF Spec

(* However many updates of count are lost, it stays at or above the number *)
(* of Dequeues main has still planned for the round: it is never negative, *)
(* which would keep main in its loop without a thread for ever.            *)
THEOREM Covered == Spec => []CountCoversRound
<1>1. IInv => CountCoversRound
  BY DEF IInv, CoverInv, Due, ToDequeue, CountCoversRound
<1> QED
  BY <1>1, Invariance, PTL

(* Every variable of the search keeps its type: among others, the process  *)
(* never has more descriptors open than it may.                            *)
THEOREM TypeCorrect == Spec => []TypeOK
<1>1. IInv => TypeOK
  BY DEF IInv
<1> QED
  BY <1>1, Invariance, PTL

-----------------------------------------------------------------------------
(***************************************************************************)
(* The second part, the search.  Its invariant says of                     *)
(*   ReadInv     the entries readdir has returned and has still to return  *)
(*   PlacesInv   the directories on their way through the queue            *)
(*   FilesInv, LinesInv   the counters, and what is still to be counted    *)
(*   CountInv    the queue's count, while no update of it is lost          *)
(*   EnoughInv   then the Dequeues of a round find something               *)
(*   EndInv      how the program ends                                      *)
(***************************************************************************)
(* The entries of the directories that were opened.                        *)
Listed == {e \in Entry : \E d \in Dir : opened[d] > 0 /\ e \in Listing[d]}
Unread(e) == \E w \in Worker : e \in remaining[w]

InDirectory == {"read", "files_load", "files_store", "scan", "lines_store"}

ReadInv ==
  /\ \A w \in Worker : remaining[w] # {} => at[w] \in InDirectory
  /\ \A w \in Worker : remaining[w] \subseteq Listed \ scanned
  /\ \A v, w \in Worker : v # w => remaining[v] \cap remaining[w] = {}
  /\ scanned = {e \in Listed : "text" \in Says[e] /\ ~Unread(e)}
  /\ Listed \subseteq Reachable

(* Who has a path in hand, before it is in the queue or after.             *)
Callers(p) == {t \in Thread : pc[t] \in {"e_lock", "e_link"} /\ val[t] = p}
Queued(p) == {i \in 1 .. Len(Q!items) : Q!items[i] = p}
Takers(p) == {w \in Worker : at[w] = "dequeue" /\ val[w] = p}

PlacesInv ==
  /\ \A p \in Path : Places(p) = IF Found(p) THEN 1 ELSE 0
  /\ \A i \in 1 .. Len(Q!items) : Q!items[i] \in Path
  /\ \A w \in Worker :
       pc[w] \in {"d_load", "d_store", "d_unlock", "d_free"} => val[w] \in Path

(* Where a worker treats a text file.                                      *)
Busy == {"files_load", "files_store", "scan", "lines_store"}

(* The workers that have still to count a file.                            *)
Filing == {w \in Worker : at[w] \in {"files_load", "files_store"}}

FilesInv ==
  /\ file_count + Cardinality(Filing) <= Cardinality(scanned)
  /\ \A w \in Worker : at[w] = "files_store" =>
       loaded[w] + Cardinality(Filing) <= Cardinality(scanned)
  /\ "files" \notin raced =>
       file_count + Cardinality(Filing) = Cardinality(scanned)

(* The lines the workers have still to count.                              *)
ToCount(w) ==
  IF at[w] \in {"files_load", "files_store"} THEN Hits[entry[w]]
  ELSE IF at[w] \in {"scan", "lines_store"} THEN lines_left[w]
  ELSE 0
Blocks(S, h) == UNION {{x} \X (1 .. h[x]) : x \in S}
Counting == Blocks(Worker, [w \in Worker |-> ToCount(w)])

LinesInv ==
  /\ \A w \in Worker :
       at[w] \in {"files_load", "files_store", "scan", "lines_store"} =>
         entry[w] \in scanned
  /\ scanned \cap Dir = {} =>
       /\ line_count + Cardinality(Counting) <= Cardinality(HitLines(scanned))
       /\ \A w \in Worker : at[w] = "lines_store" =>
            loaded[w] + Cardinality(Counting) <= Cardinality(HitLines(scanned))
       /\ "lines" \notin raced =>
            line_count + Cardinality(Counting) = Cardinality(HitLines(scanned))

(* The Enqueues that have linked their node and not counted it yet, and    *)
(* the Dequeues that have taken a node and not counted that.               *)
Added == {t \in Thread : pc[t] \in {"e_swing", "e_load", "e_store"}}
Taken == {t \in Thread : pc[t] \in {"d_load", "d_store"}}

CountInv ==
  "count" \notin raced =>
    /\ count + Cardinality(Added) = Len(Q!items) + Cardinality(Taken)
    /\ pc[Main] = "e_store" => reg[Main] = count

(* The Dequeues the round has still to do, before they take their node.    *)
Before == {w \in Worker : at[w] = "start" \/ pc[w] \in {"d_lock", "d_read", "d_take"}}

EnoughInv ==
  "count" \notin raced =>
    /\ to_create + Cardinality(Before) <= Len(Q!items)
    /\ \A w \in Worker :
         /\ pc[w] # "d_empty"
         /\ at[w] = "dequeue" /\ pc[w] = "idle" => val[w] \in Path

(* A directory taken for a text file keeps its worker for ever.            *)
EndInv ==
  /\ \A e \in scanned \cap Dir : \E w \in Worker : at[w] \in Busy /\ entry[w] = e
  /\ "count" \notin raced =>
       /\ main_pc = "failed" => \E w \in Worker : Refused(w)
       /\ main_pc = "finished" => Q!items = <<>>

SearchInv ==
  ReadInv /\ PlacesInv /\ FilesInv /\ LinesInv /\ CountInv /\ EnoughInv /\ EndInv

-----------------------------------------------------------------------------
(***************************************************************************)
(* The queue, as far as the search sees it.                                *)
(***************************************************************************)
LEMMA SameInvariant ==
  /\ Q!IInv <=> QP!IInv
  /\ Q!items = QP!items /\ Q!items' = QP!items'
<1>1. Q!IInv <=> QP!IInv
  BY DEF Q!IInv, QP!IInv, Q!TypeOK, QP!TypeOK, Q!PC, QP!PC, Q!EnqPC, QP!EnqPC,
     Q!DeqPC, QP!DeqPC, Q!LockInv, QP!LockInv, Q!HeadSection, QP!HeadSection,
     Q!TailSection, QP!TailSection, Q!LocalsInv, QP!LocalsInv, Q!PrivatePC,
     QP!PrivatePC, Q!NodeOwnership, QP!NodeOwnership, Q!Owns, QP!Owns, Q!Linked,
     QP!Linked, Q!ListShape, QP!ListShape, Q!Last, QP!Last
<1> QED
  BY <1>1 DEF Q!items, QP!items

LEMMA QueueInvariant == Spec => []Q!IInv
<1>1. NULL \notin Thread \cup Node \cup Path
  BY TfindAssumption DEF Thread, Path
<1>2. QP!Spec => [](QP!IInv)
  BY <1>1, QP!Invariance
<1>3. Init => QP!Init
  BY SameQueue DEF Init
<1>4. [Next]_vars => [QP!Next]_(QP!vars)
  BY QueueSteps, SameQueue
<1>5. Spec => QP!Spec
  BY <1>3, <1>4, PTL DEF Spec, QP!Spec
<1>6. QP!IInv => Q!IInv
  BY SameInvariant
<1> QED
  BY <1>2, <1>5, <1>6, PTL

LEMMA ItemsAre ==
  ASSUME Q!IInv
  PROVE  Q!items \in Seq(Path \cup {NULL}) /\ Len(Q!items) \in Nat
<1>1. NULL \notin Thread \cup Node \cup Path
  BY TfindAssumption DEF Thread, Path
<1>2. QP!IInv
  BY SameInvariant
<1>3. QP!items \in Seq(Path \cup {NULL})
  BY <1>1, <1>2, QP!ItemsLength
<1> QED
  BY <1>3, SameInvariant, LenProperties

(* The steps of a call: those at which it takes effect, those at which it  *)
(* counts, and the rest.                                                   *)
LinkStep(t) ==
  /\ Q!Goto(t, "e_link", "e_swing")
  /\ Q!items' = Append(Q!items, val[t])
  /\ UNCHANGED <<val, reg, count>>

TakeStep(t) ==
  /\ Q!Goto(t, "d_take", "d_load")
  /\ Q!items # <<>>
  /\ val' = [val EXCEPT ![t] = Head(Q!items)]
  /\ Q!items' = Tail(Q!items)
  /\ UNCHANGED <<reg, count>>

LoadStep(t) ==
  /\ Q!Goto(t, "e_load", "e_store") \/ Q!Goto(t, "d_load", "d_store")
  /\ reg' = [reg EXCEPT ![t] = count]
  /\ Q!items' = Q!items
  /\ UNCHANGED <<val, count>>

StoreStep(t) ==
  /\ \/ Q!Goto(t, "e_store", "e_unlock") /\ count' = reg[t] + 1
     \/ Q!Goto(t, "d_store", "d_unlock") /\ count' = reg[t] - 1
  /\ reg' = [reg EXCEPT ![t] = 0]
  /\ Q!items' = Q!items
  /\ UNCHANGED val

OtherStep(t) ==
  /\ \/ /\ \/ Q!Goto(t, "e_lock", "e_link") \/ Q!Goto(t, "e_swing", "e_load")
           \/ Q!Goto(t, "d_lock", "d_read") \/ Q!Goto(t, "d_read", "d_take")
           \/ Q!Goto(t, "d_read", "d_empty") /\ Q!items = <<>>
           \/ Q!Goto(t, "d_empty", "idle") \/ Q!Goto(t, "d_unlock", "d_free")
           \/ Q!Goto(t, "d_free", "idle")
        /\ val' = val
     \/ Q!Goto(t, "e_unlock", "idle") /\ val' = [val EXCEPT ![t] = NULL]
  /\ Q!items' = Q!items
  /\ UNCHANGED <<reg, count>>

LEMMA CallSteps ==
  ASSUME Q!IInv, NEW t \in Thread, Q!EnqStep(t) \/ Q!DeqStep(t)
  PROVE  \/ LinkStep(t) \/ TakeStep(t) \/ LoadStep(t) \/ StoreStep(t) \/ OtherStep(t)
<1>1. NULL \notin Thread \cup Node \cup Path
  BY TfindAssumption DEF Thread, Path
<1>2. QP!IInv /\ Q!items = QP!items /\ Q!items' = QP!items'
  BY SameInvariant
<1> USE DEF Q!heap, Q!locks, Q!locals
<1>3. CASE Q!EnqLink(t)
  <2>1. QP!EnqLink(t)
    BY <1>3 DEF Q!EnqLink, QP!EnqLink, Q!Goto, QP!Goto, QP!locks, QP!locals
  <2>2. QP!Fifo!Enqueue(t)
    BY <1>1, <1>2, <2>1, QP!EnqLinkRefines
  <2>3. Q!items' = Append(Q!items, val[t])
    BY <1>2, <2>2 DEF QP!Fifo!Enqueue
  <2> QED
    BY <1>3, <2>3 DEF Q!EnqLink, LinkStep
<1>4. CASE Q!DeqTake(t)
  <2>1. QP!DeqTake(t)
    BY <1>4 DEF Q!DeqTake, QP!DeqTake, Q!Goto, QP!Goto, QP!heap, QP!locks
  <2>2. QP!Fifo!Dequeue(t)
    BY <1>1, <1>2, <2>1, QP!DeqTakeRefines
  <2>3. /\ Q!items # <<>> /\ Q!items' = Tail(Q!items)
        /\ val' = [val EXCEPT ![t] = Head(Q!items)]
    BY <1>2, <2>2 DEF QP!Fifo!Dequeue
  <2> QED
    BY <1>4, <2>3 DEF Q!DeqTake, TakeStep
<1>5. CASE Q!DeqRead(t)
  <2>1. QP!DeqRead(t)
    BY <1>5 DEF Q!DeqRead, QP!DeqRead, Q!Goto, QP!Goto, QP!heap, QP!locks
  <2>2. Q!items' = Q!items
    BY <1>5 DEF Q!DeqRead, Q!items
  <2>3. CASE next[head] = NULL
    <3>1. QP!Fifo!DequeueEmpty(t) \/ UNCHANGED QP!Fifo!vars
      BY <1>1, <1>2, <2>1, QP!DeqReadRefines
    <3>2. ~UNCHANGED QP!Fifo!vars
      <4>1. pc[t] = "d_read" /\ pc'[t] = "d_empty" /\ t \in Thread
        BY <1>5, <2>3 DEF Q!DeqRead, Q!Goto, Q!IInv, Q!TypeOK
      <4>2. QP!phase[t] = "dequeue" /\ QP!phase'[t] = "dequeued"
        BY <4>1 DEF QP!phase, QP!PhaseOf
      <4> QED
        BY <4>2 DEF QP!Fifo!vars
    <3>3. Q!items = <<>>
      BY <1>2, <3>1, <3>2 DEF QP!Fifo!DequeueEmpty
    <3> QED
      BY <1>5, <2>2, <2>3, <3>3 DEF Q!DeqRead, OtherStep
  <2>4. CASE next[head] # NULL
    BY <1>5, <2>2, <2>4 DEF Q!DeqRead, OtherStep
  <2> QED
    BY <2>3, <2>4
<1>6. CASE Q!EnqLock(t) \/ Q!EnqSwing(t) \/ Q!EnqUnlock(t)
  BY <1>6 DEF Q!EnqLock, Q!EnqSwing, Q!EnqUnlock, Q!items, OtherStep
<1>7. CASE Q!DeqLock(t) \/ Q!DeqEmpty(t) \/ Q!DeqUnlock(t) \/ Q!DeqFree(t)
  BY <1>7 DEF Q!DeqLock, Q!DeqEmpty, Q!DeqUnlock, Q!DeqFree, Q!items, OtherStep
<1>8. CASE Q!EnqLoadCount(t) \/ Q!DeqLoadCount(t)
  BY <1>8 DEF Q!EnqLoadCount, Q!DeqLoadCount, Q!items, LoadStep
<1>9. CASE Q!EnqStoreCount(t) \/ Q!DeqStoreCount(t)
  BY <1>9 DEF Q!EnqStoreCount, Q!DeqStoreCount, Q!items, StoreStep
<1> QED
  BY <1>3, <1>4, <1>5, <1>6, <1>7, <1>8, <1>9 DEF Q!EnqStep, Q!DeqStep

(* The beginning of a call.                                                *)
LEMMA CallBegins ==
  ASSUME Q!IInv, NEW t \in Thread
  PROVE  /\ \A d \in Path : Q!EnqCall(t, d) =>
              /\ Q!items' = Q!items /\ count' = count /\ reg' = reg
              /\ Q!Goto(t, "idle", "e_lock") /\ val' = [val EXCEPT ![t] = d]
         /\ Q!DeqCall(t) =>
              /\ Q!items' = Q!items /\ count' = count /\ reg' = reg
              /\ Q!Goto(t, "idle", "d_lock") /\ val' = [val EXCEPT ![t] = NULL]
<1>1. NULL \notin Thread \cup Node \cup Path
  BY TfindAssumption DEF Thread, Path
<1>2. QP!IInv /\ Q!items = QP!items /\ Q!items' = QP!items'
  BY SameInvariant
<1>3. ASSUME NEW d \in Path, Q!EnqCall(t, d)
      PROVE  Q!items' = Q!items
  <2>1. QP!EnqCall(t, d)
    BY <1>3 DEF Q!EnqCall, QP!EnqCall, Q!Goto, QP!Goto, Q!locks, QP!locks
  <2>2. QP!Fifo!CallEnqueue(t, d)
    BY <1>1, <1>2, <2>1, QP!EnqCallRefines
  <2> QED
    BY <1>2, <2>2 DEF QP!Fifo!CallEnqueue
<1>4. Q!DeqCall(t) => Q!items' = Q!items
  BY DEF Q!DeqCall, Q!heap, Q!items
<1> QED
  BY <1>3, <1>4 DEF Q!EnqCall, Q!DeqCall

LEMMA QueueUnchanged ==
  ASSUME UNCHANGED queue
  PROVE  /\ Q!items' = Q!items /\ pc' = pc /\ val' = val /\ reg' = reg
         /\ count' = count
BY DEF queue, Q!items

-----------------------------------------------------------------------------
(***************************************************************************)
(* The entries read, and the places of a directory.                        *)
(***************************************************************************)
LEMMA ThreadFinite ==
  /\ IsFiniteSet(Thread)
  /\ \A S \in SUBSET Thread :
       /\ IsFiniteSet(S) /\ Cardinality(S) \in Nat
       /\ S = {} => Cardinality(S) = 0
       /\ Cardinality(S) = 0 => S = {}
       /\ \A t \in Thread \ S : Cardinality(S \cup {t}) = Cardinality(S) + 1
       /\ \A t \in S : Cardinality(S \ {t}) = Cardinality(S) - 1
<1>1. IsFiniteSet(Worker) /\ Main \notin Worker
  BY TfindAssumption
<1>2. IsFiniteSet(Thread)
  BY <1>1, FS_AddElement DEF Thread
<1>3. ASSUME NEW S \in SUBSET Thread
      PROVE  /\ IsFiniteSet(S) /\ Cardinality(S) \in Nat
             /\ S = {} => Cardinality(S) = 0
             /\ Cardinality(S) = 0 => S = {}
             /\ \A t \in Thread \ S : Cardinality(S \cup {t}) = Cardinality(S) + 1
             /\ \A t \in S : Cardinality(S \ {t}) = Cardinality(S) - 1
  <2>1. IsFiniteSet(S)
    BY <1>2, FS_Subset
  <2>2. \A t \in Thread \ S : Cardinality(S \cup {t}) = Cardinality(S) + 1
    BY <2>1, FS_AddElement
  <2>3. \A t \in S : Cardinality(S \ {t}) = Cardinality(S) - 1
    BY <2>1, FS_RemoveElement
  <2> QED
    BY <2>1, <2>2, <2>3, FS_CardinalityType, FS_EmptySet
<1> QED
  BY <1>2, <1>3

(* Where a value stands in a sequence, when one is appended or taken off.  *)
At(s, p) == {i \in 1 .. Len(s) : s[i] = p}

LEMMA AtFinite ==
  ASSUME NEW S, NEW s \in Seq(S), NEW p
  PROVE  IsFiniteSet(At(s, p)) /\ Cardinality(At(s, p)) \in Nat
<1>1. IsFiniteSet(1 .. Len(s)) /\ At(s, p) \subseteq 1 .. Len(s)
  BY LenProperties, FS_Interval DEF At
<1> QED
  BY <1>1, FS_Subset, FS_CardinalityType

LEMMA AtAppend ==
  ASSUME NEW S, NEW s \in Seq(S), NEW x \in S, NEW p
  PROVE  Cardinality(At(Append(s, x), p))
           = Cardinality(At(s, p)) + (IF x = p THEN 1 ELSE 0)
<1>1. /\ Len(Append(s, x)) = Len(s) + 1 /\ Len(s) \in Nat
      /\ \A k \in 1 .. Len(s) : Append(s, x)[k] = s[k]
      /\ Append(s, x)[Len(s) + 1] = x
  BY AppendProperties, LenProperties
<1>2. IsFiniteSet(At(s, p)) /\ Cardinality(At(s, p)) \in Nat
  BY AtFinite
<1>3. Len(s) + 1 \notin At(s, p)
  BY <1>1 DEF At
<1>4. CASE x = p
  <2>1. At(Append(s, x), p) = At(s, p) \cup {Len(s) + 1}
    BY <1>1, <1>4 DEF At
  <2> QED
    BY <2>1, <1>2, <1>3, <1>4, FS_AddElement
<1>5. CASE x # p
  <2>1. At(Append(s, x), p) = At(s, p)
    BY <1>1, <1>5 DEF At
  <2> QED
    BY <2>1, <1>2, <1>5
<1> QED
  BY <1>4, <1>5

LEMMA AtTail ==
  ASSUME NEW S, NEW s \in Seq(S), s # <<>>, NEW p
  PROVE  Cardinality(At(s, p))
           = Cardinality(At(Tail(s), p)) + (IF Head(s) = p THEN 1 ELSE 0)
<1> DEFINE later == At(s, p) \ {1}
           g == [k \in At(Tail(s), p) |-> k + 1]
<1>1. /\ Len(s) \in Nat /\ Len(s) > 0 /\ Tail(s) \in Seq(S)
      /\ Len(Tail(s)) = Len(s) - 1 /\ Head(s) = s[1]
      /\ \A k \in 1 .. Len(s) - 1 : Tail(s)[k] = s[k + 1]
  BY HeadTailProperties, LenProperties, EmptySeq
<1>2. \A k \in At(Tail(s), p) : k \in Nat /\ k + 1 \in later
  BY <1>1 DEF At
<1>3. \A n \in later : n - 1 \in At(Tail(s), p) /\ n = (n - 1) + 1
  BY <1>1 DEF At
<1>4. g \in Bijection(At(Tail(s), p), later)
  <2>1. g \in [At(Tail(s), p) -> later]
    BY <1>2
  <2>2. \A k, l \in At(Tail(s), p) : g[k] = g[l] => k = l
    BY <1>2
  <2>3. \A n \in later : \E k \in At(Tail(s), p) : g[k] = n
    BY <1>3
  <2> QED
    BY <2>1, <2>2, <2>3 DEF Bijection, Injection, Surjection, IsInjective
<1>5. IsFiniteSet(At(Tail(s), p)) /\ IsFiniteSet(At(s, p))
  BY <1>1, AtFinite
<1> HIDE DEF g, later
<1>6. IsFiniteSet(later) /\ Cardinality(later) = Cardinality(At(Tail(s), p))
  BY <1>4, <1>5, FS_Bijection DEF ExistsBijection
<1>7. CASE Head(s) = p
  <2>1. At(s, p) = later \cup {1} /\ 1 \notin later
    BY <1>1, <1>7 DEF At, later
  <2> QED
    BY <2>1, <1>6, <1>7, FS_AddElement
<1>8. CASE Head(s) # p
  <2>1. At(s, p) = later
    BY <1>1, <1>8 DEF At, later
  <2> QED
    BY <2>1, <1>5, <1>6, <1>8, FS_CardinalityType
<1> QED
  BY <1>7, <1>8

PlacesAre(p) ==
  /\ Cardinality(Callers(p)) \in Nat /\ Callers(p) \subseteq Thread
  /\ Cardinality(Queued(p)) \in Nat /\ Queued(p) = At(Q!items, p)
  /\ Cardinality(Takers(p)) \in Nat /\ Takers(p) \subseteq Thread
  /\ opened[p] \in Nat
  /\ Places(p) = Cardinality(Callers(p)) + Cardinality(Queued(p))
                   + Cardinality(Takers(p)) + opened[p]

LEMMA PlacesSum == TypeOK /\ Q!IInv => \A p \in Path : PlacesAre(p)
<1> SUFFICES ASSUME TypeOK, Q!IInv, NEW p \in Path
             PROVE  PlacesAre(p)
  OBVIOUS
<1>1. Callers(p) \subseteq Thread /\ Takers(p) \subseteq Thread
  BY DEF Callers, Takers, Thread
<1>2. Queued(p) = At(Q!items, p)
  BY DEF Queued, At
<1>3. Cardinality(Queued(p)) \in Nat
  BY <1>2, ItemsAre, AtFinite
<1> QED
  BY <1>1, <1>2, <1>3, ThreadFinite
     DEF PlacesAre, Places, Callers, Queued, Takers, TypeOK

(* A path in some place was found, and what was found can be reached.      *)
LEMMA RootReachable ==
  /\ Root \in Reachable
  /\ \A d \in Reachable \cap Searchable : Listing[d] \subseteq Reachable
<1>1. Root \in Reachable
  BY DEF Reachable, Path
<1>2. ASSUME NEW d \in Reachable \cap Searchable, NEW e \in Listing[d]
      PROVE  e \in Reachable
  <2>1. d \in Dir /\ e \in Path
    BY <1>2, TfindAssumption DEF Searchable, Path
  <2>2. ASSUME NEW S \in SUBSET Path, Root \in S, Closed(S)
        PROVE  e \in S
    <3>1. d \in S
      BY <2>2 DEF Reachable
    <3> QED
      BY <2>2, <3>1 DEF Closed
  <2> QED
    BY <2>1, <2>2 DEF Reachable
<1> QED
  BY <1>1, <1>2

LEMMA FoundIs ==
  ASSUME NEW p \in Path, Found(p), ReadInv
  PROVE  /\ p \in Reachable
         /\ p = Root \/ (p \in Entry /\ TreatedAsDirectory(p) /\ p \in Listed)
<1>1. CASE p = Root
  BY <1>1, RootReachable
<1>2. CASE p # Root
  <2>1. p \in Entry /\ TreatedAsDirectory(p) /\ p \in Listed
    BY <1>2 DEF Found, Listed, Path
  <2> QED
    BY <2>1 DEF ReadInv
<1> QED
  BY <1>1, <1>2

LEMMA ReadKept ==
  ASSUME ReadInv, UNCHANGED <<remaining, opened, scanned>>,
         \A w \in Worker : remaining[w] # {} => at'[w] \in InDirectory
  PROVE  ReadInv'
BY DEF ReadInv, Listed, Unread

(* opendir: the path was in its worker's hands, so nobody has opened it.   *)
LEMMA OpenedNever ==
  ASSUME TypeOK, Q!IInv, PlacesInv, NEW w \in Worker, at[w] = "dequeue", val[w] \in Path
  PROVE  opened[val[w]] = 0 /\ Found(val[w])
<1>1. w \in Takers(val[w])
  BY DEF Takers
<1>2. Cardinality(Takers(val[w])) # 0
  <2>1. Takers(val[w]) \subseteq Thread
    BY DEF Takers, Thread
  <2> QED
    BY <1>1, <2>1, ThreadFinite
<1> QED
  BY <1>2, PlacesSum DEF PlacesAre, PlacesInv

LEMMA OpenReads ==
  ASSUME TypeOK, Q!IInv, ReadInv, PlacesInv, NEW w \in Worker, WorkerOpen(w)
  PROVE  /\ ReadInv'
         /\ Listed' = Listed \cup Listing[val[w]]
         /\ Listed \cap Listing[val[w]] = {}
         /\ \A e \in Listed : Unread(e)' <=> Unread(e)
         /\ \A e \in Listing[val[w]] : Unread(e)'
         /\ opened' = [opened EXCEPT ![val[w]] = 1]
<1> DEFINE d == val[w]
<1>1. /\ at[w] = "dequeue" /\ d \in Dir /\ d \in Path
      /\ at' = [at EXCEPT ![w] = "read"]
      /\ remaining' = [remaining EXCEPT ![w] = Listing[d]]
      /\ opened' = [opened EXCEPT ![d] = @ + 1] /\ scanned' = scanned
  BY TfindAssumption DEF WorkerOpen, WorkerGoto
<1>2. /\ opened[d] = 0 /\ Found(d)
  BY <1>1, OpenedNever
<1>3. d \in Reachable \cap Searchable
  BY <1>1, <1>2, FoundIs DEF Searchable
<1>4. /\ at \in [Worker -> WorkerPC] /\ remaining \in [Worker -> SUBSET Entry]
      /\ opened \in [Path -> Nat] /\ Dir \subseteq Path /\ Listing[d] \subseteq Entry
  BY <1>1, TfindAssumption DEF TypeOK
<1> HIDE DEF d
<1>5. remaining[w] = {}
  BY <1>1 DEF ReadInv, InDirectory
<1>6. /\ remaining'[w] = Listing[d] /\ \A v \in Worker \ {w} : remaining'[v] = remaining[v]
      /\ at'[w] = "read" /\ \A v \in Worker \ {w} : at'[v] = at[v]
      /\ opened'[d] = 1 /\ \A e \in Dir \ {d} : opened'[e] = opened[e]
  BY <1>1, <1>2, <1>4
<1>7. Listed' = Listed \cup Listing[d]
  BY <1>1, <1>2, <1>4, <1>6 DEF Listed
<1>8. Listed \cap Listing[d] = {}
  BY <1>1, <1>2, TfindAssumption DEF Listed, Hierarchy
<1>9. \A v \in Worker \ {w} : remaining'[v] \subseteq Listed /\ remaining'[v] \cap Listing[d] = {}
  BY <1>6, <1>8 DEF ReadInv
<1>10. \A e \in Listed : Unread(e)' <=> Unread(e)
  BY <1>5, <1>6, <1>8 DEF Unread
<1>11. scanned \subseteq Listed
  BY DEF ReadInv
<1>12. ReadInv'
  <2>1. \A v \in Worker : remaining'[v] # {} => at'[v] \in InDirectory
    BY <1>6 DEF ReadInv, InDirectory
  <2>2. \A v \in Worker : remaining'[v] \subseteq Listed' \ scanned'
    BY <1>1, <1>6, <1>7, <1>8, <1>11 DEF ReadInv
  <2>3. \A u, v \in Worker : u # v => remaining'[u] \cap remaining'[v] = {}
    BY <1>6, <1>9 DEF ReadInv
  <2>4. scanned' = {e \in Listed' : "text" \in Says[e] /\ ~Unread(e)'}
    <3>1. \A e \in Listing[d] : Unread(e)'
      BY <1>6 DEF Unread
    <3> QED
      BY <3>1, <1>1, <1>7, <1>10 DEF ReadInv
  <2>5. Listed' \subseteq Reachable
    BY <1>3, <1>7, RootReachable DEF ReadInv
  <2> QED
    BY <2>1, <2>2, <2>3, <2>4, <2>5 DEF ReadInv
<1>13. \A e \in Listing[d] : Unread(e)'
  BY <1>6 DEF Unread
<1>14. opened' = [opened EXCEPT ![d] = 1]
  BY <1>1, <1>2, <1>4
<1> QED
  BY <1>7, <1>8, <1>10, <1>12, <1>13, <1>14 DEF d

(* readdir returns an entry it has not returned before.                    *)
ReadsEntry(w, e) == WorkerReadText(w, e) \/ WorkerReadDirectory(w, e) \/ WorkerReadOther(w, e)

LEMMA EntryReads ==
  ASSUME TypeOK, ReadInv, NEW w \in Worker, NEW e \in Entry, ReadsEntry(w, e)
  PROVE  /\ ReadInv' /\ Listed' = Listed /\ opened' = opened
         /\ e \in Listed \ scanned /\ Unread(e) /\ ~Unread(e)'
         /\ \A f \in Entry : f # e => (Unread(f)' <=> Unread(f))
         /\ scanned' = IF "text" \in Says[e] THEN scanned \cup {e} ELSE scanned
<1>1. /\ at[w] = "read" /\ e \in remaining[w] /\ opened' = opened
      /\ remaining' = [remaining EXCEPT ![w] = @ \ {e}]
      /\ \E to \in InDirectory : at' = [at EXCEPT ![w] = to]
      /\ scanned' = IF "text" \in Says[e] THEN scanned \cup {e} ELSE scanned
  BY DEF ReadsEntry, WorkerReadText, WorkerReadDirectory, WorkerReadOther, ReadEntry,
         WorkerGoto, InDirectory
<1>2. at \in [Worker -> WorkerPC] /\ remaining \in [Worker -> SUBSET Entry]
  BY DEF TypeOK
<1>3. /\ remaining'[w] = remaining[w] \ {e}
      /\ \A v \in Worker \ {w} : remaining'[v] = remaining[v]
  BY <1>1, <1>2
<1>4. Listed' = Listed
  BY <1>1 DEF Listed
<1>5. e \in Listed \ scanned /\ Unread(e)
  BY <1>1 DEF ReadInv, Unread
<1>6. ~Unread(e)' /\ \A f \in Entry : f # e => (Unread(f)' <=> Unread(f))
  BY <1>1, <1>3 DEF ReadInv, Unread
<1>7. ReadInv'
  <2>1. \A v \in Worker : remaining'[v] # {} => at'[v] \in InDirectory
    BY <1>1, <1>2, <1>3 DEF ReadInv
  <2>2. \A v \in Worker : remaining'[v] \subseteq Listed' \ scanned'
    <3>1. \A v \in Worker : e \notin remaining'[v]
      BY <1>6 DEF Unread
    <3> QED
      BY <3>1, <1>1, <1>3, <1>4 DEF ReadInv
  <2>3. \A u, v \in Worker : u # v => remaining'[u] \cap remaining'[v] = {}
    BY <1>3 DEF ReadInv
  <2>4. scanned' = {f \in Listed' : "text" \in Says[f] /\ ~Unread(f)'}
    <3>1. scanned = {f \in Listed : "text" \in Says[f] /\ ~Unread(f)}
      BY DEF ReadInv
    <3>2. \A f \in Listed : f \in Entry
      BY DEF Listed
    <3> QED
      BY <3>1, <3>2, <1>1, <1>4, <1>5, <1>6
  <2> QED
    BY <2>1, <2>2, <2>3, <2>4, <1>4 DEF ReadInv
<1> QED
  BY <1>1, <1>4, <1>5, <1>6, <1>7

-----------------------------------------------------------------------------
(***************************************************************************)
(* Where each directory is.                                                *)
(***************************************************************************)
FoundNow(p) ==
  IF p = Root THEN main_pc # "start"
  ELSE TreatedAsDirectory(p) /\ p \in Listed /\ ~Unread(p)

LEMMA FoundMeans == \A p \in Path : Found(p) <=> FoundNow(p)
BY DEF Found, FoundNow, Listed, Unread, Path

(* A path that stays where it is, and one that goes from place to place.   *)
Stays(p) ==
  /\ Callers(p)' = Callers(p) /\ Queued(p)' = Queued(p) /\ Takers(p)' = Takers(p)
  /\ opened'[p] = opened[p] /\ (FoundNow(p)' <=> FoundNow(p))

Goes(p) ==
  \/ (FoundNow(p)' <=> FoundNow(p)) /\ Places(p)' = Places(p)
  \/ ~FoundNow(p) /\ FoundNow(p)' /\ Places(p)' = Places(p) + 1

(* main's round, and the steps of a worker outside the queue that read no  *)
(* directory.                                                              *)
Quiet ==
  /\ UNCHANGED <<queue, remaining, opened>>
  /\ main_pc' = "start" <=> main_pc = "start"
  /\ \A w \in Worker : at'[w] = "dequeue" <=> at[w] = "dequeue"

LEMMA QuietPlaces ==
  ASSUME Quiet
  PROVE  \A p \in Path : Stays(p)
BY QueueUnchanged
   DEF Quiet, Stays, Callers, Queued, Takers, FoundNow, Listed, Unread

LEMMA PlacesKept ==
  ASSUME TypeOK, TypeOK', Q!IInv, Q!IInv', PlacesInv,
         \A p \in Path : Stays(p) \/ Goes(p),
         \A i \in 1 .. Len(Q!items') : Q!items'[i] \in Path,
         \A w \in Worker :
           pc'[w] \in {"d_load", "d_store", "d_unlock", "d_free"} => val'[w] \in Path
  PROVE  PlacesInv'
<1>1. \A p \in Path : PlacesAre(p)
  BY PlacesSum
<1>2. \A p \in Path : PlacesAre(p)'
  <2>1. (TypeOK /\ Q!IInv => \A p \in Path : PlacesAre(p))'
    BY PlacesSum, PTL
  <2> QED
    BY <2>1
<1>3. \A p \in Path : Found(p) <=> FoundNow(p)
  BY FoundMeans
<1>4. \A p \in Path : Found(p)' <=> FoundNow(p)'
  <2>1. (\A p \in Path : Found(p) <=> FoundNow(p))'
    BY FoundMeans, PTL
  <2> QED
    BY <2>1
<1>5. ASSUME NEW p \in Path
      PROVE  Places(p)' = IF Found(p)' THEN 1 ELSE 0
  <2>1. Places(p) = IF FoundNow(p) THEN 1 ELSE 0
    BY <1>3 DEF PlacesInv
  <2>2. CASE Stays(p)
    <3>1. Places(p)' = Places(p)
      BY <1>1, <1>2, <2>2 DEF PlacesAre, Stays
    <3> QED
      BY <1>4, <2>1, <2>2, <3>1 DEF Stays
  <2>3. CASE Goes(p)
    BY <1>4, <2>1, <2>3 DEF Goes
  <2> QED
    BY <2>2, <2>3
<1> QED
  BY <1>5 DEF PlacesInv

LEMMA PlacesNow ==
  ASSUME TypeOK, TypeOK', Q!IInv, Q!IInv'
  PROVE  \A p \in Path : PlacesAre(p) /\ PlacesAre(p)'
<1>1. (TypeOK /\ Q!IInv => \A p \in Path : PlacesAre(p))'
  BY PlacesSum, PTL
<1> QED
  BY <1>1, PlacesSum

(* A call that links its node, or takes one.                               *)
LEMMA LinkPlaces ==
  ASSUME TypeOK, TypeOK', Q!IInv, Q!IInv', CallsInv, NEW t \in Thread, LinkStep(t),
         UNCHANGED <<at, remaining, opened>>, main_pc' = "start" <=> main_pc = "start"
  PROVE  \A p \in Path : Stays(p) \/ Goes(p)
<1>0. pc \in [Thread -> Q!PC]
  BY DEF Q!IInv, Q!TypeOK
<1>1. /\ pc[t] = "e_link" /\ pc' = [pc EXCEPT ![t] = "e_swing"] /\ val' = val
      /\ Q!items' = Append(Q!items, val[t]) /\ val[t] \in Path
  BY DEF LinkStep, Q!Goto, Q!IInv, Q!LocalsInv, Q!EnqPC
<1>2. pc'[t] = "e_swing" /\ \A u \in Thread \ {t} : pc'[u] = pc[u]
  BY <1>0, <1>1
<1>3. ASSUME NEW p \in Path
      PROVE  Stays(p) \/ Goes(p)
  <2>1. Takers(p)' = Takers(p) /\ opened'[p] = opened[p] /\ (FoundNow(p)' <=> FoundNow(p))
    BY <1>1 DEF Takers, FoundNow, Listed, Unread
  <2>2. PlacesAre(p) /\ PlacesAre(p)'
    BY PlacesNow
  <2>3. Cardinality(Queued(p)') = Cardinality(Queued(p)) + (IF val[t] = p THEN 1 ELSE 0)
    <3>1. Q!items \in Seq(Path \cup {NULL}) /\ val[t] \in Path \cup {NULL}
      BY <1>1, ItemsAre
    <3>2. Queued(p) = At(Q!items, p) /\ Queued(p)' = At(Append(Q!items, val[t]), p)
      BY <1>1, <2>2 DEF PlacesAre
    <3> QED
      BY <3>1, <3>2, AtAppend
  <2>4. CASE p = val[t]
    <3>1. t \in Callers(p) /\ Callers(p)' = Callers(p) \ {t}
      BY <1>1, <1>2, <2>4 DEF Callers
    <3>2. Cardinality(Callers(p)') = Cardinality(Callers(p)) - 1
      BY <2>2, <3>1, ThreadFinite DEF PlacesAre
    <3> QED
      BY <2>1, <2>2, <2>3, <2>4, <3>2 DEF PlacesAre, Goes
  <2>5. CASE p # val[t]
    <3>1. Callers(p)' = Callers(p)
      BY <1>1, <1>2, <2>5 DEF Callers
    <3> QED
      BY <2>1, <2>2, <2>3, <2>5, <3>1 DEF PlacesAre, Goes
  <2> QED
    BY <2>4, <2>5
<1> QED
  BY <1>3

LEMMA TakePlaces ==
  ASSUME TypeOK, TypeOK', Q!IInv, Q!IInv', CallsInv, NEW t \in Thread, TakeStep(t),
         UNCHANGED <<at, remaining, opened>>, main_pc' = "start" <=> main_pc = "start"
  PROVE  \A p \in Path : Stays(p) \/ Goes(p)
<1>0. pc \in [Thread -> Q!PC] /\ val \in [Thread -> Path \cup {NULL}]
  BY DEF Q!IInv, Q!TypeOK
<1>1. /\ pc[t] = "d_take" /\ pc' = [pc EXCEPT ![t] = "d_load"] /\ val[t] = NULL
      /\ val' = [val EXCEPT ![t] = Head(Q!items)]
      /\ Q!items # <<>> /\ Q!items' = Tail(Q!items)
  BY DEF TakeStep, Q!Goto, Q!IInv, Q!LocalsInv
<1>2. /\ pc'[t] = "d_load" /\ \A u \in Thread \ {t} : pc'[u] = pc[u]
      /\ val'[t] = Head(Q!items) /\ \A u \in Thread \ {t} : val'[u] = val[u]
  BY <1>0, <1>1
<1>3. t \in Worker /\ at[t] = "dequeue"
  BY <1>1 DEF CallsInv, Thread, Q!EnqPC, Q!DeqPC
<1>4. ASSUME NEW p \in Path
      PROVE  Stays(p) \/ Goes(p)
  <2>1. Callers(p)' = Callers(p) /\ opened'[p] = opened[p] /\ (FoundNow(p)' <=> FoundNow(p))
    BY <1>1, <1>2 DEF Callers, FoundNow, Listed, Unread
  <2>2. PlacesAre(p) /\ PlacesAre(p)'
    BY PlacesNow
  <2>3. Cardinality(Queued(p)) = Cardinality(Queued(p)') + (IF Head(Q!items) = p THEN 1 ELSE 0)
    BY <1>1, <2>2, ItemsAre, AtTail DEF PlacesAre
  <2>4. t \notin Takers(p)
    BY <1>1, TfindAssumption DEF Takers
  <2>5. CASE p = Head(Q!items)
    <3>1. Takers(p)' = Takers(p) \cup {t}
      BY <1>2, <1>3, <2>5, ThreadIs DEF Takers
    <3>2. Cardinality(Takers(p)') = Cardinality(Takers(p)) + 1
      BY <2>2, <2>4, <3>1, ThreadFinite DEF PlacesAre
    <3> QED
      BY <2>1, <2>2, <2>3, <2>5, <3>2 DEF PlacesAre, Goes
  <2>6. CASE p # Head(Q!items)
    <3>1. Takers(p)' = Takers(p)
      BY <1>2, <1>3, <2>4, <2>6, ThreadIs DEF Takers
    <3> QED
      BY <2>1, <2>2, <2>3, <2>6, <3>1 DEF PlacesAre, Goes
  <2> QED
    BY <2>5, <2>6
<1> QED
  BY <1>4

(* The other steps of a call move no path.                                 *)
LEMMA CallStays ==
  ASSUME Q!IInv, CallsInv, NEW t \in Thread,
         LoadStep(t) \/ StoreStep(t) \/ OtherStep(t),
         UNCHANGED <<at, remaining, opened>>, main_pc' = "start" <=> main_pc = "start"
  PROVE  \A p \in Path : Stays(p)
<1>0. pc \in [Thread -> Q!PC] /\ val \in [Thread -> Path \cup {NULL}]
  BY DEF Q!IInv, Q!TypeOK
<1>1. /\ Q!items' = Q!items
      /\ pc' = [pc EXCEPT ![t] = pc'[t]]
      /\ pc[t] \in {"e_lock", "e_link"} <=> pc'[t] \in {"e_lock", "e_link"}
      /\ val' = val \/ (pc[t] = "e_unlock" /\ val' = [val EXCEPT ![t] = NULL])
  BY <1>0 DEF LoadStep, StoreStep, OtherStep, Q!Goto
<1>2. \A u \in Thread \ {t} : pc'[u] = pc[u] /\ val'[u] = val[u]
  BY <1>0, <1>1
<1>3. ASSUME NEW p \in Path
      PROVE  Stays(p)
  <2>1. Callers(p)' = Callers(p)
    BY <1>0, <1>1, <1>2 DEF Callers
  <2>2. Takers(p)' = Takers(p)
    <3>1. val' = val \/ t = Main \/ at[t] = "read"
      BY <1>1 DEF CallsInv, Thread, Q!EnqPC
    <3> QED
      BY <1>2, <3>1, ThreadIs DEF Takers
  <2> QED
    BY <1>1, <2>1, <2>2 DEF Stays, Queued, FoundNow, Listed, Unread
<1> QED
  BY <1>3

(* What is in the queue, and what a Dequeue brings, is a path.             *)
LEMMA PathsKept ==
  ASSUME Q!IInv, PlacesInv, CallsInv, NEW t \in Thread,
         \/ LinkStep(t) \/ TakeStep(t) \/ LoadStep(t) \/ StoreStep(t) \/ OtherStep(t)
  PROVE  /\ \A i \in 1 .. Len(Q!items') : Q!items'[i] \in Path
         /\ \A w \in Worker :
              pc'[w] \in {"d_load", "d_store", "d_unlock", "d_free"} => val'[w] \in Path
<1>0. /\ pc \in [Thread -> Q!PC] /\ val \in [Thread -> Path \cup {NULL}]
      /\ Q!items \in Seq(Path \cup {NULL})
      /\ \A i \in 1 .. Len(Q!items) : Q!items[i] \in Path
      /\ \A w \in Worker :
           pc[w] \in {"d_load", "d_store", "d_unlock", "d_free"} => val[w] \in Path
  BY ItemsAre DEF Q!IInv, Q!TypeOK, PlacesInv
<1>1. CASE LinkStep(t)
  <2>1. /\ pc[t] = "e_link" /\ val[t] \in Path /\ val' = val
        /\ pc' = [pc EXCEPT ![t] = "e_swing"] /\ Q!items' = Append(Q!items, val[t])
    BY <1>1 DEF LinkStep, Q!Goto, Q!IInv, Q!LocalsInv, Q!EnqPC
  <2>2. \A i \in 1 .. Len(Q!items') : Q!items'[i] \in Path
    <3>1. /\ Len(Q!items') = Len(Q!items) + 1 /\ Len(Q!items) \in Nat
          /\ \A k \in 1 .. Len(Q!items) : Q!items'[k] = Q!items[k]
          /\ Q!items'[Len(Q!items) + 1] = val[t]
      BY <1>0, <2>1, AppendProperties, LenProperties
    <3> HIDE <2>1
    <3>2. val[t] \in Path
      BY <2>1
    <3> QED
      BY <1>0, <3>1, <3>2
  <2> QED
    BY <1>0, <2>1, <2>2
<1>2. CASE TakeStep(t)
  <2>1. /\ pc' = [pc EXCEPT ![t] = "d_load"] /\ Q!items # <<>>
        /\ val' = [val EXCEPT ![t] = Head(Q!items)] /\ Q!items' = Tail(Q!items)
    BY <1>2 DEF TakeStep, Q!Goto
  <2>2. /\ Len(Q!items) \in Nat /\ Len(Q!items) > 0
        /\ Len(Q!items') = Len(Q!items) - 1 /\ Head(Q!items) = Q!items[1]
        /\ \A k \in 1 .. Len(Q!items) - 1 : Q!items'[k] = Q!items[k + 1]
    BY <1>0, <2>1, HeadTailProperties, LenProperties, EmptySeq
  <2>3. Head(Q!items) \in Path /\ \A i \in 1 .. Len(Q!items') : Q!items'[i] \in Path
    BY <1>0, <2>2
  <2> QED
    BY <1>0, <2>1, <2>3, ThreadIs
<1>3. CASE LoadStep(t) \/ StoreStep(t) \/ OtherStep(t)
  <2>1. /\ Q!items' = Q!items /\ pc' = [pc EXCEPT ![t] = pc'[t]]
        /\ val' = val \/ (pc'[t] = "idle" /\ val' = [val EXCEPT ![t] = NULL])
        /\ pc'[t] \in {"d_load", "d_store", "d_unlock", "d_free"} =>
             pc[t] \in {"d_load", "d_store", "d_unlock", "d_free"}
    BY <1>0, <1>3 DEF LoadStep, StoreStep, OtherStep, Q!Goto
  <2> QED
    BY <1>0, <2>1, ThreadIs
<1> QED
  BY <1>1, <1>2, <1>3

LEMMA CallPlaces ==
  ASSUME TypeOK, TypeOK', Q!IInv, Q!IInv', CallsInv, PlacesInv, NEW t \in Thread,
         Q!EnqStep(t) \/ Q!DeqStep(t),
         UNCHANGED <<at, remaining, opened>>, main_pc' = "start" <=> main_pc = "start"
  PROVE  PlacesInv'
<1>1. LinkStep(t) \/ TakeStep(t) \/ LoadStep(t) \/ StoreStep(t) \/ OtherStep(t)
  BY CallSteps
<1>2. \A p \in Path : Stays(p) \/ Goes(p)
  BY <1>1, LinkPlaces, TakePlaces, CallStays
<1> QED
  BY <1>1, <1>2, PathsKept, PlacesKept

(* The beginnings of the calls.                                            *)
LEMMA EnqueueBegins ==
  ASSUME TypeOK, TypeOK', Q!IInv, Q!IInv', NEW t \in Thread, NEW d \in Path,
         Q!EnqCall(t, d), ~FoundNow(d), FoundNow(d)',
         \A p \in Path : p # d => (FoundNow(p)' <=> FoundNow(p)),
         opened' = opened,
         t # Main => at[t] # "dequeue",
         \A w \in Worker : at'[w] = "dequeue" <=> at[w] = "dequeue"
  PROVE  \A p \in Path : Stays(p) \/ Goes(p)
<1>0. pc \in [Thread -> Q!PC] /\ val \in [Thread -> Path \cup {NULL}]
  BY DEF Q!IInv, Q!TypeOK
<1>1. /\ pc[t] = "idle" /\ pc' = [pc EXCEPT ![t] = "e_lock"]
      /\ val' = [val EXCEPT ![t] = d] /\ Q!items' = Q!items
  BY CallBegins DEF Q!Goto
<1>2. /\ pc'[t] = "e_lock" /\ \A u \in Thread \ {t} : pc'[u] = pc[u]
      /\ val'[t] = d /\ \A u \in Thread \ {t} : val'[u] = val[u]
  BY <1>0, <1>1
<1>3. ASSUME NEW p \in Path
      PROVE  Stays(p) \/ Goes(p)
  <2>1. Takers(p)' = Takers(p) /\ opened'[p] = opened[p] /\ Queued(p)' = Queued(p)
    BY <1>1, <1>2, ThreadIs DEF Takers, Queued
  <2>2. PlacesAre(p) /\ PlacesAre(p)'
    BY PlacesNow
  <2>3. CASE p = d
    <3>1. t \notin Callers(p) /\ Callers(p)' = Callers(p) \cup {t}
      BY <1>1, <1>2, <2>3 DEF Callers
    <3>2. Cardinality(Callers(p)') = Cardinality(Callers(p)) + 1
      BY <2>2, <3>1, ThreadFinite DEF PlacesAre
    <3> QED
      BY <2>1, <2>2, <2>3, <3>2 DEF PlacesAre, Goes
  <2>4. CASE p # d
    <3>1. Callers(p)' = Callers(p)
      BY <1>1, <1>2, <2>4 DEF Callers
    <3> QED
      BY <2>1, <2>4, <3>1 DEF Stays
  <2> QED
    BY <2>3, <2>4
<1> QED
  BY <1>3

LEMMA MainEnqueuePlaces ==
  ASSUME TypeOK, TypeOK', Q!IInv, Q!IInv', PlacesInv, MainEnqueue
  PROVE  PlacesInv'
<1>1. /\ Root \in Path /\ Main \in Thread
      /\ main_pc = "start" /\ main_pc' = "enqueue" /\ Q!EnqCall(Main, Root)
      /\ UNCHANGED <<at, remaining, opened>>
  BY ThreadIs DEF MainEnqueue, MainGoto, search, Path
<1>2. /\ ~FoundNow(Root) /\ FoundNow(Root)'
      /\ \A p \in Path : p # Root => (FoundNow(p)' <=> FoundNow(p))
  BY <1>1 DEF FoundNow, Listed, Unread
<1>3. \A p \in Path : Stays(p) \/ Goes(p)
  BY <1>1, <1>2, EnqueueBegins
<1>4. /\ Q!items' = Q!items /\ val' = [val EXCEPT ![Main] = Root]
      /\ pc' = [pc EXCEPT ![Main] = "e_lock"]
      /\ pc \in [Thread -> Q!PC] /\ val \in [Thread -> Path \cup {NULL}]
  BY <1>1, CallBegins DEF Q!Goto, Q!IInv, Q!TypeOK
<1>5. \A w \in Worker : pc'[w] = pc[w] /\ val'[w] = val[w]
  BY <1>4, ThreadIs
<1> QED
  BY <1>3, <1>4, <1>5, PlacesKept DEF PlacesInv

LEMMA WorkerDequeuePlaces ==
  ASSUME TypeOK, TypeOK', Q!IInv, Q!IInv', PlacesInv, NEW w \in Worker, WorkerDequeue(w)
  PROVE  PlacesInv'
<1>0. /\ w \in Thread /\ at \in [Worker -> WorkerPC]
      /\ pc \in [Thread -> Q!PC] /\ val \in [Thread -> Path \cup {NULL}]
  BY ThreadIs DEF TypeOK, Q!IInv, Q!TypeOK
<1>1. /\ at[w] = "start" /\ at' = [at EXCEPT ![w] = "dequeue"]
      /\ pc[w] = "idle" /\ pc' = [pc EXCEPT ![w] = "d_lock"]
      /\ val' = [val EXCEPT ![w] = NULL] /\ Q!items' = Q!items
      /\ UNCHANGED <<main_pc, remaining, opened>>
  BY <1>0, CallBegins DEF WorkerDequeue, WorkerGoto, Q!Goto
<1>2. /\ pc'[w] = "d_lock" /\ \A u \in Thread \ {w} : pc'[u] = pc[u]
      /\ val'[w] = NULL /\ \A u \in Thread \ {w} : val'[u] = val[u]
      /\ at'[w] = "dequeue" /\ \A v \in Worker \ {w} : at'[v] = at[v]
  BY <1>0, <1>1
<1>3. ASSUME NEW p \in Path
      PROVE  Stays(p)
  <2>1. Callers(p)' = Callers(p)
    BY <1>1, <1>2 DEF Callers
  <2>2. Takers(p)' = Takers(p)
    BY <1>1, <1>2, ThreadIs, TfindAssumption DEF Takers
  <2> QED
    BY <1>1, <2>1, <2>2 DEF Stays, Queued, FoundNow, Listed, Unread
<1> QED
  BY <1>1, <1>2, <1>3, ThreadIs, PlacesKept DEF PlacesInv

(* opendir takes the path from its worker's hands.                         *)
LEMMA WorkerOpenPlaces ==
  ASSUME TypeOK, TypeOK', Q!IInv, Q!IInv', ReadInv, PlacesInv,
         NEW w \in Worker, WorkerOpen(w)
  PROVE  PlacesInv'
<1> DEFINE d == val[w]
<1>1. /\ at[w] = "dequeue" /\ d \in Path /\ at' = [at EXCEPT ![w] = "read"]
      /\ UNCHANGED <<queue, main_pc>>
  BY TfindAssumption DEF WorkerOpen, WorkerGoto
<1>2. /\ Listed' = Listed \cup Listing[d]
      /\ Listed \cap Listing[d] = {}
      /\ \A e \in Listed : Unread(e)' <=> Unread(e)
      /\ \A e \in Listing[d] : Unread(e)'
      /\ opened' = [opened EXCEPT ![d] = 1]
  BY OpenReads
<1>3. opened[d] = 0 /\ opened \in [Path -> Nat]
  BY <1>1, OpenedNever DEF TypeOK
<1>4. Q!items' = Q!items /\ pc' = pc /\ val' = val
  BY <1>1, QueueUnchanged
<1>5. at'[w] = "read" /\ \A v \in Worker \ {w} : at'[v] = at[v]
  BY <1>1 DEF TypeOK
<1>6. \A p \in Path : FoundNow(p)' <=> FoundNow(p)
  BY <1>1, <1>2 DEF FoundNow
<1>7. ASSUME NEW p \in Path
      PROVE  Stays(p) \/ Goes(p)
  <2>1. Callers(p)' = Callers(p) /\ Queued(p)' = Queued(p)
    BY <1>4 DEF Callers, Queued
  <2>2. PlacesAre(p) /\ PlacesAre(p)'
    BY PlacesNow
  <2>3. CASE p = d
    <3>1. w \in Takers(p) /\ Takers(p)' = Takers(p) \ {w}
      BY <1>1, <1>4, <1>5, <2>3 DEF Takers
    <3>2. Cardinality(Takers(p)') = Cardinality(Takers(p)) - 1
      BY <2>2, <3>1, ThreadFinite DEF PlacesAre
    <3>3. opened'[p] = opened[p] + 1
      BY <1>2, <1>3, <2>3
    <3>4. Places(p)' = Places(p)
      BY <2>1, <2>2, <3>2, <3>3 DEF PlacesAre
    <3> QED
      BY <1>6, <3>4 DEF Goes
  <2>4. CASE p # d
    <3>1. Takers(p)' = Takers(p)
      BY <1>4, <1>5, <2>4 DEF Takers
    <3>2. opened'[p] = opened[p]
      BY <1>2, <1>3, <2>4
    <3> QED
      BY <1>6, <2>1, <3>1, <3>2 DEF Stays
  <2> QED
    BY <2>3, <2>4
<1> QED
  BY <1>4, <1>7, PlacesKept DEF PlacesInv

(* readdir finds a directory, or something else.                           *)
LEMMA ReadPlaces ==
  ASSUME TypeOK, TypeOK', Q!IInv, Q!IInv', ReadInv, PlacesInv,
         NEW w \in Worker, NEW e \in Entry, ReadsEntry(w, e)
  PROVE  PlacesInv'
<1>1. /\ Listed' = Listed /\ opened' = opened /\ e \in Listed
      /\ Unread(e) /\ ~Unread(e)'
      /\ \A f \in Entry : f # e => (Unread(f)' <=> Unread(f))
  BY EntryReads
<1>2. /\ at[w] = "read" /\ main_pc' = main_pc
      /\ \E to \in {"read", "files_load"} : at' = [at EXCEPT ![w] = to]
  BY DEF ReadsEntry, WorkerReadText, WorkerReadDirectory, WorkerReadOther, ReadEntry,
         WorkerGoto
<1>3. \A v \in Worker : at'[v] = "dequeue" <=> at[v] = "dequeue"
  BY <1>2 DEF TypeOK
<1>4. Says \in [Entry -> SUBSET {"text", "directory"}] /\ e # Root /\ e \in Path
  BY TfindAssumption DEF Path
<1>5. \A p \in Path : p # e => (FoundNow(p)' <=> FoundNow(p))
  BY <1>1, <1>2 DEF FoundNow, Path
<1>6. /\ pc \in [Thread -> Q!PC] /\ val \in [Thread -> Path \cup {NULL}]
      /\ w \in Thread /\ w # Main
  BY ThreadIs DEF Q!IInv, Q!TypeOK
<1>7. CASE WorkerReadDirectory(w, e)
  <2>1. TreatedAsDirectory(e) /\ Q!EnqCall(w, e)
    BY <1>4, <1>7 DEF WorkerReadDirectory, TreatedAsDirectory
  <2>2. ~FoundNow(e) /\ FoundNow(e)'
    BY <1>1, <1>4, <2>1 DEF FoundNow
  <2>3. \A p \in Path : Stays(p) \/ Goes(p)
    BY <1>1, <1>2, <1>3, <1>4, <1>5, <1>6, <2>1, <2>2, EnqueueBegins
  <2>4. /\ Q!items' = Q!items /\ pc' = [pc EXCEPT ![w] = "e_lock"]
        /\ val' = [val EXCEPT ![w] = e]
    BY <1>4, <1>6, <2>1, CallBegins DEF Q!Goto
  <2>5. \A v \in Worker :
          pc'[v] \in {"d_load", "d_store", "d_unlock", "d_free"} =>
            pc'[v] = pc[v] /\ val'[v] = val[v]
    BY <1>6, <2>4, ThreadIs
  <2> QED
    BY <2>3, <2>4, <2>5, PlacesKept DEF PlacesInv
<1>8. CASE WorkerReadText(w, e) \/ WorkerReadOther(w, e)
  <2>1. ~TreatedAsDirectory(e) /\ UNCHANGED queue
    BY <1>4, <1>8 DEF WorkerReadText, WorkerReadOther, TreatedAsDirectory
  <2>2. Q!items' = Q!items /\ pc' = pc /\ val' = val
    BY <2>1, QueueUnchanged
  <2>3. \A p \in Path : FoundNow(p)' <=> FoundNow(p)
    BY <1>4, <1>5, <2>1 DEF FoundNow
  <2>4. \A p \in Path : Stays(p)
    BY <1>1, <1>3, <2>2, <2>3 DEF Stays, Callers, Queued, Takers
  <2> QED
    BY <2>2, <2>4, PlacesKept DEF PlacesInv
<1> QED
  BY <1>7, <1>8 DEF ReadsEntry

(* The steps that find no path.                                            *)
LEMMA QuietSteps ==
  ASSUME TypeOK, RoundInv,
         \/ MainPlan \/ MainCreated \/ MainJoin \/ MainCheck
         \/ \E w \in Worker : \/ MainCreate(w)
                              \/ WorkerFails(w) \/ WorkerOutOfDescriptors(w)
                              \/ WorkerReturn(w) \/ WorkerLoadFiles(w)
                              \/ WorkerStoreFiles(w) \/ WorkerLoadLines(w)
                              \/ WorkerStoreLines(w) \/ WorkerEndScan(w)
  PROVE  Quiet /\ scanned' = scanned
<1> USE DEF Quiet, search, TypeOK
<1>1. CASE MainPlan \/ MainCreated \/ MainJoin \/ MainCheck
  BY <1>1 DEF MainPlan, MainCreated, MainJoin, MainCheck, MainGoto
<1>2. ASSUME NEW w \in Worker,
             MainCreate(w) \/ WorkerFails(w) \/ WorkerOutOfDescriptors(w)
      PROVE  Quiet /\ scanned' = scanned
  <2>1. CASE MainCreate(w)
    BY <2>1 DEF MainCreate
  <2>2. CASE WorkerFails(w) \/ WorkerOutOfDescriptors(w)
    <3>1. at[w] # "none"
      BY <2>2 DEF WorkerFails, WorkerOutOfDescriptors, Unusable,
                  OutOfDescriptors, Needed
    <3>2. UNCHANGED <<queue, search>> /\ main_pc' = "failed"
      BY <2>2 DEF WorkerFails, WorkerOutOfDescriptors, Exit1
    <3> QED
      BY <3>1, <3>2 DEF RoundInv
  <2> QED
    BY <1>2, <2>1, <2>2
<1>3. ASSUME NEW w \in Worker,
             \/ WorkerReturn(w) \/ WorkerLoadFiles(w)
             \/ WorkerStoreFiles(w) \/ WorkerLoadLines(w)
             \/ WorkerStoreLines(w) \/ WorkerEndScan(w)
      PROVE  Quiet /\ scanned' = scanned
  BY <1>3 DEF WorkerReturn, WorkerLoadFiles, WorkerStoreFiles, WorkerLoadLines,
              WorkerStoreLines, WorkerEndScan, WorkerGoto
<1> QED
  BY <1>1, <1>2, <1>3

LEMMA PlacesStep ==
  ASSUME IInv, IInv', Q!IInv, Q!IInv', ReadInv, PlacesInv, [Next]_vars
  PROVE  PlacesInv'
<1>0. TypeOK /\ TypeOK' /\ CallsInv /\ RoundInv
  BY DEF IInv
<1>1. CASE MainInEnqueue
  <2>1. /\ Q!EnqStep(Main) /\ UNCHANGED <<at, remaining, opened>>
        /\ main_pc' = "start" <=> main_pc = "start"
    BY <1>1 DEF MainInEnqueue, search
  <2> QED
    BY <1>0, <2>1, ThreadIs, CallPlaces
<1>2. ASSUME NEW w \in Worker, WorkerInQueue(w)
      PROVE  PlacesInv'
  <2>1. /\ Q!EnqStep(w) \/ Q!DeqStep(w)
        /\ UNCHANGED <<at, remaining, opened, main_pc>>
    BY <1>2 DEF WorkerInQueue
  <2> QED
    BY <1>0, <2>1, ThreadIs, CallPlaces
<1>3. ASSUME Quiet
      PROVE  PlacesInv'
  <2>1. \A p \in Path : Stays(p)
    BY <1>3, QuietPlaces
  <2>2. Q!items' = Q!items /\ pc' = pc /\ val' = val
    BY <1>3, QueueUnchanged DEF Quiet
  <2> QED
    BY <1>0, <2>1, <2>2, PlacesKept DEF PlacesInv
<1>4. UNCHANGED vars => Quiet
  BY DEF vars, search, Quiet
<1>5. ASSUME NEW w \in Worker, WorkerStep(w)
      PROVE  PlacesInv'
  BY <1>0, <1>2, <1>3, <1>4, <1>5, WorkerOpenPlaces, WorkerDequeuePlaces, ReadPlaces,
     QuietSteps DEF WorkerStep, ReadsEntry, WorkerSpin
<1>6. CASE MainStep
  BY <1>0, <1>1, <1>3, <1>6, MainEnqueuePlaces, QuietSteps DEF MainStep
<1> QED
  BY <1>3, <1>4, <1>5, <1>6 DEF Next, Terminated

LEMMA ReadStep ==
  ASSUME IInv, IInv', Q!IInv, ReadInv, PlacesInv, [Next]_vars
  PROVE  ReadInv'
<1>0. TypeOK /\ TypeOK'
  BY DEF IInv
<1>1. CASE MainEnqueue \/ MainInEnqueue \/ UNCHANGED vars
  <2>1. UNCHANGED <<at, remaining, opened, scanned>>
    BY <1>1 DEF MainEnqueue, MainInEnqueue, search, vars
  <2> QED
    BY <2>1, ReadKept DEF ReadInv
<1>2. CASE \/ MainPlan \/ MainCreated \/ MainCheck
           \/ \E w \in Worker : WorkerFails(w) \/ WorkerOutOfDescriptors(w)
  <2>1. UNCHANGED <<at, remaining, opened, scanned>>
    BY <1>2 DEF MainPlan, MainCreated, MainCheck, WorkerFails, WorkerOutOfDescriptors,
                search
  <2> QED
    BY <2>1, ReadKept DEF ReadInv
<1>3. CASE MainJoin
  <2>1. /\ \A w \in Worker : at[w] \in {"none", "returned"}
        /\ UNCHANGED <<remaining, opened, scanned>>
    BY <1>3 DEF MainJoin
  <2> QED
    BY <2>1, ReadKept DEF ReadInv, InDirectory
<1>4. ASSUME NEW w \in Worker,
             \/ MainCreate(w) \/ WorkerDequeue(w) \/ WorkerInQueue(w)
             \/ WorkerReturn(w) \/ WorkerLoadFiles(w)
             \/ WorkerStoreFiles(w) \/ WorkerLoadLines(w)
             \/ WorkerStoreLines(w) \/ WorkerEndScan(w)
      PROVE  ReadInv'
  <2>1. /\ UNCHANGED <<remaining, opened, scanned>>
        /\ remaining[w] # {} => at'[w] \in InDirectory
        /\ \A v \in Worker \ {w} : at'[v] = at[v]
    BY <1>0, <1>4 DEF MainCreate, WorkerDequeue, WorkerInQueue, WorkerReturn,
       WorkerLoadFiles, WorkerStoreFiles, WorkerLoadLines, WorkerStoreLines,
       WorkerEndScan, WorkerGoto, ReadInv, InDirectory, TypeOK
  <2> QED
    BY <2>1, ReadKept DEF ReadInv
<1>5. ASSUME NEW w \in Worker, WorkerStep(w)
      PROVE  ReadInv'
  BY <1>0, <1>1, <1>2, <1>4, <1>5, OpenReads, EntryReads
     DEF WorkerStep, ReadsEntry, WorkerSpin
<1>6. CASE MainStep
  BY <1>1, <1>2, <1>3, <1>4, <1>6 DEF MainStep
<1> QED
  BY <1>1, <1>5, <1>6 DEF Next, Terminated

-----------------------------------------------------------------------------
(***************************************************************************)
(* The counters.                                                           *)
(***************************************************************************)
LEMMA ProductSize ==
  ASSUME NEW e, NEW h \in Nat
  PROVE  IsFiniteSet({e} \X (1 .. h)) /\ Cardinality({e} \X (1 .. h)) = h
<1> DEFINE g == [k \in 1 .. h |-> <<e, k>>]
<1>1. g \in Bijection(1 .. h, {e} \X (1 .. h))
  <2>1. g \in [1 .. h -> {e} \X (1 .. h)]
    OBVIOUS
  <2>2. \A k, l \in 1 .. h : g[k] = g[l] => k = l
    OBVIOUS
  <2>3. \A x \in {e} \X (1 .. h) : \E k \in 1 .. h : g[k] = x
    OBVIOUS
  <2> QED
    BY <2>1, <2>2, <2>3 DEF Bijection, Injection, Surjection, IsInjective
<1>2. ExistsBijection(1 .. h, {e} \X (1 .. h))
  BY <1>1 DEF ExistsBijection
<1>3. IsFiniteSet(1 .. h) /\ Cardinality(1 .. h) = h
  <2>1. IsFiniteSet(1 .. h) /\ Cardinality(1 .. h) = IF 1 > h THEN 0 ELSE h - 1 + 1
    BY FS_Interval
  <2> QED
    BY <2>1
<1> QED
  BY <1>2, <1>3, FS_Bijection

(* One more block of lines.                                                *)
LEMMA BlocksGrow ==
  ASSUME NEW S, IsFiniteSet(S), NEW e, e \notin S, NEW h,
         \A x \in S \cup {e} : h[x] \in Nat
  PROVE  /\ IsFiniteSet(Blocks(S, h)) /\ Cardinality(Blocks(S, h)) \in Nat
         /\ Cardinality(Blocks(S \cup {e}, h)) = Cardinality(Blocks(S, h)) + h[e]
<1> DEFINE B(x) == {x} \X (1 .. h[x])
           F == {B(x) : x \in S}
           g == [x \in S |-> B(x)]
<1>1. \A x \in S \cup {e} : IsFiniteSet(B(x)) /\ Cardinality(B(x)) = h[x]
  BY ProductSize
<1>2. IsFiniteSet(F)
  <2>1. g \in Surjection(S, F)
    <3> HIDE DEF B
    <3> QED
      BY DEF Surjection
  <2> QED
    BY <2>1, FS_Surjection
<1>3. IsFiniteSet(UNION F)
  <2>1. \A T \in F : IsFiniteSet(T)
    <3> HIDE DEF B
    <3> QED
      BY <1>1
  <2> HIDE DEF F
  <2> QED
    BY <1>2, <2>1, FS_UNION
<1>4. Blocks(S, h) = UNION F
  BY DEF Blocks
<1>5. Blocks(S \cup {e}, h) = Blocks(S, h) \cup B(e)
  BY DEF Blocks
<1>6. Blocks(S, h) \cap B(e) = {}
  BY DEF Blocks
<1>7. IsFiniteSet(B(e)) /\ Cardinality(B(e)) = h[e] /\ h[e] \in Nat
  BY <1>1
<1> HIDE DEF B, F
<1>8. IsFiniteSet(Blocks(S, h)) /\ Cardinality(Blocks(S, h)) \in Nat
  BY <1>3, <1>4, FS_CardinalityType
<1>9. Cardinality(Blocks(S, h) \cup B(e))
        = Cardinality(Blocks(S, h)) + Cardinality(B(e)) - Cardinality(Blocks(S, h) \cap B(e))
  BY <1>7, <1>8, FS_Union
<1>10. Cardinality(Blocks(S, h) \cap B(e)) = 0
  BY <1>6, FS_EmptySet
<1>11. Cardinality(Blocks(S \cup {e}, h)) = Cardinality(Blocks(S, h) \cup B(e))
  BY <1>5
<1>12. Cardinality(Blocks(S, h) \cup B(e)) = Cardinality(Blocks(S, h)) + h[e]
  BY <1>7, <1>8, <1>9, <1>10
<1> QED
  BY <1>8, <1>11, <1>12

(* The lines still to be counted, when those of one worker change.         *)
LEMMA CountingChanges ==
  ASSUME NEW w \in Worker, NEW h, NEW k,
         \A v \in Worker : h[v] \in Nat /\ k[v] \in Nat,
         \A v \in Worker \ {w} : k[v] = h[v]
  PROVE  /\ Cardinality(Blocks(Worker, h)) \in Nat
         /\ Cardinality(Blocks(Worker, k)) = Cardinality(Blocks(Worker, h)) + k[w] - h[w]
<1> DEFINE S == Worker \ {w}
<1>1. IsFiniteSet(S) /\ w \notin S /\ S \cup {w} = Worker
  BY TfindAssumption, FS_Subset
<1>2. Blocks(S, k) = Blocks(S, h)
  BY DEF Blocks
<1> HIDE DEF S
<1>3. /\ Cardinality(Blocks(S, h)) \in Nat
      /\ Cardinality(Blocks(S \cup {w}, h)) = Cardinality(Blocks(S, h)) + h[w]
      /\ Cardinality(Blocks(S \cup {w}, k)) = Cardinality(Blocks(S, k)) + k[w]
  BY <1>1, BlocksGrow
<1>4. h[w] \in Nat /\ k[w] \in Nat
  OBVIOUS
<1> QED
  BY <1>1, <1>2, <1>3, <1>4

LEMMA ScannedSize ==
  ASSUME TypeOK
  PROVE  /\ IsFiniteSet(scanned) /\ Cardinality(scanned) \in Nat
         /\ Cardinality(Filing) \in Nat
         /\ scanned = {} => Cardinality(scanned) = 0
         /\ \A e \in Entry \ scanned : Cardinality(scanned \cup {e}) = Cardinality(scanned) + 1
<1>1. IsFiniteSet(scanned)
  BY TfindAssumption, FS_Subset DEF TypeOK
<1>2. \A e \in Entry \ scanned : Cardinality(scanned \cup {e}) = Cardinality(scanned) + 1
  BY <1>1, FS_AddElement
<1>3. Cardinality(Filing) \in Nat
  BY SetSizes DEF Filing
<1> QED
  BY <1>1, <1>2, <1>3, FS_CardinalityType, FS_EmptySet

(* The lines of the text files, and those still to be counted.             *)
LEMMA HitLinesSize ==
  ASSUME NEW S \in SUBSET Entry, S \cap Dir = {}, \A e \in S : "text" \in Says[e],
         NEW e \in Entry \ S, e \notin Dir, "text" \in Says[e]
  PROVE  /\ Hits[e] \in Nat /\ Cardinality(HitLines(S)) \in Nat
         /\ Cardinality(HitLines(S \cup {e})) = Cardinality(HitLines(S)) + Hits[e]
<1>1. IsFiniteSet(S)
  BY TfindAssumption, FS_Subset
<1>2. \A x \in S \cup {e} : Hits[x] \in Nat
  BY TfindAssumption
<1>3. HitLines(S) = Blocks(S, Hits) /\ HitLines(S \cup {e}) = Blocks(S \cup {e}, Hits)
  BY DEF HitLines, Blocks
<1> QED
  BY <1>1, <1>2, <1>3, BlocksGrow

LEMMA ToCountType ==
  ASSUME TypeOK, ReadInv, LinesInv, scanned \cap Dir = {}, NEW w \in Worker
  PROVE  ToCount(w) \in Nat
<1>1. /\ at[w] \in {"files_load", "files_store"} =>
           entry[w] \in Entry /\ entry[w] \notin Dir /\ "text" \in Says[entry[w]]
      /\ lines_left[w] \in Nat
  BY DEF LinesInv, ReadInv, TypeOK
<1> QED
  BY <1>1, TfindAssumption DEF ToCount

LEMMA HitLinesNat ==
  ASSUME TypeOK, ReadInv, scanned \cap Dir = {}
  PROVE  Cardinality(HitLines(scanned)) \in Nat
<1> DEFINE z == [e \in scanned \cup {NULL} |-> IF e \in scanned THEN Hits[e] ELSE 0]
<1>1. \A e \in scanned : Hits[e] \in Nat
  BY TfindAssumption DEF TypeOK, ReadInv
<1>2. IsFiniteSet(scanned) /\ NULL \notin scanned
  BY ScannedSize, TfindAssumption DEF TypeOK, Path
<1>3. \A e \in scanned \cup {NULL} : z[e] \in Nat
  BY <1>1
<1>4. HitLines(scanned) = Blocks(scanned, z)
  BY DEF HitLines, Blocks
<1> HIDE DEF z
<1> QED
  BY <1>2, <1>3, <1>4, BlocksGrow

(* The steps at which no worker's count of files and lines goes on.        *)
NotCounting ==
  /\ UNCHANGED <<file_count, line_count, scanned>>
  /\ raced' \in {raced, raced \cup {"count"}}
  /\ \A w \in Worker :
       at[w] \in Busy \/ at'[w] \in Busy =>
         /\ at'[w] = at[w] /\ loaded'[w] = loaded[w]
         /\ entry'[w] = entry[w] /\ lines_left'[w] = lines_left[w]

LEMMA CountersKept ==
  ASSUME FilesInv, LinesInv, NotCounting
  PROVE  FilesInv' /\ LinesInv'
<1>1. Filing' = Filing
  BY DEF NotCounting, Filing, Busy
<1>2. FilesInv'
  BY <1>1 DEF FilesInv, NotCounting, Busy
<1>3. \A w \in Worker : ToCount(w)' = ToCount(w)
  BY DEF ToCount, NotCounting, Busy
<1>4. Counting' = Counting
  BY <1>3 DEF Counting
<1>5. HitLines(scanned)' = HitLines(scanned)
  BY DEF NotCounting, HitLines
<1>6. LinesInv'
  BY <1>4, <1>5 DEF LinesInv, NotCounting, Busy
<1> QED
  BY <1>2, <1>6

(* file_count++                                                            *)
LEMMA FilesStep ==
  ASSUME TypeOK, ReadInv, FilesInv, NEW w \in Worker,
         \/ \E e \in Entry : WorkerReadText(w, e)
         \/ WorkerLoadFiles(w) \/ WorkerStoreFiles(w)
         \/ WorkerLoadLines(w) \/ WorkerStoreLines(w) \/ WorkerEndScan(w)
  PROVE  FilesInv'
<1>0. /\ at \in [Worker -> WorkerPC] /\ loaded \in [Worker -> Nat] /\ file_count \in Nat
      /\ Cardinality(scanned) \in Nat /\ Cardinality(Filing) \in Nat
      /\ Filing \subseteq Worker
  BY ScannedSize DEF TypeOK, Filing
<1>1. CASE \E e \in Entry : WorkerReadText(w, e)
  <2>1. PICK e \in Entry : WorkerReadText(w, e)
    BY <1>1
  <2>2. /\ at[w] = "read" /\ at' = [at EXCEPT ![w] = "files_load"]
        /\ scanned' = scanned \cup {e}
        /\ UNCHANGED <<loaded, file_count, raced>>
    BY <2>1 DEF WorkerReadText, ReadEntry, WorkerGoto
  <2>3. e \notin scanned
    BY <2>1, EntryReads DEF ReadsEntry
  <2>4. w \notin Filing /\ Filing' = Filing \cup {w}
    BY <1>0, <2>2 DEF Filing
  <2>5. /\ Cardinality(Filing') = Cardinality(Filing) + 1
        /\ Cardinality(scanned') = Cardinality(scanned) + 1
    BY <1>0, <2>2, <2>3, <2>4, SetSizes, ScannedSize
  <2>6. \A v \in Worker : at'[v] = "files_store" =>
          at[v] = "files_store" /\ loaded'[v] = loaded[v] /\ loaded[v] \in Nat
    BY <1>0, <2>2
  <2>7. file_count' + Cardinality(Filing') <= Cardinality(scanned')
    BY <1>0, <2>2, <2>5 DEF FilesInv
  <2>8. \A v \in Worker : at'[v] = "files_store" =>
          loaded'[v] + Cardinality(Filing') <= Cardinality(scanned')
    BY <1>0, <2>5, <2>6 DEF FilesInv
  <2>9. "files" \notin raced' =>
          file_count' + Cardinality(Filing') = Cardinality(scanned')
    BY <1>0, <2>2, <2>5 DEF FilesInv
  <2> QED
    BY <2>7, <2>8, <2>9 DEF FilesInv
<1>2. CASE WorkerLoadFiles(w)
  <2>1. /\ at[w] = "files_load" /\ at' = [at EXCEPT ![w] = "files_store"]
        /\ loaded' = [loaded EXCEPT ![w] = file_count]
        /\ UNCHANGED <<file_count, raced, scanned>>
    BY <1>2 DEF WorkerLoadFiles, WorkerGoto
  <2>2. Filing' = Filing
    BY <1>0, <2>1 DEF Filing
  <2>3. \A v \in Worker : at'[v] = "files_store" =>
          \/ loaded'[v] = file_count
          \/ at[v] = "files_store" /\ loaded'[v] = loaded[v]
    BY <1>0, <2>1
  <2> QED
    BY <1>0, <2>1, <2>2, <2>3 DEF FilesInv
<1>3. CASE WorkerStoreFiles(w)
  <2>1. /\ at[w] = "files_store" /\ at' = [at EXCEPT ![w] = "scan"]
        /\ file_count' = loaded[w] + 1 /\ scanned' = scanned
        /\ loaded' = [loaded EXCEPT ![w] = 0]
        /\ "files" \notin raced' => "files" \notin raced /\ loaded[w] = file_count
    BY <1>3 DEF WorkerStoreFiles, WorkerGoto, LosesUpdate
  <2>2. w \in Filing /\ Filing' = Filing \ {w}
    BY <1>0, <2>1 DEF Filing
  <2>3. Cardinality(Filing') = Cardinality(Filing) - 1
    BY <1>0, <2>2, SetSizes
  <2>4. \A v \in Worker : at'[v] = "files_store" =>
          at[v] = "files_store" /\ loaded'[v] = loaded[v]
    BY <1>0, <2>1
  <2> QED
    BY <1>0, <2>1, <2>3, <2>4 DEF FilesInv
<1>4. CASE WorkerLoadLines(w) \/ WorkerStoreLines(w) \/ WorkerEndScan(w)
  <2>1. /\ at[w] \in {"scan", "lines_store"}
        /\ \E to \in {"scan", "lines_store", "read"} : at' = [at EXCEPT ![w] = to]
        /\ \A v \in Worker \ {w} : loaded'[v] = loaded[v]
        /\ UNCHANGED <<file_count, scanned>>
        /\ "files" \notin raced' => "files" \notin raced
    BY <1>0, <1>4 DEF WorkerLoadLines, WorkerStoreLines, WorkerEndScan, WorkerGoto,
                      LosesUpdate
  <2>2. Filing' = Filing
    BY <1>0, <2>1 DEF Filing
  <2>3. \A v \in Worker : at'[v] = "files_store" =>
          at[v] = "files_store" /\ loaded'[v] = loaded[v]
    BY <1>0, <2>1
  <2> QED
    BY <1>0, <2>1, <2>2, <2>3 DEF FilesInv
<1> QED
  BY <1>1, <1>2, <1>3, <1>4

(* line_count++ : what is scanned, and what is still to be counted.        *)
LEMMA LinesStep ==
  ASSUME TypeOK, TypeOK', ReadInv, ReadInv', ScanInv, LinesInv, NEW w \in Worker,
         \/ \E e \in Entry : WorkerReadText(w, e)
         \/ WorkerLoadFiles(w) \/ WorkerStoreFiles(w)
         \/ WorkerLoadLines(w) \/ WorkerStoreLines(w) \/ WorkerEndScan(w)
  PROVE  LinesInv'
<1>0. /\ at \in [Worker -> WorkerPC] /\ loaded \in [Worker -> Nat] /\ line_count \in Nat
      /\ lines_left \in [Worker -> Nat] /\ entry \in [Worker -> Entry \cup {NULL}]
      /\ scanned \subseteq Entry /\ \A e \in scanned : "text" \in Says[e]
  BY DEF TypeOK, ReadInv
<1> DEFINE h == [v \in Worker |-> ToCount(v)]
           k == [v \in Worker |-> ToCount(v)']
           Lines == Cardinality(HitLines(scanned))
           Left == Cardinality(Counting)
<1>1. Counting = Blocks(Worker, h) /\ Counting' = Blocks(Worker, k)
  BY DEF Counting, Blocks
<1>2. CASE \E e \in Entry : WorkerReadText(w, e)
  <2>1. PICK e \in Entry : WorkerReadText(w, e)
    BY <1>2
  <2>2. /\ at[w] = "read" /\ at' = [at EXCEPT ![w] = "files_load"]
        /\ entry' = [entry EXCEPT ![w] = e] /\ scanned' = scanned \cup {e}
        /\ UNCHANGED <<loaded, line_count, raced, lines_left>> /\ "text" \in Says[e]
    BY <2>1 DEF WorkerReadText, ReadEntry, WorkerGoto
  <2>3. e \notin scanned
    BY <2>1, EntryReads DEF ReadsEntry
  <2>4. \A v \in Worker : at'[v] \in Busy => entry'[v] \in scanned'
    BY <1>0, <2>2 DEF LinesInv, Busy
  <2>5. ASSUME scanned' \cap Dir = {}
        PROVE  /\ scanned \cap Dir = {} /\ Lines \in Nat /\ Left \in Nat
               /\ \E n \in Nat : Lines' = Lines + n /\ Left' = Left + n
    <3>1. scanned \cap Dir = {} /\ e \notin Dir
      BY <2>2, <2>5
    <3>2. Hits[e] \in Nat /\ Lines \in Nat /\ Lines' = Lines + Hits[e]
      <4>1. /\ Hits[e] \in Nat /\ Cardinality(HitLines(scanned)) \in Nat
            /\ Cardinality(HitLines(scanned \cup {e}))
                 = Cardinality(HitLines(scanned)) + Hits[e]
        BY <1>0, <2>2, <2>3, <3>1, HitLinesSize
      <4>2. HitLines(scanned)' = HitLines(scanned \cup {e})
        BY <2>2 DEF HitLines
      <4> QED
        BY <4>1, <4>2
    <3>3. /\ ToCount(w) = 0 /\ ToCount(w)' = Hits[e]
          /\ \A v \in Worker \ {w} : ToCount(v)' = ToCount(v)
      BY <1>0, <2>2 DEF ToCount
    <3>4. \A v \in Worker : h[v] \in Nat /\ k[v] \in Nat
      BY <3>1, <3>2, <3>3, ToCountType
    <3>5. (\A v \in Worker \ {w} : k[v] = h[v]) /\ h[w] = 0 /\ k[w] = Hits[e]
      BY <3>3
    <3> HIDE DEF h, k
    <3>6. Left \in Nat /\ Left' = Left + k[w] - h[w]
      BY <1>1, <3>4, <3>5, CountingChanges
    <3> QED
      BY <3>1, <3>2, <3>5, <3>6
  <2>6. \A v \in Worker : at'[v] = "lines_store" =>
          at[v] = "lines_store" /\ loaded'[v] = loaded[v]
    BY <1>0, <2>2
  <2> HIDE DEF Lines, Left
  <2>7. ASSUME scanned' \cap Dir = {}
        PROVE  /\ line_count' + Left' <= Lines'
               /\ \A v \in Worker : at'[v] = "lines_store" => loaded'[v] + Left' <= Lines'
               /\ "lines" \notin raced' => line_count' + Left' = Lines'
    <3>1. PICK n \in Nat : Lines' = Lines + n /\ Left' = Left + n
      BY <2>5, <2>7
    <3>2. /\ line_count + Left <= Lines
          /\ \A v \in Worker : at[v] = "lines_store" => loaded[v] + Left <= Lines
          /\ "lines" \notin raced => line_count + Left = Lines
          /\ Left \in Nat /\ Lines \in Nat
      BY <2>5, <2>7 DEF LinesInv, Lines, Left
    <3> QED
      BY <1>0, <2>2, <2>6, <3>1, <3>2
  <2> QED
    BY <2>4, <2>7 DEF LinesInv, Lines, Left, Busy
<1>3. CASE \/ WorkerLoadFiles(w) \/ WorkerStoreFiles(w)
           \/ WorkerLoadLines(w) \/ WorkerEndScan(w)
  <2>1. /\ UNCHANGED <<scanned, line_count>>
        /\ "lines" \notin raced' => "lines" \notin raced
        /\ at[w] \in Busy
        /\ \A v \in Worker \ {w} :
             /\ at'[v] = at[v] /\ entry'[v] = entry[v] /\ lines_left'[v] = lines_left[v]
             /\ loaded'[v] = loaded[v]
        /\ at'[w] \in Busy => entry'[w] = entry[w]
        /\ at'[w] = "lines_store" => loaded'[w] = line_count
    BY <1>0, <1>3 DEF WorkerLoadFiles, WorkerStoreFiles, WorkerLoadLines, WorkerEndScan,
       WorkerGoto, LosesUpdate, Busy
  <2>2. entry[w] \in scanned
    BY <2>1 DEF LinesInv, Busy
  <2>3. ASSUME scanned \cap Dir = {}
        PROVE  /\ Counting' = Counting /\ Lines \in Nat /\ Left \in Nat
    <3>1. ToCount(w)' = ToCount(w)
      <4>1. CASE WorkerLoadFiles(w) \/ WorkerLoadLines(w) \/ WorkerEndScan(w)
        BY <1>0, <4>1 DEF WorkerLoadFiles, WorkerLoadLines, WorkerEndScan, WorkerGoto,
                          ToCount
      <4>2. CASE WorkerStoreFiles(w)
        <5>1. ScanHits(entry[w]) = {Hits[entry[w]]}
          BY <2>2, <2>3 DEF ScanHits
        <5> QED
          BY <1>0, <4>2, <5>1 DEF WorkerStoreFiles, WorkerGoto, ToCount
      <4> QED
        BY <1>3, <4>1, <4>2
    <3>2. \A v \in Worker \ {w} : ToCount(v)' = ToCount(v)
      BY <2>1 DEF ToCount
    <3>3. \A v \in Worker : h[v] \in Nat
      BY <2>3, ToCountType
    <3>4. \A v \in Worker : k[v] = h[v]
      BY <3>1, <3>2
    <3>5. Counting' = Counting
      BY <1>1, <3>4 DEF Blocks
    <3> HIDE DEF h
    <3>6. Left \in Nat
      BY <1>1, <3>3, CountingChanges
    <3>7. Lines \in Nat
      BY <2>3, HitLinesNat
    <3> QED
      BY <3>5, <3>6, <3>7
  <2>4. HitLines(scanned)' = HitLines(scanned)
    BY <2>1 DEF HitLines
  <2>5. \A v \in Worker : at'[v] \in Busy => entry'[v] \in scanned'
    BY <2>1, <2>2 DEF LinesInv, Busy
  <2>6. \A v \in Worker : at'[v] = "lines_store" =>
          \/ loaded'[v] = line_count
          \/ at[v] = "lines_store" /\ loaded'[v] = loaded[v]
    BY <2>1
  <2> QED
    BY <1>0, <2>1, <2>3, <2>4, <2>5, <2>6 DEF LinesInv, Busy
<1>4. CASE WorkerStoreLines(w)
  <2>1. /\ at[w] = "lines_store" /\ at' = [at EXCEPT ![w] = "scan"]
        /\ line_count' = loaded[w] + 1 /\ UNCHANGED <<scanned, entry>>
        /\ loaded' = [loaded EXCEPT ![w] = 0]
        /\ lines_left' = [lines_left EXCEPT ![w] = @ - 1]
        /\ "lines" \notin raced' => "lines" \notin raced /\ loaded[w] = line_count
    BY <1>4 DEF WorkerStoreLines, WorkerGoto, LosesUpdate
  <2>2. lines_left[w] > 0
    BY <2>1 DEF ScanInv
  <2>3. HitLines(scanned)' = HitLines(scanned)
    BY <2>1 DEF HitLines
  <2>4. ASSUME scanned \cap Dir = {}
        PROVE  Left \in Nat /\ Left' = Left - 1
    <3>1. /\ ToCount(w) = lines_left[w] /\ ToCount(w)' = lines_left[w] - 1
          /\ \A v \in Worker \ {w} : ToCount(v)' = ToCount(v)
      BY <1>0, <2>1 DEF ToCount
    <3>2. \A v \in Worker : h[v] \in Nat /\ k[v] \in Nat
      BY <1>0, <2>2, <2>4, <3>1, ToCountType
    <3>3. (\A v \in Worker \ {w} : k[v] = h[v]) /\ k[w] = h[w] - 1
      BY <3>1
    <3> HIDE DEF h, k
    <3>4. Left \in Nat /\ Left' = Left + k[w] - h[w]
      BY <1>1, <3>2, <3>3, CountingChanges
    <3>5. h[w] \in Nat
      BY <3>2
    <3> QED
      BY <3>3, <3>4, <3>5
  <2>5. \A v \in Worker : at'[v] = "lines_store" =>
          at[v] = "lines_store" /\ loaded'[v] = loaded[v]
    BY <1>0, <2>1
  <2>6. \A v \in Worker : at'[v] \in Busy => entry'[v] \in scanned'
    BY <1>0, <2>1 DEF LinesInv, Busy
  <2>7. scanned \cap Dir = {} => Lines \in Nat
    BY HitLinesNat
  <2> QED
    BY <1>0, <2>1, <2>3, <2>4, <2>5, <2>6, <2>7 DEF LinesInv, Busy
<1> QED
  BY <1>2, <1>3, <1>4

LEMMA CountersStep ==
  ASSUME IInv, IInv', ReadInv, ReadInv', FilesInv, LinesInv, [Next]_vars
  PROVE  FilesInv' /\ LinesInv'
<1>0. TypeOK /\ TypeOK' /\ RoundInv /\ ScanInv
  BY DEF IInv
<1>1. UNCHANGED search => NotCounting
  BY DEF search, NotCounting
<1>2. CASE MainStep
  <2>1. CASE MainJoin
    BY <2>1, CountersKept DEF MainJoin, NotCounting, Busy
  <2>2. ASSUME NEW w \in Worker, MainCreate(w)
        PROVE  NotCounting
    BY <1>0, <2>2 DEF MainCreate, NotCounting, Busy, TypeOK
  <2>3. CASE MainEnqueue \/ MainInEnqueue \/ MainPlan \/ MainCreated \/ MainCheck
    BY <1>1, <2>3, CountersKept DEF MainEnqueue, MainInEnqueue, MainPlan, MainCreated,
                                    MainCheck
  <2> QED
    BY <1>2, <2>1, <2>2, <2>3, CountersKept DEF MainStep
<1>3. ASSUME NEW w \in Worker, WorkerStep(w)
      PROVE  FilesInv' /\ LinesInv'
  <2>1. CASE WorkerFails(w) \/ WorkerOutOfDescriptors(w) \/ WorkerSpin(w)
    BY <1>1, <2>1, CountersKept DEF WorkerFails, WorkerOutOfDescriptors, WorkerSpin, vars
  <2>2. CASE \/ WorkerDequeue(w) \/ WorkerOpen(w) \/ WorkerReturn(w)
             \/ \E e \in Entry : WorkerReadDirectory(w, e) \/ WorkerReadOther(w, e)
    <3>1. NotCounting
      BY <1>0, <2>2 DEF WorkerDequeue, WorkerOpen, WorkerReturn, WorkerReadDirectory,
         WorkerReadOther, ReadEntry, WorkerGoto, NotCounting, Busy, TypeOK
    <3> QED
      BY <3>1, CountersKept
  <2>3. CASE WorkerInQueue(w)
    <3>1. NotCounting
      BY <2>3 DEF WorkerInQueue, LosesUpdate, NotCounting, Busy
    <3> QED
      BY <3>1, CountersKept
  <2>4. CASE \/ \E e \in Entry : WorkerReadText(w, e)
             \/ WorkerLoadFiles(w) \/ WorkerStoreFiles(w)
             \/ WorkerLoadLines(w) \/ WorkerStoreLines(w) \/ WorkerEndScan(w)
    BY <1>0, <2>4, FilesStep, LinesStep
  <2> QED
    BY <1>3, <2>1, <2>2, <2>3, <2>4 DEF WorkerStep
<1>4. CASE UNCHANGED vars
  BY <1>1, <1>4, CountersKept DEF vars
<1> QED
  BY <1>2, <1>3, <1>4 DEF Next, Terminated

-----------------------------------------------------------------------------
(***************************************************************************)
(* The queue's count, and the Dequeues of a round.                         *)
(***************************************************************************)
LEMMA CountKept ==
  ASSUME CountInv, UNCHANGED <<Q!items, count>>,
         Added' = Added, Taken' = Taken, "count" \notin raced' => "count" \notin raced,
         pc'[Main] = "e_store" => pc[Main] = "e_store" /\ reg'[Main] = reg[Main]
  PROVE  CountInv'
BY DEF CountInv

(* A step of a call that counts right, while main's is the only one or     *)
(* main is in none.                                                        *)
LEMMA CallCount ==
  ASSUME Q!IInv, Q!IInv', CountInv, NEW t \in Thread,
         Q!EnqStep(t) \/ Q!DeqStep(t),
         t # Main => pc[Main] = "idle",
         "count" \notin raced' =>
           /\ "count" \notin raced
           /\ t # Main /\ pc[t] \in {"e_store", "d_store"} => reg[t] = count,
         t = Main => pc[Main] \in Q!EnqPC
  PROVE  CountInv'
<1>0. /\ pc \in [Thread -> Q!PC] /\ reg \in [Thread -> Int] /\ count \in Int
      /\ Added \subseteq Thread /\ Taken \subseteq Thread
      /\ Q!items \in Seq(Path \cup {NULL}) /\ Len(Q!items) \in Nat
      /\ Cardinality(Added) \in Nat /\ Cardinality(Taken) \in Nat
      /\ Main \in Thread
  BY ItemsAre, ThreadFinite, ThreadIs DEF Q!IInv, Q!TypeOK, Added, Taken
<1>1. CASE LinkStep(t)
  <2>1. /\ pc[t] = "e_link" /\ pc' = [pc EXCEPT ![t] = "e_swing"] /\ val[t] \in Path
        /\ Q!items' = Append(Q!items, val[t]) /\ UNCHANGED <<reg, count>>
    BY <1>1 DEF LinkStep, Q!Goto, Q!IInv, Q!LocalsInv, Q!EnqPC
  <2>2. t \notin Added /\ Added' = Added \cup {t} /\ Taken' = Taken
    BY <1>0, <2>1 DEF Added, Taken
  <2>3. Cardinality(Added') = Cardinality(Added) + 1
    BY <1>0, <2>2, ThreadFinite
  <2>4. Len(Q!items') = Len(Q!items) + 1
    BY <1>0, <2>1, AppendProperties
  <2>5. pc'[Main] # "e_store" \/ pc[Main] = "e_store"
    BY <1>0, <2>1
  <2> QED
    BY <1>0, <2>1, <2>2, <2>3, <2>4, <2>5 DEF CountInv
<1>2. CASE TakeStep(t)
  <2>1. /\ pc[t] = "d_take" /\ pc' = [pc EXCEPT ![t] = "d_load"]
        /\ Q!items # <<>> /\ Q!items' = Tail(Q!items) /\ UNCHANGED <<reg, count>>
    BY <1>2 DEF TakeStep, Q!Goto
  <2>2. t \notin Taken /\ Taken' = Taken \cup {t} /\ Added' = Added
    BY <1>0, <2>1 DEF Added, Taken
  <2>3. Cardinality(Taken') = Cardinality(Taken) + 1
    BY <1>0, <2>2, ThreadFinite
  <2>4. Len(Q!items') = Len(Q!items) - 1
    BY <1>0, <2>1, HeadTailProperties
  <2>5. pc'[Main] # "e_store" \/ pc[Main] = "e_store"
    BY <1>0, <2>1
  <2>6. "count" \notin raced' =>
          count' + Cardinality(Added') = Len(Q!items') + Cardinality(Taken')
    <3>1. count' = count /\ Cardinality(Added') = Cardinality(Added)
      BY <2>1, <2>2
    <3>2. "count" \notin raced' =>
            count + Cardinality(Added) = Len(Q!items) + Cardinality(Taken)
      BY DEF CountInv
    <3> QED
      BY <1>0, <2>3, <2>4, <3>1, <3>2
  <2> QED
    BY <2>1, <2>5, <2>6 DEF CountInv
<1>3. CASE LoadStep(t)
  <2>1. /\ \/ pc[t] = "e_load" /\ pc' = [pc EXCEPT ![t] = "e_store"]
           \/ pc[t] = "d_load" /\ pc' = [pc EXCEPT ![t] = "d_store"]
        /\ reg' = [reg EXCEPT ![t] = count] /\ UNCHANGED <<Q!items, count>>
    BY <1>3 DEF LoadStep, Q!Goto
  <2>2. Added' = Added /\ Taken' = Taken
    BY <1>0, <2>1 DEF Added, Taken
  <2>3. pc'[Main] = "e_store" =>
          \/ reg'[Main] = count
          \/ pc[Main] = "e_store" /\ reg'[Main] = reg[Main]
    BY <1>0, <2>1
  <2> QED
    BY <2>1, <2>2, <2>3 DEF CountInv
<1>4. CASE StoreStep(t)
  <2>1. /\ \/ /\ pc[t] = "e_store" /\ pc' = [pc EXCEPT ![t] = "e_unlock"]
              /\ count' = reg[t] + 1
           \/ /\ pc[t] = "d_store" /\ pc' = [pc EXCEPT ![t] = "d_unlock"]
              /\ count' = reg[t] - 1
        /\ Q!items' = Q!items
    BY <1>4 DEF StoreStep, Q!Goto
  <2>2. "count" \notin raced' => reg[t] = count
    <3>1. t = Main => pc[t] = "e_store"
      BY <2>1 DEF Q!EnqPC
    <3> QED
      BY <2>1, <3>1 DEF CountInv
  <2>3. pc'[Main] # "e_store"
    BY <1>0, <2>1
  <2>4. CASE pc[t] = "e_store"
    <3>1. t \in Added /\ Added' = Added \ {t} /\ Taken' = Taken
      BY <1>0, <2>1, <2>4 DEF Added, Taken
    <3>2. Cardinality(Added') = Cardinality(Added) - 1
      BY <1>0, <3>1, ThreadFinite
    <3>3. "count" \notin raced' =>
            count' + Cardinality(Added') = Len(Q!items') + Cardinality(Taken')
      <4>1. "count" \notin raced' =>
              /\ count' = count + 1
              /\ count + Cardinality(Added) = Len(Q!items) + Cardinality(Taken)
        BY <2>1, <2>2, <2>4 DEF CountInv
      <4>2. Len(Q!items') = Len(Q!items) /\ Cardinality(Taken') = Cardinality(Taken)
        BY <2>1, <3>1
      <4> QED
        BY <1>0, <3>2, <4>1, <4>2
    <3> QED
      BY <2>3, <3>3 DEF CountInv
  <2>5. CASE pc[t] = "d_store"
    <3>1. t \in Taken /\ Taken' = Taken \ {t} /\ Added' = Added
      BY <1>0, <2>1, <2>5 DEF Added, Taken
    <3>2. Cardinality(Taken') = Cardinality(Taken) - 1
      BY <1>0, <3>1, ThreadFinite
    <3>3. "count" \notin raced' =>
            count' + Cardinality(Added') = Len(Q!items') + Cardinality(Taken')
      <4>1. "count" \notin raced' =>
              /\ count' = count - 1
              /\ count + Cardinality(Added) = Len(Q!items) + Cardinality(Taken)
        BY <2>1, <2>2, <2>5 DEF CountInv
      <4>2. Len(Q!items') = Len(Q!items) /\ Cardinality(Added') = Cardinality(Added)
        BY <2>1, <3>1
      <4> QED
        BY <1>0, <3>2, <4>1, <4>2
    <3> QED
      BY <2>3, <3>3 DEF CountInv
  <2> QED
    BY <2>1, <2>4, <2>5
<1>5. CASE OtherStep(t)
  <2>1. /\ pc' = [pc EXCEPT ![t] = pc'[t]] /\ UNCHANGED <<Q!items, reg, count>>
        /\ pc[t] \in {"e_swing", "e_load", "e_store"} <=>
             pc'[t] \in {"e_swing", "e_load", "e_store"}
        /\ pc[t] \notin {"d_load", "d_store"} /\ pc'[t] \notin {"d_load", "d_store"}
        /\ pc'[t] # "e_store"
    BY <1>0, <1>5 DEF OtherStep, Q!Goto
  <2>2. Added' = Added /\ Taken' = Taken
    BY <1>0, <2>1 DEF Added, Taken
  <2>3. pc'[Main] = "e_store" => pc[Main] = "e_store"
    BY <1>0, <2>1
  <2> QED
    BY <2>1, <2>2, <2>3, CountKept
<1> QED
  BY <1>1, <1>2, <1>3, <1>4, <1>5, CallSteps

LEMMA CountStep ==
  ASSUME IInv, IInv', Q!IInv, Q!IInv', CountInv, [Next]_vars
  PROVE  CountInv'
<1>0. /\ TypeOK /\ CallsInv /\ RoundInv /\ Main \in Thread
      /\ pc \in [Thread -> Q!PC] /\ reg \in [Thread -> Int] /\ Q!TypeOK
  BY ThreadIs DEF IInv, Q!IInv, Q!TypeOK
<1>1. ASSUME UNCHANGED queue, "count" \notin raced' => "count" \notin raced
      PROVE  CountInv'
  BY <1>1, QueueUnchanged, CountKept DEF Added, Taken
<1>2. ASSUME NEW t \in Thread, (\E d \in Path : Q!EnqCall(t, d)) \/ Q!DeqCall(t),
             raced' = raced
      PROVE  CountInv'
  <2>1. /\ UNCHANGED <<Q!items, count, reg>> /\ pc[t] = "idle"
        /\ \E c \in {"e_lock", "d_lock"} : pc' = [pc EXCEPT ![t] = c]
    BY <1>2, CallBegins DEF Q!Goto
  <2>2. Added' = Added /\ Taken' = Taken
    BY <1>0, <2>1 DEF Added, Taken
  <2>3. pc'[Main] = "e_store" => pc[Main] = "e_store"
    BY <1>0, <2>1
  <2> QED
    BY <1>2, <2>1, <2>2, <2>3, CountKept
<1>3. CASE MainEnqueue
  BY <1>0, <1>2, <1>3 DEF MainEnqueue, search, Path
<1>4. CASE MainInEnqueue
  <2>1. Q!EnqStep(Main) /\ raced' = raced
    BY <1>4 DEF MainInEnqueue, search
  <2>2. pc[Main] \in Q!EnqPC
    BY <2>1 DEF Q!EnqStep, Q!EnqLock, Q!EnqLink, Q!EnqSwing, Q!EnqLoadCount,
                Q!EnqStoreCount, Q!EnqUnlock, Q!Goto, Q!EnqPC
  <2> QED
    BY <1>0, <2>1, <2>2, CallCount
<1>5. CASE MainPlan \/ MainCreated \/ MainJoin \/ MainCheck \/ UNCHANGED vars
  BY <1>1, <1>5 DEF MainPlan, MainCreated, MainJoin, MainCheck, search, vars
<1>6. ASSUME NEW w \in Worker, MainCreate(w)
      PROVE  CountInv'
  BY <1>1, <1>6 DEF MainCreate
<1>7. ASSUME NEW w \in Worker, WorkerStep(w)
      PROVE  CountInv'
  <2>1. CASE WorkerInQueue(w)
    <3>1. /\ Q!EnqStep(w) \/ Q!DeqStep(w)
          /\ Running
          /\ "count" \notin raced' =>
               /\ "count" \notin raced
               /\ pc[w] \in {"e_store", "d_store"} => reg[w] = count
      BY <2>1 DEF WorkerInQueue, LosesUpdate
    <3>2. at[w] # "none"
      <4>1. pc[w] \in Q!EnqPC \cup Q!DeqPC
        BY <3>1 DEF Q!EnqStep, Q!EnqLock, Q!EnqLink, Q!EnqSwing, Q!EnqLoadCount,
           Q!EnqStoreCount, Q!EnqUnlock, Q!Goto, Q!EnqPC, Q!DeqStep, Q!DeqLock,
           Q!DeqRead, Q!DeqEmpty, Q!DeqTake, Q!DeqLoadCount, Q!DeqStoreCount,
           Q!DeqUnlock, Q!DeqFree, Q!DeqPC
      <4> QED
        BY <1>0, <4>1 DEF CallsInv
    <3>3. pc[Main] = "idle"
      BY <1>0, <2>1, <3>2, WorkerRuns DEF WorkerInQueue
    <3> QED
      BY <3>1, <3>3, ThreadIs, CallCount
  <2>2. CASE WorkerDequeue(w) \/ \E e \in Entry : WorkerReadDirectory(w, e)
    BY <1>2, <2>2, ThreadIs DEF WorkerDequeue, WorkerReadDirectory, Path
  <2>3. CASE \/ WorkerOpen(w) \/ WorkerFails(w) \/ WorkerOutOfDescriptors(w)
             \/ \E e \in Entry : WorkerReadText(w, e) \/ WorkerReadOther(w, e)
    BY <1>1, <2>3 DEF WorkerOpen, WorkerFails, WorkerOutOfDescriptors,
                      WorkerReadText, WorkerReadOther, search
  <2>4. CASE \/ WorkerReturn(w) \/ WorkerLoadFiles(w) \/ WorkerStoreFiles(w)
             \/ WorkerLoadLines(w) \/ WorkerStoreLines(w) \/ WorkerEndScan(w)
    BY <1>1, <2>4 DEF WorkerReturn, WorkerLoadFiles, WorkerStoreFiles, WorkerLoadLines,
                      WorkerStoreLines, WorkerEndScan, LosesUpdate
  <2> QED
    BY <1>5, <1>7, <2>1, <2>2, <2>3, <2>4 DEF WorkerStep, WorkerSpin
<1> QED
  BY <1>3, <1>4, <1>5, <1>6, <1>7 DEF Next, MainStep, Terminated

(* The queue holds a path for every Dequeue the round has still to do.     *)
LEMMA EnoughKept ==
  ASSUME TypeOK, TypeOK', Q!IInv, EnoughInv, Q!items' = Q!items, to_create' = to_create,
         "count" \notin raced' => "count" \notin raced,
         \A w \in Worker :
           /\ pc'[w] = pc[w] \/ pc'[w] = "e_lock"
           /\ at'[w] = "start" <=> at[w] = "start"
           /\ at'[w] = "dequeue" => at[w] = "dequeue" /\ pc'[w] = pc[w] /\ val'[w] = val[w]
           /\ pc'[w] = "e_lock" => pc[w] \notin Q!DeqPC
  PROVE  EnoughInv'
<1>1. Before' = Before
  BY DEF Before, Q!DeqPC
<1> QED
  BY <1>1 DEF EnoughInv

LEMMA EnoughCall ==
  ASSUME TypeOK, CallsInv, Q!IInv, Q!IInv', PlacesInv, EnoughInv, NEW t \in Thread,
         Q!EnqStep(t) \/ Q!DeqStep(t), UNCHANGED <<at, to_create>>,
         "count" \notin raced' => "count" \notin raced
  PROVE  EnoughInv'
<1>0. /\ pc \in [Thread -> Q!PC] /\ val \in [Thread -> Path \cup {NULL}]
      /\ Q!items \in Seq(Path \cup {NULL}) /\ Len(Q!items) \in Nat
      /\ to_create \in Nat /\ Before \subseteq Worker /\ Cardinality(Before) \in Nat
      /\ \A w \in Worker : w \in Thread
      /\ t # Main => t \in Worker
  BY ItemsAre, SetSizes, ThreadIs
     DEF Q!IInv, Q!TypeOK, TypeOK, Before, Thread
<1>1. CASE LinkStep(t)
  <2>1. /\ pc[t] = "e_link" /\ pc' = [pc EXCEPT ![t] = "e_swing"] /\ val[t] \in Path
        /\ Q!items' = Append(Q!items, val[t]) /\ val' = val
    BY <1>1 DEF LinkStep, Q!Goto, Q!IInv, Q!LocalsInv, Q!EnqPC
  <2>2. Before' = Before
    BY <1>0, <2>1 DEF Before
  <2>3. Len(Q!items') = Len(Q!items) + 1
    BY <1>0, <2>1, AppendProperties
  <2>4. "count" \notin raced' => to_create' + Cardinality(Before') <= Len(Q!items')
    BY <1>0, <2>2, <2>3 DEF EnoughInv
  <2>5. "count" \notin raced' =>
          \A w \in Worker :
            /\ pc'[w] # "d_empty"
            /\ at'[w] = "dequeue" /\ pc'[w] = "idle" => val'[w] \in Path
    BY <1>0, <2>1 DEF EnoughInv
  <2> QED
    BY <2>4, <2>5 DEF EnoughInv
<1>2. CASE TakeStep(t)
  <2>1. /\ pc[t] = "d_take" /\ pc' = [pc EXCEPT ![t] = "d_load"]
        /\ Q!items # <<>> /\ Q!items' = Tail(Q!items)
        /\ val' = [val EXCEPT ![t] = Head(Q!items)]
    BY <1>2 DEF TakeStep, Q!Goto
  <2>2. t \in Worker /\ at[t] = "dequeue"
    BY <2>1 DEF CallsInv, Thread, Q!EnqPC, Q!DeqPC
  <2>3. t \in Before /\ Before' = Before \ {t}
    BY <1>0, <2>1, <2>2 DEF Before
  <2>4. Cardinality(Before') = Cardinality(Before) - 1
    BY <1>0, <2>3, SetSizes
  <2>5. Len(Q!items') = Len(Q!items) - 1
    BY <1>0, <2>1, HeadTailProperties
  <2>6. "count" \notin raced' => to_create' + Cardinality(Before') <= Len(Q!items')
    BY <1>0, <2>4, <2>5 DEF EnoughInv
  <2>7. "count" \notin raced' =>
          \A w \in Worker :
            /\ pc'[w] # "d_empty"
            /\ at'[w] = "dequeue" /\ pc'[w] = "idle" => val'[w] \in Path
    BY <1>0, <2>1 DEF EnoughInv
  <2> QED
    BY <2>6, <2>7 DEF EnoughInv
<1>3. CASE LoadStep(t) \/ StoreStep(t) \/ OtherStep(t)
  <2>1. /\ pc' = [pc EXCEPT ![t] = pc'[t]] /\ Q!items' = Q!items
        /\ val' = val \/ (pc[t] = "e_unlock" /\ val' = [val EXCEPT ![t] = NULL])
        /\ \/ pc'[t] = "d_empty" /\ pc[t] = "d_read" /\ Q!items = <<>>
           \/ /\ pc[t] \in {"d_lock", "d_read", "d_take"}
              /\ pc'[t] \in {"d_lock", "d_read", "d_take"}
           \/ /\ pc[t] \notin {"d_lock", "d_read", "d_take"}
              /\ pc'[t] \notin {"d_lock", "d_read", "d_take", "d_empty"}
        /\ pc'[t] = "idle" => pc[t] \in {"e_unlock", "d_empty", "d_free"}
    BY <1>0, <1>3 DEF LoadStep, StoreStep, OtherStep, Q!Goto
  <2>2. ASSUME "count" \notin raced'
        PROVE  pc'[t] # "d_empty" \/ t = Main
    <3> SUFFICES ASSUME pc'[t] = "d_empty", t # Main
                 PROVE  FALSE
      OBVIOUS
    <3>1. t \in Before
      BY <1>0, <2>1 DEF Before
    <3>2. Cardinality(Before) # 0
      BY <1>0, <3>1, SetSizes
    <3>3. to_create + Cardinality(Before) <= Len(Q!items) /\ Len(Q!items) = 0
      BY <2>1, <2>2 DEF EnoughInv
    <3> QED
      BY <1>0, <3>2, <3>3
  <2>3. ASSUME "count" \notin raced'
        PROVE  Before' = Before
    BY <1>0, <2>1, <2>2, <2>3, ThreadIs DEF Before
  <2>4. ASSUME "count" \notin raced', NEW w \in Worker
        PROVE  /\ pc'[w] # "d_empty"
               /\ at'[w] = "dequeue" /\ pc'[w] = "idle" => val'[w] \in Path
    <3>1. CASE w = t
      <4>1. pc'[w] # "d_empty"
        BY <2>2, <2>4, <3>1, ThreadIs
      <4>2. ASSUME at'[w] = "dequeue", pc'[w] = "idle"
            PROVE  val'[w] \in Path
        <5>1. pc[w] \in {"e_unlock", "d_empty", "d_free"} /\ at[w] = "dequeue"
          BY <2>1, <3>1, <4>2
        <5>2. pc[w] # "e_unlock"
          BY <5>1 DEF CallsInv, Q!EnqPC
        <5>3. pc[w] # "d_empty"
          BY <2>4 DEF EnoughInv
        <5>4. val[w] \in Path
          BY <5>1, <5>2, <5>3 DEF PlacesInv
        <5> QED
          BY <2>1, <3>1, <5>2, <5>4
      <4> QED
        BY <4>1, <4>2
    <3>2. CASE w # t
      <4>1. pc'[w] = pc[w] /\ val'[w] = val[w]
        BY <1>0, <2>1, <3>2
      <4> QED
        BY <2>4, <4>1 DEF EnoughInv
    <3> QED
      BY <3>1, <3>2
  <2> QED
    BY <2>1, <2>3, <2>4 DEF EnoughInv
<1> QED
  BY <1>1, <1>2, <1>3, CallSteps

(* While no call is on its way and no update was lost, count is exact.     *)
LEMMA CountExact ==
  ASSUME Q!IInv, CountInv, "count" \notin raced, \A t \in Thread : pc[t] = "idle"
  PROVE  count = Len(Q!items)
<1>1. Added = {} /\ Taken = {}
  BY DEF Added, Taken
<1>2. Cardinality(Added) = 0 /\ Cardinality(Taken) = 0
  BY <1>1, FS_EmptySet
<1>3. count \in Int /\ Len(Q!items) \in Nat
  BY ItemsAre DEF Q!IInv, Q!TypeOK
<1>4. count + Cardinality(Added) = Len(Q!items) + Cardinality(Taken)
  BY DEF CountInv
<1> QED
  BY <1>2, <1>3, <1>4

(* Between two rounds no thread is in a call.                              *)
LEMMA AllIdle ==
  ASSUME TypeOK, CallsInv, RoundInv, Q!TypeOK, main_pc \in {"plan", "check", "finished"}
  PROVE  /\ \A t \in Thread : pc[t] = "idle"
         /\ \A w \in Worker : at[w] = "none"
         /\ to_create = 0
<1>1. to_create = 0 /\ (\A w \in Worker : at[w] = "none") /\ pc[Main] = "idle"
  BY DEF RoundInv, CallsInv
<1>2. \A w \in Worker : pc[w] = "idle"
  BY <1>1, NothingDue
<1> QED
  BY <1>1, <1>2 DEF Thread

LEMMA EnoughStep ==
  ASSUME IInv, IInv', Q!IInv, Q!IInv', PlacesInv, CountInv, EnoughInv, [Next]_vars
  PROVE  EnoughInv'
<1>0. /\ TypeOK /\ TypeOK' /\ CallsInv /\ RoundInv /\ Main \in Thread /\ Q!TypeOK
      /\ pc \in [Thread -> Q!PC] /\ val \in [Thread -> Path \cup {NULL}]
      /\ at \in [Worker -> WorkerPC] /\ to_create \in Nat
      /\ Before \subseteq Worker /\ Cardinality(Before) \in Nat /\ Len(Q!items) \in Nat
  <2>1. TypeOK /\ TypeOK' /\ CallsInv /\ RoundInv /\ Main \in Thread
    BY ThreadIs DEF IInv
  <2>2. /\ Q!TypeOK /\ pc \in [Thread -> Q!PC] /\ val \in [Thread -> Path \cup {NULL}]
    BY DEF Q!IInv, Q!TypeOK
  <2>3. at \in [Worker -> WorkerPC] /\ to_create \in Nat
    BY <2>1, SetSizes DEF TypeOK
  <2>4. Before \subseteq Worker /\ Cardinality(Before) \in Nat
    BY SetSizes DEF Before
  <2> QED
    BY <2>1, <2>2, <2>3, <2>4, ItemsAre
<1>1. CASE MainEnqueue
  <2>1. /\ Q!EnqCall(Main, Root) /\ Root \in Path /\ UNCHANGED <<at, raced, to_create>>
    BY <1>1 DEF MainEnqueue, search, Path
  <2>2. /\ Q!items' = Q!items /\ pc' = [pc EXCEPT ![Main] = "e_lock"]
        /\ val' = [val EXCEPT ![Main] = Root]
    BY <1>0, <2>1, CallBegins DEF Q!Goto
  <2>3. \A w \in Worker : pc'[w] = pc[w] /\ val'[w] = val[w]
    BY <1>0, <2>2, ThreadIs
  <2>4. \A w \in Worker : at[w] = "none"
    BY <1>0, <1>1 DEF RoundInv, MainEnqueue, MainGoto
  <2>5. \A w \in Worker : pc[w] \notin Q!DeqPC
    BY <1>0, <2>4 DEF CallsInv
  <2> QED
    BY <1>0, <2>1, <2>2, <2>3, <2>5, EnoughKept
<1>2. CASE MainInEnqueue
  <2>1. Q!EnqStep(Main) /\ UNCHANGED <<at, raced, to_create>>
    BY <1>2 DEF MainInEnqueue, search
  <2> QED
    BY <1>0, <2>1, EnoughCall
<1>3. CASE MainPlan
  <2>1. /\ UNCHANGED <<Q!items, pc, val, at, raced>> /\ main_pc = "plan"
        /\ to_create' <= count
    <3>1. count \in Int /\ Cardinality(Worker) \in Nat
      BY <1>0, SetSizes DEF Q!TypeOK
    <3> QED
      BY <1>3, <3>1, QueueUnchanged DEF MainPlan, MainGoto, search
  <2>2. /\ \A t \in Thread : pc[t] = "idle"
        /\ \A w \in Worker : at[w] = "none"
    BY <1>0, <2>1, AllIdle
  <2>3. Before' = {}
    BY <2>1, <2>2, ThreadIs DEF Before
  <2>4. Cardinality(Before') = 0
    BY <2>3, FS_EmptySet
  <2>5. "count" \notin raced => count = Len(Q!items)
    BY <2>2, CountExact
  <2>6. to_create' \in Nat
    BY <1>0 DEF TypeOK
  <2>7. "count" \notin raced' => to_create' + Cardinality(Before') <= Len(Q!items')
    BY <1>0, <2>1, <2>4, <2>5, <2>6
  <2> QED
    BY <2>1, <2>2, <2>7, ThreadIs DEF EnoughInv
<1>4. ASSUME NEW w \in Worker, MainCreate(w)
      PROVE  EnoughInv'
  <2>1. /\ UNCHANGED <<Q!items, pc, val, raced>> /\ to_create' = to_create - 1
        /\ at[w] = "none" /\ at' = [at EXCEPT ![w] = "start"]
    BY <1>4, QueueUnchanged DEF MainCreate
  <2>2. pc[w] = "idle"
    <3>1. pc[w] \in Q!PC
      BY <1>0, ThreadIs
    <3> QED
      BY <1>0, <2>1, <3>1 DEF CallsInv, Q!PC
  <2>3. w \notin Before /\ Before' = Before \cup {w}
    BY <1>0, <2>1, <2>2 DEF Before
  <2>4. Cardinality(Before') = Cardinality(Before) + 1
    BY <1>0, <2>3, SetSizes
  <2>5. "count" \notin raced' => to_create' + Cardinality(Before') <= Len(Q!items')
    BY <1>0, <2>1, <2>4 DEF EnoughInv
  <2>6. \A v \in Worker : at'[v] = "dequeue" => at[v] = "dequeue"
    BY <1>0, <2>1
  <2> QED
    BY <2>1, <2>5, <2>6 DEF EnoughInv
<1>5. ASSUME NEW w \in Worker, WorkerDequeue(w)
      PROVE  EnoughInv'
  <2>1. /\ Q!DeqCall(w) /\ at[w] = "start" /\ at' = [at EXCEPT ![w] = "dequeue"]
        /\ UNCHANGED <<to_create, raced>>
    BY <1>5 DEF WorkerDequeue, WorkerGoto
  <2>2. /\ Q!items' = Q!items /\ pc' = [pc EXCEPT ![w] = "d_lock"]
        /\ val' = [val EXCEPT ![w] = NULL]
    BY <2>1, ThreadIs, CallBegins DEF Q!Goto
  <2>3. /\ pc'[w] = "d_lock" /\ at'[w] = "dequeue"
        /\ \A v \in Worker \ {w} : pc'[v] = pc[v] /\ val'[v] = val[v] /\ at'[v] = at[v]
    BY <1>0, <2>1, <2>2, ThreadIs
  <2>4. Before' = Before
    BY <2>1, <2>3 DEF Before
  <2> QED
    BY <2>1, <2>2, <2>3, <2>4 DEF EnoughInv
<1>6. ASSUME NEW w \in Worker, NEW e \in Entry, WorkerReadDirectory(w, e)
      PROVE  EnoughInv'
  <2>1. /\ Q!EnqCall(w, e) /\ e \in Path /\ at[w] = "read" /\ at' = [at EXCEPT ![w] = "read"]
        /\ UNCHANGED <<to_create, raced>>
    BY <1>6 DEF WorkerReadDirectory, ReadEntry, WorkerGoto, Path
  <2>2. /\ Q!items' = Q!items /\ pc[w] = "idle" /\ pc' = [pc EXCEPT ![w] = "e_lock"]
        /\ val' = [val EXCEPT ![w] = e]
    BY <2>1, ThreadIs, CallBegins DEF Q!Goto
  <2>3. /\ pc'[w] = "e_lock" /\ at'[w] = "read"
        /\ \A v \in Worker \ {w} : pc'[v] = pc[v] /\ val'[v] = val[v] /\ at'[v] = at[v]
    BY <1>0, <2>1, <2>2, ThreadIs
  <2>4. \A v \in Worker : pc'[v] = "e_lock" => pc[v] \notin Q!DeqPC
    BY <2>2, <2>3 DEF Q!DeqPC
  <2> QED
    BY <1>0, <2>1, <2>2, <2>3, <2>4, EnoughKept
<1>7. ASSUME NEW w \in Worker, WorkerInQueue(w)
      PROVE  EnoughInv'
  <2>1. /\ Q!EnqStep(w) \/ Q!DeqStep(w)
        /\ UNCHANGED <<at, to_create>> /\ ("count" \notin raced' => "count" \notin raced)
    BY <1>7 DEF WorkerInQueue, LosesUpdate
  <2> QED
    BY <1>0, <2>1, ThreadIs, EnoughCall
<1>8. ASSUME UNCHANGED <<queue, to_create>>,
             "count" \notin raced' => "count" \notin raced,
             \A w \in Worker : /\ at'[w] = "start" <=> at[w] = "start"
                               /\ at'[w] = "dequeue" => at[w] = "dequeue"
      PROVE  EnoughInv'
  <2>1. UNCHANGED <<Q!items, pc, val>>
    BY <1>8, QueueUnchanged
  <2>2. \A w \in Worker : pc'[w] = "e_lock" => pc[w] \notin Q!DeqPC
    BY <2>1 DEF Q!DeqPC
  <2> QED
    BY <1>0, <1>8, <2>1, <2>2, EnoughKept
<1>9. CASE MainCreated \/ MainJoin \/ MainCheck \/ UNCHANGED vars
  BY <1>8, <1>9 DEF MainCreated, MainJoin, MainCheck, MainGoto, search, vars
<1>10. ASSUME NEW w \in Worker, WorkerStep(w)
       PROVE  EnoughInv'
  <2>1. CASE WorkerFails(w) \/ WorkerOutOfDescriptors(w)
    BY <1>8, <2>1 DEF WorkerFails, WorkerOutOfDescriptors, search
  <2>2. CASE \/ WorkerOpen(w) \/ WorkerReturn(w)
             \/ \E e \in Entry : WorkerReadText(w, e) \/ WorkerReadOther(w, e)
    BY <1>0, <1>8, <2>2 DEF WorkerOpen, WorkerReturn, WorkerReadText, WorkerReadOther,
       ReadEntry, WorkerGoto
  <2>3. CASE \/ WorkerLoadFiles(w) \/ WorkerStoreFiles(w)
             \/ WorkerLoadLines(w) \/ WorkerStoreLines(w) \/ WorkerEndScan(w)
    BY <1>0, <1>8, <2>3 DEF WorkerLoadFiles, WorkerStoreFiles, WorkerLoadLines,
       WorkerStoreLines, WorkerEndScan, WorkerGoto, LosesUpdate
  <2> QED
    BY <1>5, <1>6, <1>7, <1>9, <1>10, <2>1, <2>2, <2>3 DEF WorkerStep, WorkerSpin
<1> QED
  BY <1>1, <1>2, <1>3, <1>4, <1>9, <1>10 DEF Next, MainStep, Terminated

-----------------------------------------------------------------------------
(***************************************************************************)
(* How the program ends.                                                   *)
(***************************************************************************)
ReadsAsText ==
  \A e \in scanned \cap Dir : \E w \in Worker : at[w] \in Busy /\ entry[w] = e

LEMMA EndStep ==
  ASSUME IInv, IInv', Q!IInv, Q!IInv', ReadInv, PlacesInv, CountInv, EnoughInv, EndInv,
         [Next]_vars
  PROVE  EndInv'
<1>0. /\ TypeOK /\ CallsInv /\ RoundInv /\ Q!TypeOK /\ at \in [Worker -> WorkerPC]
      /\ entry \in [Worker -> Entry \cup {NULL}]
  BY DEF IInv, TypeOK, Q!IInv
<1>1. ReadsAsText'
  <2>1. ASSUME scanned' = scanned,
               \A w \in Worker : at[w] \in Busy => at'[w] \in Busy /\ entry'[w] = entry[w]
        PROVE  ReadsAsText'
    BY <2>1 DEF EndInv, ReadsAsText
  <2>2. CASE MainStep
    <3>1. CASE MainJoin
      BY <2>1, <3>1 DEF MainJoin, Busy
    <3>2. CASE MainEnqueue \/ MainInEnqueue \/ MainPlan \/ MainCreated \/ MainCheck
      BY <2>1, <3>2 DEF MainEnqueue, MainInEnqueue, MainPlan, MainCreated, MainCheck, search
    <3>3. CASE \E w \in Worker : MainCreate(w)
      BY <1>0, <2>1, <3>3 DEF MainCreate, Busy
    <3> QED
      BY <2>2, <3>1, <3>2, <3>3 DEF MainStep
  <2>3. ASSUME NEW w \in Worker, WorkerStep(w)
        PROVE  ReadsAsText'
    <3>1. CASE WorkerInQueue(w) \/ WorkerFails(w) \/ WorkerOutOfDescriptors(w) \/ WorkerSpin(w)
      BY <2>1, <3>1 DEF WorkerInQueue, WorkerFails, WorkerOutOfDescriptors, WorkerSpin,
         search, vars
    <3>2. CASE \/ WorkerDequeue(w) \/ WorkerOpen(w) \/ WorkerReturn(w)
               \/ \E e \in Entry : WorkerReadDirectory(w, e) \/ WorkerReadOther(w, e)
      BY <1>0, <2>1, <3>2 DEF WorkerDequeue, WorkerOpen, WorkerReturn, WorkerReadDirectory,
         WorkerReadOther, ReadEntry, WorkerGoto, Busy
    <3>3. CASE \/ WorkerLoadFiles(w) \/ WorkerStoreFiles(w)
               \/ WorkerLoadLines(w) \/ WorkerStoreLines(w)
      BY <1>0, <2>1, <3>3 DEF WorkerLoadFiles, WorkerStoreFiles, WorkerLoadLines,
         WorkerStoreLines, WorkerGoto, Busy
    <3>4. ASSUME NEW e \in Entry, WorkerReadText(w, e)
          PROVE  ReadsAsText'
      <4>1. /\ at[w] = "read" /\ at' = [at EXCEPT ![w] = "files_load"]
            /\ entry' = [entry EXCEPT ![w] = e] /\ scanned' = scanned \cup {e}
        BY <3>4 DEF WorkerReadText, ReadEntry, WorkerGoto
      <4>2. /\ at'[w] \in Busy /\ entry'[w] = e
            /\ \A v \in Worker \ {w} : at'[v] = at[v] /\ entry'[v] = entry[v]
            /\ at[w] \notin Busy
        BY <1>0, <4>1 DEF Busy
      <4> QED
        BY <4>1, <4>2 DEF EndInv, ReadsAsText
    <3>5. CASE WorkerEndScan(w)
      <4>1. /\ entry[w] \notin Dir /\ scanned' = scanned
            /\ \A v \in Worker \ {w} : at'[v] = at[v] /\ entry'[v] = entry[v]
        BY <1>0, <3>5 DEF WorkerEndScan, WorkerGoto
      <4> QED
        BY <4>1 DEF EndInv, ReadsAsText
    <3> QED
      BY <2>3, <3>1, <3>2, <3>3, <3>4, <3>5 DEF WorkerStep
  <2>4. CASE UNCHANGED vars
    BY <2>1, <2>4 DEF vars, search
  <2> QED
    BY <2>2, <2>3, <2>4 DEF Next, Terminated
<1>2. ASSUME NEW w \in Worker, WorkerFails(w) \/ WorkerOutOfDescriptors(w),
             "count" \notin raced'
      PROVE  Refused(w)'
  <2>1. /\ pc[w] = "idle" /\ (OutOfDescriptors(w) \/ Unusable(w))
        /\ UNCHANGED <<at, pc, val, remaining, entry, fds, raced>>
    BY <1>2 DEF WorkerFails, WorkerOutOfDescriptors, queue, search
  <2>2. at[w] = "dequeue" => val[w] = Root \/ TreatedAsDirectory(val[w])
    <3>1. SUFFICES ASSUME at[w] = "dequeue", val[w] # Root
                   PROVE  TreatedAsDirectory(val[w])
      OBVIOUS
    <3>2. val[w] \in Path
      BY <1>2, <2>1, <3>1 DEF EnoughInv
    <3>3. Found(val[w])
      BY <1>0, <2>1, <3>1, <3>2, OpenedNever
    <3> QED
      BY <3>1, <3>3 DEF Found
  <2>3. Refused(w)
    BY <2>1, <2>2 DEF Refused
  <2> QED
    BY <2>1, <2>3 DEF Refused, OutOfDescriptors, Unusable, TreatedAsDirectory
<1>3. ASSUME MainCheck, "count" \notin raced', main_pc' = "finished"
      PROVE  Q!items' = <<>>
  <2>1. /\ main_pc = "check" /\ count = 0 /\ raced' = raced /\ UNCHANGED queue
    BY <1>3 DEF MainCheck, search, Q!IsEmpty
  <2>2. \A t \in Thread : pc[t] = "idle"
    BY <1>0, <2>1, AllIdle
  <2>3. Len(Q!items) = 0
    BY <1>3, <2>1, <2>2, CountExact
  <2> QED
    BY <2>1, <2>3, ItemsAre, EmptySeq, QueueUnchanged
<1>4. \/ main_pc' \notin {"failed", "finished"}
      \/ MainCheck /\ main_pc' # "failed"
      \/ \E w \in Worker : WorkerFails(w) \/ WorkerOutOfDescriptors(w)
      \/ UNCHANGED vars
  <2>1. CASE MainStep
    BY <2>1 DEF MainStep, MainEnqueue, MainInEnqueue, MainPlan, MainCreate, MainCreated,
                MainJoin, MainCheck, MainGoto
  <2>2. ASSUME NEW w \in Worker, WorkerStep(w)
        PROVE  \/ main_pc' = main_pc /\ Running
               \/ WorkerFails(w) \/ WorkerOutOfDescriptors(w)
               \/ UNCHANGED vars
    BY <2>2 DEF WorkerStep, WorkerDequeue, WorkerInQueue, WorkerOpen, WorkerReadText,
       WorkerReadDirectory, WorkerReadOther, ReadEntry, WorkerReturn, WorkerLoadFiles,
       WorkerStoreFiles, WorkerSpin, WorkerLoadLines, WorkerStoreLines, WorkerEndScan,
       WorkerGoto
  <2> QED
    BY <2>1, <2>2 DEF Next, Terminated, Running
<1>5. CASE UNCHANGED vars
  <2>1. UNCHANGED <<main_pc, raced, Q!items, at, pc, val, remaining, entry, fds>>
    BY <1>5, QueueUnchanged DEF vars, queue, search
  <2>2. \A w \in Worker : Refused(w) => Refused(w)'
    BY <2>1 DEF Refused, OutOfDescriptors, Unusable, TreatedAsDirectory
  <2> QED
    BY <1>1, <2>1, <2>2 DEF EndInv, ReadsAsText
<1>6. CASE \E w \in Worker : WorkerFails(w) \/ WorkerOutOfDescriptors(w)
  <2>1. main_pc' = "failed"
    BY <1>6 DEF WorkerFails, WorkerOutOfDescriptors, Exit1
  <2> QED
    BY <1>1, <1>2, <1>6, <2>1 DEF EndInv, ReadsAsText
<1>7. CASE main_pc' \notin {"failed", "finished"} \/ (MainCheck /\ main_pc' # "failed")
  BY <1>1, <1>3, <1>7 DEF EndInv, ReadsAsText
<1> QED
  BY <1>4, <1>5, <1>6, <1>7

-----------------------------------------------------------------------------
(***************************************************************************)
(* The invariant, and what it says of the search.                          *)
(***************************************************************************)
LEMMA SearchInit == Init => SearchInv
<1> SUFFICES ASSUME Init
             PROVE  SearchInv
  OBVIOUS
<1>1. /\ pc = [t \in Thread |-> "idle"] /\ count = 0 /\ Len(chain) = 1
  BY DEF Init, Q!Init
<1>2. Q!items = <<>>
  BY <1>1 DEF Q!items
<1>3. /\ at = [w \in Worker |-> "none"] /\ remaining = [w \in Worker |-> {}]
      /\ opened = [p \in Path |-> 0] /\ scanned = {} /\ main_pc = "start"
      /\ file_count = 0 /\ line_count = 0 /\ to_create = 0
      /\ \A w \in Worker : pc[w] = "idle"
  BY <1>1, ThreadIs DEF Init
<1>4. Listed = {}
  BY <1>3, TfindAssumption DEF Listed
<1>5. ReadInv
  BY <1>3, <1>4 DEF ReadInv
<1>6. \A p \in Path : /\ Callers(p) = {} /\ Queued(p) = {} /\ Takers(p) = {}
                      /\ ~Found(p) /\ opened[p] = 0
  BY <1>1, <1>2, <1>3, TfindAssumption DEF Callers, Queued, Takers, Found
<1>7. PlacesInv
  <2>1. ASSUME NEW p \in Path
        PROVE  Places(p) = 0
    <3>1. Places(p) = Cardinality(Callers(p)) + Cardinality(Queued(p))
                        + Cardinality(Takers(p)) + opened[p]
      BY DEF Places, Callers, Queued, Takers
    <3> QED
      BY <1>6, <3>1, FS_EmptySet
  <2> QED
    BY <1>2, <1>3, <1>6, <2>1 DEF PlacesInv
<1>8. FilesInv
  <2>1. Filing = {}
    BY <1>3 DEF Filing
  <2> QED
    BY <1>3, <2>1, FS_EmptySet DEF FilesInv
<1>9. LinesInv
  <2>1. Counting = {} /\ HitLines(scanned) = {}
    BY <1>3 DEF Counting, Blocks, ToCount, HitLines
  <2> QED
    BY <1>3, <2>1, FS_EmptySet DEF LinesInv
<1>10. CountInv
  <2>1. Added = {} /\ Taken = {} /\ Len(Q!items) = 0
    BY <1>1, <1>2 DEF Added, Taken
  <2> QED
    BY <1>1, <2>1, ThreadIs, FS_EmptySet DEF CountInv
<1>11. EnoughInv
  <2>1. Before = {} /\ Len(Q!items) = 0
    BY <1>2, <1>3 DEF Before
  <2> QED
    BY <1>3, <2>1, FS_EmptySet DEF EnoughInv
<1>12. EndInv
  BY <1>3 DEF EndInv
<1> QED
  BY <1>5, <1>7, <1>8, <1>9, <1>10, <1>11, <1>12 DEF SearchInv

(* SearchInv is inductive, on top of the invariants of main's rounds and   *)
(* of the queue.                                                           *)
THEOREM SearchInvariance == Spec => []SearchInv
<1>1. IInv /\ IInv' /\ Q!IInv /\ Q!IInv' /\ SearchInv /\ [Next]_vars => SearchInv'
  <2> SUFFICES ASSUME IInv, IInv', Q!IInv, Q!IInv', SearchInv, [Next]_vars
               PROVE  SearchInv'
    OBVIOUS
  <2>1. ReadInv /\ PlacesInv /\ FilesInv /\ LinesInv /\ CountInv /\ EnoughInv /\ EndInv
    BY DEF SearchInv
  <2>2. ReadInv'
    BY <2>1, ReadStep
  <2>3. PlacesInv'
    BY <2>1, PlacesStep
  <2>4. FilesInv' /\ LinesInv'
    BY <2>1, <2>2, CountersStep
  <2>5. CountInv' /\ EnoughInv' /\ EndInv'
    BY <2>1, CountStep, EnoughStep, EndStep
  <2> QED
    BY <2>2, <2>3, <2>4, <2>5 DEF SearchInv
<1> QED
  BY <1>1, Invariance, QueueInvariant, SearchInit, PTL DEF Spec

(* Between its discovery and its search every directory is in exactly one  *)
(* place, in a worker's hands or in the queue: none is searched twice or   *)
(* forgotten, whatever the threads do.                                     *)
THEOREM EachDirectoryOnce == Spec => []SearchAccounted
<1>1. SearchInv => SearchAccounted
  BY DEF SearchInv, PlacesInv, SearchAccounted
<1> QED
  BY <1>1, SearchInvariance, PTL

(* The totals of the summary never say more than was found.                *)
THEOREM TotalsBounded == Spec => []NeverOvercounts
<1>1. IInv /\ SearchInv => NeverOvercounts
  <2> SUFFICES ASSUME IInv, SearchInv
               PROVE  NeverOvercounts
    OBVIOUS
  <2>0. TypeOK /\ ReadInv /\ FilesInv /\ LinesInv /\ file_count \in Nat /\ line_count \in Nat
    BY DEF IInv, SearchInv, TypeOK
  <2>1. Cardinality(scanned) \in Nat /\ Cardinality(Filing) \in Nat
    BY <2>0, ScannedSize
  <2>2. file_count <= Cardinality(scanned)
    BY <2>0, <2>1 DEF FilesInv
  <2>3. ASSUME scanned \cap Dir = {}
        PROVE  line_count <= Cardinality(HitLines(scanned))
    <3>1. Cardinality(HitLines(scanned)) \in Nat
      BY <2>0, <2>3, HitLinesNat
    <3>2. Cardinality(Counting) \in Nat
      <4> DEFINE h == [v \in Worker |-> ToCount(v)]
      <4>1. CASE Worker = {}
        <5>1. Counting = {}
          BY <4>1 DEF Counting, Blocks
        <5> QED
          BY <5>1, FS_EmptySet
      <4>2. CASE Worker # {}
        <5>1. PICK w \in Worker : TRUE
          BY <4>2
        <5>2. \A v \in Worker : h[v] \in Nat
          BY <2>0, <2>3, ToCountType
        <5>3. Counting = Blocks(Worker, h)
          BY DEF Counting
        <5> HIDE DEF h
        <5> QED
          BY <5>1, <5>2, <5>3, CountingChanges
      <4> QED
        BY <4>1, <4>2
    <3> QED
      BY <2>0, <2>3, <3>1, <3>2 DEF LinesInv
  <2> QED
    BY <2>2, <2>3 DEF NeverOvercounts
<1> QED
  BY <1>1, Invariance, SearchInvariance, PTL

(* While no update of count is lost, no worker meets an empty queue, every *)
(* exit(1) is a call the system refused, main ends with the whole tree     *)
(* searched, and each counter of which no update was lost is exact.        *)
THEOREM FaultsHaveCauses == Spec => []FaultsExplained
<1>1. IInv /\ Q!IInv /\ SearchInv => FaultsExplained
  <2> SUFFICES ASSUME IInv, Q!IInv, SearchInv, "count" \notin raced
               PROVE  /\ \A w \in Worker :
                           at[w] = "dequeue" /\ pc[w] = "idle" => val[w] # NULL
                      /\ main_pc = "failed" => \E w \in Worker : Refused(w)
                      /\ main_pc = "finished" =>
                           /\ AllOpened
                           /\ scanned = ReachableText /\ scanned \cap Dir = {}
                           /\ "files" \notin raced => file_count = Cardinality(scanned)
                           /\ "lines" \notin raced =>
                                line_count = Cardinality(HitLines(scanned))
    BY DEF FaultsExplained
  <2>0. /\ TypeOK /\ CallsInv /\ RoundInv /\ Q!TypeOK
        /\ ReadInv /\ PlacesInv /\ FilesInv /\ LinesInv /\ EnoughInv /\ EndInv
        /\ file_count \in Nat /\ line_count \in Nat
    BY DEF IInv, Q!IInv, SearchInv, TypeOK
  <2>1. /\ \A w \in Worker : at[w] = "dequeue" /\ pc[w] = "idle" => val[w] # NULL
        /\ main_pc = "failed" => \E w \in Worker : Refused(w)
    BY <2>0, TfindAssumption DEF EndInv, EnoughInv
  <2>2. ASSUME main_pc = "finished"
        PROVE  /\ AllOpened
               /\ scanned = ReachableText /\ scanned \cap Dir = {}
               /\ "files" \notin raced => file_count = Cardinality(scanned)
               /\ "lines" \notin raced => line_count = Cardinality(HitLines(scanned))
    <3>1. /\ \A t \in Thread : pc[t] = "idle"
          /\ \A w \in Worker : at[w] = "none"
          /\ Q!items = <<>>
      BY <2>0, <2>2, AllIdle DEF EndInv
    <3>2. \A e : ~Unread(e)
      BY <2>0, <3>1 DEF ReadInv, InDirectory, Unread
    <3>3. ASSUME NEW p \in Path
          PROVE  opened[p] = IF FoundNow(p) THEN 1 ELSE 0
      <4>1. Callers(p) = {} /\ Queued(p) = {} /\ Takers(p) = {}
        BY <3>1 DEF Callers, Queued, Takers
      <4>2. PlacesAre(p)
        BY <2>0, PlacesSum
      <4>3. Places(p) = opened[p]
        <5>1. /\ Cardinality(Callers(p)) = 0 /\ Cardinality(Queued(p)) = 0
              /\ Cardinality(Takers(p)) = 0
          BY <4>1, FS_EmptySet
        <5> QED
          BY <4>2, <5>1 DEF PlacesAre
      <4>4. Places(p) = IF Found(p) THEN 1 ELSE 0
        BY <2>0 DEF PlacesInv
      <4> QED
        BY <4>3, <4>4, FoundMeans
    <3>4. \A p \in Searchable : p \in {Root} \cup Listed => opened[p] = 1
      <4>1. ASSUME NEW p \in Searchable, p \in {Root} \cup Listed
            PROVE  FoundNow(p) /\ p \in Path
        BY <2>2, <3>2, <4>1, TfindAssumption DEF Searchable, FoundNow, Path
      <4> QED
        BY <3>3, <4>1
    <3>5. Closed({Root} \cup Listed)
      <4>1. ASSUME NEW d \in Searchable, d \in {Root} \cup Listed, NEW e \in Listing[d]
            PROVE  e \in Listed
        <5>1. opened[d] = 1 /\ d \in Dir
          BY <3>4, <4>1 DEF Searchable
        <5>2. e \in Entry
          BY <4>1, <5>1, TfindAssumption
        <5> QED
          BY <4>1, <5>1, <5>2 DEF Listed
      <4> QED
        BY <4>1 DEF Closed
    <3>6. Reachable \subseteq {Root} \cup Listed
      <4>1. {Root} \cup Listed \in SUBSET Path
        BY DEF Listed, Path
      <4> QED
        BY <3>5, <4>1 DEF Reachable
    <3>7. AllOpened
      BY <3>4, <3>6 DEF AllOpened
    <3>8. scanned = ReachableText
      <4>1. scanned = {e \in Listed : "text" \in Says[e]}
        BY <2>0, <3>2 DEF ReadInv
      <4>2. Listed \subseteq Entry \cap Reachable
        BY <2>0 DEF ReadInv, Listed
      <4>3. Entry \cap Reachable \subseteq Listed
        BY <3>6, TfindAssumption
      <4> QED
        BY <4>1, <4>2, <4>3 DEF ReachableText
    <3>9. scanned \cap Dir = {}
      BY <2>0, <3>1 DEF EndInv, Busy
    <3>10. "files" \notin raced => file_count = Cardinality(scanned)
      <4>1. Filing = {}
        BY <3>1 DEF Filing
      <4>2. Cardinality(Filing) = 0 /\ Cardinality(scanned) \in Nat
        BY <2>0, <4>1, FS_EmptySet, ScannedSize
      <4> QED
        BY <2>0, <4>2 DEF FilesInv
    <3>11. "lines" \notin raced => line_count = Cardinality(HitLines(scanned))
      <4>1. Counting = {}
        BY <3>1 DEF Counting, Blocks, ToCount
      <4>2. Cardinality(Counting) = 0
        BY <4>1, FS_EmptySet
      <4> QED
        BY <2>0, <3>9, <4>2 DEF LinesInv
    <3> QED
      BY <3>7, <3>8, <3>9, <3>10, <3>11
  <2> QED
    BY <2>1, <2>2
<1> QED
  BY <1>1, Invariance, QueueInvariant, SearchInvariance, PTL

=============================================================================
