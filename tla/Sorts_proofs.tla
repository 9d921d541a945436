---------------------------- MODULE Sorts_proofs ----------------------------
(***************************************************************************)
(* The three sorting functions of Algorithm/HW3 sort, whatever the size of *)
(* the array and the integers in it.                                       *)
(***************************************************************************)
EXTENDS Sorts, WellFoundedInduction, TLAPS

PC == {"insertion", "shift", "inserted", "build", "sift_build", "extract",
       "sift_extract", "heaped", "quick", "partition", "quicked"}

SortsTypeOK ==
  /\ size \in Nat \ {0}
  /\ a \in [Index -> Int] /\ a0 \in [Index -> Int]
  /\ pc \in PC
  /\ i \in Int /\ j \in Int /\ key \in Int /\ heap_size \in Int
  /\ range \in Int \X Int
  /\ todo \in SUBSET (Int \X Int)

(* While insertion_sort shifts, the place behind j is free and key is out  *)
(* of the array.                                                           *)
WholeArray == IF pc = "shift" THEN [a EXCEPT ![j + 1] = key] ELSE a

PermutationInv == IsPermutation(WholeArray)

(* The first n places of array b are in order, place h left out.           *)
InOrder(b, n, h) ==
  \A x, y \in 0 .. n - 1 : x < y /\ x # h /\ y # h => b[x] <= b[y]

InsertionInv ==
  /\ pc = "insertion" => i \in 1 .. size /\ InOrder(a, i, -1)
  /\ pc = "shift" =>
       /\ i \in 1 .. size - 1 /\ j \in -1 .. i - 1
       /\ InOrder(a, i + 1, j + 1)
       /\ \A x \in j + 2 .. i : a[x] > key
  /\ Printing => InOrder(a, size, -1)

(* b[p] is not less than its children in the heap of n places, for all p   *)
(* from f on but h.                                                        *)
Child(p, c) == c = 2 * p + 1 \/ c = 2 * p + 2

HeapOrder(b, n, f, h) ==
  \A p \in f .. n - 1, c \in 0 .. n - 1 :
    Child(p, c) /\ p # h => b[c] <= b[p]

(* The parent of h is not less than the children of h.                     *)
OverOrder(b, n, f, h) ==
  \A p \in f .. n - 1, c \in 0 .. n - 1 :
    Child(p, h) /\ Child(h, c) => b[c] <= b[p]

(* From place n on stand, in order, the largest values.                    *)
Behind(b, n) == \A x, y \in Index : x < y /\ n <= y => b[x] <= b[y]

HeapInv ==
  /\ pc = "build" =>
       /\ heap_size = size /\ i \in -1 .. size - 1
       /\ HeapOrder(a, heap_size, i + 1, -1)
  /\ pc = "sift_build" =>
       /\ heap_size = size /\ i \in 0 .. j /\ j < size
       /\ HeapOrder(a, heap_size, i, j) /\ OverOrder(a, heap_size, i, j)
  /\ pc = "extract" =>
       /\ heap_size = i + 1 /\ i \in -1 .. size - 1
       /\ HeapOrder(a, heap_size, 0, -1) /\ Behind(a, heap_size)
  /\ pc = "sift_extract" =>
       /\ heap_size = i /\ i \in Index /\ j \in Index
       /\ HeapOrder(a, heap_size, 0, j) /\ OverOrder(a, heap_size, 0, j)
       /\ Behind(a, heap_size)

(* The ranges that are still to be sorted do not overlap, and only two     *)
(* places of one range may be out of order.                                *)
Ranges(R) ==
  /\ R \subseteq Int \X Int
  /\ \A r \in R : 0 <= r[1] /\ r[1] < r[2] /\ r[2] < size
  /\ \A r, t \in R : r # t => r[2] < t[1] \/ t[2] < r[1]

OrderOutside(b, R) ==
  \A x, y \in Index :
    x < y /\ (\A r \in R : ~(r[1] <= x /\ y <= r[2])) => b[x] <= b[y]

QuickInv ==
  /\ pc = "quick" => Ranges(todo) /\ OrderOutside(a, todo)
  /\ pc = "partition" =>
       /\ range \notin todo /\ Ranges(todo \cup {range})
       /\ OrderOutside(a, todo \cup {range})
       /\ range[1] - 1 <= i /\ i < j /\ j <= range[2]
       /\ key = a[range[2]]
       /\ \A x \in range[1] .. i : a[x] <= key
       /\ \A x \in i + 1 .. j - 1 : a[x] > key

IInv ==
  SortsTypeOK /\ PermutationInv /\ InsertionInv /\ HeapInv /\ QuickInv
-----------------------------------------------------------------------------
LEMMA IndexIs ==
  ASSUME size \in Nat \ {0}
  PROVE  /\ \A x : x \in Index <=> x \in Int /\ 0 <= x /\ x < size
         /\ 0 \in Index
BY DEF Index

LEMMA InitInv ==
  ASSUME SortsInit
  PROVE  IInv
<1>1. SortsTypeOK
  <2>1. size \in Nat \ {0} /\ a \in [Index -> Int] /\ a0 \in [Index -> Int]
    BY SortsAssumption DEF SortsInit
  <2>2. range \in Int \X Int /\ todo \in SUBSET (Int \X Int)
    BY DEF SortsInit
  <2> QED
    BY <2>1, <2>2 DEF SortsInit, SortsTypeOK, PC
<1>2. PermutationInv
  <2> DEFINE id == [x \in Index |-> x]
  <2>1. id \in Injections
    BY DEF Injections
  <2>2. a = [x \in Index |-> a0[id[x]]]
    <3>1. a \in [Index -> Int] /\ a = a0
      BY <1>1 DEF SortsTypeOK, SortsInit
    <3> QED
      BY <3>1
  <2>3. WholeArray = a
    BY DEF WholeArray, SortsInit
  <2> QED
    BY <2>1, <2>2, <2>3 DEF PermutationInv, IsPermutation
<1>3. InsertionInv
  BY <1>1 DEF SortsInit, SortsTypeOK, InsertionInv, InOrder, Printing
<1>4. HeapInv /\ QuickInv
  BY DEF SortsInit, HeapInv, QuickInv
<1> QED
  BY <1>1, <1>2, <1>3, <1>4 DEF IInv

(* The actions of each function.                                           *)
InsertionStep == Pick \/ Shift \/ Place \/ Inserted
HeapStep ==
  \/ InitHeap \/ Build \/ Built \/ Extract \/ Heaped
  \/ Sift("sift_build") \/ Sifted("sift_build", "build")
  \/ Sift("sift_extract") \/ Sifted("sift_extract", "extract")
QuickStep ==
  \/ InitQuick \/ (\E r \in todo : QuickSort(r))
  \/ PartitionRound \/ PartitionEnd \/ Quicked

(* No step changes the size or the first array.                            *)
LEMMA Kept ==
  ASSUME SortsNext
  PROVE  size' = size /\ a0' = a0 /\ Index' = Index
<1>1. size' = size /\ a0' = a0
  BY DEF SortsNext, Pick, Shift, Place, Inserted, InitHeap, Build, Built,
         Extract, Heaped, Sift, Sifted, InitQuick, QuickSort, PartitionRound,
         PartitionEnd, Quicked
<1> QED
  BY <1>1 DEF Index

LEMMA SwapIs ==
  ASSUME NEW b \in [Index -> Int], NEW x \in Index, NEW y \in Index
  PROVE  /\ Swap(b, x, y) \in [Index -> Int]
         /\ \A z \in Index :
              Swap(b, x, y)[z] =
                IF z = x THEN b[y] ELSE IF z = y THEN b[x] ELSE b[z]
BY DEF Swap

(* Where the largest of a node and its children can be.                    *)
LEMMA LargestIs ==
  ASSUME SortsTypeOK, j \in Index, heap_size <= size,
         NEW m, m = Largest(j)
  PROVE  /\ m \in Index
         /\ m # j => Child(j, m) /\ m < heap_size /\ a[m] > a[j]
         /\ \A c \in 0 .. heap_size - 1 : Child(j, c) => a[c] <= a[m]
<1>1. size \in Nat \ {0} /\ heap_size \in Int /\ j \in Int /\ 0 <= j
  BY IndexIs DEF SortsTypeOK
<1>2. \A x \in Int : 0 <= x /\ x < heap_size => x \in Index /\ a[x] \in Int
  BY <1>1, IndexIs DEF SortsTypeOK
<1>3. a[j] \in Int
  BY DEF SortsTypeOK
<1> QED
  BY <1>1, <1>2, <1>3 DEF Largest, Left, Right, Child

LEMMA SiftBounds ==
  ASSUME SortsTypeOK, HeapInv, pc \in {"sift_build", "sift_extract"}
  PROVE  j \in Index /\ heap_size <= size
<1>1. size \in Nat \ {0} /\ i \in Int /\ j \in Int /\ heap_size \in Int
  BY DEF SortsTypeOK
<1>2. CASE pc = "sift_build"
  BY <1>1, <1>2, IndexIs DEF HeapInv
<1>3. CASE pc = "sift_extract"
  BY <1>1, <1>3, IndexIs DEF HeapInv
<1> QED
  BY <1>2, <1>3

LEMMA TypeStep ==
  ASSUME IInv, SortsNext
  PROVE  SortsTypeOK'
<1>0. /\ SortsTypeOK /\ size \in Nat \ {0}
      /\ size' = size /\ a0' = a0 /\ Index' = Index
  BY Kept DEF IInv, SortsTypeOK
<1>1. CASE InsertionStep
  <2>1. CASE Pick
    <3>1. i \in Index
      BY <1>0, <2>1, IndexIs DEF Pick, IInv, InsertionInv, SortsTypeOK
    <3> QED
      BY <1>0, <2>1, <3>1 DEF Pick, SortsTypeOK, PC
  <2>2. CASE Shift
    <3>1. j \in Index
      BY <1>0, <2>2, IndexIs DEF Shift, Greater, IInv, InsertionInv, SortsTypeOK
    <3>2. [a EXCEPT ![j + 1] = a[j]] \in [Index -> Int]
      BY <1>0, <3>1 DEF SortsTypeOK
    <3> QED
      BY <1>0, <2>2, <3>2 DEF Shift, SortsTypeOK, PC
  <2>3. CASE Place \/ Inserted
    BY <1>0, <2>3 DEF Place, Inserted, SortsTypeOK, PC
  <2> QED
    BY <1>1, <2>1, <2>2, <2>3 DEF InsertionStep
<1>2. CASE HeapStep
  <2>1. CASE InitHeap \/ Build \/ Built \/ Heaped
    BY <1>0, <2>1 DEF InitHeap, Build, Built, Heaped, SortsTypeOK, PC
  <2>2. CASE Extract
    <3>1. 0 \in Index /\ i \in Index
      BY <1>0, <2>2, IndexIs DEF Extract, IInv, HeapInv, SortsTypeOK
    <3>2. Swap(a, 0, i) \in [Index -> Int]
      BY <1>0, <3>1, SwapIs DEF SortsTypeOK
    <3> QED
      BY <1>0, <2>2, <3>2 DEF Extract, SortsTypeOK, PC
  <2>3. CASE Sift("sift_build") \/ Sift("sift_extract")
    <3>1. j \in Index /\ heap_size <= size
      BY <1>0, <2>3, SiftBounds DEF Sift, IInv
    <3>2. Largest(j) \in Index
      BY <1>0, <3>1, LargestIs
    <3>3. Swap(a, j, Largest(j)) \in [Index -> Int]
      BY <1>0, <3>1, <3>2, SwapIs DEF SortsTypeOK
    <3>4. Largest(j) \in Int
      BY <1>0, <3>2, IndexIs
    <3> QED
      BY <1>0, <2>3, <3>3, <3>4 DEF Sift, SortsTypeOK, PC
  <2>4. CASE Sifted("sift_build", "build") \/ Sifted("sift_extract", "extract")
    BY <1>0, <2>4 DEF Sifted, SortsTypeOK, PC
  <2> QED
    BY <1>2, <2>1, <2>2, <2>3, <2>4 DEF HeapStep
<1>3. CASE QuickStep
  <2>1. CASE InitQuick
    <3>1. Proper(0, size - 1) \in SUBSET (Int \X Int)
      BY <1>0 DEF Proper
    <3> QED
      BY <1>0, <2>1, <3>1 DEF InitQuick, SortsTypeOK, PC
  <2>2. ASSUME NEW r \in todo, QuickSort(r)
        PROVE  SortsTypeOK'
    <3>1. r \in Int \X Int /\ r[1] \in Int /\ r[2] \in Int
      BY <1>0 DEF SortsTypeOK
    <3>2. r[2] \in Index
      BY <1>0, <2>2, <3>1, IndexIs DEF QuickSort, IInv, QuickInv, Ranges
    <3>3. a[r[2]] \in Int
      BY <1>0, <3>2 DEF SortsTypeOK
    <3> QED
      BY <1>0, <2>2, <3>1, <3>3 DEF QuickSort, SortsTypeOK, PC
  <2>3. CASE PartitionRound \/ PartitionEnd
    <3>1. range[1] \in Int /\ range[2] \in Int
      BY <1>0 DEF SortsTypeOK
    <3>2. i + 1 \in Index /\ j \in Index /\ range[2] \in Index
      BY <1>0, <2>3, <3>1, IndexIs
         DEF PartitionRound, PartitionEnd, IInv, QuickInv, Ranges, SortsTypeOK
    <3>3. /\ Swap(a, i + 1, j) \in [Index -> Int]
          /\ Swap(a, i + 1, range[2]) \in [Index -> Int]
      BY <1>0, <3>2, SwapIs DEF SortsTypeOK
    <3>4. /\ Proper(range[1], i) \in SUBSET (Int \X Int)
          /\ Proper(i + 2, range[2]) \in SUBSET (Int \X Int)
      BY <1>0, <3>1 DEF Proper, SortsTypeOK
    <3> QED
      BY <1>0, <2>3, <3>3, <3>4
         DEF PartitionRound, PartitionEnd, SortsTypeOK, PC
  <2>4. CASE Quicked
    BY <1>0, <2>4 DEF Quicked, SortsTypeOK, PC
  <2> QED
    BY <1>3, <2>1, <2>2, <2>3, <2>4 DEF QuickStep
<1> QED
  BY <1>1, <1>2, <1>3 DEF SortsNext, InsertionStep, HeapStep, QuickStep

(* Two values that change places: the array stays a permutation.           *)
LEMMA SwapPermutes ==
  ASSUME NEW b, NEW x \in Index, NEW y \in Index, IsPermutation(b)
  PROVE  IsPermutation(Swap(b, x, y))
<1>1. PICK f \in Injections : b = [z \in Index |-> a0[f[z]]]
  BY DEF IsPermutation
<1>2. Swap(f, x, y) \in Injections
  BY DEF Injections, Swap
<1>3. Swap(b, x, y) = [z \in Index |-> a0[Swap(f, x, y)[z]]]
  BY <1>1 DEF Injections, Swap
<1> QED
  BY <1>2, <1>3 DEF IsPermutation

(* It depends on size and a0, too, which no step changes.                  *)
LEMMA PermutationStable ==
  ASSUME UNCHANGED <<size, a0>>, IsPermutation(WholeArray')
  PROVE  PermutationInv'
<1>1. Index' = Index /\ Injections' = Injections /\ a0' = a0
  BY DEF Index, Injections
<1> QED
  BY <1>1 DEF PermutationInv, IsPermutation
LEMMA PermutationStep ==
  ASSUME IInv, SortsNext
  PROVE  PermutationInv'
<1>0. /\ SortsTypeOK /\ size \in Nat \ {0}
      /\ size' = size /\ a0' = a0 /\ Index' = Index
      /\ IsPermutation(WholeArray)
  BY Kept DEF IInv, SortsTypeOK, PermutationInv
<1>a. IsPermutation(a0)
  <2> DEFINE id == [x \in Index |-> x]
  <2>1. id \in Injections
    BY DEF Injections
  <2>2. a0 = [x \in Index |-> a0[id[x]]]
    BY <1>0 DEF SortsTypeOK
  <2> QED
    BY <2>1, <2>2 DEF IsPermutation
<1> SUFFICES IsPermutation(WholeArray')
  BY <1>0, PermutationStable
<1>1. CASE Pick
  <2>1. a[i] \in Int /\ i \in Index /\ (i - 1) + 1 = i
    BY <1>0, <1>1, IndexIs DEF Pick, IInv, InsertionInv, SortsTypeOK
  <2>2. [a EXCEPT ![i] = a[i]] = a
    BY <1>0, <2>1 DEF SortsTypeOK
  <2> QED
    BY <1>0, <1>1, <2>1, <2>2 DEF Pick, WholeArray
<1>2. CASE Shift
  <2>1. j \in Index /\ j + 1 \in Index /\ j \in Int /\ (j - 1) + 1 = j
    BY <1>0, <1>2, IndexIs
       DEF Shift, Greater, IInv, InsertionInv, SortsTypeOK
  <2>2. WholeArray = [a EXCEPT ![j + 1] = key]
    BY <1>2 DEF Shift, WholeArray
  <2>3. WholeArray' = [[a EXCEPT ![j + 1] = a[j]] EXCEPT ![j] = key]
    BY <1>2, <2>1 DEF Shift, WholeArray
  <2>4. WholeArray' = Swap(WholeArray, j, j + 1)
    BY <1>0, <2>1, <2>2, <2>3 DEF Swap, SortsTypeOK
  <2> QED
    BY <1>0, <2>1, <2>4, SwapPermutes
<1>3. CASE Place
  BY <1>0, <1>3 DEF Place, WholeArray
<1>4. CASE InitHeap \/ InitQuick
  BY <1>a, <1>4 DEF InitHeap, InitQuick, WholeArray
<1>5. CASE Inserted \/ Build \/ Built \/ Heaped \/ Quicked
  BY <1>0, <1>5 DEF Inserted, Build, Built, Heaped, Quicked, WholeArray
<1>6. CASE Sifted("sift_build", "build") \/ Sifted("sift_extract", "extract")
  BY <1>0, <1>6 DEF Sifted, WholeArray
<1>7. ASSUME NEW x \in Index, NEW y \in Index, WholeArray = a,
             WholeArray' = Swap(a, x, y)
      PROVE  IsPermutation(WholeArray')
  BY <1>0, <1>7, SwapPermutes
<1>8. CASE Extract
  <2>1. 0 \in Index /\ i \in Index
    BY <1>0, <1>8, IndexIs DEF Extract, IInv, HeapInv, SortsTypeOK
  <2> QED
    BY <1>7, <1>8, <2>1 DEF Extract, WholeArray
<1>9. CASE Sift("sift_build") \/ Sift("sift_extract")
  <2>1. j \in Index /\ heap_size <= size
    BY <1>0, <1>9, SiftBounds DEF Sift, IInv
  <2>2. Largest(j) \in Index
    BY <1>0, <2>1, LargestIs
  <2> QED
    BY <1>7, <1>9, <2>1, <2>2 DEF Sift, WholeArray
<1>10. ASSUME NEW r \in todo, QuickSort(r)
       PROVE  IsPermutation(WholeArray')
  BY <1>0, <1>10 DEF QuickSort, WholeArray
<1>11. CASE PartitionRound \/ PartitionEnd
  <2>1. range[1] \in Int /\ range[2] \in Int
    BY <1>0 DEF SortsTypeOK
  <2>2. i + 1 \in Index /\ j \in Index /\ range[2] \in Index
    BY <1>0, <1>11, <2>1, IndexIs
       DEF PartitionRound, PartitionEnd, IInv, QuickInv, Ranges, SortsTypeOK
  <2>3. \/ WholeArray' = a
        \/ WholeArray' = Swap(a, i + 1, j)
        \/ WholeArray' = Swap(a, i + 1, range[2])
    BY <1>11 DEF PartitionRound, PartitionEnd, WholeArray
  <2>4. WholeArray = a
    BY <1>11 DEF PartitionRound, PartitionEnd, WholeArray
  <2> QED
    BY <1>0, <1>7, <2>2, <2>3, <2>4
<1> QED
  BY <1>1, <1>2, <1>3, <1>4, <1>5, <1>6, <1>8, <1>9, <1>10, <1>11
     DEF SortsNext

LEMMA InsertionInvStep ==
  ASSUME IInv, SortsNext
  PROVE  InsertionInv'
<1>0. /\ SortsTypeOK /\ size \in Nat \ {0} /\ size' = size
      /\ i \in Int /\ j \in Int /\ key \in Int
      /\ InsertionInv /\ HeapInv /\ QuickInv
  BY Kept DEF IInv, SortsTypeOK
<1>a. \A x \in Int : 0 <= x /\ x < size => x \in Index /\ a[x] \in Int
  BY <1>0, IndexIs DEF SortsTypeOK
<1>1. CASE Pick
  BY <1>0, <1>1 DEF Pick, InsertionInv, InOrder, Printing
<1>2. CASE Shift
  <2>1. /\ i \in 1 .. size - 1 /\ j \in 0 .. i - 1 /\ a[j] > key
        /\ InOrder(a, i + 1, j + 1)
        /\ \A x \in j + 2 .. i : a[x] > key
    BY <1>0, <1>2 DEF Shift, Greater, InsertionInv
  <2>2. \A x \in 0 .. size - 1 : a'[x] = IF x = j + 1 THEN a[j] ELSE a[x]
    BY <1>0, <1>2, <2>1 DEF Shift, SortsTypeOK, Index
  <2>3. /\ i' = i /\ j' = j - 1 /\ key' = key /\ pc' = "shift"
    BY <1>2 DEF Shift
  <2>4. InOrder(a', i + 1, j)
    BY <1>0, <1>a, <2>1, <2>2 DEF InOrder
  <2>5. \A x \in j + 1 .. i : a'[x] > key
    BY <1>0, <2>1, <2>2
  <2> QED
    BY <1>0, <2>1, <2>3, <2>4, <2>5 DEF InsertionInv, InOrder, Printing
<1>3. CASE Place
  <2>1. /\ i \in 1 .. size - 1 /\ j \in -1 .. i - 1
        /\ j >= 0 => a[j] <= key
        /\ InOrder(a, i + 1, j + 1)
        /\ \A x \in j + 2 .. i : a[x] > key
    BY <1>0, <1>a, <1>3 DEF Place, Greater, InsertionInv
  <2>2. \A x \in 0 .. size - 1 : a'[x] = IF x = j + 1 THEN key ELSE a[x]
    BY <1>0, <1>3, <2>1 DEF Place, SortsTypeOK, Index
  <2>3. \A x \in 0 .. j : a[x] <= key
    BY <1>0, <1>a, <2>1 DEF InOrder
  <2>4. InOrder(a', i + 1, -1)
    BY <1>0, <1>a, <2>1, <2>2, <2>3 DEF InOrder
  <2> QED
    BY <1>0, <1>3, <2>1, <2>4 DEF Place, InsertionInv, InOrder, Printing
<1>4. CASE Inserted
  BY <1>0, <1>4 DEF Inserted, InsertionInv, InOrder, Printing
<1>5. CASE Heaped
  <2>1. heap_size = 0 /\ Behind(a, 0)
    BY <1>0, <1>5 DEF Heaped, HeapInv
  <2> QED
    BY <1>0, <1>5, <2>1
       DEF Heaped, InsertionInv, InOrder, Printing, Behind, Index
<1>6. CASE Quicked
  <2>1. \A x, y \in Index : x < y => a[x] <= a[y]
    BY <1>0, <1>6 DEF Quicked, QuickInv, OrderOutside
  <2> QED
    BY <1>0, <1>6, <2>1 DEF Quicked, InsertionInv, InOrder, Printing, Index
<1>7. CASE \/ InitHeap \/ Build \/ Built \/ Extract
           \/ Sift("sift_build") \/ Sifted("sift_build", "build")
           \/ Sift("sift_extract") \/ Sifted("sift_extract", "extract")
  BY <1>7 DEF InitHeap, Build, Built, Extract, Sift, Sifted, InsertionInv,
              Printing
<1>8. CASE \/ InitQuick \/ (\E r \in todo : QuickSort(r))
           \/ PartitionRound \/ PartitionEnd
  BY <1>8 DEF InitQuick, QuickSort, PartitionRound, PartitionEnd,
              InsertionInv, Printing
<1> QED
  BY <1>1, <1>2, <1>3, <1>4, <1>5, <1>6, <1>7, <1>8 DEF SortsNext
-----------------------------------------------------------------------------
LEMMA Least ==
  ASSUME NEW T \in SUBSET Nat, T # {}
  PROVE  \E x \in T : \A y \in T : x <= y
<1> DEFINE R == {p \in Nat \X Nat : p[1] < p[2]}
<1>1. R = OpToRel(<, Nat)
  BY DEF OpToRel
<1>2. IsWellFoundedOn(R, Nat)
  BY <1>1, NatLessThanWellFounded
<1>3. PICK x \in T : \A y \in T : <<y, x>> \notin R
  BY <1>2, WFMin
<1>4. \A y \in T : x <= y
  <2> SUFFICES ASSUME NEW y \in T
               PROVE  x <= y
    OBVIOUS
  <2>1. <<y, x>> \in Nat \X Nat /\ ~(y < x)
    BY <1>3
  <2> QED
    BY <2>1
<1> QED
  BY <1>4

(* Every place but the first is the child of a place before it.            *)
LEMMA HasParent ==
  ASSUME NEW c \in Nat \ {0}
  PROVE  \E p \in 0 .. c - 1 : Child(p, c)
<1>1. /\ (c - 1) \div 2 \in 0 .. c - 1
      /\ \/ c - 1 = 2 * ((c - 1) \div 2)
         \/ c - 1 = 2 * ((c - 1) \div 2) + 1
  OBVIOUS
<1> QED
  BY <1>1 DEF Child

(* The first place of a heap holds its largest value: the least place with *)
(* a larger one would have a parent with a larger one.                     *)
LEMMA RootIsLargest ==
  ASSUME NEW n \in Nat, NEW b, \A x \in 0 .. n - 1 : b[x] \in Int,
         HeapOrder(b, n, 0, -1)
  PROVE  \A x \in 0 .. n - 1 : b[x] <= b[0]
<1> DEFINE T == {x \in 0 .. n - 1 : b[x] > b[0]}
<1> SUFFICES ASSUME T # {}
             PROVE  FALSE
  OBVIOUS
<1>1. PICK x \in T : \A y \in T : x <= y
  <2>1. T \in SUBSET Nat
    OBVIOUS
  <2> QED
    BY <2>1, Least
<1>2. x \in Nat \ {0} /\ x \in 0 .. n - 1 /\ b[x] > b[0]
  OBVIOUS
<1>3. PICK p \in 0 .. x - 1 : Child(p, x)
  BY <1>2, HasParent
<1>4. p \in 0 .. n - 1 /\ p # -1 /\ b[x] <= b[p]
  BY <1>2, <1>3 DEF HeapOrder
<1>5. b[p] > b[0]
  BY <1>2, <1>4
<1> QED
  BY <1>1, <1>2, <1>3, <1>4, <1>5

(* A value that sinks to a child m of its node h: the order is as before,  *)
(* but for m in place of h.                                                *)
LEMMA SiftOrder ==
  ASSUME NEW n \in Nat, NEW f \in Nat, NEW b,
         \A x \in 0 .. n - 1 : b[x] \in Int,
         NEW h \in f .. n - 1, NEW m \in 0 .. n - 1,
         Child(h, m), b[m] > b[h],
         \A c \in 0 .. n - 1 : Child(h, c) => b[c] <= b[m],
         HeapOrder(b, n, f, h), OverOrder(b, n, f, h),
         NEW d,
         \A x \in 0 .. n - 1 :
           d[x] = IF x = h THEN b[m] ELSE IF x = m THEN b[h] ELSE b[x]
  PROVE  HeapOrder(d, n, f, m) /\ OverOrder(d, n, f, m)
<1>0. h < m /\ m \in f .. n - 1 /\ h \in 0 .. n - 1
  BY DEF Child
<1>1. ASSUME NEW p \in f .. n - 1, NEW c \in 0 .. n - 1, Child(p, c), p # m
      PROVE  d[c] <= d[p]
  <2>1. CASE p = h
    <3>1. c # h /\ d[p] = b[m] /\ b[c] <= b[m] /\ b[c] \in Int
      BY <1>0, <1>1, <2>1 DEF Child
    <3> QED
      BY <1>0, <3>1
  <2>2. CASE p # h /\ c = h
    <3>1. d[p] = b[p] /\ d[c] = b[m]
      BY <1>0, <1>1, <2>2
    <3>2. b[m] <= b[p]
      BY <1>1, <2>2 DEF OverOrder
    <3> QED
      BY <3>1, <3>2
  <2>3. CASE p # h /\ c # h
    <3>1. c # m
      BY <1>1, <2>3 DEF Child
    <3>2. d[p] = b[p] /\ d[c] = b[c]
      BY <1>0, <1>1, <2>3, <3>1
    <3>3. b[c] <= b[p]
      BY <1>1, <2>3 DEF HeapOrder
    <3> QED
      BY <3>2, <3>3
  <2> QED
    BY <2>1, <2>2, <2>3
<1>2. ASSUME NEW p \in f .. n - 1, NEW c \in 0 .. n - 1,
             Child(p, m), Child(m, c)
      PROVE  d[c] <= d[p]
  <2>1. p = h /\ c # m /\ c # h
    BY <1>0, <1>2 DEF Child
  <2>2. b[c] <= b[m]
    BY <1>0, <1>2 DEF HeapOrder
  <2> QED
    BY <1>0, <2>1, <2>2
<1> QED
  BY <1>1, <1>2 DEF HeapOrder, OverOrder
LEMMA SiftStep ==
  ASSUME SortsTypeOK, j \in Index, heap_size <= size,
         NEW f \in Nat, f <= j,
         HeapOrder(a, heap_size, f, j), OverOrder(a, heap_size, f, j),
         NEW m, m = Largest(j), m # j
  PROVE  /\ m \in Index /\ j < m /\ m < heap_size
         /\ HeapOrder(Swap(a, j, m), heap_size, f, m)
         /\ OverOrder(Swap(a, j, m), heap_size, f, m)
<1>1. size \in Nat \ {0} /\ j \in Int /\ 0 <= j /\ heap_size \in Int
  BY IndexIs DEF SortsTypeOK
<1>2. /\ m \in Index /\ m < heap_size /\ Child(j, m) /\ a[m] > a[j]
      /\ \A c \in 0 .. heap_size - 1 : Child(j, c) => a[c] <= a[m]
  BY LargestIs
<1>3. j < m /\ m \in 0 .. heap_size - 1 /\ j \in f .. heap_size - 1
  BY <1>1, <1>2, IndexIs DEF Child
<1>4. \A x \in 0 .. heap_size - 1 : x \in Index /\ a[x] \in Int
  BY <1>1, IndexIs DEF SortsTypeOK
<1>5. \A x \in 0 .. heap_size - 1 :
        Swap(a, j, m)[x] = IF x = j THEN a[m] ELSE IF x = m THEN a[j] ELSE a[x]
  BY <1>2, <1>4, SwapIs DEF SortsTypeOK
<1>6. heap_size \in Nat /\ \A x \in 0 .. heap_size - 1 : a[x] \in Int
  BY <1>1, <1>3, <1>4
<1>7. PICK d : d = Swap(a, j, m)
  OBVIOUS
<1>8. \A x \in 0 .. heap_size - 1 :
        d[x] = IF x = j THEN a[m] ELSE IF x = m THEN a[j] ELSE a[x]
  BY <1>5, <1>7
<1>9. HeapOrder(d, heap_size, f, m) /\ OverOrder(d, heap_size, f, m)
  BY <1>2, <1>3, <1>6, <1>8, SiftOrder
<1> QED
  BY <1>2, <1>3, <1>7, <1>9

LEMMA SiftedOrder ==
  ASSUME SortsTypeOK, j \in Index, heap_size <= size, NEW f,
         HeapOrder(a, heap_size, f, j), Largest(j) = j
  PROVE  HeapOrder(a, heap_size, f, -1)
<1>1. \A c \in 0 .. heap_size - 1 : Child(j, c) => a[c] <= a[j]
  BY LargestIs
<1> QED
  BY <1>1 DEF HeapOrder

LEMMA HeapInvStep ==
  ASSUME IInv, SortsNext
  PROVE  HeapInv'
<1>0. /\ SortsTypeOK /\ size \in Nat \ {0} /\ size' = size /\ Index' = Index
      /\ i \in Int /\ j \in Int /\ heap_size \in Int
      /\ HeapInv /\ a \in [Index -> Int]
  BY Kept DEF IInv, SortsTypeOK
<1>a. \A x \in Int : 0 <= x /\ x < size => x \in Index /\ a[x] \in Int
  BY <1>0, IndexIs
<1>1. CASE InsertionStep \/ QuickStep
  BY <1>1 DEF InsertionStep, QuickStep, Pick, Shift, Place, Inserted, InitQuick,
              QuickSort, PartitionRound, PartitionEnd, Quicked, HeapInv
<1>2. CASE InitHeap
  <2>1. /\ size \div 2 \in 0 .. size
        /\ \A p \in Int : size \div 2 <= p => size <= 2 * p + 1
    BY <1>0
  <2>2. \A b : HeapOrder(b, size, size \div 2, -1)
    BY <1>0, <2>1 DEF HeapOrder, Child
  <2>3. /\ pc' = "build" /\ heap_size' = size /\ i' = size \div 2 - 1
        /\ i' + 1 = size \div 2 /\ i' \in -1 .. size - 1
    BY <1>0, <1>2, <2>1 DEF InitHeap
  <2> QED
    BY <1>0, <2>2, <2>3 DEF HeapInv
<1>3. CASE Build
  <2>1. /\ heap_size = size /\ i \in 0 .. size - 1
        /\ HeapOrder(a, heap_size, i + 1, -1)
    BY <1>0, <1>3 DEF Build, HeapInv
  <2>2. HeapOrder(a, heap_size, i, i)
    BY <1>0, <2>1 DEF HeapOrder
  <2>3. OverOrder(a, heap_size, i, i)
    BY <1>0, <2>1 DEF OverOrder, Child
  <2>4. /\ pc' = "sift_build" /\ j' = i /\ i' = i /\ heap_size' = heap_size
        /\ a' = a
    BY <1>3 DEF Build
  <2> QED
    BY <1>0, <2>1, <2>2, <2>3, <2>4 DEF HeapInv
<1>4. CASE Built
  <2>1. heap_size = size /\ i = -1 /\ HeapOrder(a, heap_size, 0, -1)
    BY <1>0, <1>4 DEF Built, HeapInv
  <2>2. Behind(a, heap_size)
    BY <1>0, <2>1, IndexIs DEF Behind
  <2>3. /\ pc' = "extract" /\ i' = size - 1 /\ heap_size' = heap_size
        /\ a' = a /\ heap_size' = i' + 1 /\ i' \in -1 .. size - 1
    BY <1>0, <1>4, <2>1 DEF Built
  <2> QED
    BY <1>0, <2>1, <2>2, <2>3 DEF HeapInv, Behind
<1>5. CASE Extract
  <2>1. /\ heap_size = i + 1 /\ i \in 0 .. size - 1 /\ i \in Index /\ 0 \in Index
        /\ HeapOrder(a, heap_size, 0, -1) /\ Behind(a, heap_size)
    BY <1>0, <1>5, IndexIs DEF Extract, HeapInv
  <2>2. /\ pc' = "sift_extract" /\ heap_size' = i /\ i' = i /\ j' = 0
    BY <1>0, <1>5, <2>1 DEF Extract
  <2>3. \A x \in Index : a'[x] = IF x = 0 THEN a[i] ELSE IF x = i THEN a[0] ELSE a[x]
    BY <1>0, <1>5, <2>1, SwapIs DEF Extract
  <2>4. \A x \in 0 .. i : a[x] <= a[0]
    <3>1. heap_size \in Nat /\ \A x \in 0 .. heap_size - 1 : a[x] \in Int
      BY <1>0, <1>a, <2>1
    <3> QED
      BY <1>0, <2>1, <3>1, RootIsLargest
  <2>5. HeapOrder(a', i, 0, 0) /\ OverOrder(a', i, 0, 0)
    <3>1. OverOrder(a', i, 0, 0)
      BY <1>0, <2>1 DEF OverOrder, Child
    <3>2. ASSUME NEW p \in 0 .. i - 1, NEW c \in 0 .. i - 1,
                 Child(p, c), p # 0
          PROVE  a'[c] <= a'[p]
      <4>1. c # 0 /\ p \in Index /\ c \in Index /\ p # i /\ c # i
        BY <1>0, <1>a, <2>1, <3>2 DEF Child
      <4>2. a[c] <= a[p]
        BY <1>0, <2>1, <3>2 DEF HeapOrder
      <4> QED
        BY <2>3, <3>2, <4>1, <4>2
    <3> QED
      BY <3>1, <3>2 DEF HeapOrder
  <2>6. \A x, y \in Index : x < y /\ i <= y => a'[x] <= a'[y]
    <3> SUFFICES ASSUME NEW x \in Index, NEW y \in Index, x < y, i <= y
                 PROVE  a'[x] <= a'[y]
      OBVIOUS
    <3>1. x \in Int /\ y \in Int /\ 0 <= x /\ y < size
      BY <1>0, IndexIs
    <3>2. PICK z \in Index : a'[x] = a[z] /\ z \in 0 .. y /\ (i < y => z < y)
      BY <1>0, <2>1, <2>3, <3>1
    <3>3. CASE i = y
      BY <2>1, <2>3, <2>4, <3>1, <3>2, <3>3
    <3>4. CASE i < y
      <4>1. a[z] <= a[y]
        BY <1>0, <2>1, <3>1, <3>2, <3>4 DEF Behind
      <4> QED
        BY <2>3, <3>1, <3>2, <3>4, <4>1
    <3> QED
      BY <1>0, <3>1, <3>3, <3>4
  <2> QED
    BY <1>0, <2>1, <2>2, <2>5, <2>6 DEF HeapInv, Behind
<1>6. CASE Heaped
  BY <1>6 DEF Heaped, HeapInv
<1>7. CASE Sift("sift_build")
  <2>1. /\ heap_size = size /\ i \in 0 .. j /\ j \in Index /\ i \in Nat
        /\ HeapOrder(a, heap_size, i, j) /\ OverOrder(a, heap_size, i, j)
        /\ Largest(j) # j
    BY <1>0, <1>a, <1>7 DEF Sift, HeapInv
  <2>2. PICK m : m = Largest(j)
    OBVIOUS
  <2>3. /\ m \in Index /\ j < m /\ m < heap_size
        /\ HeapOrder(Swap(a, j, m), heap_size, i, m)
        /\ OverOrder(Swap(a, j, m), heap_size, i, m)
    <3>1. heap_size <= size /\ i <= j /\ m # j
      BY <1>0, <2>1, <2>2
    <3> QED
      BY <1>0, <2>1, <2>2, <3>1, SiftStep
  <2>4. /\ pc' = "sift_build" /\ a' = Swap(a, j, m) /\ j' = m /\ i' = i
        /\ heap_size' = heap_size
    BY <1>7, <2>2 DEF Sift
  <2>5. i' \in 0 .. j' /\ j' < size
    BY <1>0, <2>1, <2>3, <2>4, IndexIs
  <2> QED
    BY <1>0, <2>1, <2>3, <2>4, <2>5 DEF HeapInv
<1>8. CASE Sift("sift_extract")
  <2>1. /\ heap_size = i /\ i \in Index /\ j \in Index /\ heap_size <= size
        /\ HeapOrder(a, heap_size, 0, j) /\ OverOrder(a, heap_size, 0, j)
        /\ Behind(a, heap_size) /\ Largest(j) # j
    BY <1>0, <1>8, IndexIs DEF Sift, HeapInv
  <2>2. PICK m : m = Largest(j)
    OBVIOUS
  <2>3. /\ m \in Index /\ j < m /\ m < heap_size
        /\ HeapOrder(Swap(a, j, m), heap_size, 0, m)
        /\ OverOrder(Swap(a, j, m), heap_size, 0, m)
    <3>1. 0 \in Nat /\ 0 <= j /\ m # j
      BY <1>0, <2>1, <2>2, IndexIs
    <3> QED
      BY <1>0, <2>1, <2>2, <3>1, SiftStep
  <2>4. /\ pc' = "sift_extract" /\ a' = Swap(a, j, m) /\ j' = m /\ i' = i
        /\ heap_size' = heap_size
    BY <1>8, <2>2 DEF Sift
  <2>5. \A x, y \in Index : x < y /\ heap_size <= y => a'[x] <= a'[y]
    <3> SUFFICES ASSUME NEW x \in Index, NEW y \in Index,
                        x < y, heap_size <= y
                 PROVE  a'[x] <= a'[y]
      OBVIOUS
    <3>1. x \in Int /\ y \in Int /\ m \in Int
      BY <1>0, <2>3, IndexIs
    <3>2. a'[y] = a[y]
      BY <1>0, <2>1, <2>3, <2>4, <3>1, SwapIs
    <3>3. PICK z \in Index : a'[x] = a[z] /\ z < y
      <4>1. a'[x] = IF x = j THEN a[m] ELSE IF x = m THEN a[j] ELSE a[x]
        BY <1>0, <2>1, <2>3, <2>4, SwapIs
      <4>2. j \in Index /\ m \in Index /\ j < y /\ m < y
        BY <1>0, <2>1, <2>3, <3>1
      <4> QED
        BY <4>1, <4>2
    <3> QED
      BY <2>1, <3>2, <3>3 DEF Behind
  <2> QED
    BY <1>0, <2>1, <2>3, <2>4, <2>5 DEF HeapInv, Behind
<1>9. CASE Sifted("sift_build", "build")
  <2>1. /\ heap_size = size /\ i \in 0 .. j /\ j \in Index
        /\ HeapOrder(a, heap_size, i, j) /\ Largest(j) = j
    BY <1>0, <1>a, <1>9 DEF Sifted, HeapInv
  <2>2. HeapOrder(a, heap_size, i, -1)
    BY <1>0, <2>1, SiftedOrder
  <2>3. /\ pc' = "build" /\ a' = a /\ i' = i - 1 /\ heap_size' = heap_size
        /\ i' + 1 = i /\ i' \in -1 .. size - 1
    BY <1>0, <1>9, <2>1, IndexIs DEF Sifted
  <2> QED
    BY <1>0, <2>1, <2>2, <2>3 DEF HeapInv
<1>10. CASE Sifted("sift_extract", "extract")
  <2>1. /\ heap_size = i /\ i \in Index /\ j \in Index /\ heap_size <= size
        /\ HeapOrder(a, heap_size, 0, j) /\ Behind(a, heap_size)
        /\ Largest(j) = j
    BY <1>0, <1>10, IndexIs DEF Sifted, HeapInv
  <2>2. HeapOrder(a, heap_size, 0, -1)
    BY <1>0, <2>1, SiftedOrder
  <2>3. /\ pc' = "extract" /\ a' = a /\ i' = i - 1 /\ heap_size' = heap_size
        /\ heap_size = i' + 1 /\ i' \in -1 .. size - 1
    BY <1>0, <1>10, <2>1, IndexIs DEF Sifted
  <2> QED
    BY <1>0, <2>1, <2>2, <2>3 DEF HeapInv, Behind
<1> QED
  BY <1>1, <1>2, <1>3, <1>4, <1>5, <1>6, <1>7, <1>8, <1>9, <1>10
     DEF SortsNext, InsertionStep, QuickStep
-----------------------------------------------------------------------------
(* partition moves values inside its range only: each place outside keeps  *)
(* its value, and the order between the range and the places outside.      *)
LEMMA InsideMove ==
  ASSUME SortsTypeOK, NEW s \in Index, NEW e \in Index,
         NEW R, Ranges(R), <<s, e>> \in R, OrderOutside(a, R),
         NEW x \in s .. e, NEW y \in s .. e,
         NEW d, d = Swap(a, x, y),
         NEW p \in Index, NEW q \in Index, p < q,
         p \notin s .. e \/ q \notin s .. e,
         \A r \in R \ {<<s, e>>} : ~(r[1] <= p /\ q <= r[2])
  PROVE  d[p] <= d[q]
<1>0. /\ size \in Nat \ {0} /\ s \in Int /\ e \in Int /\ p \in Int /\ q \in Int
      /\ x \in Index /\ y \in Index /\ a \in [Index -> Int]
      /\ 0 <= s /\ e < size
  BY IndexIs DEF SortsTypeOK
<1>1. \A z \in Index : d[z] = IF z = x THEN a[y] ELSE IF z = y THEN a[x] ELSE a[z]
  BY <1>0, SwapIs
<1>2. \A r \in R : r # <<s, e>> => r[2] < s \/ e < r[1]
  BY DEF Ranges
<1>3. ASSUME NEW u \in Index, NEW v \in Index, u < v,
             \A r \in R : ~(r[1] <= u /\ v <= r[2])
      PROVE  a[u] <= a[v]
  BY <1>3 DEF OrderOutside
<1>4. CASE p \in s .. e /\ q \notin s .. e
  <2>1. e < q
    BY <1>0, <1>4
  <2>2. PICK u \in s .. e : d[p] = a[u]
    BY <1>0, <1>1, <1>4
  <2>3. u \in Index /\ u < q
    BY <1>0, <2>1, IndexIs
  <2>4. \A r \in R : ~(r[1] <= u /\ q <= r[2])
    <3> SUFFICES ASSUME NEW r \in R, r[1] <= u, q <= r[2]
                 PROVE  FALSE
      OBVIOUS
    <3>1. CASE r = <<s, e>>
      BY <1>0, <2>1, <3>1
    <3>2. CASE r # <<s, e>>
      <4>1. r[2] < s \/ e < r[1]
        BY <1>2, <3>2
      <4>2. r[1] \in Int /\ r[2] \in Int
        BY DEF Ranges
      <4> QED
        BY <1>0, <2>1, <4>1, <4>2
    <3> QED
      BY <3>1, <3>2
  <2>5. d[q] = a[q]
    BY <1>0, <1>1, <1>4
  <2> QED
    BY <1>3, <2>2, <2>3, <2>4, <2>5
<1>5. CASE p \notin s .. e /\ q \in s .. e
  <2>1. p < s
    BY <1>0, <1>5
  <2>2. PICK u \in s .. e : d[q] = a[u]
    BY <1>0, <1>1, <1>5
  <2>3. u \in Index /\ p < u
    BY <1>0, <2>1, IndexIs
  <2>4. \A r \in R : ~(r[1] <= p /\ u <= r[2])
    <3> SUFFICES ASSUME NEW r \in R, r[1] <= p, u <= r[2]
                 PROVE  FALSE
      OBVIOUS
    <3>1. CASE r = <<s, e>>
      BY <1>0, <2>1, <3>1
    <3>2. CASE r # <<s, e>>
      <4>1. r[2] < s \/ e < r[1]
        BY <1>2, <3>2
      <4>2. r[1] \in Int /\ r[2] \in Int
        BY DEF Ranges
      <4> QED
        BY <1>0, <2>1, <4>1, <4>2
    <3> QED
      BY <3>1, <3>2
  <2>5. d[p] = a[p]
    BY <1>0, <1>1, <1>5
  <2> QED
    BY <1>3, <2>2, <2>3, <2>4, <2>5
<1>6. CASE p \notin s .. e /\ q \notin s .. e
  <2>1. d[p] = a[p] /\ d[q] = a[q]
    BY <1>1, <1>6
  <2>2. \A r \in R : ~(r[1] <= p /\ q <= r[2])
    BY <1>0, <1>6
  <2> QED
    BY <1>3, <2>1, <2>2
<1> QED
  BY <1>4, <1>5, <1>6
LEMMA QuickInvStep ==
  ASSUME IInv, SortsNext
  PROVE  QuickInv'
<1>0. /\ SortsTypeOK /\ size \in Nat \ {0} /\ size' = size /\ Index' = Index
      /\ i \in Int /\ j \in Int /\ key \in Int
      /\ QuickInv /\ a \in [Index -> Int]
      /\ range = <<range[1], range[2]>>
      /\ range[1] \in Int /\ range[2] \in Int
  BY Kept DEF IInv, SortsTypeOK
<1>a. \A R : Ranges(R)' = Ranges(R)
  BY <1>0 DEF Ranges
<1>b. \A b, R : OrderOutside(b, R)' = OrderOutside(b, R)
  BY <1>0 DEF OrderOutside
<1>1. CASE InsertionStep \/ HeapStep \/ Quicked
  BY <1>1 DEF InsertionStep, HeapStep, Pick, Shift, Place, Inserted, InitHeap,
              Build, Built, Extract, Heaped, Sift, Sifted, Quicked, QuickInv
<1>2. CASE InitQuick
  <2>1. Ranges(Proper(0, size - 1))
    BY <1>0 DEF Ranges, Proper
  <2>2. \A b : OrderOutside(b, Proper(0, size - 1))
    <3> SUFFICES ASSUME NEW x \in Index, NEW y \in Index, x < y
                 PROVE  \E r \in Proper(0, size - 1) : r[1] <= x /\ y <= r[2]
      BY DEF OrderOutside
    <3>1. 0 < size - 1 /\ 0 <= x /\ y <= size - 1
      BY <1>0, IndexIs
    <3> QED
      BY <3>1 DEF Proper
  <2>3. pc' = "quick" /\ todo' = Proper(0, size - 1)
    BY <1>2 DEF InitQuick
  <2>4. Ranges(todo') /\ OrderOutside(a', todo')
    BY <2>1, <2>2, <2>3
  <2> QED
    BY <1>0, <2>3, <2>4 DEF QuickInv, Ranges, OrderOutside
<1>3. ASSUME NEW r \in todo, QuickSort(r)
      PROVE  QuickInv'
  <2>1. /\ Ranges(todo) /\ OrderOutside(a, todo)
        /\ pc' = "partition" /\ todo' = todo \ {r} /\ range' = r /\ a' = a
        /\ key' = a[r[2]] /\ i' = r[1] - 1 /\ j' = r[1]
    BY <1>0, <1>3 DEF QuickSort, QuickInv
  <2>2. r[1] \in Int /\ r[2] \in Int /\ r[1] < r[2]
    BY <2>1 DEF Ranges
  <2>3. todo' \cup {range'} = todo /\ range' \notin todo'
    BY <2>1
  <2>4. /\ range'[1] - 1 <= i' /\ i' < j' /\ j' <= range'[2]
        /\ \A x \in range'[1] .. i' : a'[x] <= key'
        /\ \A x \in i' + 1 .. j' - 1 : a'[x] > key'
    BY <2>1, <2>2
  <2>5. Ranges(todo' \cup {range'}) /\ OrderOutside(a', todo' \cup {range'})
    BY <2>1, <2>3
  <2> QED
    BY <1>0, <2>1, <2>3, <2>4, <2>5 DEF QuickInv, Ranges, OrderOutside
<1>4. ASSUME pc = "partition"
      PROVE  /\ range \notin todo /\ Ranges(todo \cup {range})
             /\ OrderOutside(a, todo \cup {range})
             /\ range[1] \in Index /\ range[2] \in Index /\ range[1] < range[2]
             /\ range[1] - 1 <= i /\ i < j /\ j <= range[2]
             /\ i + 1 \in range[1] .. range[2] /\ j \in range[1] .. range[2]
             /\ range[2] \in range[1] .. range[2]
             /\ \A x \in range[1] .. range[2] : x \in Index /\ a[x] \in Int
             /\ key = a[range[2]]
             /\ \A x \in range[1] .. i : a[x] <= key
             /\ \A x \in i + 1 .. j - 1 : a[x] > key
  <2>1. /\ range \notin todo /\ Ranges(todo \cup {range})
        /\ OrderOutside(a, todo \cup {range})
        /\ range[1] - 1 <= i /\ i < j /\ j <= range[2]
        /\ key = a[range[2]]
        /\ \A x \in range[1] .. i : a[x] <= key
        /\ \A x \in i + 1 .. j - 1 : a[x] > key
    BY <1>0, <1>4 DEF QuickInv
  <2>2. 0 <= range[1] /\ range[1] < range[2] /\ range[2] < size
    BY <2>1 DEF Ranges
  <2>3. \A x \in range[1] .. range[2] : x \in Index /\ a[x] \in Int
    BY <1>0, <2>2, IndexIs
  <2>4. /\ range[1] \in Index /\ range[2] \in Index
        /\ i + 1 \in range[1] .. range[2] /\ j \in range[1] .. range[2]
        /\ range[2] \in range[1] .. range[2]
    BY <1>0, <2>1, <2>2, <2>3
  <2> QED
    BY <2>1, <2>2, <2>3, <2>4
<1>5. CASE PartitionRound /\ a[j] <= key
  <2> DEFINE s == range[1]
             e == range[2]
             R == todo \cup {range}
             d == Swap(a, i + 1, j)
  <2>1. /\ pc' = "partition" /\ i' = i + 1 /\ j' = j + 1 /\ j < e /\ a' = d
        /\ range' = range /\ todo' = todo /\ key' = key
    BY <1>5 DEF PartitionRound
  <2>2. pc = "partition"
    BY <1>5 DEF PartitionRound
  <2>3. \A x \in s .. e : d[x] = IF x = i + 1 THEN a[j]
                                 ELSE IF x = j THEN a[i + 1] ELSE a[x]
    BY <1>0, <1>4, <2>2, SwapIs
  <2>4. OrderOutside(d, R)
    <3> SUFFICES ASSUME NEW p \in Index, NEW q \in Index, p < q,
                        \A r \in R : ~(r[1] <= p /\ q <= r[2])
                 PROVE  d[p] <= d[q]
      BY DEF OrderOutside
    <3>1. p \notin s .. e \/ q \notin s .. e
      BY <1>0
    <3>2. Ranges(R) /\ OrderOutside(a, R) /\ <<s, e>> \in R
      BY <1>0, <1>4, <2>2
    <3>3. /\ s \in Index /\ e \in Index /\ i + 1 \in s .. e /\ j \in s .. e
      BY <1>4, <2>2
    <3> HIDE DEF s, e, R, d
    <3>4. PICK b : b = Swap(a, i + 1, j)
      OBVIOUS
    <3>5. b[p] <= b[q]
      BY <1>0, <3>1, <3>2, <3>3, <3>4, InsideMove
    <3> QED
      BY <3>4, <3>5 DEF d
  <2>5. /\ d[e] = a[e]
        /\ \A x \in s .. i + 1 : d[x] <= key
        /\ \A x \in i + 2 .. j : d[x] > key
    <3>1. d[e] = a[e]
      BY <1>0, <1>4, <2>1, <2>2, <2>3
    <3>2. \A x \in s .. i + 1 : d[x] <= key
      BY <1>0, <1>4, <1>5, <2>1, <2>2, <2>3
    <3>3. \A x \in i + 2 .. j : d[x] > key
      BY <1>0, <1>4, <1>5, <2>1, <2>2, <2>3
    <3> QED
      BY <3>1, <3>2, <3>3
  <2>6. /\ s - 1 <= i + 1 /\ i + 1 < j + 1 /\ j + 1 <= e
        /\ (i + 1) + 1 = i + 2 /\ (j + 1) - 1 = j
    BY <1>0, <1>4, <2>1, <2>2
  <2>7. /\ range' \notin todo' /\ key' = a'[range'[2]]
        /\ range'[1] - 1 <= i' /\ i' < j' /\ j' <= range'[2]
        /\ \A x \in range'[1] .. i' : a'[x] <= key'
        /\ \A x \in i' + 1 .. j' - 1 : a'[x] > key'
    BY <1>4, <2>1, <2>2, <2>5, <2>6
  <2>8. Ranges(todo' \cup {range'}) /\ OrderOutside(a', todo' \cup {range'})
    BY <1>4, <2>1, <2>2, <2>4
  <2> QED
    BY <1>0, <2>1, <2>7, <2>8 DEF QuickInv, Ranges, OrderOutside
<1>6. CASE PartitionRound /\ ~(a[j] <= key)
  <2>1. /\ pc' = "partition" /\ i' = i /\ j' = j + 1 /\ j < range[2] /\ a' = a
        /\ range' = range /\ todo' = todo /\ key' = key /\ pc = "partition"
    BY <1>6 DEF PartitionRound
  <2>2. \A x \in i + 1 .. j : a[x] > key
    BY <1>0, <1>4, <1>6, <2>1
  <2>3. /\ range[1] - 1 <= i /\ i < j + 1 /\ j + 1 <= range[2]
        /\ (j + 1) - 1 = j
    BY <1>0, <1>4, <2>1
  <2>4. /\ range' \notin todo' /\ key' = a'[range'[2]]
        /\ range'[1] - 1 <= i' /\ i' < j' /\ j' <= range'[2]
        /\ \A x \in range'[1] .. i' : a'[x] <= key'
        /\ \A x \in i' + 1 .. j' - 1 : a'[x] > key'
    BY <1>4, <2>1, <2>2, <2>3
  <2>5. Ranges(todo' \cup {range'}) /\ OrderOutside(a', todo' \cup {range'})
    BY <1>4, <2>1
  <2> QED
    BY <1>0, <2>1, <2>4, <2>5 DEF QuickInv, Ranges, OrderOutside
<1>7. CASE PartitionEnd
  <2> DEFINE s == range[1]
             e == range[2]
             R == todo \cup {range}
             S == todo \cup Proper(s, i) \cup Proper(i + 2, e)
             d == Swap(a, i + 1, e)
  <2>1. pc' = "quick" /\ a' = d /\ todo' = S /\ pc = "partition" /\ j >= e
    BY <1>7 DEF PartitionEnd
  <2>2. j = e /\ s - 1 <= i /\ i < e
    BY <1>0, <1>4, <2>1
  <2>3. \A x \in s .. e : d[x] = IF x = i + 1 THEN a[e]
                                 ELSE IF x = e THEN a[i + 1] ELSE a[x]
    BY <1>0, <1>4, <2>1, SwapIs
  <2>4. Ranges(S)
    <3>1. \A r \in Proper(s, i) \cup Proper(i + 2, e) :
            r \in Int \X Int /\ s <= r[1] /\ r[1] < r[2] /\ r[2] <= e
      BY <1>0, <2>2 DEF Proper
    <3>2. \A r, t \in Proper(s, i) \cup Proper(i + 2, e) :
            r # t => r[2] < t[1] \/ t[2] < r[1]
      BY <1>0, <2>2 DEF Proper
    <3>3. /\ \A r \in todo : /\ r \in Int \X Int /\ 0 <= r[1] /\ r[1] < r[2]
                            /\ r[2] < size /\ (r[2] < s \/ e < r[1])
          /\ \A r, t \in todo : r # t => r[2] < t[1] \/ t[2] < r[1]
          /\ 0 <= s /\ e < size
      BY <1>4, <2>1 DEF Ranges
    <3>4. \A r \in todo, t \in Proper(s, i) \cup Proper(i + 2, e) :
            r[2] < t[1] \/ t[2] < r[1]
      BY <1>0, <3>1, <3>3
    <3>5. \A r \in S : r \in Int \X Int /\ 0 <= r[1] /\ r[1] < r[2] /\ r[2] < size
      BY <1>0, <3>1, <3>3
    <3>6. \A r, t \in S : r # t => r[2] < t[1] \/ t[2] < r[1]
      BY <3>2, <3>3, <3>4
    <3> QED
      BY <3>5, <3>6 DEF Ranges
  <2>5. OrderOutside(d, S)
    <3> SUFFICES ASSUME NEW p \in Index, NEW q \in Index, p < q,
                        \A r \in S : ~(r[1] <= p /\ q <= r[2])
                 PROVE  d[p] <= d[q]
      BY DEF OrderOutside
    <3>1. p \in Int /\ q \in Int
      BY <1>0, IndexIs
    <3>2. CASE p \in s .. e /\ q \in s .. e
      <4>1. ~(q <= i)
        <5> SUFFICES ASSUME q <= i PROVE FALSE
          OBVIOUS
        <5>1. <<s, i>> \in S
          BY <1>0, <3>1, <3>2 DEF Proper
        <5> QED
          BY <1>0, <3>1, <3>2, <5>1
      <4>2. ~(i + 2 <= p)
        <5> SUFFICES ASSUME i + 2 <= p PROVE FALSE
          OBVIOUS
        <5>1. <<i + 2, e>> \in S
          BY <1>0, <3>1, <3>2 DEF Proper
        <5> QED
          BY <1>0, <3>1, <3>2, <5>1
      <4>3. d[p] <= key
        BY <1>0, <1>4, <2>1, <2>2, <2>3, <3>1, <3>2, <4>2
      <4>4. d[q] >= key
        BY <1>0, <1>4, <2>1, <2>2, <2>3, <3>1, <3>2, <4>1
      <4>5. d[p] \in Int /\ d[q] \in Int
        BY <1>0, <1>4, <2>1, <2>2, <2>3, <3>2
      <4> QED
        BY <1>0, <4>3, <4>4, <4>5
    <3>3. CASE p \notin s .. e \/ q \notin s .. e
      <4>1. Ranges(R) /\ OrderOutside(a, R) /\ <<s, e>> \in R
        BY <1>0, <1>4, <2>1
      <4>2. /\ s \in Index /\ e \in Index /\ i + 1 \in s .. e /\ e \in s .. e
        BY <1>4, <2>1
      <4>3. \A r \in R \ {<<s, e>>} : ~(r[1] <= p /\ q <= r[2])
        BY <1>0
      <4> HIDE DEF s, e, R, S, d
      <4>4. PICK b : b = Swap(a, i + 1, e)
        OBVIOUS
      <4>5. b[p] <= b[q]
        BY <1>0, <3>3, <4>1, <4>2, <4>3, <4>4, InsideMove
      <4> QED
        BY <4>4, <4>5 DEF d
    <3> QED
      BY <3>2, <3>3
  <2>6. Ranges(todo') /\ OrderOutside(a', todo')
    BY <2>1, <2>4, <2>5
  <2> QED
    BY <1>0, <2>1, <2>6 DEF QuickInv, Ranges, OrderOutside
<1> QED
  BY <1>1, <1>2, <1>3, <1>5, <1>6, <1>7
     DEF SortsNext, InsertionStep, HeapStep, PartitionRound
-----------------------------------------------------------------------------
(* Every variable keeps its type, and the inductive invariant holds, for   *)
(* arrays of any size and of any integers.                                 *)
THEOREM SortsInvariance == SortsSpec => []IInv
<1>1. SortsInit => IInv
  BY InitInv
<1>2. IInv /\ [SortsNext]_sorts_vars => IInv'
  <2> SUFFICES ASSUME IInv, [SortsNext]_sorts_vars
               PROVE  IInv'
    OBVIOUS
  <2>1. CASE SortsNext
    BY <2>1, TypeStep, PermutationStep, InsertionInvStep, HeapInvStep,
       QuickInvStep DEF IInv
  <2>2. CASE UNCHANGED sorts_vars
    <3>1. /\ UNCHANGED <<size, a, a0, pc, i, j, key, heap_size, range, todo>>
          /\ Index' = Index /\ WholeArray' = WholeArray
      BY <2>2 DEF sorts_vars, Index, WholeArray
    <3>2. PermutationInv'
      BY <3>1, PermutationStable DEF IInv, PermutationInv
    <3>3. SortsTypeOK' /\ InsertionInv'
      BY <3>1 DEF IInv, SortsTypeOK, InsertionInv, Printing
    <3>4. HeapInv'
      BY <3>1 DEF IInv, HeapInv, Behind
    <3>5. QuickInv'
      BY <3>1 DEF IInv, QuickInv, Ranges, OrderOutside
    <3> QED
      BY <3>2, <3>3, <3>4, <3>5 DEF IInv
  <2> QED
    BY <2>1, <2>2
<1> QED
  BY <1>1, <1>2, PTL DEF SortsSpec

(* insertion_sort, heap_sort and quick_sort leave the array in ascending   *)
(* order.                                                                  *)
THEOREM Sorted == SortsSpec => []PrintsSorted
<1>1. IInv => PrintsSorted
  BY DEF IInv, SortsTypeOK, InsertionInv, InOrder, PrintsSorted, Ascending,
         Index
<1> QED
  BY <1>1, SortsInvariance, PTL

(* And they leave in it the values that were in it.                        *)
THEOREM Permuted == SortsSpec => []PrintsPermutation
<1>1. IInv => PrintsPermutation
  BY DEF IInv, PermutationInv, WholeArray, PrintsPermutation, Printing
<1> QED
  BY <1>1, SortsInvariance, PTL
=============================================================================
