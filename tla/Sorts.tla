------------------------------- MODULE Sorts --------------------------------
(***************************************************************************)
(* The sorting program of Algorithm/HW3: main sorts the same array three   *)
(* times, by insertion_sort, heap_sort and quick_sort, and prints it after *)
(* each; init_array gives it its first values back.                        *)
(*                                                                         *)
(* An array is a function on 0 .. size - 1.  A step is one round of a loop *)
(* or one call.                                                            *)
(***************************************************************************)
EXTENDS Integers

CONSTANTS
  Size,     (* the sizes of the arrays: 10, 20, ... 100                    *)
  Value     (* what rand may put in them                                   *)

ASSUME SortsAssumption == Size \subseteq Nat \ {0} /\ Value \subseteq Int

VARIABLES
  size, a,
  a0,         (* history: the array before it is sorted                    *)
  pc,
  i, j,       (* the loop counters of the function that runs; of           *)
              (* max_heapify, j is the node                                *)
  key,        (* key of insertion_sort, x of partition                     *)
  heap_size,  (* size in heap_sort, which counts it down                   *)
  range,      (* the <<start, end>> that partition works on                *)
  todo        (* the ranges quick_sort has yet to be called for            *)

sorts_vars == <<size, a, a0, pc, i, j, key, heap_size, range, todo>>

Index == 0 .. size - 1
Swap(f, x, y) == [f EXCEPT ![x] = f[y], ![y] = f[x]]

SortsInit ==
  /\ size \in Size
  /\ a0 \in [Index -> Value]
  /\ a = a0
  /\ pc = "insertion"
  /\ i = 1
  /\ j = 0 /\ key = 0 /\ heap_size = 0
  /\ range = <<0, 0>>
  /\ todo = {}
-----------------------------------------------------------------------------
(* insertion_sort                                                          *)
Pick ==
  /\ pc = "insertion" /\ i < size
  /\ key' = a[i]
  /\ j' = i - 1
  /\ pc' = "shift"
  /\ UNCHANGED <<size, a, a0, i, heap_size, range, todo>>

Greater == j >= 0 /\ a[j] > key

Shift ==
  /\ pc = "shift" /\ Greater
  /\ a' = [a EXCEPT ![j + 1] = a[j]]
  /\ j' = j - 1
  /\ UNCHANGED <<size, a0, pc, i, key, heap_size, range, todo>>

(* This, ForgetfulLargest and KeepPivotPartitionEnd are plausible          *)
(* mistakes, on which the properties must fail: here, key goes where j is, *)
(* not behind it.                                                          *)
PlaceBefore ==
  /\ pc = "shift" /\ ~Greater
  /\ a' = [a EXCEPT ![IF j >= 0 THEN j ELSE 0] = key]
  /\ i' = i + 1
  /\ pc' = "insertion"
  /\ UNCHANGED <<size, a0, j, key, heap_size, range, todo>>

Place ==
  /\ pc = "shift" /\ ~Greater
  /\ a' = [a EXCEPT ![j + 1] = key]
  /\ i' = i + 1
  /\ pc' = "insertion"
  /\ UNCHANGED <<size, a0, j, key, heap_size, range, todo>>

Inserted ==
  /\ pc = "insertion" /\ i >= size
  /\ pc' = "inserted"
  /\ UNCHANGED <<size, a, a0, i, j, key, heap_size, range, todo>>
-----------------------------------------------------------------------------
(* heap_sort: build_max_heap, then the largest goes behind the heap.       *)
InitHeap ==
  /\ pc = "inserted"
  /\ a' = a0
  /\ heap_size' = size
  /\ i' = size \div 2 - 1
  /\ pc' = "build"
  /\ UNCHANGED <<size, a0, j, key, range, todo>>

Build ==
  /\ pc = "build" /\ i >= 0
  /\ j' = i
  /\ pc' = "sift_build"
  /\ UNCHANGED <<size, a, a0, i, key, heap_size, range, todo>>

Built ==
  /\ pc = "build" /\ i < 0
  /\ i' = size - 1
  /\ pc' = "extract"
  /\ UNCHANGED <<size, a, a0, j, key, heap_size, range, todo>>

Extract ==
  /\ pc = "extract" /\ i >= 0
  /\ a' = Swap(a, 0, i)
  /\ heap_size' = heap_size - 1
  /\ j' = 0
  /\ pc' = "sift_extract"
  /\ UNCHANGED <<size, a0, i, key, range, todo>>

Heaped ==
  /\ pc = "extract" /\ i < 0
  /\ pc' = "heaped"
  /\ UNCHANGED <<size, a, a0, i, j, key, heap_size, range, todo>>

(* max_heapify of node n: where the largest of it and its children is.     *)
Left(n) == 2 * n + 1
Right(n) == 2 * n + 2

ForgetfulLargest(n) ==                   \* the left child is forgotten
  LET max == IF Left(n) < heap_size /\ a[Left(n)] > a[n] THEN Left(n) ELSE n
  IN IF Right(n) < heap_size /\ a[Right(n)] > a[n] THEN Right(n) ELSE max

Largest(n) ==
  LET max == IF Left(n) < heap_size /\ a[Left(n)] > a[n] THEN Left(n) ELSE n
  IN IF Right(n) < heap_size /\ a[Right(n)] > a[max] THEN Right(n) ELSE max

Sift(from) ==
  /\ pc = from /\ Largest(j) # j
  /\ a' = Swap(a, j, Largest(j))
  /\ j' = Largest(j)
  /\ UNCHANGED <<size, a0, pc, i, key, heap_size, range, todo>>

Sifted(from, to) ==
  /\ pc = from /\ Largest(j) = j
  /\ i' = i - 1
  /\ pc' = to
  /\ UNCHANGED <<size, a, a0, j, key, heap_size, range, todo>>
-----------------------------------------------------------------------------
(* quick_sort: of the ranges to be sorted, the leftmost comes first.       *)
Proper(start, end) == IF start < end THEN {<<start, end>>} ELSE {}

InitQuick ==
  /\ pc = "heaped"
  /\ a' = a0
  /\ todo' = Proper(0, size - 1)
  /\ pc' = "quick"
  /\ UNCHANGED <<size, a0, i, j, key, heap_size, range>>

QuickSort(r) ==
  /\ pc = "quick" /\ r \in todo
  /\ \A t \in todo : r[1] <= t[1]
  /\ todo' = todo \ {r}
  /\ range' = r
  /\ key' = a[r[2]]
  /\ i' = r[1] - 1
  /\ j' = r[1]
  /\ pc' = "partition"
  /\ UNCHANGED <<size, a, a0, heap_size>>

PartitionRound ==
  /\ pc = "partition" /\ j < range[2]
  /\ IF a[j] <= key
       THEN i' = i + 1 /\ a' = Swap(a, i + 1, j)
       ELSE UNCHANGED <<i, a>>
  /\ j' = j + 1
  /\ UNCHANGED <<size, a0, pc, key, heap_size, range, todo>>

KeepPivotPartitionEnd ==                 \* the left range is start .. q
  /\ pc = "partition" /\ j >= range[2]
  /\ a' = Swap(a, i + 1, range[2])
  /\ todo' = todo \cup Proper(range[1], i + 1) \cup Proper(i + 2, range[2])
  /\ pc' = "quick"
  /\ UNCHANGED <<size, a0, i, j, key, heap_size, range>>

PartitionEnd ==
  /\ pc = "partition" /\ j >= range[2]
  /\ a' = Swap(a, i + 1, range[2])
  /\ todo' = todo \cup Proper(range[1], i) \cup Proper(i + 2, range[2])
  /\ pc' = "quick"
  /\ UNCHANGED <<size, a0, i, j, key, heap_size, range>>

Quicked ==
  /\ pc = "quick" /\ todo = {}
  /\ pc' = "quicked"
  /\ UNCHANGED <<size, a, a0, i, j, key, heap_size, range, todo>>
-----------------------------------------------------------------------------
SortsNext ==
  \/ Pick \/ Shift \/ Place \/ Inserted
  \/ InitHeap \/ Build \/ Built \/ Extract \/ Heaped
  \/ Sift("sift_build") \/ Sifted("sift_build", "build")
  \/ Sift("sift_extract") \/ Sifted("sift_extract", "extract")
  \/ InitQuick \/ (\E r \in todo : QuickSort(r))
  \/ PartitionRound \/ PartitionEnd \/ Quicked

SortsSpec == SortsInit /\ [][SortsNext]_sorts_vars
-----------------------------------------------------------------------------
Printing == pc \in {"inserted", "heaped", "quicked"}

(* Each of the three functions leaves the array in ascending order.        *)
Ascending == \A x, y \in Index : x < y => a[x] <= a[y]

PrintsSorted == Printing => Ascending

(* And it neither loses nor invents a value: each place holds what another *)
(* place held before, no two the same one's.                               *)
Injections ==
  {f \in [Index -> Index] : \A x, y \in Index : f[x] = f[y] => x = y}

IsPermutation(b) == \E f \in Injections : b = [x \in Index |-> a0[f[x]]]

PrintsPermutation == Printing => IsPermutation(a)
=============================================================================
