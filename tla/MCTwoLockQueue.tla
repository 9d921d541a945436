--------------------------- MODULE MCTwoLockQueue ---------------------------
(***************************************************************************)
(* Instances of TwoLockQueue for TLC.                                      *)
(***************************************************************************)
EXTENDS TwoLockQueue, TLC

CONSTANTS CountBound   (* how far the drifting count is followed           *)

(* Threads, memory blocks and values are interchangeable.                  *)
Symmetry ==
  Permutations(Thread) \cup Permutations(Node) \cup Permutations(Data)

(* Lost updates of count accumulate without end; nothing the queue does    *)
(* depends on count.                                                       *)
CountConstraint == count \in -CountBound .. CountBound
=============================================================================
