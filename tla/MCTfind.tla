------------------------------ MODULE MCTfind ------------------------------
(***************************************************************************)
(* Instances of Tfind for TLC: directory trees.                            *)
(***************************************************************************)
EXTENDS Tfind, TLC

CONSTANTS a, b, c, d,   (* subdirectories                                  *)
          f, g          (* files                                           *)

(* The root holds a and b, which two workers search at the same time; each *)
(* of them holds a directory and a text file.                              *)
TreeListing == Root :> {a, b} @@ a :> {c, f} @@ b :> {d, g}
               @@ c :> {} @@ d :> {}
TreeSays == [e \in {a, b, c, d} |-> {"directory"}] @@ [e \in {f, g} |-> {"text"}]
TreeHits == f :> 1 @@ g :> 1

(* A tree for liveness, in which what file(1) prints misleads tfind: the   *)
(* path of the directory d holds "text"; g is of another type.             *)
OddListing == Root :> {a, b} @@ a :> {c} @@ b :> {f} @@ c :> {d, g} @@ d :> {}
OddSays == [e \in {a, b, c} |-> {"directory"}] @@ d :> {"text", "directory"}
           @@ f :> {"text"} @@ g :> {}
OddHits == f :> 1

Symmetry == Permutations(Worker) \cup Permutations(Node)
=============================================================================
