------------------------------ MODULE MCPfind ------------------------------
(***************************************************************************)
(* Instances of Pfind for TLC: directory trees.                            *)
(***************************************************************************)
EXTENDS Pfind, TLC

CONSTANTS a, b, c,   (* directories                                        *)
          f, g       (* files                                              *)

Names == {a, b, c, f, g}

(* The tree whose directories are the domain of ls; fopen refuses none of  *)
(* its entries.                                                            *)
MakeTree(ls, says, hits, has_keyword) ==
  [dirs |-> DOMAIN ls,
   listing |-> [p \in Names \cup {Root} |->
                  IF p \in DOMAIN ls THEN ls[p] ELSE {}],
   says |-> says, hits |-> hits, has_keyword |-> has_keyword, no_open |-> {}]

Directories == [e \in {a, b, c} |-> {"directory"}]
Texts == [e \in {f, g} |-> {"text"}]

(* Two workers search a and b in one round; a holds the directory c.  f    *)
(* has two hits, g holds one keyword of two.                               *)
Branching ==
  MakeTree(Root :> {a, b} @@ a :> {c, f} @@ b :> {g} @@ c :> {},
           Directories @@ Texts, f :> 2 @@ [e \in Names \ {f} |-> 0], {f, g})

(* One of the directories of a round is not readable, and perhaps the file *)
(* f; g is of another type.                                                *)
Unreadable ==
  [MakeTree(Root :> {a, b} @@ a :> {f, g},
            Directories @@ f :> {"text"} @@ g :> {},
            f :> 1 @@ [e \in Names \ {f} |-> 0], {f}) EXCEPT !.no_open = {f}]

(* The path of the directory b holds "text".                               *)
Misleading ==
  MakeTree(Root :> {a, b, g} @@ a :> {} @@ b :> {f},
           a :> {"directory"} @@ b :> {"text", "directory"}
             @@ c :> {"directory"} @@ f :> {"text"} @@ g :> {},
           [e \in Names |-> 0], {})

(* More directories in a round than workers, and more in all than the      *)
(* slots of new_task.                                                      *)
Wide ==
  MakeTree(Root :> {a, b, c} @@ a :> {f} @@ b :> {} @@ c :> {},
           [e \in {a, b, c, f} |-> {"directory"}] @@ g :> {"text"},
           [e \in Names |-> 0], {})

(* A report that does not fit in pipe2.                                    *)
Heavy ==
  MakeTree(Root :> {f}, Directories @@ Texts,
           f :> 8 @@ [e \in Names \ {f} |-> 0], {f})

TestTrees == {Branching, Unreadable, Misleading, Wide, Heavy}
PlainTrees == {Branching}
=============================================================================
