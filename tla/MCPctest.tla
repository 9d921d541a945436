------------------------------ MODULE MCPctest ------------------------------
(***************************************************************************)
(* Pctest on two tests.  On a both programs agree, and the file may be one *)
(* that fopen refuses; it is empty.  On b they differ; of its two lines    *)
(* one fits into a pipe.  To keep the instance small, on a only the target *)
(* may fail, by a crash.                                                   *)
(***************************************************************************)
EXTENDS Pctest

CONSTANTS a, b

MCAnswer == [p \in Prog |-> [t \in {a, b} |-> IF t = b THEN p ELSE "ten"]]
MCLines == [t \in {a, b} |-> IF t = b THEN 2 ELSE 0]

MCInit ==
  /\ Init
  /\ does["target", a] \in {"answers", "crashes"} /\ does["solution", a] = "answers"
MCSpec == MCInit /\ [][Next]_vars /\ Fairness
=============================================================================
