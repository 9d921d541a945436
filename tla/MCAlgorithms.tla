---------------------------- MODULE MCAlgorithms ----------------------------
(***************************************************************************)
(* The three programs of src/Algorithm for TLC: an instance runs one of    *)
(* them on one input.  The inputs are small, and many: all arrays of one   *)
(* to five of three values, the products of main and all of up to five     *)
(* small matrices, and boards of two and of three rows.                    *)
(***************************************************************************)
EXTENDS Sorts, Mcm, Puzzle, TLC

Arrays == UNION {[1 .. k -> {1, 2, 3}] : k \in 2 .. 5}

Rows2 == <<1, 2, 3, 0, 4, 5>>
Rows3 == <<1, 2, 3, 8, 0, 4, 7, 6, 5>>

(* Of two rows, boards up to nineteen moves away and one that has no path; *)
(* of three, the final board of the program, two and five moves away.      *)
Tasks ==
  {<<<<1, 2, 3, 0, 4, 5>>, Rows2>>, <<<<5, 4, 3, 2, 1, 0>>, Rows2>>,
   <<<<2, 1, 3, 0, 4, 5>>, Rows2>>, <<<<0, 5, 2, 1, 4, 3>>, Rows2>>,
   <<<<4, 5, 0, 1, 2, 3>>, Rows2>>,
   <<<<1, 2, 3, 8, 6, 4, 7, 5, 0>>, Rows3>>,
   <<<<2, 8, 3, 1, 6, 4, 7, 0, 5>>, Rows3>>}

(* These are tasks of the kind the proof about "no path" is for.           *)
ASSUME InstanceTasks == TasksOfMain

SortsOff ==
  /\ size = 1 /\ a = <<>> /\ a0 = <<>> /\ pc = "off" /\ i = 0 /\ j = 0
  /\ key = 0 /\ heap_size = 0 /\ range = <<>> /\ todo = {}
McmOff ==
  /\ mat = <<>> /\ l = 0 /\ row = 0 /\ cost_mat = <<>> /\ s = <<>>
  /\ printed = <<>>
PuzzleOff ==
  /\ task = <<>> /\ node = <<>> /\ popped = 0 /\ changes = <<>>
  /\ level_end = 0 /\ result = 0 /\ answer = "off"

Init ==
  \/ SortsInit /\ McmOff /\ PuzzleOff
  \/ SortsOff /\ McmInit /\ PuzzleOff
  \/ SortsOff /\ McmOff /\ PuzzleInit

vars == <<sorts_vars, mcm_vars, puzzle_vars>>

Step ==
  \/ SortsNext /\ UNCHANGED <<mcm_vars, puzzle_vars>>
  \/ mat # <<>> /\ McmNext /\ UNCHANGED <<sorts_vars, puzzle_vars>>
  \/ PuzzleNext /\ UNCHANGED <<sorts_vars, mcm_vars>>

Done == pc = "quicked" \/ printed # <<>> \/ answer \in {"found", "no_path"}

Next == Step \/ (Done /\ UNCHANGED vars)

Spec == Init /\ [][Next]_vars /\ WF_vars(Step)

(* Every program ends, on every input.                                     *)
AllEnd == <>Done
=============================================================================
