------------------------------- MODULE Puzzle -------------------------------
(***************************************************************************)
(* The sliding puzzle of Algorithm/HW4: main searches, level by level, for *)
(* the least number of moves from a board to the final one.  A board is a  *)
(* sequence of tiles, row by row, with 0 for the empty place.              *)
(*                                                                         *)
(* Every board that is found gets a node in the list of Queue and one in   *)
(* the tree of Set, which are one node here.  Nodes are never deleted and  *)
(* the list only grows at its end, so that a node is its number, and the   *)
(* queue is what comes behind the nodes that were popped.                  *)
(***************************************************************************)
EXTENDS Integers, Sequences, FiniteSets, SequencesExt

CONSTANTS
  Width,    (* the tiles in a row: 3                                       *)
  Task      (* pairs of a board and the final one                          *)

VARIABLES
  task,
  node,       (* the nodes, each with puzzle, parent, left and right; 0 is *)
              (* NULL                                                      *)
  popped,     (* how many nodes were popped                                *)
  changes,    (* where the empty place of the last one has yet to go       *)
  level_end,  (* the last node of the level: size at its start             *)
  result,     (* the moves to the boards of the level                      *)
  answer      (* "none" yet, "found" or "no_path"                          *)

(* The boards: one place is empty.                                         *)
Board ==
  {b \in Seq(Nat) :
     \E k \in DOMAIN b : b[k] = 0 /\ \A m \in DOMAIN b : b[m] = 0 => m = k}

(* In one column, left and right would be up and down.                     *)
ASSUME PuzzleAssumption ==
  /\ Width \in Nat /\ Width > 1
  /\ Task \subseteq Board \X Board

(* The tasks of main are of these: three tiles in a row, two rows or more, *)
(* no two tiles alike, and the same ones on both boards.                   *)
TasksOfMain ==
  /\ Width = 3
  /\ \A t \in Task :
       /\ Len(t[1]) > 3 /\ Len(t[1]) % 3 = 0 /\ Len(t[2]) = Len(t[1])
       /\ IsInjective(t[1]) /\ IsInjective(t[2]) /\ Range(t[2]) = Range(t[1])

puzzle_vars == <<task, node, popped, changes, level_end, result, answer>>

final == task[2]
Node(puz, par) == [puzzle |-> puz, parent |-> par, left |-> 0, right |-> 0]

PuzzleInit ==
  /\ task \in Task
  /\ node = <<Node(task[1], 0)>>
  /\ popped = 0
  /\ changes = <<>>
  /\ level_end = 1
  /\ result = 0
  /\ answer = "none"
-----------------------------------------------------------------------------
(* The tree of Set, ordered like strings.  Here and below, the operators   *)
(* named Mirrored, Wrapping and Short are plausible mistakes, on which the *)
(* properties must fail.                                                   *)
Behind(b, c) ==
  \E k \in DOMAIN b : b[k] > c[k] /\ \A m \in 1 .. k - 1 : b[m] = c[m]

(* Where the way from the head down to board b ends.                       *)
Leaf(tree, b) ==
  LET down[k \in DOMAIN tree] ==
        LET below == IF Behind(b, tree[k].puzzle) THEN tree[k].right
                                                   ELSE tree[k].left
        IN IF tree[k].puzzle = b \/ below = 0 THEN k ELSE down[below]
  IN down[1]

Find(tree, b) == tree[Leaf(tree, b)].puzzle = b

MirroredPush(tree, b, par) ==            \* insert compares the other way round
  LET leaf == Leaf(tree, b)
      new == Len(tree) + 1
      linked == IF Behind(tree[leaf].puzzle, b)
                  THEN [tree EXCEPT ![leaf].right = new]
                  ELSE [tree EXCEPT ![leaf].left = new]
  IN Append(linked, Node(b, par))

(* q.push and done.insert.                                                 *)
Push(tree, b, par) ==
  LET leaf == Leaf(tree, b)
      new == Len(tree) + 1
      linked == IF Behind(b, tree[leaf].puzzle)
                  THEN [tree EXCEPT ![leaf].right = new]
                  ELSE [tree EXCEPT ![leaf].left = new]
  IN Append(linked, Node(b, par))
-----------------------------------------------------------------------------
find_position(b) == CHOOSE ind \in 0 .. Len(b) - 1 : b[ind + 1] = 0
swap_puzzle(b, ind, change_ind) ==
  [b EXCEPT ![ind + 1] = b[change_ind + 1], ![change_ind + 1] = b[ind + 1]]

If(condition, c) == IF condition THEN <<c>> ELSE <<>>

WrappingChanges(b) ==                    \* left and right over the edge
  LET ind == find_position(b)
  IN If(ind - Width >= 0, ind - Width)
     \o If(ind - 1 >= 0, ind - 1)
     \o If(ind + 1 < Len(b), ind + 1)
     \o If(ind + Width < Len(b), ind + Width)

ShortChanges(b) ==                       \* < 8 for <= 8
  LET ind == find_position(b)
      row == ind \div Width
  IN If(ind - Width >= 0, ind - Width)
     \o If(ind - 1 >= 0 /\ (ind - 1) \div Width = row, ind - 1)
     \o If(ind + 1 < Len(b) - 1 /\ (ind + 1) \div Width = row, ind + 1)
     \o If(ind + Width < Len(b) - 1, ind + Width)

(* Where the empty place may go, in the order of the code.                 *)
Changes(b) ==
  LET ind == find_position(b)
      row == ind \div Width
  IN If(ind - Width >= 0, ind - Width)
     \o If(ind - 1 >= 0 /\ (ind - 1) \div Width = row, ind - 1)
     \o If(ind + 1 < Len(b) /\ (ind + 1) \div Width = row, ind + 1)
     \o If(ind + Width < Len(b), ind + Width)

(* The loop over the nodes of a level pops one, and if that is not the     *)
(* final board, looks at each board one move away.                         *)
Check ==
  /\ answer = "none" /\ changes = <<>> /\ popped < level_end
  /\ popped' = popped + 1
  /\ IF node[popped + 1].puzzle = final
       THEN answer' = "found" /\ UNCHANGED changes
       ELSE changes' = Changes(node[popped + 1].puzzle) /\ UNCHANGED answer
  /\ UNCHANGED <<task, node, level_end, result>>

Look ==
  /\ changes # <<>>
  /\ changes' = Tail(changes)
  /\ LET b == node[popped].puzzle
         temp == swap_puzzle(b, find_position(b), Head(changes))
     IN node' = IF Find(node, temp) THEN node ELSE Push(node, temp, popped)
  /\ UNCHANGED <<task, popped, level_end, result, answer>>

NextLevel ==
  /\ answer = "none" /\ changes = <<>> /\ popped = level_end
  /\ result' = result + 1
  /\ level_end' = Len(node)
  /\ answer' = IF popped = Len(node) THEN "no_path" ELSE "none"
  /\ UNCHANGED <<task, node, popped, changes>>

PuzzleNext == Check \/ Look \/ NextLevel

PuzzleSpec == PuzzleInit /\ [][PuzzleNext]_puzzle_vars
-----------------------------------------------------------------------------
(* What is printed when the board is found: level after level, the parent  *)
(* so many generations up.                                                 *)
Ancestor(k, generations) ==
  LET up[g \in 0 .. generations] == IF g = 0 THEN k ELSE node[up[g - 1]].parent
  IN up[generations]

Printed ==
  [m \in 1 .. result + 1 |-> node[Ancestor(popped, result + 1 - m)].puzzle]
-----------------------------------------------------------------------------
(* The reference: the empty place and a neighbour of it change places.     *)
Square(k) == <<(k - 1) \div Width, (k - 1) % Width>>
Adjacent(k, m) ==
  LET d(x) == (Square(k)[x] - Square(m)[x]) * (Square(k)[x] - Square(m)[x])
  IN d(1) + d(2) = 1

Empty(b) == CHOOSE k \in DOMAIN b : b[k] = 0

Moves(b) ==
  LET k == Empty(b)
      neighbours == {m \in DOMAIN b : Adjacent(k, m)}
  IN {[b EXCEPT ![k] = b[m], ![m] = 0] : m \in neighbours}

Within(b, moves) ==
  LET ball[d \in 0 .. moves] ==
        IF d = 0 THEN {b} ELSE LET inner == ball[d - 1]
                               IN inner \cup UNION {Moves(c) : c \in inner}
  IN ball[moves]

(* Every move exchanges two tiles and takes the empty place one step: only *)
(* every other order of the tiles can be reached.                          *)
Inversions(b) ==
  {p \in (DOMAIN b) \X (DOMAIN b) : p[1] < p[2] /\ b[p[1]] > b[p[2]]}

Parity(b) ==
  (Cardinality(Inversions(b)) + Square(Empty(b))[1] + Square(Empty(b))[2]) % 2

Solvable == Parity(task[1]) = Parity(final)

(* No board is searched twice, and the tree finds each that was found.     *)
FoundOnce ==
  /\ Cardinality({node[k].puzzle : k \in DOMAIN node}) = Len(node)
  /\ \A k \in DOMAIN node : Leaf(node, node[k].puzzle) = k

(* The number of moves that is printed is the least, and the printed       *)
(* boards are as many moves from the first board to the final one.         *)
ShortestPath ==
  answer = "found" =>
    /\ result > 0 => final \notin Within(task[1], result - 1)
    /\ Printed[1] = task[1] /\ Printed[result + 1] = final
    /\ \A m \in 1 .. result : Printed[m + 1] \in Moves(Printed[m])

(* "there is no path back" is printed for the boards that have none.       *)
NoPathExact ==
  /\ answer = "found" => Solvable
  /\ answer = "no_path" => ~Solvable
=============================================================================
