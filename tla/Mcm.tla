-------------------------------- MODULE Mcm ---------------------------------
(***************************************************************************)
(* The order of matrix multiplications of Algorithm/HW2/mcm.cpp.  Matrix   *)
(* number k, from 0, has mat[k] rows and mat[k + 1] columns; mcm fills its *)
(* tables diagonal by diagonal, and result prints the product with its     *)
(* parentheses.                                                            *)
(***************************************************************************)
EXTENDS Integers, Sequences, FiniteSetsExt, Functions

CONSTANT Other    (* more arrays mcm is called with                        *)

VARIABLES
  mat,         (* the array of the call, from 1                            *)
  l, row,      (* the diagonal, and the row i in it                        *)
  cost_mat, s, (* the tables, for the cells <<i, j>>                       *)
  printed      (* what result has printed, item by item                    *)

mcm_vars == <<mat, l, row, cost_mat, s, printed>>

INT_MAX == 2147483647

(* So small that no cost overflows an int: the factors of a product are at *)
(* most d, and there are fewer products than numbers in the array.         *)
Fits(m) ==
  \E d \in Range(m) :
    (\A k \in DOMAIN m : m[k] <= d) /\ Len(m) * (d * d * d) <= INT_MAX

ASSUME McmAssumption ==
  \A m \in Other : m \in Seq(Nat) /\ Len(m) >= 2 /\ Fits(m)

n == Len(mat) - 1
Cell == (0 .. n - 1) \X (0 .. n - 1)
Part == {c \in Cell : c[1] <= c[2]}          \* the products
Dim(k) == mat[k + 1]                         \* mat[k] of the code

(* The calls of main.                                                      *)
MainCalls ==
  {<<1, 2, 3, 4, 5>>, <<4, 3, 2, 1>>, <<2, 4, 5, 1, 6>>, <<5, 7, 2, 4, 5>>,
   <<9, 1, 5, 6, 4>>, <<3, 6, 5, 2>>, <<7, 1, 8, 4>>, <<10, 2, 4, 3>>,
   <<6, 1, 9, 3>>, <<30, 35, 15, 5, 10, 20, 25>>}

McmInit ==
  /\ mat \in MainCalls \cup Other
  /\ l = 1 /\ row = 0
  /\ cost_mat = [c \in Cell |-> IF c[1] = c[2] THEN 0 ELSE INT_MAX]
  /\ s = [c \in Cell |-> 0]
  /\ printed = <<>>
-----------------------------------------------------------------------------
Cost(i, k, j) ==
  cost_mat[<<i, k>>] + cost_mat[<<k + 1, j>>] + Dim(i) * Dim(k + 1) * Dim(j + 1)

(* This and LastFill are plausible mistakes, on which the properties must  *)
(* fail: here, the last place to split at is not tried.                    *)
ShortFill(i, j) ==
  LET tried == i .. Max({i, j - 2})
      least == Min({Cost(i, k, j) : k \in tried})
      best == {k \in tried : Cost(i, k, j) = least}
  IN /\ cost_mat' = [cost_mat EXCEPT ![<<i, j>>] = least]
     /\ s' = [s EXCEPT ![<<i, j>>] = Min(best) + 1]

LastFill(i, j) ==                        \* s[i][j] is set for every k
  LET least == Min({Cost(i, k, j) : k \in i .. j - 1})
  IN /\ cost_mat' = [cost_mat EXCEPT ![<<i, j>>] = least]
     /\ s' = [s EXCEPT ![<<i, j>>] = j]

(* The loop over k: of the best places to split at, the first.             *)
Fill(i, j) ==
  LET least == Min({Cost(i, k, j) : k \in i .. j - 1})
      best == {k \in i .. j - 1 : Cost(i, k, j) = least}
  IN /\ cost_mat' = [cost_mat EXCEPT ![<<i, j>>] = least]
     /\ s' = [s EXCEPT ![<<i, j>>] = Min(best) + 1]

FillCell ==
  /\ l < n /\ row < n - l
  /\ Fill(row, row + l)
  /\ row' = row + 1
  /\ UNCHANGED <<mat, l, printed>>

SkippingNextDiagonal ==                  \* a mistake: too early by a cell
  /\ l < n /\ row >= n - l - 1
  /\ l' = l + 1
  /\ row' = 0
  /\ UNCHANGED <<mat, cost_mat, s, printed>>

NextDiagonal ==
  /\ l < n /\ row >= n - l
  /\ l' = l + 1
  /\ row' = 0
  /\ UNCHANGED <<mat, cost_mat, s, printed>>

(* result prints a number for each matrix, counting from 1, and            *)
(* parentheses, which are items below 1.                                   *)
Opening == -1
Closing == 0

Result ==
  LET out[p \in Part \X Nat] ==                      \* with num as the second
        LET c == p[1]
            left == out[<<<<c[1], s[c] - 1>>, p[2]>>]
            right == out[<<<<s[c], c[2]>>, left.num>>]
        IN IF c[1] = c[2] THEN [text |-> <<p[2]>>, num |-> p[2] + 1]
           ELSE [text |-> <<Opening>> \o left.text \o right.text \o <<Closing>>,
                 num |-> right.num]
  IN out[<<<<0, n - 1>>, 1>>].text

PrintProduct ==
  /\ l >= n /\ printed = <<>>
  /\ printed' = Result
  /\ UNCHANGED <<mat, l, row, cost_mat, s>>

McmNext == FillCell \/ NextDiagonal \/ PrintProduct

McmSpec == McmInit /\ [][McmNext]_mcm_vars
-----------------------------------------------------------------------------
(* A sum of costs is an int, below the INT_MAX of cells that are not yet   *)
(* filled: such a cell is never read, which would overflow, and the first  *)
(* place to split at is always taken.                                      *)
CostsFit ==
  l < n /\ row < n - l =>
    \A k \in row .. (row + l) - 1 :
      cost_mat[<<row, k>>]
        < INT_MAX - cost_mat[<<k + 1, row + l>>]
            - Dim(row) * Dim(k + 1) * Dim(row + l + 1)

(* The reference: what all ways to multiply matrices i to j cost.          *)
AllCosts ==
  LET costs[c \in Part] ==
        IF c[1] = c[2] THEN {0}
        ELSE UNION {{x + y + Dim(c[1]) * Dim(k + 1) * Dim(c[2] + 1) :
                       x \in costs[<<c[1], k>>], y \in costs[<<k + 1, c[2]>>]} :
                    k \in c[1] .. c[2] - 1}
  IN costs[<<0, n - 1>>]

(* The printed value is the least cost of all ways to multiply.            *)
ValueOptimal == printed # <<>> => cost_mat[<<0, n - 1>>] = Min(AllCosts)

(* To follow the printed text: a product is the numbers of its matrices,   *)
(* its rows, its columns and what it costs; a closing parenthesis          *)
(* multiplies the last two.                                                *)
Multiply(stack, item) ==
  LET x == stack[Len(stack) - 1]
      y == stack[Len(stack)]
      xy == [names |-> x.names \o y.names, rows |-> x.rows, cols |-> y.cols,
             cost |-> x.cost + y.cost + x.rows * x.cols * y.cols]
  IN IF item = Opening THEN stack
     ELSE IF item = Closing THEN Append(SubSeq(stack, 1, Len(stack) - 2), xy)
     ELSE Append(stack, [names |-> <<item>>, rows |-> Dim(item - 1),
                         cols |-> Dim(item), cost |-> 0])

Follow(text) ==
  LET stack[k \in 0 .. Len(text)] ==
        IF k = 0 THEN <<>> ELSE Multiply(stack[k - 1], text[k])
  IN stack[Len(text)]

(* The text names the matrices in their order, and following it costs the  *)
(* printed value: the two tables belong together.                          *)
TextCostsValue ==
  printed # <<>> =>
    Follow(printed) = <<[names |-> [k \in 1 .. n |-> k], rows |-> Dim(0),
                         cols |-> Dim(n), cost |-> cost_mat[<<0, n - 1>>]]>>
=============================================================================
