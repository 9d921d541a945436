-------------------------- MODULE Algorithms_proofs --------------------------
(***************************************************************************)
(* Proofs about the order of multiplications of Algorithm/HW2 and about    *)
(* the search of Algorithm/HW4.                                            *)
(*                                                                         *)
(* For any number of matrices whose costs an int can hold, mcm prints the  *)
(* least cost of all ways to multiply them, result prints a text that      *)
(* costs as much, and no sum overflows.                                    *)
(*                                                                         *)
(* For rows of any width above one and boards of any size, the tree of Set *)
(* finds every board that was inserted, no board is searched twice, the    *)
(* number that is printed is the least number of moves, and the boards     *)
(* that are printed are that many moves.  For three columns and two rows   *)
(* or more, "there is no path back" is printed exactly when the parities   *)
(* of the boards are different.                                            *)
(***************************************************************************)
EXTENDS Mcm, Puzzle, SequenceTheorems, FiniteSetTheorems, NaturalsInduction,
        WellFoundedInduction, TLAPS

LEMMA Least ==
  ASSUME NEW T \in SUBSET Nat, T # {}
  PROVE  \E x \in T : \A y \in T : x <= y
<1> DEFINE R == {p \in Nat \X Nat : p[1] < p[2]}
<1>1. R = OpToRel(<, Nat)
  BY DEF OpToRel
<1>2. IsWellFoundedOn(R, Nat)
  BY <1>1, NatLessThanWellFounded
<1>3. PICK x \in T : \A y \in T : <<y, x>> \notin R
  BY <1>2, WFMin
<1>4. ASSUME NEW y \in T
      PROVE  x <= y
  <2>1. <<y, x>> \in Nat \X Nat /\ ~(y < x)
    BY <1>3
  <2> QED
    BY <2>1
<1> QED
  BY <1>4
-----------------------------------------------------------------------------
(***************************************************************************)
(* The order of the multiplications of mcm.cpp.  The definitions of the    *)
(* model, with the array and the tables as parameters: both stay the same  *)
(* when they are read.                                                     *)
(***************************************************************************)
PartOf(m) ==
  {c \in (0 .. Len(m) - 1 - 1) \X (0 .. Len(m) - 1 - 1) : c[1] <= c[2]}

With(m, u, c, k) ==
  {x + y + m[c[1] + 1] * m[k + 1 + 1] * m[c[2] + 1 + 1] :
     x \in u[<<c[1], k>>], y \in u[<<k + 1, c[2]>>]}
WaysFrom(m, u, c) ==
  IF c[1] = c[2] THEN {0} ELSE UNION {With(m, u, c, k) : k \in c[1] .. c[2] - 1}
IsWays(m, u) == u = [c \in PartOf(m) |-> WaysFrom(m, u, c)]
WaysOf(m) == CHOOSE u : IsWays(m, u)

LEMMA AllCostsIs == AllCosts = WaysOf(mat)[<<0, n - 1>>]
BY DEF AllCosts, WaysOf, IsWays, WaysFrom, With, PartOf, Part, Cell, Dim, n

LEMMA MatIs ==
  ASSUME NEW m \in MainCalls \cup Other
  PROVE  m \in Seq(Nat) /\ Len(m) \in Nat /\ Len(m) >= 2 /\ Fits(m)
<1>1. CASE m \in Other
  BY <1>1, McmAssumption
<1>2. CASE m \in MainCalls
  <2>1. ASSUME NEW d \in Nat, m \in Seq(Nat), Len(m) \in Nat, Len(m) >= 2,
               Len(m) * (d * d * d) <= INT_MAX,
               NEW e \in 1 .. Len(m), m[e] = d,
               \A k \in 1 .. Len(m) : m[k] <= d
        PROVE  m \in Seq(Nat) /\ Len(m) \in Nat /\ Len(m) >= 2 /\ Fits(m)
    <3>1. DOMAIN m = 1 .. Len(m)
      BY <2>1
    <3>2. d \in Range(m)
      BY <2>1, <3>1 DEF Range
    <3> QED
      BY <2>1, <3>1, <3>2 DEF Fits
  <2>2. CASE m = <<1, 2, 3, 4, 5>>
    <3>1. Len(m) = 5 /\ m[5] = 5 /\ m \in Seq(Nat)
      BY <2>2
    <3> QED
      BY <2>1, <2>2, <3>1 DEF INT_MAX
  <2>3. CASE m = <<4, 3, 2, 1>>
    <3>1. Len(m) = 4 /\ m[1] = 4 /\ m \in Seq(Nat)
      BY <2>3
    <3> QED
      BY <2>1, <2>3, <3>1 DEF INT_MAX
  <2>4. CASE m = <<2, 4, 5, 1, 6>>
    <3>1. Len(m) = 5 /\ m[5] = 6 /\ m \in Seq(Nat)
      BY <2>4
    <3> QED
      BY <2>1, <2>4, <3>1 DEF INT_MAX
  <2>5. CASE m = <<5, 7, 2, 4, 5>>
    <3>1. Len(m) = 5 /\ m[2] = 7 /\ m \in Seq(Nat)
      BY <2>5
    <3> QED
      BY <2>1, <2>5, <3>1 DEF INT_MAX
  <2>6. CASE m = <<9, 1, 5, 6, 4>>
    <3>1. Len(m) = 5 /\ m[1] = 9 /\ m \in Seq(Nat)
      BY <2>6
    <3> QED
      BY <2>1, <2>6, <3>1 DEF INT_MAX
  <2>7. CASE m = <<3, 6, 5, 2>>
    <3>1. Len(m) = 4 /\ m[2] = 6 /\ m \in Seq(Nat)
      BY <2>7
    <3> QED
      BY <2>1, <2>7, <3>1 DEF INT_MAX
  <2>8. CASE m = <<7, 1, 8, 4>>
    <3>1. Len(m) = 4 /\ m[3] = 8 /\ m \in Seq(Nat)
      BY <2>8
    <3> QED
      BY <2>1, <2>8, <3>1 DEF INT_MAX
  <2>9. CASE m = <<10, 2, 4, 3>>
    <3>1. Len(m) = 4 /\ m[1] = 10 /\ m \in Seq(Nat)
      BY <2>9
    <3> QED
      BY <2>1, <2>9, <3>1 DEF INT_MAX
  <2>10. CASE m = <<6, 1, 9, 3>>
    <3>1. Len(m) = 4 /\ m[3] = 9 /\ m \in Seq(Nat)
      BY <2>10
    <3> QED
      BY <2>1, <2>10, <3>1 DEF INT_MAX
  <2>11. CASE m = <<30, 35, 15, 5, 10, 20, 25>>
    <3>1. Len(m) = 7 /\ m[2] = 35 /\ m \in Seq(Nat)
      BY <2>11
    <3> QED
      BY <2>1, <2>11, <3>1 DEF INT_MAX
  <2> QED
    BY <1>2, <2>2, <2>3, <2>4, <2>5, <2>6, <2>7, <2>8, <2>9, <2>10, <2>11
       DEF MainCalls
<1> QED
  BY <1>1, <1>2

LEMMA PartIs ==
  ASSUME NEW m, Len(m) \in Nat, Len(m) >= 2
  PROVE  /\ \A c \in PartOf(m) :
              /\ c[1] \in 0 .. Len(m) - 2 /\ c[2] \in 0 .. Len(m) - 2
              /\ c[1] <= c[2] /\ c = <<c[1], c[2]>>
         /\ \A i, j \in 0 .. Len(m) - 2 : i <= j => <<i, j>> \in PartOf(m)
<1>1. Len(m) - 1 - 1 = Len(m) - 2
  OBVIOUS
<1> QED
  BY <1>1 DEF PartOf

LEMMA WaysAgree ==
  ASSUME NEW m, Len(m) \in Nat, Len(m) >= 2, NEW c \in PartOf(m), NEW u, NEW v,
         \A e \in PartOf(m) : e[2] - e[1] < c[2] - c[1] => u[e] = v[e]
  PROVE  WaysFrom(m, u, c) = WaysFrom(m, v, c)
<1>1. CASE c[1] = c[2]
  BY <1>1 DEF WaysFrom
<1>2. CASE c[1] # c[2]
  <2>1. ASSUME NEW k \in c[1] .. c[2] - 1
        PROVE  With(m, u, c, k) = With(m, v, c, k)
    <3>1. /\ c[1] \in 0 .. Len(m) - 2 /\ c[2] \in 0 .. Len(m) - 2
          /\ k \in 0 .. Len(m) - 2 /\ k + 1 \in 0 .. Len(m) - 2
          /\ c[1] <= k /\ k + 1 <= c[2]
      BY PartIs
    <3> DEFINE e == <<c[1], k>>
               f == <<k + 1, c[2]>>
    <3>2. e \in PartOf(m) /\ f \in PartOf(m)
      BY <3>1, PartIs
    <3>3. e[2] - e[1] < c[2] - c[1] /\ f[2] - f[1] < c[2] - c[1]
      BY <3>1
    <3>4. u[e] = v[e] /\ u[f] = v[f]
      BY <3>2, <3>3
    <3> QED
      BY <3>4 DEF With
  <2>2. {With(m, u, c, k) : k \in c[1] .. c[2] - 1}
          = {With(m, v, c, k) : k \in c[1] .. c[2] - 1}
    BY <2>1
  <2> QED
    BY <1>2, <2>2 DEF WaysFrom
<1> QED
  BY <1>1, <1>2

LEMMA WaysExist ==
  ASSUME NEW m, Len(m) \in Nat, Len(m) >= 2
  PROVE  IsWays(m, WaysOf(m))
<1> DEFINE P == PartOf(m)
           Upto(d, u) == \A c \in P : c[2] - c[1] < d => u[c] = WaysFrom(m, u, c)
           T == {d \in Nat : ~\E u : Upto(d, u)}
<1>0. \A c \in P : c[2] - c[1] \in Nat /\ c[2] - c[1] < Len(m)
  <2> SUFFICES ASSUME NEW c \in P
               PROVE  c[2] - c[1] \in Nat /\ c[2] - c[1] < Len(m)
    OBVIOUS
  <2>1. c[1] \in 0 .. Len(m) - 2 /\ c[2] \in 0 .. Len(m) - 2 /\ c[1] <= c[2]
    BY PartIs
  <2> QED
    BY <2>1
<1>1. T = {}
  <2> SUFFICES ASSUME T # {}
               PROVE  FALSE
    OBVIOUS
  <2>1. PICK d \in T : \A e \in T : d <= e
    <3>1. T \in SUBSET Nat
      OBVIOUS
    <3> HIDE DEF T
    <3> QED
      BY <3>1, Least
  <2>2. d # 0
    <3>1. \A u : Upto(0, u)
      BY <1>0
    <3> QED
      BY <2>1, <3>1
  <2>3. d - 1 \in Nat /\ d - 1 \notin T
    BY <2>1, <2>2
  <2>4. PICK u : Upto(d - 1, u)
    BY <2>3
  <2> DEFINE v == [c \in P |-> WaysFrom(m, u, c)]
  <2>5. \A c \in P : v[c] = WaysFrom(m, u, c)
    OBVIOUS
  <2> HIDE DEF v
  <2>6. \A c \in P : c[2] - c[1] < d - 1 => u[c] = v[c]
    BY <2>4, <2>5
  <2>7. ASSUME NEW c \in P, c[2] - c[1] < d
        PROVE  v[c] = WaysFrom(m, v, c)
    <3>1. \A e \in P : e[2] - e[1] < c[2] - c[1] => e[2] - e[1] < d - 1
      BY <1>0, <2>1, <2>7
    <3>2. \A e \in P : e[2] - e[1] < c[2] - c[1] => u[e] = v[e]
      BY <2>6, <3>1
    <3>3. WaysFrom(m, u, c) = WaysFrom(m, v, c)
      BY <3>2, WaysAgree
    <3> QED
      BY <2>5, <3>3
  <2> QED
    BY <2>1, <2>7
<1>2. PICK u : Upto(Len(m), u)
  BY <1>1
<1> DEFINE v == [c \in P |-> WaysFrom(m, u, c)]
<1>3. \A c \in P : u[c] = WaysFrom(m, u, c)
  BY <1>0, <1>2
<1>4. \A c \in P : u[c] = v[c]
  BY <1>3
<1>5. \A c \in P : WaysFrom(m, u, c) = WaysFrom(m, v, c)
  <2> HIDE DEF v
  <2> QED
    BY <1>4, WaysAgree
<1>6. v = [c \in P |-> WaysFrom(m, v, c)]
  <2> DEFINE w == [c \in P |-> WaysFrom(m, v, c)]
  <2>1. \A c \in P : v[c] = w[c]
    BY <1>5
  <2> QED
    BY <2>1
<1>7. IsWays(m, v)
  BY <1>6 DEF IsWays
<1> HIDE DEF v
<1> QED
  BY <1>7 DEF WaysOf

LEMMA WaysAre ==
  ASSUME NEW m, Len(m) \in Nat, Len(m) >= 2, NEW c \in PartOf(m)
  PROVE  WaysOf(m)[c] = WaysFrom(m, WaysOf(m), c)
<1> DEFINE w == WaysOf(m)
<1>1. w = [e \in PartOf(m) |-> WaysFrom(m, w, e)]
  BY WaysExist DEF IsWays
<1> HIDE DEF w
<1> QED
  BY <1>1 DEF w

(***************************************************************************)
(* No way to multiply costs INT_MAX or more, so that an int holds all that *)
(* is computed, and the first place to split at is below INT_MAX.          *)
(***************************************************************************)
LEMMA ProductUpTo ==
  ASSUME NEW d \in Nat, NEW x \in 0 .. d, NEW y \in 0 .. d, NEW z \in 0 .. d
  PROVE  x * y * z \in 0 .. d * d * d
<1>1. ASSUME NEW a \in Nat, NEW b \in Nat, NEW e \in Nat, NEW f \in Nat, a <= e, b <= f
      PROVE  a * b \in Nat /\ e * f \in Nat /\ a * b <= e * f
  <2>1. (f - b) \in Nat /\ (e - a) \in Nat
    BY <1>1
  <2>2. a * (f - b) >= 0 /\ (e - a) * f >= 0
    BY <2>1
  <2>3. a * (f - b) = a * f - a * b /\ (e - a) * f = e * f - a * f
    BY <2>1
  <2>4. a * b \in Nat /\ e * f \in Nat /\ a * f \in Nat
    OBVIOUS
  <2> QED
    BY <2>2, <2>3, <2>4
<1>2. x * y \in Nat /\ d * d \in Nat /\ x * y <= d * d
  BY <1>1
<1> DEFINE p == x * y
           q == d * d
<1> HIDE DEF p, q
<1>3. p * z \in Nat /\ q * d \in Nat /\ p * z <= q * d
  BY <1>1, <1>2 DEF p, q
<1> QED
  BY <1>3 DEF p, q

LEMMA Added ==
  ASSUME NEW a \in Int, NEW b \in Int, NEW w \in Int
  PROVE  a * w + b * w + w = (a + b + 1) * w
OBVIOUS

LEMMA Grows ==
  ASSUME NEW a \in Nat, NEW b \in Nat, a <= b, NEW w \in Nat
  PROVE  a * w \in Nat /\ b * w \in Nat /\ a * w <= b * w
<1>1. b - a \in Nat
  OBVIOUS
<1>2. (b - a) * w >= 0 /\ (b - a) * w = b * w - a * w
  BY <1>1
<1>3. a * w \in Nat /\ b * w \in Nat
  OBVIOUS
<1> QED
  BY <1>2, <1>3

Costs == {x \in Nat : x < INT_MAX}

LEMMA WaysFit ==
  ASSUME NEW m \in MainCalls \cup Other, NEW c \in PartOf(m)
  PROVE  WaysOf(m)[c] \subseteq Costs /\ WaysOf(m)[c] # {}
<1> DEFINE P == PartOf(m)
           W == WaysOf(m)
<1>1. m \in Seq(Nat) /\ Len(m) \in Nat /\ Len(m) >= 2 /\ DOMAIN m = 1 .. Len(m)
  BY MatIs
<1>2. PICK d \in Range(m) : /\ \A k \in DOMAIN m : m[k] <= d
                            /\ Len(m) * (d * d * d) <= INT_MAX
  BY MatIs DEF Fits
<1>3. d \in Nat /\ \A k \in 1 .. Len(m) : m[k] \in 0 .. d
  <2>1. \A k \in 1 .. Len(m) : m[k] \in Nat
    BY <1>1, ElementOfSeq
  <2>2. PICK x \in 1 .. Len(m) : d = m[x]
    BY <1>1 DEF Range
  <2>3. d \in Nat
    BY <2>1, <2>2
  <2>4. \A k \in 1 .. Len(m) : m[k] <= d
    BY <1>1, <1>2
  <2> QED
    BY <2>1, <2>3, <2>4
<1> DEFINE D == d * d * d
<1>4. D \in Nat /\ Len(m) * D <= INT_MAX
  BY <1>2, <1>3
<1> DEFINE Fit(e) == W[e] # {} /\ \A x \in W[e] : x \in 0 .. (e[2] - e[1]) * D
           F == {g \in Nat : \E e \in P : e[2] - e[1] = g /\ ~Fit(e)}
<1>5. \A e \in P : W[e] = WaysFrom(m, W, e)
  BY <1>1, WaysAre
<1>6. ASSUME NEW e \in P
      PROVE  /\ e[1] \in 0 .. Len(m) - 2 /\ e[2] \in 0 .. Len(m) - 2
             /\ e[1] <= e[2] /\ e[2] - e[1] \in Nat
  <2>1. e[1] \in 0 .. Len(m) - 2 /\ e[2] \in 0 .. Len(m) - 2 /\ e[1] <= e[2]
    BY <1>1, PartIs
  <2> QED
    BY <1>1, <2>1
<1> HIDE DEF W, P, D
<1>7. F = {}
  <2> SUFFICES ASSUME F # {}
               PROVE  FALSE
    OBVIOUS
  <2>1. PICK g \in F : \A h \in F : g <= h
    <3>1. F \in SUBSET Nat
      OBVIOUS
    <3> HIDE DEF F
    <3> QED
      BY <3>1, Least
  <2>2. PICK e \in P : e[2] - e[1] = g /\ ~Fit(e)
    BY <2>1
  <2>3. ASSUME NEW f \in P, f[2] - f[1] < g
        PROVE  Fit(f)
    <3>1. f[2] - f[1] \in Nat /\ f[2] - f[1] \notin F
      BY <1>6, <2>1, <2>3, SMTT(30)
    <3> QED
      BY <3>1
  <2> DEFINE i == e[1]
             j == e[2]
  <2>4. /\ i \in 0 .. Len(m) - 2 /\ j \in 0 .. Len(m) - 2 /\ i <= j
        /\ j - i = g /\ g \in Nat
    BY <1>6, <2>2
  <2> HIDE DEF F
  <2>5. CASE i = j
    <3>1. W[e] = {0}
      BY <1>5, <2>5 DEF WaysFrom
    <3>2. (j - i) * D = 0
      BY <1>4, <2>4, <2>5
    <3> QED
      BY <2>2, <3>1, <3>2
  <2>6. CASE i # j
    <3>1. W[e] = UNION {With(m, W, e, k) : k \in i .. j - 1}
      BY <1>5, <2>6 DEF WaysFrom
    <3> HIDE DEF i, j
    <3>2. ASSUME NEW k \in i .. j - 1
          PROVE  /\ W[<<i, k>>] # {} /\ \A x \in W[<<i, k>>] : x \in 0 .. (k - i) * D
                 /\ W[<<k + 1, j>>] # {}
                 /\ \A y \in W[<<k + 1, j>>] : y \in 0 .. (j - (k + 1)) * D
      <4> DEFINE f == <<i, k>>
                 h == <<k + 1, j>>
      <4>1. f \in P /\ h \in P
        <5>1. /\ i <= k /\ k \in 0 .. Len(m) - 2
              /\ k + 1 <= j /\ k + 1 \in 0 .. Len(m) - 2
          BY <1>1, <2>4
        <5> QED
          BY <1>1, <2>4, <5>1, PartIs DEF P
      <4>2. f[1] = i /\ f[2] = k /\ h[1] = k + 1 /\ h[2] = j
        OBVIOUS
      <4>3. k - i < g /\ j - (k + 1) < g
        BY <2>4
      <4> HIDE DEF f, h
      <4>4. Fit(f) /\ Fit(h)
        BY <2>3, <4>1, <4>2, <4>3
      <4>5. f = <<i, k>> /\ h = <<k + 1, j>>
        BY DEF f, h
      <4> QED
        BY <4>2, <4>4, <4>5
    <3>3. ASSUME NEW k \in i .. j - 1, NEW x \in W[<<i, k>>], NEW y \in W[<<k + 1, j>>]
          PROVE  x + y + m[i + 1] * m[k + 1 + 1] * m[j + 1 + 1] \in 0 .. (j - i) * D
      <4> DEFINE a == k - i
                 b == j - (k + 1)
                 p == m[i + 1] * m[k + 1 + 1] * m[j + 1 + 1]
      <4>1. x \in 0 .. a * D /\ y \in 0 .. b * D
        BY <3>2
      <4>2. a \in Int /\ b \in Int /\ a + b + 1 = j - i
        BY <2>4
      <4>3. p \in 0 .. D
        <5>1. m[i + 1] \in 0 .. d /\ m[k + 1 + 1] \in 0 .. d /\ m[j + 1 + 1] \in 0 .. d
          <6>1. /\ i + 1 \in 1 .. Len(m) /\ k + 1 + 1 \in 1 .. Len(m)
                /\ j + 1 + 1 \in 1 .. Len(m)
            BY <1>1, <2>4, SMTT(30)
          <6> HIDE DEF D
          <6> QED
            BY <1>3, <6>1
        <5> QED
          BY <1>3, <5>1, ProductUpTo DEF D
      <4>4. a * D + b * D + D = (j - i) * D
        <5> HIDE DEF a, b
        <5>1. a * D + b * D + D = (a + b + 1) * D
          BY <1>4, <4>2, Added
        <5> QED
          BY <4>2, <5>1
      <4> DEFINE aD == a * D
                 bD == b * D
                 cD == (j - i) * D
      <4>5. aD \in Int /\ bD \in Int /\ cD \in Int
        BY <1>4, <2>4, <4>2
      <4>6. x \in 0 .. aD /\ y \in 0 .. bD /\ aD + bD + D = cD
        BY <4>1, <4>4
      <4> HIDE DEF aD, bD, cD, a, b, p
      <4>7. x + y + p \in 0 .. cD
        BY <1>4, <4>3, <4>5, <4>6
      <4> QED
        BY <4>7 DEF p, cD
    <3>4. \A z \in W[e] : z \in 0 .. (j - i) * D
      <4> SUFFICES ASSUME NEW z \in W[e]
                   PROVE  z \in 0 .. (j - i) * D
        OBVIOUS
      <4>1. PICK k \in i .. j - 1 : z \in With(m, W, e, k)
        BY <3>1
      <4>2. PICK x \in W[<<i, k>>], y \in W[<<k + 1, j>>] :
              z = x + y + m[i + 1] * m[k + 1 + 1] * m[j + 1 + 1]
        BY <4>1 DEF With, i, j
      <4> QED
        BY <3>3, <4>2
    <3>5. W[e] # {}
      <4>1. i \in i .. j - 1
        BY <2>4, <2>6
      <4>2. PICK x \in W[<<i, i>>], y \in W[<<i + 1, j>>] : TRUE
        BY <3>2, <4>1
      <4>3. x + y + m[i + 1] * m[i + 1 + 1] * m[j + 1 + 1] \in With(m, W, e, i)
        BY <4>2 DEF With, i, j
      <4> QED
        BY <3>1, <4>1, <4>3
    <3> QED
      BY <2>2, <3>4, <3>5 DEF i, j
  <2> QED
    BY <2>5, <2>6
<1>8. Fit(c)
  <2>1. c \in P /\ c[2] - c[1] \in Nat /\ c[2] - c[1] \notin F
    BY <1>6, <1>7 DEF P
  <2> QED
    BY <2>1
<1>9. \A x \in W[c] : x \in Costs
  <2> DEFINE a == c[2] - c[1]
             b == Len(m) - 2
             aD == a * D
             bD == b * D
             lD == Len(m) * D
  <2>1. a \in Nat /\ b \in Nat /\ a <= b
    <3>1. c \in P
      BY DEF P
    <3> QED
      BY <1>1, <1>6, <3>1
  <2>2. aD \in Nat /\ bD \in Nat /\ aD <= bD
    <3> HIDE DEF a, b
    <3> QED
      BY <1>4, <2>1, Grows
  <2>3. bD = lD - 2 * D /\ lD \in Int
    BY <1>1, <1>4
  <2>4. lD <= INT_MAX /\ (D = 0 => lD = 0)
    BY <1>1, <1>4
  <2> HIDE DEF aD, bD, lD
  <2>5. aD < INT_MAX
    <3>1. D \in Nat
      BY <1>4
    <3> QED
      BY <2>2, <2>3, <2>4, <3>1 DEF INT_MAX
  <2> SUFFICES ASSUME NEW x \in W[c]
               PROVE  x \in Costs
    OBVIOUS
  <2>6. x \in 0 .. aD
    BY <1>8 DEF aD
  <2>7. INT_MAX \in Int
    BY DEF INT_MAX
  <2> QED
    BY <2>2, <2>5, <2>6, <2>7 DEF Costs
<1> QED
  BY <1>8, <1>9 DEF W
-----------------------------------------------------------------------------
(***************************************************************************)
(* The tables, diagonal by diagonal.                                       *)
(***************************************************************************)
LeastOf(x, S) == x \in S /\ \A y \in S : x <= y

LEMMA MinIs ==
  ASSUME NEW S, S \subseteq Nat, S # {}
  PROVE  LeastOf(Min(S), S)
<1>1. \E x \in S : \A y \in S : x <= y
  BY Least
<1> QED
  BY <1>1 DEF Min, LeastOf

Filled(c) == c[2] - c[1] < l \/ (c[2] - c[1] = l /\ c[1] < row)

McmTypeOK ==
  /\ mat \in MainCalls \cup Other
  /\ l \in 1 .. n /\ row \in 0 .. n - l
  /\ cost_mat \in [Cell -> Int] /\ s \in [Cell -> Int]

CostOf(m, cm, i, k, j) ==
  cm[<<i, k>>] + cm[<<k + 1, j>>] + m[i + 1] * m[k + 1 + 1] * m[j + 1 + 1]

(* A cell that was filled holds the least cost of its product, and the     *)
(* place to split it at for that cost.                                     *)
TablesInv ==
  \A c \in PartOf(mat) : Filled(c) =>
    /\ LeastOf(cost_mat[c], WaysOf(mat)[c])
    /\ c[1] < c[2] => /\ s[c] \in c[1] + 1 .. c[2]
                      /\ cost_mat[c] = CostOf(mat, cost_mat, c[1], s[c] - 1, c[2])

LEMMA SizeIs ==
  ASSUME mat \in MainCalls \cup Other
  PROVE  /\ mat \in Seq(Nat) /\ Len(mat) \in Nat /\ Len(mat) >= 2
         /\ n \in Nat \ {0} /\ n - 1 = Len(mat) - 2 /\ Len(mat) = n + 1
         /\ PartOf(mat) \subseteq Cell
         /\ \A c \in PartOf(mat) :
              /\ c[1] \in 0 .. n - 1 /\ c[2] \in 0 .. n - 1
              /\ c[1] <= c[2] /\ c = <<c[1], c[2]>>
         /\ \A i, j \in 0 .. n - 1 : i <= j => <<i, j>> \in PartOf(mat)
<1>1. mat \in Seq(Nat) /\ Len(mat) \in Nat /\ Len(mat) >= 2
  BY MatIs
<1>2. n \in Nat \ {0} /\ n - 1 = Len(mat) - 2 /\ Len(mat) = n + 1
  <2> DEFINE L == Len(mat)
  <2>1. L \in Nat /\ L >= 2 /\ n = L - 1
    BY <1>1 DEF n
  <2> HIDE DEF L
  <2>2. n \in Nat /\ n # 0 /\ n - 1 = L - 2 /\ L = n + 1
    BY <2>1
  <2> QED
    BY <2>2 DEF L
<1>3. PartOf(mat) \subseteq Cell
  BY DEF PartOf, Cell, n
<1>4. /\ \A c \in PartOf(mat) :
           /\ c[1] \in 0 .. Len(mat) - 2 /\ c[2] \in 0 .. Len(mat) - 2
           /\ c[1] <= c[2] /\ c = <<c[1], c[2]>>
      /\ \A i, j \in 0 .. Len(mat) - 2 : i <= j => <<i, j>> \in PartOf(mat)
  BY <1>1, PartIs
<1> QED
  BY <1>1, <1>2, <1>3, <1>4

LEMMA InitTables == McmInit => McmTypeOK /\ TablesInv
<1> SUFFICES ASSUME McmInit
             PROVE  McmTypeOK /\ TablesInv
  OBVIOUS
<1>1. /\ mat \in MainCalls \cup Other /\ l = 1 /\ row = 0
      /\ cost_mat = [c \in Cell |-> IF c[1] = c[2] THEN 0 ELSE INT_MAX]
      /\ s = [c \in Cell |-> 0]
  BY DEF McmInit
<1>2. /\ Len(mat) \in Nat /\ Len(mat) >= 2 /\ n \in Nat \ {0} /\ PartOf(mat) \subseteq Cell
      /\ \A c \in PartOf(mat) : c[1] \in 0 .. n - 1 /\ c[2] \in 0 .. n - 1 /\ c[1] <= c[2]
  BY <1>1, SizeIs
<1>3. McmTypeOK
  <2>1. INT_MAX \in Int
    BY DEF INT_MAX
  <2>2. cost_mat \in [Cell -> Int] /\ s \in [Cell -> Int]
    BY <1>1, <2>1
  <2> QED
    BY <1>1, <1>2, <2>2 DEF McmTypeOK
<1>4. TablesInv
  <2> SUFFICES ASSUME NEW c \in PartOf(mat), Filled(c)
               PROVE  /\ LeastOf(cost_mat[c], WaysOf(mat)[c])
                      /\ ~(c[1] < c[2])
    BY DEF TablesInv
  <2>1. c[1] = c[2]
    BY <1>1, <1>2 DEF Filled
  <2>2. cost_mat[c] = 0
    BY <1>1, <1>2, <2>1
  <2>3. WaysOf(mat)[c] = {0}
    BY <1>2, <2>1, WaysAre DEF WaysFrom
  <2> QED
    BY <1>2, <2>1, <2>2, <2>3 DEF LeastOf
<1> QED
  BY <1>3, <1>4

(* What is compared when the cell is filled.                               *)
LEMMA FillIs ==
  ASSUME McmTypeOK, TablesInv, l < n, row < n - l
  PROVE  LET c == <<row, row + l>>
             tried == {Cost(row, k, row + l) : k \in row .. (row + l) - 1}
         IN /\ c \in PartOf(mat)
            /\ tried \subseteq WaysOf(mat)[c] /\ tried # {} /\ tried \subseteq Costs
            /\ \A y \in WaysOf(mat)[c] : \E x \in tried : x <= y
<1> DEFINE i == row
           j == row + l
           c == <<i, j>>
           W == WaysOf(mat)
           tried == {Cost(i, k, j) : k \in i .. j - 1}
<1>1. /\ mat \in MainCalls \cup Other /\ mat \in Seq(Nat)
      /\ n \in Nat \ {0} /\ Len(mat) \in Nat /\ Len(mat) >= 2 /\ Len(mat) = n + 1
      /\ \A a, b \in 0 .. n - 1 : a <= b => <<a, b>> \in PartOf(mat)
  BY SizeIs DEF McmTypeOK
<1>2. /\ i \in 0 .. n - 1 /\ j \in 0 .. n - 1 /\ i < j /\ l \in Nat /\ j = i + l
  BY <1>1 DEF McmTypeOK
<1>3. c \in PartOf(mat)
  BY <1>1, <1>2
<1> HIDE DEF i, j
<1>4. ASSUME NEW k \in i .. j - 1
      PROVE  /\ LeastOf(cost_mat[<<i, k>>], W[<<i, k>>])
             /\ LeastOf(cost_mat[<<k + 1, j>>], W[<<k + 1, j>>])
             /\ W[<<i, k>>] \subseteq Costs /\ W[<<k + 1, j>>] \subseteq Costs
             /\ Cost(i, k, j) = cost_mat[<<i, k>>] + cost_mat[<<k + 1, j>>]
                                  + mat[i + 1] * mat[k + 1 + 1] * mat[j + 1 + 1]
  <2> DEFINE e == <<i, k>>
             f == <<k + 1, j>>
  <2>1. k \in 0 .. n - 1 /\ k + 1 \in 0 .. n - 1 /\ i <= k /\ k + 1 <= j
    BY <1>1, <1>2
  <2>2. e \in PartOf(mat) /\ f \in PartOf(mat)
    BY <1>1, <1>2, <2>1
  <2>3. e[1] = i /\ e[2] = k /\ f[1] = k + 1 /\ f[2] = j
    OBVIOUS
  <2>4. k - i < l /\ j - (k + 1) < l
    BY <1>2, <2>1
  <2>5. W[e] \subseteq Costs /\ W[f] \subseteq Costs
    BY <1>1, <2>2, WaysFit
  <2>6. Filled(e) /\ Filled(f)
    BY <2>3, <2>4 DEF Filled
  <2>7. LeastOf(cost_mat[e], W[e]) /\ LeastOf(cost_mat[f], W[f])
    BY <2>2, <2>6 DEF TablesInv
  <2> QED
    BY <2>5, <2>7 DEF Cost, Dim
<1>5. W[c] = UNION {With(mat, W, c, k) : k \in i .. j - 1}
  <2>1. c[1] = i /\ c[2] = j /\ i # j
    BY <1>2
  <2> HIDE DEF c
  <2>2. W[c] = WaysFrom(mat, W, c)
    BY <1>1, <1>3, WaysAre
  <2> QED
    BY <2>1, <2>2 DEF WaysFrom
<1>6. ASSUME NEW k \in i .. j - 1
      PROVE  /\ Cost(i, k, j) \in With(mat, W, c, k)
             /\ \A y \in With(mat, W, c, k) : Cost(i, k, j) <= y
  <2> DEFINE p == mat[i + 1] * mat[k + 1 + 1] * mat[j + 1 + 1]
             a == cost_mat[<<i, k>>]
             b == cost_mat[<<k + 1, j>>]
  <2>1. With(mat, W, c, k) = {x + y + p : x \in W[<<i, k>>], y \in W[<<k + 1, j>>]}
    BY DEF With
  <2>2. p \in Int
    <3>1. /\ i + 1 \in 1 .. Len(mat) /\ k + 1 + 1 \in 1 .. Len(mat)
          /\ j + 1 + 1 \in 1 .. Len(mat)
      BY <1>1, <1>2
    <3>2. mat[i + 1] \in Nat /\ mat[k + 1 + 1] \in Nat /\ mat[j + 1 + 1] \in Nat
      BY <1>1, <3>1, ElementOfSeq
    <3> QED
      BY <3>2
  <2>3. /\ Cost(i, k, j) = a + b + p
        /\ a \in W[<<i, k>>] /\ b \in W[<<k + 1, j>>]
        /\ \A x \in W[<<i, k>>] : x \in Nat /\ a <= x
        /\ \A y \in W[<<k + 1, j>>] : y \in Nat /\ b <= y
    BY <1>4 DEF LeastOf, Costs
  <2> HIDE DEF p, a, b, c
  <2>4. Cost(i, k, j) \in With(mat, W, c, k)
    BY <2>1, <2>3
  <2>5. ASSUME NEW z \in With(mat, W, c, k)
        PROVE  Cost(i, k, j) <= z
    <3>1. PICK x \in W[<<i, k>>], y \in W[<<k + 1, j>>] : z = x + y + p
      BY <2>1
    <3> QED
      BY <2>2, <2>3, <3>1
  <2> QED
    BY <2>4, <2>5
<1>7. W[c] \subseteq Costs
  BY <1>1, <1>3, WaysFit
<1> HIDE DEF c, W
<1>8. tried \subseteq W[c]
  BY <1>5, <1>6
<1>9. tried # {}
  <2>1. i \in i .. j - 1
    BY <1>2
  <2> QED
    BY <2>1
<1>10. \A y \in W[c] : \E x \in tried : x <= y
  <2> SUFFICES ASSUME NEW y \in W[c]
               PROVE  \E x \in tried : x <= y
    OBVIOUS
  <2>1. PICK k \in i .. j - 1 : y \in With(mat, W, c, k)
    BY <1>5
  <2> QED
    BY <1>6, <2>1
<1>11. tried \subseteq Costs
  BY <1>7, <1>8
<1> HIDE DEF tried
<1>12. /\ c \in PartOf(mat) /\ tried \subseteq W[c] /\ tried # {} /\ tried \subseteq Costs
       /\ \A y \in W[c] : \E x \in tried : x <= y
  BY <1>3, <1>8, <1>9, <1>10, <1>11
<1> QED
  BY <1>12 DEF c, W, tried, i, j

LEMMA FillCellInv ==
  ASSUME McmTypeOK, TablesInv, FillCell
  PROVE  (McmTypeOK /\ TablesInv)'
<1> DEFINE i == row
           j == row + l
           c == <<i, j>>
           W == WaysOf(mat)
           tried == {Cost(i, k, j) : k \in i .. j - 1}
           least == Min(tried)
           best == {k \in i .. j - 1 : Cost(i, k, j) = least}
           at == Min(best)
<1>1. /\ l < n /\ row < n - l
      /\ cost_mat' = [cost_mat EXCEPT ![c] = least]
      /\ s' = [s EXCEPT ![c] = at + 1]
      /\ row' = row + 1 /\ mat' = mat /\ l' = l /\ n' = n
  BY DEF FillCell, Fill, n
<1>2. /\ mat \in MainCalls \cup Other
      /\ n \in Nat \ {0} /\ Len(mat) \in Nat /\ Len(mat) >= 2 /\ Len(mat) = n + 1
      /\ PartOf(mat) \subseteq Cell
      /\ \A e \in PartOf(mat) : /\ e[1] \in 0 .. n - 1 /\ e[2] \in 0 .. n - 1
                                /\ e[1] <= e[2] /\ e = <<e[1], e[2]>>
      /\ \A a, b \in 0 .. n - 1 : a <= b => <<a, b>> \in PartOf(mat)
  BY SizeIs DEF McmTypeOK
<1>3. /\ i \in 0 .. n - 1 /\ j \in 0 .. n - 1 /\ i < j /\ l \in Nat /\ j = i + l
      /\ l \in 1 .. n /\ row = i
  BY <1>1, <1>2 DEF McmTypeOK
<1>4. /\ c \in PartOf(mat)
      /\ tried \subseteq W[c] /\ tried # {} /\ tried \subseteq Costs
      /\ \A y \in W[c] : \E x \in tried : x <= y
  BY <1>1, FillIs
<1> HIDE DEF i, j
<1>5. LeastOf(least, tried) /\ least \in Nat
  <2> HIDE DEF tried
  <2> QED
    BY <1>4, MinIs DEF Costs, LeastOf
<1> HIDE DEF least
<1>6. at \in i .. j - 1 /\ Cost(i, at, j) = least
  <2>1. best # {}
    BY <1>5 DEF LeastOf
  <2>2. best \subseteq Nat
    BY <1>3
  <2>3. LeastOf(at, best)
    <3> HIDE DEF best
    <3> QED
      BY <2>1, <2>2, MinIs
  <2> QED
    BY <2>3 DEF LeastOf
<1> HIDE DEF at
<1>7. LeastOf(least, W[c])
  <2> HIDE DEF tried, c, W
  <2>1. W[c] \subseteq Nat
    BY <1>2, <1>4, WaysFit DEF Costs, W
  <2>2. tried \subseteq Nat
    BY <1>4 DEF Costs
  <2> QED
    BY <1>4, <1>5, <2>1, <2>2 DEF LeastOf
<1> HIDE DEF tried, W
<1>8. /\ cost_mat \in [Cell -> Int] /\ s \in [Cell -> Int] /\ c \in Cell
      /\ Cell' = Cell
  BY <1>1, <1>2, <1>4 DEF McmTypeOK, Cell
<1>9. /\ cost_mat'[c] = least /\ s'[c] = at + 1
      /\ \A e \in Cell : e # c => cost_mat'[e] = cost_mat[e] /\ s'[e] = s[e]
      /\ cost_mat' \in [Cell -> Int] /\ s' \in [Cell -> Int]
  <2>1. at + 1 \in Int
    BY <1>3, <1>6
  <2> HIDE DEF c
  <2> QED
    BY <1>1, <1>5, <1>8, <2>1
<1>10. McmTypeOK'
  BY <1>1, <1>2, <1>3, <1>8, <1>9, SMTT(30) DEF McmTypeOK
<1>11. ASSUME NEW e \in PartOf(mat), Filled(e)'
       PROVE  e = c \/ (e # c /\ Filled(e))
  <2>1. e[1] \in 0 .. n - 1 /\ e[2] \in 0 .. n - 1 /\ e = <<e[1], e[2]>>
    BY <1>2
  <2>2. \/ e[2] - e[1] < l
        \/ e[2] - e[1] = l /\ e[1] < row + 1
    BY <1>1, <1>11 DEF Filled
  <2>3. CASE e[2] - e[1] < l
    BY <1>3, <2>1, <2>3 DEF Filled
  <2>4. CASE e[2] - e[1] = l /\ e[1] < row
    BY <1>3, <2>1, <2>4 DEF Filled
  <2>5. CASE e[2] - e[1] = l /\ e[1] = row
    BY <1>3, <2>1, <2>5
  <2> QED
    BY <1>3, <2>1, <2>2, <2>3, <2>4, <2>5
(* What is filled now uses only cells that were filled before.             *)
<1>12. ASSUME NEW e \in PartOf(mat), e[2] - e[1] <= l, NEW k \in e[1] .. e[2] - 1
       PROVE  CostOf(mat', cost_mat', e[1], k, e[2]) = CostOf(mat, cost_mat, e[1], k, e[2])
  <2> DEFINE a == <<e[1], k>>
             b == <<k + 1, e[2]>>
  <2>1. e[1] \in 0 .. n - 1 /\ e[2] \in 0 .. n - 1 /\ e[1] <= e[2]
    BY <1>2
  <2>2. /\ k \in 0 .. n - 1 /\ k + 1 \in 0 .. n - 1 /\ e[1] <= k /\ k + 1 <= e[2]
        /\ k - e[1] < l /\ e[2] - (k + 1) < l
    BY <1>2, <1>3, <1>12, <2>1, SMTT(30)
  <2>3. a \in Cell /\ b \in Cell
    BY <2>1, <2>2 DEF Cell
  <2>4. a # c /\ b # c
    BY <1>3, <2>2
  <2> HIDE DEF c
  <2>5. cost_mat'[a] = cost_mat[a] /\ cost_mat'[b] = cost_mat[b]
    BY <1>9, <2>3, <2>4
  <2> QED
    BY <1>1, <2>5 DEF CostOf
<1>13. ASSUME NEW e \in PartOf(mat), Filled(e)'
       PROVE  /\ LeastOf(cost_mat'[e], W[e])
              /\ e[1] < e[2] => /\ s'[e] \in e[1] + 1 .. e[2]
                                /\ cost_mat'[e]
                                     = CostOf(mat', cost_mat', e[1], s'[e] - 1, e[2])
  <2>1. CASE e = c
    <3>1. e[1] = i /\ e[2] = j /\ e[2] - e[1] = l
      BY <1>3, <2>1
    <3>2. s'[e] - 1 = at /\ s'[e] \in e[1] + 1 .. e[2] /\ cost_mat'[e] = least
      BY <1>3, <1>4, <1>6, <1>9, <2>1, <3>1
    <3>3. CostOf(mat', cost_mat', e[1], at, e[2]) = CostOf(mat, cost_mat, e[1], at, e[2])
      BY <1>3, <1>6, <1>12, <3>1
    <3>4. CostOf(mat, cost_mat, i, at, j) = least
      BY <1>6 DEF Cost, CostOf, Dim
    <3> HIDE DEF c
    <3> QED
      BY <1>7, <2>1, <3>1, <3>2, <3>3, <3>4
  <2>2. CASE e # c /\ Filled(e)
    <3>1. cost_mat'[e] = cost_mat[e] /\ s'[e] = s[e]
      BY <1>2, <1>9, <2>2
    <3>2. /\ LeastOf(cost_mat[e], W[e])
          /\ e[1] < e[2] => /\ s[e] \in e[1] + 1 .. e[2]
                            /\ cost_mat[e] = CostOf(mat, cost_mat, e[1], s[e] - 1, e[2])
      BY <2>2 DEF TablesInv, W
    <3>3. e[2] - e[1] <= l /\ e[1] \in Int /\ e[2] \in Int
      BY <1>2, <1>3, <2>2 DEF Filled
    <3>4. ASSUME e[1] < e[2]
          PROVE  CostOf(mat', cost_mat', e[1], s[e] - 1, e[2])
                   = CostOf(mat, cost_mat, e[1], s[e] - 1, e[2])
      <4>1. s[e] - 1 \in e[1] .. e[2] - 1
        BY <3>2, <3>3, <3>4
      <4> QED
        BY <1>12, <3>3, <4>1
    <3> QED
      BY <3>1, <3>2, <3>4
  <2> QED
    BY <1>11, <1>13, <2>1, <2>2
<1>14. TablesInv'
  BY <1>1, <1>13 DEF TablesInv, W
<1> QED
  BY <1>10, <1>14

LEMMA NextDiagonalInv ==
  ASSUME McmTypeOK, TablesInv, NextDiagonal
  PROVE  (McmTypeOK /\ TablesInv)'
<1>1. /\ l < n /\ row >= n - l /\ l' = l + 1 /\ row' = 0
      /\ mat' = mat /\ cost_mat' = cost_mat /\ s' = s /\ n' = n /\ Cell' = Cell
  BY DEF NextDiagonal, n, Cell
<1>2. /\ mat \in MainCalls \cup Other /\ n \in Nat \ {0}
      /\ \A e \in PartOf(mat) : /\ e[1] \in 0 .. n - 1 /\ e[2] \in 0 .. n - 1
                                /\ e[1] <= e[2]
  BY SizeIs DEF McmTypeOK
<1>3. McmTypeOK'
  BY <1>1, <1>2 DEF McmTypeOK
<1>4. ASSUME NEW e \in PartOf(mat), Filled(e)'
      PROVE  Filled(e)
  <2>1. e[1] \in 0 .. n - 1 /\ e[2] \in 0 .. n - 1
    BY <1>2
  <2>2. e[2] - e[1] < l + 1
    BY <1>1, <1>4, <2>1 DEF Filled, McmTypeOK
  <2> QED
    BY <1>1, <1>2, <2>1, <2>2 DEF Filled, McmTypeOK
<1>5. TablesInv'
  BY <1>1, <1>4 DEF TablesInv
<1> QED
  BY <1>3, <1>5
-----------------------------------------------------------------------------
(***************************************************************************)
(* The printed text.  OutFrom, IsOut and IsRun are the bodies of the       *)
(* functions in Result and Follow.                                         *)
(***************************************************************************)
OutFrom(u, p) ==
  LET c == p[1]
      left == u[<<<<c[1], s[c] - 1>>, p[2]>>]
      right == u[<<<<s[c], c[2]>>, left.num>>]
  IN IF c[1] = c[2] THEN [text |-> <<p[2]>>, num |-> p[2] + 1]
     ELSE [text |-> <<Opening>> \o left.text \o right.text \o <<Closing>>,
           num |-> right.num]
IsOut(u) == u = [p \in PartOf(mat) \X Nat |-> OutFrom(u, p)]
Out == CHOOSE u : IsOut(u)

IsRun(text, u) ==
  u = [k \in 0 .. Len(text) |->
         IF k = 0 THEN <<>> ELSE Multiply(u[k - 1], text[k])]

LEMMA ResultIs == Result = Out[<<<<0, n - 1>>, 1>>].text
BY DEF Result, Out, IsOut, OutFrom, PartOf, Part, Cell, n

LEMMA FollowRuns ==
  ASSUME NEW text
  PROVE  Follow(text) = (CHOOSE u : IsRun(text, u))[Len(text)]
BY DEF Follow, IsRun

(* Every product of more than one matrix has a place to split it at.       *)
Splits == \A c \in PartOf(mat) : c[1] < c[2] => s[c] \in c[1] + 1 .. c[2]

Items == Seq(Int)
Outs == [text : Items, num : Nat]

LEMMA OutAgree ==
  ASSUME mat \in MainCalls \cup Other, Splits, NEW p \in PartOf(mat) \X Nat,
         NEW u, NEW v,
         \A q \in PartOf(mat) \X Nat :
           q[1][2] - q[1][1] < p[1][2] - p[1][1] => u[q] = v[q] /\ u[q] \in Outs
  PROVE  OutFrom(u, p) = OutFrom(v, p) /\ OutFrom(u, p) \in Outs
<1> DEFINE c == p[1]
           a == <<<<c[1], s[c] - 1>>, p[2]>>
           b == <<<<s[c], c[2]>>, u[a].num>>
<1>1. /\ c \in PartOf(mat) /\ p[2] \in Nat
      /\ c[1] \in 0 .. n - 1 /\ c[2] \in 0 .. n - 1 /\ c[1] <= c[2] /\ n \in Nat
      /\ \A i, j \in 0 .. n - 1 : i <= j => <<i, j>> \in PartOf(mat)
  BY SizeIs
<1>2. CASE c[1] = c[2]
  <2>1. OutFrom(u, p) = [text |-> <<p[2]>>, num |-> p[2] + 1]
    BY <1>2 DEF OutFrom
  <2>2. OutFrom(v, p) = [text |-> <<p[2]>>, num |-> p[2] + 1]
    BY <1>2 DEF OutFrom
  <2>3. <<p[2]>> \in Seq(Int) /\ p[2] + 1 \in Nat
    BY <1>1
  <2> QED
    BY <2>1, <2>2, <2>3 DEF Outs, Items
<1>3. CASE c[1] # c[2]
  <2> HIDE DEF c
  <2>1. s[c] \in c[1] + 1 .. c[2]
    BY <1>1, <1>3 DEF Splits
  <2>2. <<c[1], s[c] - 1>> \in PartOf(mat) /\ <<s[c], c[2]>> \in PartOf(mat)
    <3>1. s[c] \in 0 .. n - 1 /\ s[c] - 1 \in 0 .. n - 1 /\ c[1] <= s[c] - 1 /\ s[c] <= c[2]
      BY <1>1, <2>1
    <3> QED
      BY <1>1, <3>1
  <2>3. u[a] = v[a] /\ u[a] \in Outs
    <3>1. a \in PartOf(mat) \X Nat
      BY <1>1, <2>2
    <3>2. a[1][2] - a[1][1] < c[2] - c[1]
      BY <1>1, <2>1
    <3> HIDE DEF a
    <3> QED
      BY <3>1, <3>2 DEF c
  <2>4. u[b] = v[b] /\ u[b] \in Outs
    <3>1. b \in PartOf(mat) \X Nat
      <4> HIDE DEF a
      <4> QED
        BY <2>2, <2>3 DEF Outs
    <3>2. b[1][2] - b[1][1] < c[2] - c[1]
      BY <1>1, <2>1
    <3> HIDE DEF b
    <3> QED
      BY <3>1, <3>2 DEF c
  <2> DEFINE r == [text |-> <<Opening>> \o u[a].text \o u[b].text \o <<Closing>>,
                   num |-> u[b].num]
  <2>5. OutFrom(u, p) = r
    BY <1>3 DEF OutFrom, c
  <2>6. OutFrom(v, p) = r
    <3>1. OutFrom(v, p)
            = [text |-> <<Opening>> \o v[a].text
                          \o v[<<<<s[c], c[2]>>, v[a].num>>].text \o <<Closing>>,
               num |-> v[<<<<s[c], c[2]>>, v[a].num>>].num]
      BY <1>3 DEF OutFrom, c
    <3> HIDE DEF a
    <3> QED
      BY <2>3, <2>4, <3>1
  <2>7. r \in Outs
    <3> HIDE DEF a, b
    <3>1. u[a].text \in Seq(Int) /\ u[b].text \in Seq(Int) /\ u[b].num \in Nat
      BY <2>3, <2>4 DEF Outs, Items
    <3>2. <<Opening>> \in Seq(Int) /\ <<Closing>> \in Seq(Int)
      BY DEF Opening, Closing
    <3>3. <<Opening>> \o u[a].text \o u[b].text \o <<Closing>> \in Seq(Int)
      BY <3>1, <3>2
    <3> QED
      BY <3>1, <3>3 DEF Outs, Items
  <2> HIDE DEF r
  <2> QED
    BY <2>5, <2>6, <2>7
<1> QED
  BY <1>2, <1>3

LEMMA OutExist ==
  ASSUME mat \in MainCalls \cup Other, Splits
  PROVE  IsOut(Out)
<1> DEFINE P == PartOf(mat) \X Nat
           Wide(p) == p[1][2] - p[1][1]
           Upto(d, u) ==
             \A p \in P : Wide(p) < d => u[p] = OutFrom(u, p) /\ u[p] \in Outs
           T == {d \in Nat : ~\E u : Upto(d, u)}
<1>0. n \in Nat /\ \A p \in P : Wide(p) \in Nat /\ Wide(p) < n
  <2>1. n \in Nat /\ \A c \in PartOf(mat) : /\ c[1] \in 0 .. n - 1 /\ c[2] \in 0 .. n - 1
                                            /\ c[1] <= c[2]
    BY SizeIs
  <2> SUFFICES ASSUME NEW p \in P
               PROVE  Wide(p) \in Nat /\ Wide(p) < n
    BY <2>1
  <2>2. p[1] \in PartOf(mat)
    OBVIOUS
  <2> DEFINE c == p[1]
  <2>3. c[1] \in 0 .. n - 1 /\ c[2] \in 0 .. n - 1 /\ c[1] <= c[2]
    BY <2>1, <2>2
  <2> QED
    BY <2>1, <2>3
<1>a. ASSUME NEW p \in P, NEW u, NEW v,
             \A q \in P : Wide(q) < Wide(p) => u[q] = v[q] /\ u[q] \in Outs
      PROVE  OutFrom(u, p) = OutFrom(v, p) /\ OutFrom(u, p) \in Outs
  BY <1>a, OutAgree
<1> HIDE DEF P, Wide
<1>1. T = {}
  <2> SUFFICES ASSUME T # {}
               PROVE  FALSE
    OBVIOUS
  <2>1. PICK d \in T : \A e \in T : d <= e
    <3>1. T \in SUBSET Nat
      OBVIOUS
    <3> HIDE DEF T
    <3> QED
      BY <3>1, Least
  <2>2. d # 0
    <3>1. \A u : Upto(0, u)
      BY <1>0
    <3> QED
      BY <2>1, <3>1
  <2>3. d - 1 \in Nat /\ d - 1 \notin T
    BY <2>1, <2>2
  <2>4. PICK u : Upto(d - 1, u)
    BY <2>3
  <2> DEFINE v == [p \in P |-> OutFrom(u, p)]
  <2>5. \A p \in P : v[p] = OutFrom(u, p)
    OBVIOUS
  <2> HIDE DEF v
  <2>6. \A p \in P : Wide(p) < d - 1 => u[p] = v[p] /\ u[p] \in Outs
    BY <2>4, <2>5
  <2>7. ASSUME NEW p \in P, Wide(p) < d
        PROVE  v[p] = OutFrom(v, p) /\ v[p] \in Outs
    <3>1. \A q \in P : Wide(q) < Wide(p) => Wide(q) < d - 1
      BY <1>0, <2>1, <2>7
    <3>2. \A q \in P : Wide(q) < Wide(p) => u[q] = v[q] /\ u[q] \in Outs
      BY <2>6, <3>1
    <3>3. OutFrom(u, p) = OutFrom(v, p) /\ OutFrom(u, p) \in Outs
      BY <1>a, <3>2
    <3> QED
      BY <2>5, <3>3
  <2> QED
    BY <2>1, <2>7
<1>2. PICK u : Upto(n, u)
  BY <1>0, <1>1
<1> DEFINE v == [p \in P |-> OutFrom(u, p)]
<1>3. \A p \in P : u[p] = OutFrom(u, p) /\ u[p] \in Outs
  BY <1>0, <1>2
<1>4. \A p \in P : u[p] = v[p]
  BY <1>3
<1>5. \A p \in P : OutFrom(u, p) = OutFrom(v, p)
  <2> HIDE DEF v
  <2> QED
    BY <1>3, <1>4, <1>a
<1>6. v = [p \in P |-> OutFrom(v, p)]
  <2> DEFINE w == [p \in P |-> OutFrom(v, p)]
  <2>1. \A p \in P : v[p] = w[p]
    BY <1>5
  <2> QED
    BY <2>1
<1>7. IsOut(v)
  BY <1>6 DEF IsOut, P
<1> HIDE DEF v
<1> QED
  BY <1>7 DEF Out

LEMMA OutIs ==
  ASSUME mat \in MainCalls \cup Other, Splits, NEW p \in PartOf(mat) \X Nat
  PROVE  Out[p] = OutFrom(Out, p)
<1> DEFINE o == Out
<1>1. o = [q \in PartOf(mat) \X Nat |-> OutFrom(o, q)]
  BY OutExist DEF IsOut
<1> HIDE DEF o
<1> QED
  BY <1>1 DEF o

(***************************************************************************)
(* Following a text from one stack of products to another.                 *)
(***************************************************************************)
Goes(st, text, st2) ==
  \E u : /\ u[0] = st /\ u[Len(text)] = st2
         /\ \A k \in 1 .. Len(text) : u[k] = Multiply(u[k - 1], text[k])

LEMMA GoesOne ==
  ASSUME NEW st, NEW item
  PROVE  Goes(st, <<item>>, Multiply(st, item))
<1> DEFINE u == [k \in {0, 1} |-> IF k = 0 THEN st ELSE Multiply(st, item)]
<1>1. u[0] = st /\ u[1] = Multiply(st, item)
  OBVIOUS
<1>2. Len(<<item>>) = 1 /\ <<item>>[1] = item
  OBVIOUS
<1> HIDE DEF u
<1>3. \A k \in 1 .. 1 : k = 1 /\ k - 1 = 0
  OBVIOUS
<1> QED
  BY <1>1, <1>2, <1>3 DEF Goes

LEMMA GoesJoin ==
  ASSUME NEW st, NEW st2, NEW st3, NEW a \in Items, NEW b \in Items,
         Goes(st, a, st2), Goes(st2, b, st3)
  PROVE  Goes(st, a \o b, st3)
<1>1. PICK u : /\ u[0] = st /\ u[Len(a)] = st2
               /\ \A k \in 1 .. Len(a) : u[k] = Multiply(u[k - 1], a[k])
  BY DEF Goes
<1>2. PICK v : /\ v[0] = st2 /\ v[Len(b)] = st3
               /\ \A k \in 1 .. Len(b) : v[k] = Multiply(v[k - 1], b[k])
  BY DEF Goes
<1> DEFINE x == Len(a)
           y == Len(b)
           w == [k \in 0 .. x + y |-> IF k <= x THEN u[k] ELSE v[k - x]]
<1>3. /\ x \in Nat /\ y \in Nat /\ Len(a \o b) = x + y
      /\ \A k \in 1 .. x : (a \o b)[k] = a[k]
      /\ \A k \in x + 1 .. x + y : (a \o b)[k] = b[k - x]
  BY DEF Items
<1> HIDE DEF x, y
<1>4. w[0] = st
  BY <1>1, <1>3
<1>5. w[x + y] = st3
  <2>1. CASE y = 0
    <3>1. st3 = st2 /\ x + y = x
      BY <1>2, <1>3, <2>1 DEF y
    <3> QED
      BY <1>1, <1>3, <3>1 DEF x
  <2>2. CASE y # 0
    <3>1. ~(x + y <= x) /\ (x + y) - x = y
      BY <1>3, <2>2
    <3> QED
      BY <1>2, <1>3, <3>1 DEF y
  <2> QED
    BY <2>1, <2>2
<1>6. ASSUME NEW k \in 1 .. x + y
      PROVE  w[k] = Multiply(w[k - 1], (a \o b)[k])
  <2>1. CASE k <= x
    <3>1. w[k] = u[k] /\ w[k - 1] = u[k - 1] /\ (a \o b)[k] = a[k] /\ k \in 1 .. x
      BY <1>3, <2>1
    <3> HIDE DEF w
    <3> QED
      BY <1>1, <3>1 DEF x
  <2>2. CASE k = x + 1
    <3>1. w[k] = v[1] /\ w[k - 1] = st2 /\ (a \o b)[k] = b[1] /\ 1 \in 1 .. y
      <4>1. ~(k <= x) /\ k - x = 1 /\ k - 1 = x /\ x <= x /\ k \in x + 1 .. x + y
            /\ 1 \in 1 .. y /\ k \in 0 .. x + y /\ x \in 0 .. x + y
        BY <1>3, <2>2
      <4>2. w[k] = v[1] /\ w[k - 1] = u[x]
        BY <4>1
      <4>3. (a \o b)[k] = b[1]
        BY <1>3, <4>1
      <4> QED
        BY <1>1, <4>1, <4>2, <4>3 DEF x
    <3>2. v[1] = Multiply(v[1 - 1], b[1]) /\ v[1 - 1] = st2
      BY <1>2, <3>1 DEF y
    <3> HIDE DEF w
    <3> QED
      BY <3>1, <3>2
  <2>3. CASE k > x + 1
    <3>1. /\ w[k] = v[k - x] /\ w[k - 1] = v[(k - x) - 1] /\ (a \o b)[k] = b[k - x]
          /\ k - x \in 1 .. y
      <4>1. /\ ~(k <= x) /\ ~(k - 1 <= x) /\ (k - 1) - x = (k - x) - 1
            /\ k \in x + 1 .. x + y /\ k - 1 \in 0 .. x + y /\ k \in 0 .. x + y
            /\ k - x \in 1 .. y
        BY <1>3, <2>3
      <4> QED
        BY <1>3, <4>1
    <3> HIDE DEF w
    <3> QED
      BY <1>2, <3>1 DEF y
  <2> QED
    BY <1>3, <2>1, <2>2, <2>3
<1> HIDE DEF w
<1> QED
  BY <1>3, <1>4, <1>5, <1>6, ZenonT(30) DEF Goes

LEMMA FollowIs ==
  ASSUME NEW text \in Items, NEW st, Goes(<<>>, text, st)
  PROVE  Follow(text) = st
<1> DEFINE L == Len(text)
<1>1. PICK u : /\ u[0] = <<>> /\ u[L] = st
               /\ \A k \in 1 .. L : u[k] = Multiply(u[k - 1], text[k])
  BY DEF Goes
<1>2. L \in Nat
  BY DEF Items
<1> DEFINE v == [k \in 0 .. L |-> u[k]]
<1>3. IsRun(text, v)
  <2> DEFINE w == [k \in 0 .. L |->
                     IF k = 0 THEN <<>> ELSE Multiply(v[k - 1], text[k])]
  <2>1. ASSUME NEW k \in 0 .. L
        PROVE  v[k] = w[k]
    <3>1. CASE k = 0
      BY <1>1, <1>2, <3>1
    <3>2. CASE k # 0
      <4>1. k \in 1 .. L /\ k - 1 \in 0 .. L
        BY <1>2, <3>2
      <4>2. v[k] = u[k] /\ v[k - 1] = u[k - 1]
        BY <4>1
      <4> HIDE DEF v
      <4> QED
        BY <1>1, <3>2, <4>1, <4>2
    <3> QED
      BY <3>1, <3>2
  <2>2. v = w
    BY <2>1
  <2> QED
    BY <2>2 DEF IsRun
<1> DEFINE run == CHOOSE r : IsRun(text, r)
<1>4. IsRun(text, run)
  <2> HIDE DEF v
  <2> QED
    BY <1>3
<1> HIDE DEF run
<1> DEFINE T == {k \in 0 .. L : run[k] # u[k]}
<1>5. run = [k \in 0 .. L |-> IF k = 0 THEN <<>> ELSE Multiply(run[k - 1], text[k])]
  BY <1>4 DEF IsRun
<1>6. run[0] = <<>> /\ \A k \in 1 .. L : run[k] = Multiply(run[k - 1], text[k])
  <2> DEFINE w == [k \in 0 .. L |->
                     IF k = 0 THEN <<>> ELSE Multiply(run[k - 1], text[k])]
  <2>1. w[0] = <<>> /\ \A k \in 1 .. L : w[k] = Multiply(run[k - 1], text[k])
    BY <1>2
  <2>2. run = w
    BY <1>5
  <2> HIDE DEF w
  <2> QED
    BY <2>1, <2>2
<1>7. T = {}
  <2> SUFFICES ASSUME T # {}
               PROVE  FALSE
    OBVIOUS
  <2>1. PICK k \in T : \A e \in T : k <= e
    <3>1. T \in SUBSET Nat
      BY <1>2
    <3> HIDE DEF T
    <3> QED
      BY <3>1, Least
  <2>2. k \in 1 .. L /\ k - 1 \in 0 .. L
    BY <1>1, <1>2, <1>6, <2>1
  <2>3. k - 1 \notin T
    BY <1>2, <2>1, <2>2
  <2>4. run[k - 1] = u[k - 1]
    BY <2>2, <2>3
  <2> QED
    BY <1>1, <1>6, <2>1, <2>2, <2>4
<1>8. run[L] = st
  BY <1>1, <1>2, <1>7
<1>9. Follow(text) = run[L]
  BY FollowRuns DEF run
<1> QED
  BY <1>8, <1>9

(* The product of the matrices of a cell, as the followed text has it.     *)
Products == [names : Seq(Int), rows : Int, cols : Int, cost : Int]
Names(i, j) == [k \in 1 .. (j - i) + 1 |-> i + k]
Prod(c) ==
  [names |-> Names(c[1], c[2]), rows |-> mat[c[1] + 1], cols |-> mat[c[2] + 1 + 1],
   cost |-> cost_mat[c]]
Joined(x, y) ==
  [names |-> x.names \o y.names, rows |-> x.rows, cols |-> y.cols,
   cost |-> x.cost + y.cost + x.rows * x.cols * y.cols]

LEMMA NamesAre ==
  ASSUME NEW i \in Nat, NEW j \in Nat, i <= j
  PROVE  Names(i, j) \in Seq(Int) /\ Len(Names(i, j)) = (j - i) + 1
<1> DEFINE L == (j - i) + 1
<1>1. L \in Nat
  OBVIOUS
<1> HIDE DEF L
<1>2. [k \in 1 .. L |-> i + k] \in Seq(Int) /\ Len([k \in 1 .. L |-> i + k]) = L
  BY <1>1
<1> QED
  BY <1>2 DEF Names, L

LEMMA NamesJoin ==
  ASSUME NEW i \in Nat, NEW j \in Nat, NEW k \in i + 1 .. j
  PROVE  Names(i, k - 1) \o Names(k, j) = Names(i, j)
<1> DEFINE a == Names(i, k - 1)
           b == Names(k, j)
           x == Len(a)
           y == Len(b)
<1>1. a \in Seq(Int) /\ b \in Seq(Int) /\ x = k - i /\ y = (j - k) + 1
  <2>1. k \in Nat /\ k - 1 \in Nat /\ i <= k - 1 /\ k <= j
    OBVIOUS
  <2>2. a \in Seq(Int) /\ x = ((k - 1) - i) + 1
    BY <2>1, NamesAre
  <2>3. b \in Seq(Int) /\ y = (j - k) + 1
    BY <2>1, NamesAre
  <2> QED
    BY <2>1, <2>2, <2>3
<1>2. /\ \A e \in 1 .. x : a[e] = i + e
      /\ \A e \in 1 .. y : b[e] = k + e
  BY <1>1 DEF Names
<1>3. a \o b \in Seq(Int) /\ Len(a \o b) = (j - i) + 1
  <2>1. a \o b \in Seq(Int) /\ Len(a \o b) = x + y
    BY <1>1, SMTT(30)
  <2> QED
    BY <1>1, <2>1, SMTT(30)
<1>4. ASSUME NEW e \in 1 .. (j - i) + 1
      PROVE  (a \o b)[e] = i + e
  <2>1. CASE e <= x
    <3>1. e \in 1 .. x
      BY <1>1, <2>1
    <3>2. (a \o b)[e] = a[e]
      <4> HIDE DEF a, b
      <4> QED
        BY <1>1, <3>1
    <3> QED
      BY <1>2, <3>1, <3>2
  <2>2. CASE ~(e <= x)
    <3>1. e - x \in 1 .. y /\ e \in x + 1 .. x + y /\ k + (e - x) = i + e
      <4> HIDE DEF x, y
      <4>1. x = k - i /\ y = (j - k) + 1 /\ x \in Nat /\ y \in Nat
        BY <1>1
      <4> QED
        BY <2>2, <4>1
    <3>2. (a \o b)[e] = b[e - x]
      <4> HIDE DEF a, b
      <4> QED
        BY <1>1, <3>1, SMTT(30)
    <3> QED
      BY <1>2, <3>1, <3>2
  <2> QED
    BY <2>1, <2>2
<1> HIDE DEF a, b
<1>5. a \o b = [e \in 1 .. (j - i) + 1 |-> i + e]
  <2> DEFINE L == (j - i) + 1
             q == a \o b
  <2>1. q \in Seq(Int) /\ Len(q) = L
    BY <1>3
  <2> HIDE DEF q
  <2>2. q = [e \in 1 .. L |-> q[e]]
    BY <2>1
  <2>3. \A e \in 1 .. L : q[e] = i + e
    BY <1>4 DEF q
  <2> QED
    BY <2>2, <2>3 DEF q
<1> QED
  BY <1>5 DEF a, b, Names

LEMMA Closes ==
  ASSUME NEW X, NEW st \in Seq(X), NEW x \in X, NEW y \in X
  PROVE  Multiply(Append(Append(st, x), y), Closing) = Append(st, Joined(x, y))
<1> DEFINE t == Append(Append(st, x), y)
           d == Len(st)
<1>1. /\ d \in Nat /\ Len(t) = d + 2 /\ t[d + 1] = x /\ t[d + 2] = y
      /\ SubSeq(t, 1, d) = st
  <2>1. Append(st, x) \in Seq(X) /\ t \in Seq(X) /\ d \in Nat /\ Len(t) = d + 2
    OBVIOUS
  <2>2. t[d + 2] = y /\ t[d + 1] = x /\ \A k \in 1 .. d : t[k] = st[k]
    BY <2>1
  <2>3. SubSeq(t, 1, d) = st
    <3>1. SubSeq(t, 1, d) = [k \in 1 .. d |-> t[k]]
      <4> HIDE DEF t, d
      <4>1. d <= Len(t)
        BY <2>1
      <4> QED
        BY <2>1, <4>1
    <3>2. st = [k \in 1 .. d |-> st[k]]
      OBVIOUS
    <3> QED
      BY <2>2, <3>1, <3>2
  <2> QED
    BY <2>1, <2>2, <2>3
<1> HIDE DEF t
<1>2. (d + 2) - 1 = d + 1 /\ (d + 2) - 2 = d
  BY <1>1
<1>3. Opening # Closing
  BY DEF Opening, Closing
<1>4. Multiply(t, Closing) = Append(SubSeq(t, 1, Len(t) - 2), Joined(t[Len(t) - 1], t[Len(t)]))
  BY <1>3 DEF Multiply, Joined
<1> QED
  BY <1>1, <1>2, <1>4 DEF t

(* In the end the tables are those of every product.                       *)
LEMMA EndTables ==
  ASSUME McmTypeOK, TablesInv, l >= n
  PROVE  /\ Splits
         /\ \A c \in PartOf(mat) :
              /\ LeastOf(cost_mat[c], WaysOf(mat)[c]) /\ cost_mat[c] \in Nat
              /\ c[1] < c[2] =>
                   cost_mat[c] = CostOf(mat, cost_mat, c[1], s[c] - 1, c[2])
<1>1. /\ mat \in MainCalls \cup Other /\ n \in Nat \ {0}
      /\ \A c \in PartOf(mat) : /\ c[1] \in 0 .. n - 1 /\ c[2] \in 0 .. n - 1
                                /\ c[1] <= c[2]
  BY SizeIs DEF McmTypeOK
<1>2. \A c \in PartOf(mat) : Filled(c)
  <2> SUFFICES ASSUME NEW c \in PartOf(mat)
               PROVE  Filled(c)
    OBVIOUS
  <2>1. c[1] \in 0 .. n - 1 /\ c[2] \in 0 .. n - 1 /\ l \in Int
    BY <1>1 DEF McmTypeOK
  <2> QED
    BY <1>1, <2>1 DEF Filled
<1>3. \A c \in PartOf(mat) : WaysOf(mat)[c] \subseteq Nat
  BY <1>1, WaysFit DEF Costs
<1>4. Splits
  BY <1>2 DEF TablesInv, Splits
<1>5. ASSUME NEW c \in PartOf(mat)
      PROVE  /\ LeastOf(cost_mat[c], WaysOf(mat)[c]) /\ cost_mat[c] \in Nat
             /\ c[1] < c[2] =>
                  cost_mat[c] = CostOf(mat, cost_mat, c[1], s[c] - 1, c[2])
  BY <1>2, <1>3 DEF TablesInv, LeastOf
<1> QED
  BY <1>4, <1>5

LEMMA ProdIs ==
  ASSUME McmTypeOK, TablesInv, l >= n, NEW c \in PartOf(mat)
  PROVE  Prod(c) \in Products
<1> DEFINE i == c[1]
           j == c[2]
<1>1. /\ n \in Nat \ {0} /\ Len(mat) = n + 1 /\ mat \in Seq(Nat)
      /\ i \in 0 .. n - 1 /\ j \in 0 .. n - 1 /\ i <= j
  BY SizeIs DEF McmTypeOK
<1> HIDE DEF i, j
<1>2. Names(i, j) \in Seq(Int)
  <2>1. i \in Nat /\ j \in Nat
    BY <1>1
  <2> QED
    BY <1>1, <2>1, NamesAre
<1>3. mat[i + 1] \in Int /\ mat[j + 1 + 1] \in Int
  <2> DEFINE L == Len(mat)
  <2>1. i + 1 \in 1 .. L /\ j + 1 + 1 \in 1 .. L
    <3>1. L = n + 1
      BY <1>1
    <3> HIDE DEF L
    <3> QED
      BY <1>1, <3>1
  <2>2. mat[i + 1] \in Nat /\ mat[j + 1 + 1] \in Nat
    BY <1>1, <2>1, ElementOfSeq
  <2> QED
    BY <2>2
<1>4. cost_mat[c] \in Int
  BY EndTables
<1> QED
  BY <1>2, <1>3, <1>4 DEF Prod, Products, i, j

(* One matrix, and two products multiplied.                                *)
LEMMA ProdOne ==
  ASSUME McmTypeOK, TablesInv, l >= n, NEW c \in PartOf(mat), c[1] = c[2], NEW st
  PROVE  Multiply(st, c[1] + 1) = Append(st, Prod(c))
<1> DEFINE i == c[1]
<1>1. /\ mat \in MainCalls \cup Other /\ i \in Nat /\ Len(mat) \in Nat /\ Len(mat) >= 2
  BY SizeIs DEF McmTypeOK
<1>2. cost_mat[c] = 0
  <2>1. WaysOf(mat)[c] = {0}
    BY <1>1, WaysAre DEF WaysFrom
  <2> QED
    BY <2>1, EndTables DEF LeastOf
<1>3. Names(i, i) = <<i + 1>>
  <2>1. (i - i) + 1 = 1
    BY <1>1
  <2>2. Names(i, i) = [k \in 1 .. 1 |-> i + k]
    BY <2>1 DEF Names
  <2>3. Names(i, i) \in Seq(Int) /\ Len(Names(i, i)) = 1
    <3> HIDE DEF i
    <3>1. i <= i
      BY <1>1
    <3> QED
      BY <1>1, <2>1, <3>1, NamesAre
  <2>4. Names(i, i)[1] = i + 1
    BY <2>2
  <2> DEFINE q == Names(i, i)
  <2> HIDE DEF q
  <2>5. q = <<q[1]>>
    BY <2>3 DEF q
  <2> QED
    BY <2>4, <2>5 DEF q
<1>4. Prod(c) = [names |-> <<i + 1>>, rows |-> mat[i + 1], cols |-> mat[i + 1 + 1],
                 cost |-> 0]
  BY <1>2, <1>3 DEF Prod
<1>5. i + 1 # Opening /\ i + 1 # Closing /\ (i + 1) - 1 + 1 = i + 1
  BY <1>1 DEF Opening, Closing
<1>6. Multiply(st, i + 1)
        = Append(st, [names |-> <<i + 1>>, rows |-> mat[(i + 1) - 1 + 1],
                      cols |-> mat[i + 1 + 1], cost |-> 0])
  <2> HIDE DEF i
  <2> QED
    BY <1>5 DEF Multiply, Dim
<1> QED
  BY <1>4, <1>5, <1>6

LEMMA ProdJoins ==
  ASSUME McmTypeOK, TablesInv, l >= n, NEW c \in PartOf(mat), c[1] < c[2]
  PROVE  Joined(Prod(<<c[1], s[c] - 1>>), Prod(<<s[c], c[2]>>)) = Prod(c)
<1> DEFINE k == s[c]
           a == <<c[1], k - 1>>
           b == <<k, c[2]>>
<1>1. /\ mat \in MainCalls \cup Other /\ n \in Nat /\ c[1] \in 0 .. n - 1
      /\ c[2] \in 0 .. n - 1 /\ c[1] <= c[2]
  BY SizeIs DEF McmTypeOK
<1>2. k \in c[1] + 1 .. c[2]
  BY EndTables DEF Splits
<1>3. cost_mat[c] = CostOf(mat, cost_mat, c[1], k - 1, c[2])
  BY EndTables
<1> HIDE DEF k
<1>4. Names(c[1], k - 1) \o Names(k, c[2]) = Names(c[1], c[2])
  <2> DEFINE i == c[1]
             j == c[2]
  <2>1. i \in Nat /\ j \in Nat /\ k \in i + 1 .. j
    BY <1>1, <1>2
  <2> HIDE DEF i, j
  <2>2. Names(i, k - 1) \o Names(k, j) = Names(i, j)
    BY <2>1, NamesJoin
  <2> QED
    BY <2>2 DEF i, j
<1>5. (k - 1) + 1 = k
  BY <1>1, <1>2
<1>6. Prod(a) = [names |-> Names(c[1], k - 1), rows |-> mat[c[1] + 1],
                 cols |-> mat[k + 1], cost |-> cost_mat[a]]
  BY <1>5 DEF Prod
<1>7. Prod(b) = [names |-> Names(k, c[2]), rows |-> mat[k + 1],
                 cols |-> mat[c[2] + 1 + 1], cost |-> cost_mat[b]]
  BY DEF Prod
<1>8. cost_mat[c] = cost_mat[a] + cost_mat[b]
                      + mat[c[1] + 1] * mat[k + 1] * mat[c[2] + 1 + 1]
  BY <1>3, <1>5 DEF CostOf
<1> HIDE DEF a, b
<1>9. Joined(Prod(a), Prod(b))
        = [names |-> Names(c[1], k - 1) \o Names(k, c[2]), rows |-> mat[c[1] + 1],
           cols |-> mat[c[2] + 1 + 1],
           cost |-> cost_mat[a] + cost_mat[b]
                      + mat[c[1] + 1] * mat[k + 1] * mat[c[2] + 1 + 1]]
  BY <1>6, <1>7 DEF Joined
<1>10. Joined(Prod(a), Prod(b)) = Prod(c)
  BY <1>4, <1>8, <1>9 DEF Prod
<1> QED
  BY <1>10 DEF a, b, k

(* Following what is printed for a product leaves that product: by         *)
(* induction on the number of its matrices.                                *)
Means(c) ==
  LET o == Out[<<c, c[1] + 1>>]
  IN /\ o.num = c[2] + 1 + 1 /\ o.text \in Items
     /\ \A st \in Seq(Products) : Goes(st, o.text, Append(st, Prod(c)))

LEMMA MeansOne ==
  ASSUME McmTypeOK, TablesInv, l >= n, NEW c \in PartOf(mat), c[1] = c[2]
  PROVE  Means(c)
<1> DEFINE p == <<c, c[1] + 1>>
           i == c[1]
<1>1. mat \in MainCalls \cup Other /\ Splits /\ i \in Nat /\ p \in PartOf(mat) \X Nat
  <2>1. mat \in MainCalls \cup Other /\ Splits
    BY EndTables DEF McmTypeOK
  <2>2. i \in Nat
    BY <2>1, SizeIs
  <2>3. i + 1 \in Nat
    BY <2>2
  <2> QED
    BY <2>1, <2>2, <2>3
<1>2. Out[p] = [text |-> <<i + 1>>, num |-> i + 1 + 1]
  <2>1. Out[p] = OutFrom(Out, p)
    BY <1>1, OutIs
  <2>2. p[1] = c /\ p[2] = i + 1
    OBVIOUS
  <2> HIDE DEF p
  <2> QED
    BY <2>1, <2>2 DEF OutFrom
<1>3. ASSUME NEW st \in Seq(Products)
      PROVE  Goes(st, <<i + 1>>, Append(st, Prod(c)))
  <2>1. Multiply(st, i + 1) = Append(st, Prod(c))
    BY ProdOne
  <2> QED
    BY <2>1, GoesOne
<1>4. <<i + 1>> \in Items
  BY <1>1 DEF Items
<1> HIDE DEF p
<1> QED
  BY <1>2, <1>3, <1>4 DEF Means, p

LEMMA MeansSplit ==
  ASSUME McmTypeOK, TablesInv, l >= n, NEW c \in PartOf(mat), c[1] < c[2],
         Means(<<c[1], s[c] - 1>>), Means(<<s[c], c[2]>>)
  PROVE  Means(c)
<1> DEFINE p == <<c, c[1] + 1>>
           k == s[c]
           a == <<c[1], k - 1>>
           b == <<k, c[2]>>
           x == Out[<<a, c[1] + 1>>]
           y == Out[<<b, k + 1>>]
<1>1. /\ mat \in MainCalls \cup Other /\ Splits
      /\ c[1] \in 0 .. n - 1 /\ c[2] \in 0 .. n - 1 /\ n \in Nat
      /\ \A i, j \in 0 .. n - 1 : i <= j => <<i, j>> \in PartOf(mat)
  BY EndTables, SizeIs DEF McmTypeOK
<1>2. k \in c[1] + 1 .. c[2] /\ (k - 1) + 1 + 1 = k + 1
  BY <1>1 DEF Splits
<1>3. a \in PartOf(mat) /\ b \in PartOf(mat)
  <2> HIDE DEF k
  <2>1. /\ k \in 0 .. n - 1 /\ k - 1 \in 0 .. n - 1
        /\ c[1] <= k - 1 /\ k <= c[2]
    BY <1>1, <1>2
  <2> QED
    BY <1>1, <2>1
<1>4. /\ x.num = k + 1 /\ x.text \in Items
      /\ \A st \in Seq(Products) : Goes(st, x.text, Append(st, Prod(a)))
  <2>1. a[1] = c[1] /\ a[2] = k - 1 /\ Means(a)
    OBVIOUS
  <2> HIDE DEF a, k
  <2> QED
    BY <1>2, <2>1 DEF Means
<1>5. /\ y.num = c[2] + 1 + 1 /\ y.text \in Items
      /\ \A st \in Seq(Products) : Goes(st, y.text, Append(st, Prod(b)))
  <2>1. b[1] = k /\ b[2] = c[2] /\ Means(b)
    OBVIOUS
  <2> HIDE DEF b, k
  <2> QED
    BY <1>2, <2>1 DEF Means
<1>6. Out[p] = [text |-> <<Opening>> \o x.text \o y.text \o <<Closing>>, num |-> y.num]
  <2>1. p \in PartOf(mat) \X Nat
    <3>1. c[1] + 1 \in Nat
      BY <1>1
    <3> QED
      BY <3>1
  <2>2. Out[p] = OutFrom(Out, p)
    BY <1>1, <2>1, OutIs
  <2>3. p[1] = c /\ p[2] = c[1] + 1
    OBVIOUS
  <2>4. OutFrom(Out, p)
          = [text |-> <<Opening>> \o x.text \o Out[<<b, x.num>>].text \o <<Closing>>,
             num |-> Out[<<b, x.num>>].num]
    <3>1. c[1] # c[2]
      BY <1>1
    <3> HIDE DEF p
    <3> QED
      BY <2>3, <3>1 DEF OutFrom
  <2>5. Out[<<b, x.num>>] = y
    BY <1>4
  <2> HIDE DEF x, y, b
  <2> QED
    BY <2>2, <2>4, <2>5
<1>7. Prod(a) \in Products /\ Prod(b) \in Products /\ Joined(Prod(a), Prod(b)) = Prod(c)
  <2>1. Joined(Prod(a), Prod(b)) = Prod(c)
    BY ProdJoins
  <2> HIDE DEF a, b
  <2> QED
    BY <1>3, <2>1, ProdIs
<1> HIDE DEF p, x, y, a, b, k
<1>8. <<Opening>> \in Items /\ <<Closing>> \in Items
  BY DEF Items, Opening, Closing
<1> DEFINE t1 == <<Opening>> \o x.text
           t2 == t1 \o y.text
           t == t2 \o <<Closing>>
<1>9. t1 \in Items /\ t2 \in Items /\ t \in Items
  BY <1>4, <1>5, <1>8 DEF Items
<1>10. ASSUME NEW st \in Seq(Products)
       PROVE  Goes(st, t, Append(st, Prod(c)))
  <2> DEFINE st2 == Append(st, Prod(a))
             st3 == Append(st2, Prod(b))
  <2>1. st2 \in Seq(Products) /\ st3 \in Seq(Products)
    BY <1>7
  <2>2. Goes(st, <<Opening>>, st)
    <3>1. Multiply(st, Opening) = st
      BY DEF Multiply
    <3> QED
      BY <3>1, GoesOne
  <2>3. Goes(st, x.text, st2)
    BY <1>4
  <2>4. Goes(st2, y.text, st3)
    <3> HIDE DEF st2
    <3> QED
      BY <1>5, <2>1
  <2>5. Goes(st3, <<Closing>>, Append(st, Prod(c)))
    <3>1. Multiply(st3, Closing) = Append(st, Prod(c))
      BY <1>7, Closes
    <3> HIDE DEF st3
    <3>2. Goes(st3, <<Closing>>, Multiply(st3, Closing))
      BY GoesOne
    <3> QED
      BY <3>1, <3>2
  <2> HIDE DEF st2, st3, t1, t2, t
  <2>6. Goes(st, t1, st2)
    BY <1>4, <1>8, <2>2, <2>3, GoesJoin DEF t1
  <2>7. Goes(st, t2, st3)
    BY <1>5, <1>9, <2>4, <2>6, GoesJoin DEF t2
  <2> QED
    BY <1>8, <1>9, <2>5, <2>7, GoesJoin DEF t
<1>11. Out[p] = [text |-> t, num |-> y.num]
  BY <1>6
<1> HIDE DEF t1, t2, t
<1>12. Out[p].num = c[2] + 1 + 1 /\ Out[p].text = t
  <2>1. y.num = c[2] + 1 + 1
    BY <1>5
  <2> QED
    BY <1>11, <2>1
<1> QED
  BY <1>9, <1>10, <1>12 DEF Means, p

LEMMA AllMean ==
  ASSUME McmTypeOK, TablesInv, l >= n, NEW c \in PartOf(mat)
  PROVE  Means(c)
<1> DEFINE P == PartOf(mat)
           T == {d \in Nat : \E e \in P : e[2] - e[1] = d /\ ~Means(e)}
<1>1. /\ Splits /\ n \in Nat
      /\ \A e \in P : e[1] \in 0 .. n - 1 /\ e[2] \in 0 .. n - 1 /\ e[1] <= e[2]
      /\ \A i, j \in 0 .. n - 1 : i <= j => <<i, j>> \in P
  BY EndTables, SizeIs DEF McmTypeOK
<1>2. ASSUME NEW e \in P
      PROVE  e[2] - e[1] \in Nat
  BY <1>1
<1> HIDE DEF T
<1>3. T = {}
  <2> SUFFICES ASSUME T # {}
               PROVE  FALSE
    OBVIOUS
  <2>1. PICK d \in T : \A x \in T : d <= x
    <3>1. T \in SUBSET Nat
      BY DEF T
    <3> QED
      BY <3>1, Least
  <2>2. PICK e \in P : e[2] - e[1] = d /\ ~Means(e)
    BY <2>1 DEF T
  <2>3. ASSUME NEW f \in P, f[2] - f[1] < d
        PROVE  Means(f)
    <3>1. f[2] - f[1] \in Nat /\ f[2] - f[1] \notin T
      BY <1>2, <2>1, <2>3 DEF T
    <3> QED
      BY <3>1 DEF T
  <2>4. e[1] \in 0 .. n - 1 /\ e[2] \in 0 .. n - 1 /\ e[1] <= e[2]
    BY <1>1
  <2>5. CASE e[1] = e[2]
    BY <2>2, <2>5, MeansOne
  <2>6. CASE e[1] # e[2]
    <3> DEFINE k == s[e]
               a == <<e[1], k - 1>>
               b == <<k, e[2]>>
    <3>1. e[1] < e[2]
      BY <1>1, <2>4, <2>6
    <3>2. k \in e[1] + 1 .. e[2]
      BY <1>1, <3>1 DEF Splits
    <3>3. a \in P /\ b \in P /\ a[2] - a[1] < d /\ b[2] - b[1] < d
      <4> HIDE DEF k
      <4>1. /\ k \in 0 .. n - 1 /\ k - 1 \in 0 .. n - 1 /\ e[1] <= k - 1 /\ k <= e[2]
            /\ (k - 1) - e[1] < d /\ e[2] - k < d
        BY <1>1, <2>2, <2>4, <3>2
      <4> QED
        BY <1>1, <2>4, <4>1
    <3>4. Means(a) /\ Means(b)
      <4> HIDE DEF a, b
      <4> QED
        BY <2>3, <3>3
    <3> QED
      BY <2>2, <3>1, <3>4, MeansSplit
  <2> QED
    BY <2>5, <2>6
<1>4. c[2] - c[1] \in Nat /\ c[2] - c[1] \notin T
  BY <1>2, <1>3
<1> QED
  BY <1>4 DEF T
-----------------------------------------------------------------------------
(***************************************************************************)
(* What mcm does.                                                          *)
(***************************************************************************)
McmInv ==
  McmTypeOK /\ TablesInv /\ (printed # <<>> => l >= n /\ printed = Result)

LEMMA ResultSame ==
  ASSUME mat' = mat, s' = s
  PROVE  n' = n /\ Result' = Result
<1>1. n' = n /\ Cell' = Cell /\ Part' = Part
  BY DEF n, Part, Cell
<1> QED
  BY <1>1 DEF Result

(* The inductive invariant of mcm: the cells of the diagonals that were    *)
(* filled hold least costs, and what is printed is read from all of them   *)
(* (mcm.cpp, 66-122).                                                      *)
THEOREM McmInvariance == McmSpec => []McmInv
<1>1. McmInit => McmInv
  BY InitTables DEF McmInit, McmInv
<1>2. McmInv /\ [McmNext]_mcm_vars => McmInv'
  <2> SUFFICES ASSUME McmInv, [McmNext]_mcm_vars
               PROVE  McmInv'
    OBVIOUS
  <2>0. McmTypeOK /\ TablesInv /\ (printed # <<>> => l >= n /\ printed = Result)
    BY DEF McmInv
  <2>n. n \in Nat
    BY <2>0, SizeIs DEF McmTypeOK
  <2>1. CASE FillCell
    <3>1. (McmTypeOK /\ TablesInv)'
      BY <2>0, <2>1, FillCellInv
    <3>2. l < n /\ printed' = printed
      BY <2>1 DEF FillCell
    <3>3. printed' = <<>>
      BY <2>0, <2>n, <3>2 DEF McmTypeOK
    <3> QED
      BY <3>1, <3>3 DEF McmInv
  <2>2. CASE NextDiagonal
    <3>1. (McmTypeOK /\ TablesInv)'
      BY <2>0, <2>2, NextDiagonalInv
    <3>2. l < n /\ printed' = printed
      BY <2>2 DEF NextDiagonal
    <3>3. printed' = <<>>
      BY <2>0, <2>n, <3>2 DEF McmTypeOK
    <3> QED
      BY <3>1, <3>3 DEF McmInv
  <2>3. CASE PrintProduct
    <3>1. /\ l >= n /\ printed' = Result /\ mat' = mat /\ l' = l /\ row' = row
          /\ cost_mat' = cost_mat /\ s' = s
      BY <2>3 DEF PrintProduct
    <3>2. n' = n /\ Result' = Result
      BY <3>1, ResultSame
    <3>3. Cell' = Cell
      BY <3>1 DEF Cell, n
    <3>4. McmTypeOK' /\ TablesInv'
      BY <2>0, <3>1, <3>2, <3>3 DEF McmTypeOK, TablesInv, Filled
    <3> QED
      BY <3>1, <3>2, <3>4 DEF McmInv
  <2>4. CASE UNCHANGED mcm_vars
    <3>1. /\ printed' = printed /\ mat' = mat /\ l' = l /\ row' = row
          /\ cost_mat' = cost_mat /\ s' = s
      BY <2>4 DEF mcm_vars
    <3>2. n' = n /\ Result' = Result
      BY <3>1, ResultSame
    <3>3. Cell' = Cell
      BY <3>1 DEF Cell, n
    <3>4. McmTypeOK' /\ TablesInv'
      BY <2>0, <3>1, <3>2, <3>3 DEF McmTypeOK, TablesInv, Filled
    <3> QED
      BY <2>0, <3>1, <3>2, <3>4 DEF McmInv
  <2> QED
    BY <2>1, <2>2, <2>3, <2>4 DEF McmNext
<1> QED
  BY <1>1, <1>2, PTL DEF McmSpec

(* The whole product is a cell.                                            *)
LEMMA WholeIs ==
  ASSUME McmTypeOK
  PROVE  /\ <<0, n - 1>> \in PartOf(mat) /\ mat \in MainCalls \cup Other
         /\ n \in Nat \ {0} /\ (n - 1) + 1 = n
<1>1. /\ mat \in MainCalls \cup Other /\ n \in Nat \ {0}
      /\ \A i, j \in 0 .. n - 1 : i <= j => <<i, j>> \in PartOf(mat)
  BY SizeIs DEF McmTypeOK
<1>2. 0 \in 0 .. n - 1 /\ n - 1 \in 0 .. n - 1 /\ 0 <= n - 1 /\ (n - 1) + 1 = n
  BY <1>1
<1> QED
  BY <1>1, <1>2

(* The value that mcm prints is the least cost of all ways to multiply,    *)
(* for any number of matrices of any sizes an int can count (mcm.cpp,      *)
(* 87-98 and 121).                                                         *)
THEOREM ValueIsOptimal == McmSpec => []ValueOptimal
<1>1. McmInv => ValueOptimal
  <2> SUFFICES ASSUME McmInv, printed # <<>>
               PROVE  cost_mat[<<0, n - 1>>] = Min(AllCosts)
    BY DEF ValueOptimal
  <2>1. McmTypeOK /\ TablesInv /\ l >= n
    BY DEF McmInv
  <2> DEFINE c == <<0, n - 1>>
             W == WaysOf(mat)[c]
  <2>2. c \in PartOf(mat) /\ mat \in MainCalls \cup Other
    BY <2>1, WholeIs
  <2> HIDE DEF c
  <2>3. LeastOf(cost_mat[c], W) /\ W \subseteq Nat /\ W # {}
    BY <2>1, <2>2, EndTables, WaysFit DEF Costs
  <2> HIDE DEF W
  <2>4. LeastOf(Min(W), W)
    BY <2>3, MinIs
  <2>5. cost_mat[c] = Min(W)
    <3>1. cost_mat[c] \in W /\ Min(W) \in W
      BY <2>3, <2>4 DEF LeastOf
    <3>2. cost_mat[c] <= Min(W) /\ Min(W) <= cost_mat[c]
      BY <2>3, <2>4, <3>1 DEF LeastOf
    <3>3. cost_mat[c] \in Nat /\ Min(W) \in Nat
      BY <2>3, <3>1
    <3> QED
      BY <3>2, <3>3
  <2> QED
    BY <2>5, AllCostsIs DEF c, W
<1> QED
  BY <1>1, McmInvariance, PTL

(* The text that result prints names the matrices in their order and, when *)
(* it is followed, multiplies them for the printed value (mcm.cpp,         *)
(* 131-142).                                                               *)
THEOREM TextIsRight == McmSpec => []TextCostsValue
<1>1. McmInv => TextCostsValue
  <2> SUFFICES ASSUME McmInv, printed # <<>>
               PROVE  Follow(printed)
                        = <<[names |-> [k \in 1 .. n |-> k], rows |-> Dim(0),
                             cols |-> Dim(n), cost |-> cost_mat[<<0, n - 1>>]]>>
    BY DEF TextCostsValue
  <2>1. McmTypeOK /\ TablesInv /\ l >= n /\ printed = Result
    BY DEF McmInv
  <2> DEFINE c == <<0, n - 1>>
             text == Out[<<c, 1>>].text
  <2>2. c \in PartOf(mat) /\ n \in Nat \ {0} /\ (n - 1) + 1 = n
    BY <2>1, WholeIs
  <2>3. text = printed
    BY <2>1, ResultIs
  <2>4. Means(c)
    <3> HIDE DEF c
    <3> QED
      BY <2>1, <2>2, AllMean
  <2>5. text \in Items /\ Goes(<<>>, text, Append(<<>>, Prod(c)))
    <3>1. c[1] + 1 = 1
      OBVIOUS
    <3>2. <<>> \in Seq(Products)
      OBVIOUS
    <3> HIDE DEF c
    <3> QED
      BY <2>4, <3>1, <3>2 DEF Means
  <2>6. Follow(text) = Append(<<>>, Prod(c))
    <3> HIDE DEF text, c
    <3> QED
      BY <2>5, FollowIs
  <2>7. Append(<<>>, Prod(c)) = <<Prod(c)>>
    OBVIOUS
  <2>8. Prod(c) = [names |-> [k \in 1 .. n |-> k], rows |-> Dim(0),
                   cols |-> Dim(n), cost |-> cost_mat[c]]
    <3>1. Names(0, n - 1) = [k \in 1 .. n |-> k]
      <4>1. ((n - 1) - 0) + 1 = n
        BY <2>2
      <4>2. Names(0, n - 1) = [k \in 1 .. n |-> 0 + k]
        BY <4>1 DEF Names
      <4>3. \A k \in 1 .. n : 0 + k = k
        OBVIOUS
      <4> QED
        BY <4>2, <4>3
    <3>2. c[1] = 0 /\ c[2] = n - 1
      OBVIOUS
    <3> HIDE DEF c
    <3> QED
      BY <2>2, <3>1, <3>2 DEF Prod, Dim
  <2> QED
    BY <2>3, <2>6, <2>7, <2>8
<1> QED
  BY <1>1, McmInvariance, PTL

(* No sum that mcm computes reaches INT_MAX: an int does not overflow and  *)
(* no cell is read before it is filled (mcm.cpp, 91).                      *)
THEOREM NoOverflow == McmSpec => []CostsFit
<1>1. McmInv => CostsFit
  <2> SUFFICES ASSUME McmInv, l < n, row < n - l, NEW k \in row .. (row + l) - 1
               PROVE  cost_mat[<<row, k>>]
                        < INT_MAX - cost_mat[<<k + 1, row + l>>]
                            - Dim(row) * Dim(k + 1) * Dim(row + l + 1)
    BY DEF CostsFit
  <2>1. McmTypeOK /\ TablesInv
    BY DEF McmInv
  <2>2. Cost(row, k, row + l) \in Costs
    BY <2>1, FillIs
  <2>3. /\ mat \in Seq(Nat) /\ Len(mat) \in Nat /\ Len(mat) = n + 1
        /\ l \in Nat \ {0} /\ row \in Nat /\ k \in Nat /\ n \in Nat
        /\ cost_mat \in [Cell -> Int]
    <3>1. mat \in MainCalls \cup Other /\ cost_mat \in [Cell -> Int]
      BY <2>1 DEF McmTypeOK
    <3>2. mat \in Seq(Nat) /\ Len(mat) \in Nat /\ Len(mat) = n + 1 /\ n \in Nat
      BY <3>1, SizeIs
    <3>3. l \in Nat \ {0} /\ row \in Nat
      BY <2>1, <3>2 DEF McmTypeOK
    <3>4. k \in Nat
      BY <3>3
    <3> QED
      BY <3>1, <3>2, <3>3, <3>4
  <2> DEFINE a == cost_mat[<<row, k>>]
             b == cost_mat[<<k + 1, row + l>>]
             p == Dim(row) * Dim(k + 1) * Dim(row + l + 1)
  <2>4. a \in Int /\ b \in Int
    <3>1. <<row, k>> \in Cell /\ <<k + 1, row + l>> \in Cell
      BY <2>3, SMTT(30) DEF Cell
    <3> QED
      BY <2>3, <3>1
  <2>5. p \in Int
    <3>1. row + 1 \in 1 .. n + 1 /\ k + 1 + 1 \in 1 .. n + 1 /\ row + l + 1 + 1 \in 1 .. n + 1
      BY <2>3
    <3>2. Dim(row) \in Nat /\ Dim(k + 1) \in Nat /\ Dim(row + l + 1) \in Nat
      BY <2>3, <3>1, ElementOfSeq DEF Dim
    <3> QED
      BY <3>2
  <2>6. a + b + p \in Costs
    BY <2>2 DEF Cost
  <2> HIDE DEF a, b, p
  <2>7. a < INT_MAX - b - p
    BY <2>4, <2>5, <2>6 DEF Costs, INT_MAX
  <2> QED
    BY <2>7 DEF a, b, p
<1> QED
  BY <1>1, McmInvariance, PTL
-----------------------------------------------------------------------------
(***************************************************************************)
(* Moves: what main does with positions is what the reference does.        *)
(***************************************************************************)
LEMMA WidthIs == Width \in Nat /\ Width > 1
BY PuzzleAssumption

LEMMA Divided ==
  ASSUME NEW x \in Nat
  PROVE  /\ x \div Width \in Nat /\ x % Width \in 0 .. Width - 1
         /\ x = Width * (x \div Width) + (x % Width)
BY WidthIs

LEMMA Quotient ==
  ASSUME NEW q \in Int, NEW r \in 0 .. Width - 1, NEW x \in Nat,
         x = Width * q + r
  PROVE  x \div Width = q /\ x % Width = r
<1> DEFINE p == x \div Width
           t == x % Width
<1>1. p \in Nat /\ t \in 0 .. Width - 1 /\ x = Width * p + t
  BY Divided
<1> HIDE DEF p, t
<1>2. p = q
  <2>1. Width * (p - q) = r - t
    BY <1>1, WidthIs
  <2>2. CASE p - q >= 1
    <3>1. Width * (p - q) >= Width
      BY <1>1, <2>2, WidthIs
    <3> QED
      BY <1>1, <2>1, <3>1, WidthIs
  <2>3. CASE p - q <= -1
    <3>1. Width * (p - q) <= 0 - Width
      BY <1>1, <2>3, WidthIs
    <3> QED
      BY <1>1, <2>1, <3>1, WidthIs
  <2> QED
    BY <1>1, <2>2, <2>3
<1>3. t = r
  BY <1>1, <1>2, WidthIs
<1> QED
  BY <1>2, <1>3 DEF p, t

LEMMA SquareOne ==
  ASSUME NEW x \in Int, NEW y \in Int
  PROVE  x * x + y * y = 1 <=>
           \/ (x = 1 \/ x = -1) /\ y = 0
           \/ x = 0 /\ (y = 1 \/ y = -1)
<1>1. ASSUME NEW z \in Int
      PROVE  /\ z * z \in Nat
             /\ (z * z = 0 <=> z = 0)
             /\ (z * z = 1 <=> z = 1 \/ z = -1)
  <2>1. CASE z >= 2
    BY <2>1
  <2>2. CASE z <= -2
    BY <2>2
  <2>3. CASE z \in {-1, 0, 1}
    BY <2>3
  <2> QED
    BY <2>1, <2>2, <2>3
<1>2. /\ x * x \in Nat /\ (x * x = 0 <=> x = 0) /\ (x * x = 1 <=> x = 1 \/ x = -1)
      /\ y * y \in Nat /\ (y * y = 0 <=> y = 0) /\ (y * y = 1 <=> y = 1 \/ y = -1)
  BY <1>1
<1> DEFINE u == x * x
           v == y * y
<1> HIDE DEF u, v
<1>3. /\ u \in Nat /\ (u = 0 <=> x = 0) /\ (u = 1 <=> x = 1 \/ x = -1)
      /\ v \in Nat /\ (v = 0 <=> y = 0) /\ (v = 1 <=> y = 1 \/ y = -1)
  BY <1>2 DEF u, v
<1>4. u + v = 1 <=> \/ (x = 1 \/ x = -1) /\ y = 0
                    \/ x = 0 /\ (y = 1 \/ y = -1)
  BY <1>3
<1> QED
  BY <1>4 DEF u, v

(* The places next to place p + 1, as main computes them.                  *)
Near(p, c) ==
  \/ c = p - Width \/ c = p + Width
  \/ (c = p - 1 \/ c = p + 1) /\ c \div Width = p \div Width

LEMMA AdjacentIs ==
  ASSUME NEW p \in Nat, NEW c \in Nat
  PROVE  Adjacent(p + 1, c + 1) <=> Near(p, c)
<1> DEFINE p1 == p \div Width
           p2 == p % Width
           c1 == c \div Width
           c2 == c % Width
<1>1. /\ p1 \in Nat /\ p2 \in 0 .. Width - 1 /\ p = Width * p1 + p2
      /\ c1 \in Nat /\ c2 \in 0 .. Width - 1 /\ c = Width * c1 + c2
  BY Divided
<1>2. /\ Square(p + 1)[1] = p1 /\ Square(p + 1)[2] = p2
      /\ Square(c + 1)[1] = c1 /\ Square(c + 1)[2] = c2
  <2>1. p + 1 - 1 = p /\ c + 1 - 1 = c
    OBVIOUS
  <2> QED
    BY <2>1 DEF Square
<1> HIDE DEF p1, p2, c1, c2
<1>3. Adjacent(p + 1, c + 1) <=>
        (p1 - c1) * (p1 - c1) + (p2 - c2) * (p2 - c2) = 1
  BY <1>2 DEF Adjacent
<1>4. Adjacent(p + 1, c + 1) <=>
        \/ (p1 - c1 = 1 \/ p1 - c1 = -1) /\ p2 - c2 = 0
        \/ p1 - c1 = 0 /\ (p2 - c2 = 1 \/ p2 - c2 = -1)
  BY <1>1, <1>3, SquareOne, WidthIs
<1>5. ASSUME Adjacent(p + 1, c + 1)
      PROVE  Near(p, c)
  <2>1. CASE p1 - c1 = 1 /\ p2 - c2 = 0
    <3>1. p1 = c1 + 1
      BY <1>1, <2>1
    <3> QED
      BY <1>1, <2>1, <3>1, WidthIs DEF Near
  <2>2. CASE p1 - c1 = -1 /\ p2 - c2 = 0
    <3>1. c1 = p1 + 1
      BY <1>1, <2>2
    <3> QED
      BY <1>1, <2>2, <3>1, WidthIs DEF Near
  <2>3. CASE p1 - c1 = 0 /\ (p2 - c2 = 1 \/ p2 - c2 = -1)
    <3>1. p1 = c1
      BY <1>1, <2>3
    <3>2. c = p - 1 \/ c = p + 1
      BY <1>1, <2>3, <3>1, WidthIs
    <3> QED
      BY <3>1, <3>2 DEF Near, p1, c1
  <2> QED
    BY <1>4, <1>5, <2>1, <2>2, <2>3
<1>6. ASSUME Near(p, c)
      PROVE  Adjacent(p + 1, c + 1)
  <2>1. CASE c = p - Width
    <3>1. p1 - 1 \in Int /\ c = Width * (p1 - 1) + p2
      BY <1>1, <2>1, WidthIs
    <3>2. c1 = p1 - 1 /\ c2 = p2
      BY <1>1, <3>1, Quotient DEF c1, c2
    <3> QED
      BY <1>1, <1>4, <3>2, WidthIs
  <2>2. CASE c = p + Width
    <3>1. p1 + 1 \in Int /\ c = Width * (p1 + 1) + p2
      BY <1>1, <2>2, WidthIs
    <3>2. c1 = p1 + 1 /\ c2 = p2
      BY <1>1, <3>1, Quotient DEF c1, c2
    <3> QED
      BY <1>1, <1>4, <3>2, WidthIs
  <2>3. CASE (c = p - 1 \/ c = p + 1) /\ c1 = p1
    <3>1. c2 - p2 = c - p
      BY <1>1, <2>3, WidthIs
    <3> QED
      BY <1>1, <1>4, <2>3, <3>1, WidthIs
  <2> QED
    BY <1>6, <2>1, <2>2, <2>3 DEF Near, p1, c1
<1> QED
  BY <1>5, <1>6

LEMMA BoardIs ==
  ASSUME NEW b \in Board
  PROVE  /\ b \in Seq(Nat) /\ Len(b) \in Nat /\ DOMAIN b = 1 .. Len(b)
         /\ find_position(b) \in 0 .. Len(b) - 1
         /\ Empty(b) = find_position(b) + 1
         /\ b[Empty(b)] = 0
         /\ \A m \in 1 .. Len(b) : b[m] = 0 => m = Empty(b)
<1>1. b \in Seq(Nat) /\ Len(b) \in Nat /\ DOMAIN b = 1 .. Len(b)
  BY LenProperties DEF Board
<1>2. PICK k \in 1 .. Len(b) : b[k] = 0 /\ \A m \in 1 .. Len(b) : b[m] = 0 => m = k
  BY <1>1 DEF Board
<1>3. Empty(b) = k
  BY <1>1, <1>2 DEF Empty
<1>4. find_position(b) \in 0 .. Len(b) - 1 /\ b[find_position(b) + 1] = 0
  <2>1. k - 1 \in 0 .. Len(b) - 1 /\ b[(k - 1) + 1] = 0
    BY <1>1, <1>2
  <2> QED
    BY <2>1 DEF find_position
<1>5. find_position(b) + 1 \in 1 .. Len(b)
  BY <1>1, <1>4
<1> QED
  BY <1>1, <1>2, <1>3, <1>4, <1>5

LEMMA JoinedIs ==
  \A x, y \in Seq(Int) : x \o y \in Seq(Int) /\ Range(x \o y) = Range(x) \cup Range(y)
<1> SUFFICES ASSUME NEW x \in Seq(Int), NEW y \in Seq(Int)
             PROVE  x \o y \in Seq(Int) /\ Range(x \o y) = Range(x) \cup Range(y)
  OBVIOUS
<1>1. x \o y \in Seq(Int)
  BY ConcatProperties
<1>2. Range(x \o y) = Range(x) \cup Range(y)
  BY RangeConcatenation
<1> QED
  BY <1>1, <1>2

LEMMA ChangesAre ==
  ASSUME NEW b \in Board
  PROVE  /\ Changes(b) \in Seq(Int)
         /\ Range(Changes(b)) =
              {c \in 0 .. Len(b) - 1 : Near(find_position(b), c)}
<1> DEFINE ind == find_position(b)
           line == ind \div Width
           up == If(ind - Width >= 0, ind - Width)
           left == If(ind - 1 >= 0 /\ (ind - 1) \div Width = line, ind - 1)
           right == If(ind + 1 < Len(b) /\ (ind + 1) \div Width = line, ind + 1)
           down == If(ind + Width < Len(b), ind + Width)
<1>1. ind \in 0 .. Len(b) - 1 /\ ind \in Int /\ Len(b) \in Nat
  BY BoardIs
<1>2. Changes(b) = ((up \o left) \o right) \o down
  BY DEF Changes
<1>3. /\ up \in Seq(Int) /\ Range(up) = {x \in {ind - Width} : ind - Width >= 0}
      /\ left \in Seq(Int)
      /\ Range(left) =
           {x \in {ind - 1} : ind - 1 >= 0 /\ (ind - 1) \div Width = line}
      /\ right \in Seq(Int)
      /\ Range(right) =
           {x \in {ind + 1} : ind + 1 < Len(b) /\ (ind + 1) \div Width = line}
      /\ down \in Seq(Int)
      /\ Range(down) = {x \in {ind + Width} : ind + Width < Len(b)}
  <2>1. ind - Width \in Int /\ ind - 1 \in Int /\ ind + 1 \in Int /\ ind + Width \in Int
    BY <1>1, WidthIs
  <2>2. up \in Seq(Int) /\ Range(up) = {x \in {ind - Width} : ind - Width >= 0}
    BY <2>1 DEF If, Range
  <2>3. /\ left \in Seq(Int)
        /\ Range(left) =
             {x \in {ind - 1} : ind - 1 >= 0 /\ (ind - 1) \div Width = line}
    BY <2>1 DEF If, Range
  <2>4. /\ right \in Seq(Int)
        /\ Range(right) =
             {x \in {ind + 1} : ind + 1 < Len(b) /\ (ind + 1) \div Width = line}
    BY <2>1 DEF If, Range
  <2>5. down \in Seq(Int) /\ Range(down) = {x \in {ind + Width} : ind + Width < Len(b)}
    BY <2>1 DEF If, Range
  <2> QED
    BY <2>2, <2>3, <2>4, <2>5
<1> HIDE DEF up, left, right, down
<1>4. /\ up \o left \in Seq(Int)
      /\ Range(up \o left) = Range(up) \cup Range(left)
  BY <1>3, JoinedIs
<1>5. /\ (up \o left) \o right \in Seq(Int)
      /\ Range((up \o left) \o right) = Range(up) \cup Range(left) \cup Range(right)
  BY <1>3, <1>4, JoinedIs
<1>6. /\ Changes(b) \in Seq(Int)
      /\ Range(Changes(b)) =
           Range(up) \cup Range(left) \cup Range(right) \cup Range(down)
  <2>1. /\ ((up \o left) \o right) \o down \in Seq(Int)
        /\ Range(((up \o left) \o right) \o down) =
             Range((up \o left) \o right) \cup Range(down)
    BY <1>3, <1>5, JoinedIs
  <2> QED
    BY <1>2, <1>5, <2>1
<1>7. ASSUME NEW c
      PROVE  c \in Range(Changes(b)) <=> c \in 0 .. Len(b) - 1 /\ Near(ind, c)
  <2>1. c \in Range(Changes(b)) <=>
          \/ c = ind - Width /\ ind - Width >= 0
          \/ c = ind - 1 /\ ind - 1 >= 0 /\ (ind - 1) \div Width = line
          \/ c = ind + 1 /\ ind + 1 < Len(b) /\ (ind + 1) \div Width = line
          \/ c = ind + Width /\ ind + Width < Len(b)
    BY <1>3, <1>6
  <2> HIDE DEF ind
  <2>2. c \in Range(Changes(b)) => c \in 0 .. Len(b) - 1 /\ Near(ind, c)
    BY <1>1, <2>1, WidthIs DEF Near
  <2>3. c \in 0 .. Len(b) - 1 /\ Near(ind, c) => c \in Range(Changes(b))
    BY <1>1, <2>1, WidthIs DEF Near
  <2> QED
    BY <2>2, <2>3
<1> QED
  BY <1>6, <1>7

LEMMA SwapIs ==
  ASSUME NEW b \in Board, NEW c \in 0 .. Len(b) - 1, Near(find_position(b), c)
  PROVE  /\ swap_puzzle(b, find_position(b), c) \in Board
         /\ swap_puzzle(b, find_position(b), c) =
              [b EXCEPT ![Empty(b)] = b[c + 1], ![c + 1] = 0]
<1> DEFINE k == Empty(b)
           m == c + 1
           u == swap_puzzle(b, find_position(b), c)
<1>1. /\ b \in Seq(Nat) /\ Len(b) \in Nat /\ DOMAIN b = 1 .. Len(b)
      /\ k \in 1 .. Len(b) /\ find_position(b) + 1 = k /\ b[k] = 0
      /\ m \in 1 .. Len(b) /\ b \in [1 .. Len(b) -> Nat]
      /\ \A x \in 1 .. Len(b) : b[x] = 0 => x = k
  BY BoardIs, LenProperties
<1>2. k # m
  BY WidthIs, BoardIs, SMTT(30) DEF Near
<1> HIDE DEF k
<1>3. u = [b EXCEPT ![k] = b[m], ![m] = 0]
  BY <1>1 DEF swap_puzzle
<1> HIDE DEF m, u
<1>4. /\ u \in [1 .. Len(b) -> Nat]
      /\ \A x \in 1 .. Len(b) : u[x] = IF x = m THEN 0 ELSE IF x = k THEN b[m] ELSE b[x]
  BY <1>1, <1>3
<1>5. u \in Seq(Nat) /\ DOMAIN u = 1 .. Len(b)
  BY <1>1, <1>4, SMTT(30)
<1>6. u[m] = 0 /\ \A x \in 1 .. Len(b) : u[x] = 0 => x = m
  BY <1>1, <1>2, <1>4
<1>7. u \in Board
  BY <1>1, <1>5, <1>6 DEF Board
<1> QED
  BY <1>3, <1>7 DEF u, k, m

(* What main looks at are the moves of the reference.                      *)
LEMMA MovesAre ==
  ASSUME NEW b \in Board
  PROVE  /\ Moves(b) \subseteq Board
         /\ Moves(b) = {swap_puzzle(b, find_position(b), c) : c \in Range(Changes(b))}
<1> DEFINE p == find_position(b)
           C == {c \in 0 .. Len(b) - 1 : Near(p, c)}
           N == {m \in DOMAIN b : Adjacent(Empty(b), m)}
<1>1. p \in Nat /\ Empty(b) = p + 1 /\ DOMAIN b = 1 .. Len(b) /\ Len(b) \in Nat
  BY BoardIs
<1>2. Range(Changes(b)) = C
  BY ChangesAre
<1>3. Moves(b) = {[b EXCEPT ![Empty(b)] = b[m], ![m] = 0] : m \in N}
  BY DEF Moves
<1>4. \A c \in C : /\ swap_puzzle(b, p, c) \in Board
                   /\ swap_puzzle(b, p, c) =
                        [b EXCEPT ![Empty(b)] = b[c + 1], ![c + 1] = 0]
  BY SwapIs
<1> HIDE DEF p
<1>5. \A c \in C : c + 1 \in N
  BY <1>1, AdjacentIs
<1>6. \A m \in N : m - 1 \in C /\ (m - 1) + 1 = m
  <2> SUFFICES ASSUME NEW m \in N
               PROVE  m - 1 \in C /\ (m - 1) + 1 = m
    OBVIOUS
  <2>1. m - 1 \in 0 .. Len(b) - 1 /\ m - 1 \in Nat /\ (m - 1) + 1 = m
    BY <1>1
  <2>2. Adjacent(p + 1, (m - 1) + 1)
    BY <1>1, <2>1
  <2> QED
    BY <1>1, <2>1, <2>2, AdjacentIs
<1> HIDE DEF C, N
<1>7. Moves(b) = {swap_puzzle(b, p, c) : c \in C}
  <2>1. ASSUME NEW u \in Moves(b)
        PROVE  u \in {swap_puzzle(b, p, c) : c \in C}
    <3>1. PICK m \in N : u = [b EXCEPT ![Empty(b)] = b[m], ![m] = 0]
      BY <1>3
    <3>2. u = swap_puzzle(b, p, m - 1)
      BY <1>4, <1>6, <3>1
    <3> QED
      BY <1>6, <3>2
  <2>2. ASSUME NEW c \in C
        PROVE  swap_puzzle(b, p, c) \in Moves(b)
    BY <1>3, <1>4, <1>5
  <2> QED
    BY <2>1, <2>2
<1>8. Moves(b) \subseteq Board
  BY <1>4, <1>7
<1> QED
  BY <1>2, <1>7, <1>8 DEF p
-----------------------------------------------------------------------------
(***************************************************************************)
(* The boards so many moves away.                                          *)
(***************************************************************************)
Outer(S) == S \cup UNION {Moves(c) : c \in S}

IsBall(b, m, u) == u = [d \in 0 .. m |-> IF d = 0 THEN {b} ELSE Outer(u[d - 1])]
Ball(b, m) == CHOOSE u : IsBall(b, m, u)

LEMMA BallExists ==
  ASSUME NEW b, NEW m \in Nat
  PROVE  IsBall(b, m, Ball(b, m))
<1> DEFINE T == {d \in Nat : ~\E u : IsBall(b, d, u)}
<1>1. T = {}
  <2> SUFFICES ASSUME T # {}
               PROVE  FALSE
    OBVIOUS
  <2>1. PICK d \in T : \A e \in T : d <= e
    <3>1. T \in SUBSET Nat
      OBVIOUS
    <3> HIDE DEF T
    <3> QED
      BY <3>1, Least
  <2>2. d # 0
    <3>1. IsBall(b, 0, [e \in 0 .. 0 |-> {b}])
      BY DEF IsBall
    <3> QED
      BY <2>1, <3>1
  <2>3. d - 1 \in Nat /\ d - 1 \notin T
    BY <2>1, <2>2
  <2>4. PICK u : IsBall(b, d - 1, u)
    BY <2>3
  <2> DEFINE v == [e \in 0 .. d |-> IF e = d THEN Outer(u[d - 1]) ELSE u[e]]
  <2>5. ASSUME NEW e \in 0 .. d
        PROVE  v[e] = IF e = 0 THEN {b} ELSE Outer(v[e - 1])
    <3>1. CASE e = 0
      <4>1. v[0] = u[0] /\ 0 \in 0 .. d - 1
        BY <2>2, <2>3
      <4> QED
        BY <2>4, <3>1, <4>1 DEF IsBall
    <3>2. CASE e = d
      <4>1. v[e] = Outer(u[d - 1]) /\ v[e - 1] = u[d - 1]
        BY <2>2, <2>3, <3>2
      <4> QED
        BY <2>2, <3>2, <4>1
    <3>3. CASE e # 0 /\ e # d
      <4>1. e \in 0 .. d - 1 /\ e - 1 \in 0 .. d - 1
        BY <2>3, <3>3
      <4>2. v[e] = u[e] /\ v[e - 1] = u[e - 1]
        BY <2>3, <3>3, <4>1
      <4>3. u[e] = Outer(u[e - 1])
        BY <2>4, <3>3, <4>1 DEF IsBall
      <4> QED
        BY <3>3, <4>2, <4>3
    <3> QED
      BY <3>1, <3>2, <3>3
  <2>6. v = [e \in 0 .. d |-> v[e]]
    OBVIOUS
  <2> HIDE DEF v
  <2>7. IsBall(b, d, v)
    BY <2>5, <2>6 DEF IsBall
  <2> QED
    BY <2>1, <2>7
<1>2. m \notin T
  BY <1>1
<1> QED
  BY <1>2 DEF Ball

LEMMA WithinIs ==
  ASSUME NEW b
  PROVE  /\ Within(b, 0) = {b}
         /\ \A m \in Nat : Within(b, m + 1) = Outer(Within(b, m))
<1>1. ASSUME NEW m \in Nat
      PROVE  /\ Within(b, m) = Ball(b, m)[m]
             /\ Ball(b, m)[0] = {b}
             /\ \A d \in 0 .. m : d # 0 => Ball(b, m)[d] = Outer(Ball(b, m)[d - 1])
  <2>1. Within(b, m) = Ball(b, m)[m]
    BY DEF Within, Ball, IsBall, Outer
  <2> DEFINE u == Ball(b, m)
  <2>2. u = [d \in 0 .. m |-> IF d = 0 THEN {b} ELSE Outer(u[d - 1])]
    BY BallExists DEF IsBall
  <2> HIDE DEF u
  <2>3. \A d \in 0 .. m : u[d] = IF d = 0 THEN {b} ELSE Outer(u[d - 1])
    BY <2>2
  <2>4. 0 \in 0 .. m
    OBVIOUS
  <2> QED
    BY <2>1, <2>3, <2>4 DEF u
<1>2. ASSUME NEW m \in Nat
      PROVE  Within(b, m + 1) = Outer(Within(b, m))
  <2> DEFINE u == Ball(b, m)
             v == Ball(b, m + 1)
             T == {d \in 0 .. m : u[d] # v[d]}
  <2>1. /\ u[0] = {b} /\ v[0] = {b}
        /\ \A d \in 0 .. m : d # 0 => u[d] = Outer(u[d - 1])
        /\ \A d \in 0 .. m + 1 : d # 0 => v[d] = Outer(v[d - 1])
    BY <1>1
  <2>2. Within(b, m) = u[m] /\ Within(b, m + 1) = v[m + 1]
    BY <1>1
  <2> HIDE DEF u, v
  <2>3. T = {}
    <3> SUFFICES ASSUME T # {}
                 PROVE  FALSE
      OBVIOUS
    <3>1. PICK d \in T : \A e \in T : d <= e
      <4>1. T \in SUBSET Nat
        OBVIOUS
      <4> HIDE DEF T
      <4> QED
        BY <4>1, Least
    <3>2. d # 0
      BY <2>1, <3>1
    <3>3. d - 1 \in 0 .. m /\ d - 1 \notin T
      BY <3>1, <3>2
    <3>4. u[d - 1] = v[d - 1]
      BY <3>3
    <3>5. u[d] = Outer(u[d - 1]) /\ v[d] = Outer(v[d - 1])
      BY <2>1, <3>1, <3>2
    <3> QED
      BY <3>1, <3>4, <3>5
  <2>4. u[m] = v[m]
    BY <2>3
  <2>5. v[m + 1] = Outer(v[m])
    <3>1. m + 1 \in 0 .. m + 1 /\ m + 1 # 0 /\ (m + 1) - 1 = m
      OBVIOUS
    <3> QED
      BY <2>1, <3>1
  <2> QED
    BY <2>2, <2>4, <2>5
<1> QED
  BY <1>1, <1>2
-----------------------------------------------------------------------------
(***************************************************************************)
(* The tree: the way down to a board.                                      *)
(***************************************************************************)
NodeSet == [puzzle : Board, parent : Nat, left : Nat, right : Nat]

(* A node is linked to later ones.                                         *)
Ordered(tree) ==
  \A k \in 1 .. Len(tree) :
    /\ tree[k].left = 0 \/ tree[k].left \in k + 1 .. Len(tree)
    /\ tree[k].right = 0 \/ tree[k].right \in k + 1 .. Len(tree)

Tree == {t \in Seq(NodeSet) : Len(t) > 0 /\ Ordered(t)}

Below(tree, b, k) ==
  IF Behind(b, tree[k].puzzle) THEN tree[k].right ELSE tree[k].left
Ends(tree, b, k) == tree[k].puzzle = b \/ Below(tree, b, k) = 0

LEMMA TreeIs ==
  ASSUME NEW tree \in Tree
  PROVE  /\ Len(tree) \in Nat \ {0} /\ DOMAIN tree = 1 .. Len(tree)
         /\ \A k \in 1 .. Len(tree) :
              /\ tree[k] \in NodeSet /\ tree[k].puzzle \in Board
              /\ tree[k].parent \in Nat /\ tree[k].left \in Nat /\ tree[k].right \in Nat
              /\ \A b : Below(tree, b, k) = 0 \/ Below(tree, b, k) \in k + 1 .. Len(tree)
<1>1. tree \in Seq(NodeSet) /\ Len(tree) > 0 /\ Ordered(tree)
  BY DEF Tree
<1>2. Len(tree) \in Nat /\ DOMAIN tree = 1 .. Len(tree)
      /\ \A k \in 1 .. Len(tree) : tree[k] \in NodeSet
  BY <1>1, LenProperties, ElementOfSeq
<1>3. \A k \in 1 .. Len(tree) :
        /\ tree[k].puzzle \in Board /\ tree[k].parent \in Nat
        /\ tree[k].left \in Nat /\ tree[k].right \in Nat
  BY <1>2 DEF NodeSet
<1>4. \A k \in 1 .. Len(tree) : \A b :
        Below(tree, b, k) = 0 \/ Below(tree, b, k) \in k + 1 .. Len(tree)
  BY <1>1 DEF Ordered, Below
<1>5. Len(tree) \in Nat \ {0}
  BY <1>1, <1>2
<1> QED
  BY <1>2, <1>3, <1>4, <1>5

(* The ends of the ways down from the nodes from m on.                     *)
IsDown(tree, b, m, u) ==
  u = [k \in m .. Len(tree) |-> IF Ends(tree, b, k) THEN k ELSE u[Below(tree, b, k)]]
Down(tree, b) == CHOOSE u : IsDown(tree, b, 1, u)

LEMMA DownExists ==
  ASSUME NEW tree \in Tree, NEW b
  PROVE  IsDown(tree, b, 1, Down(tree, b))
<1> DEFINE L == Len(tree)
           T == {d \in 0 .. L : ~\E u : IsDown(tree, b, L + 1 - d, u)}
<1>1. L \in Nat \ {0} /\ \A k \in 1 .. L : Below(tree, b, k) = 0 \/ Below(tree, b, k) \in k + 1 .. L
  BY TreeIs
<1> HIDE DEF L
<1>2. T = {}
  <2> SUFFICES ASSUME T # {}
               PROVE  FALSE
    OBVIOUS
  <2>1. PICK d \in T : \A e \in T : d <= e
    <3>1. T \in SUBSET Nat
      BY <1>1
    <3> HIDE DEF T
    <3> QED
      BY <3>1, Least
  <2>2. d # 0
    <3>1. L + 1 .. L = {} /\ L + 1 - 0 = L + 1
      BY <1>1
    <3>2. IsDown(tree, b, L + 1 - 0, [k \in {} |-> 0])
      BY <3>1 DEF IsDown, L
    <3> QED
      BY <2>1, <3>2
  <2> DEFINE m == L + 1 - d
  <2>3. d \in 1 .. L /\ m \in 1 .. L /\ d - 1 \in 0 .. L /\ L + 1 - (d - 1) = m + 1
    BY <1>1, <2>1, <2>2
  <2>4. PICK u : IsDown(tree, b, m + 1, u)
    <3>1. d - 1 \notin T
      BY <1>1, <2>1, <2>3, SMTT(30)
    <3> QED
      BY <2>3, <3>1
  <2> HIDE DEF m
  <2> DEFINE v == [k \in m .. L |-> IF k = m THEN IF Ends(tree, b, m) THEN m
                                                  ELSE u[Below(tree, b, m)]
                                    ELSE u[k]]
  <2>5. ASSUME NEW k \in m .. L
        PROVE  v[k] = IF Ends(tree, b, k) THEN k ELSE v[Below(tree, b, k)]
    <3>1. k \in 1 .. L
      BY <1>1, <2>3
    <3>2. ~Ends(tree, b, k) =>
            /\ Below(tree, b, k) \in k + 1 .. L
            /\ v[Below(tree, b, k)] = u[Below(tree, b, k)]
      <4> SUFFICES ASSUME ~Ends(tree, b, k)
                   PROVE  /\ Below(tree, b, k) \in k + 1 .. L
                          /\ v[Below(tree, b, k)] = u[Below(tree, b, k)]
        OBVIOUS
      <4>1. Below(tree, b, k) \in k + 1 .. L
        BY <1>1, <3>1 DEF Ends
      <4>2. Below(tree, b, k) \in m .. L /\ Below(tree, b, k) # m
        BY <1>1, <2>3, <3>1, <4>1
      <4> QED
        BY <4>1, <4>2
    <3>3. CASE k = m
      BY <3>2, <3>3
    <3>4. CASE k # m
      <4>1. k \in m + 1 .. L
        BY <1>1, <2>3, <3>4
      <4>2. u[k] = IF Ends(tree, b, k) THEN k ELSE u[Below(tree, b, k)]
        BY <2>4, <4>1 DEF IsDown, L
      <4>3. v[k] = u[k]
        BY <3>4
      <4> QED
        BY <3>2, <4>2, <4>3
    <3> QED
      BY <3>3, <3>4
  <2>6. v = [k \in m .. L |-> v[k]]
    OBVIOUS
  <2> HIDE DEF v
  <2>7. IsDown(tree, b, m, v)
    BY <2>5, <2>6 DEF IsDown, L
  <2> QED
    BY <2>1, <2>7 DEF m
<1>3. L \in 0 .. L /\ L + 1 - L = 1
  BY <1>1
<1>4. \E u : IsDown(tree, b, L + 1 - L, u)
  BY <1>2, <1>3
<1> QED
  BY <1>3, <1>4 DEF Down

LEMMA DownIs ==
  ASSUME NEW tree \in Tree, NEW b
  PROVE  /\ Leaf(tree, b) = Down(tree, b)[1]
         /\ \A k \in 1 .. Len(tree) :
              Down(tree, b)[k] =
                IF Ends(tree, b, k) THEN k ELSE Down(tree, b)[Below(tree, b, k)]
<1> DEFINE u == Down(tree, b)
<1>1. u = [k \in 1 .. Len(tree) |-> IF Ends(tree, b, k) THEN k ELSE u[Below(tree, b, k)]]
  BY DownExists DEF IsDown
<1>2. Leaf(tree, b) = u[1]
  <2>1. DOMAIN tree = 1 .. Len(tree)
    BY TreeIs
  <2> QED
    BY <2>1 DEF Leaf, Down, IsDown, Ends, Below
<1> HIDE DEF u
<1>3. \A k \in 1 .. Len(tree) : u[k] = IF Ends(tree, b, k) THEN k ELSE u[Below(tree, b, k)]
  BY <1>1
<1> QED
  BY <1>2, <1>3 DEF u

(* The last node for which P fails, if there is one: the way down is       *)
(* followed from its end.                                                  *)
LEMMA Latest ==
  ASSUME NEW N \in Nat, NEW F \in SUBSET (1 .. N), F # {}
  PROVE  \E k \in F : \A m \in 1 .. N : m > k => m \notin F
<1> DEFINE T == {d \in 0 .. N : N - d \in F}
<1>1. T # {} /\ T \in SUBSET Nat
  <2>1. PICK k \in F : TRUE
    OBVIOUS
  <2>2. N - k \in 0 .. N /\ N - (N - k) = k
    BY <2>1
  <2>3. N - k \in T
    BY <2>1, <2>2
  <2>4. T \subseteq Nat
    OBVIOUS
  <2> HIDE DEF T
  <2> QED
    BY <2>3, <2>4
<1>2. PICK d \in T : \A e \in T : d <= e
  <2> HIDE DEF T
  <2> QED
    BY <1>1, Least
<1>3. ASSUME NEW m \in 1 .. N, m > N - d, m \in F
      PROVE  FALSE
  <2>1. N - m \in 0 .. N /\ N - (N - m) = m
    OBVIOUS
  <2>2. N - m \in T
    BY <1>3, <2>1
  <2> QED
    BY <1>2, <1>3, <2>2
<1> QED
  BY <1>2, <1>3

LEMMA LeafIs ==
  ASSUME NEW tree \in Tree, NEW b
  PROVE  Leaf(tree, b) \in 1 .. Len(tree) /\ Ends(tree, b, Leaf(tree, b))
<1> DEFINE u == Down(tree, b)
           L == Len(tree)
           F == {k \in 1 .. L : ~(u[k] \in 1 .. L /\ Ends(tree, b, u[k]))}
<1>1. /\ L \in Nat \ {0}
      /\ \A k \in 1 .. L : Below(tree, b, k) = 0 \/ Below(tree, b, k) \in k + 1 .. L
  BY TreeIs
<1>2. /\ Leaf(tree, b) = u[1]
      /\ \A k \in 1 .. L : u[k] = IF Ends(tree, b, k) THEN k ELSE u[Below(tree, b, k)]
  BY DownIs
<1> HIDE DEF u, L
<1>3. F = {}
  <2> SUFFICES ASSUME F # {}
               PROVE  FALSE
    OBVIOUS
  <2>1. PICK k \in F : \A m \in 1 .. L : m > k => m \notin F
    <3>1. F \in SUBSET (1 .. L)
      OBVIOUS
    <3> HIDE DEF F
    <3> QED
      BY <1>1, <3>1, Latest
  <2>2. ~Ends(tree, b, k) /\ u[k] = u[Below(tree, b, k)]
    BY <1>2, <2>1
  <2>3. Below(tree, b, k) \in k + 1 .. L
    BY <1>1, <2>1, <2>2 DEF Ends
  <2>4. Below(tree, b, k) \in 1 .. L /\ Below(tree, b, k) > k
    BY <1>1, <2>1, <2>3
  <2>5. Below(tree, b, k) \notin F
    BY <2>1, <2>4
  <2> QED
    BY <2>1, <2>2, <2>4, <2>5
<1>4. 1 \in 1 .. L
  BY <1>1
<1> QED
  BY <1>2, <1>3, <1>4 DEF L

(* Push links the new node where the way down to its board ended.          *)
Links(tree, b, par, grown) ==
  /\ grown \in Tree
  /\ Len(grown) = Len(tree) + 1
  /\ grown[Len(tree) + 1] = Node(b, par)
  /\ \A k \in 1 .. Len(tree) :
       /\ grown[k].puzzle = tree[k].puzzle /\ grown[k].parent = tree[k].parent
       /\ k # Leaf(tree, b) =>
            grown[k].left = tree[k].left /\ grown[k].right = tree[k].right
  /\ Below(grown, b, Leaf(tree, b)) = Len(tree) + 1
  /\ \A c : Behind(c, tree[Leaf(tree, b)].puzzle) # Behind(b, tree[Leaf(tree, b)].puzzle)
         => Below(grown, c, Leaf(tree, b)) = Below(tree, c, Leaf(tree, b))

LEMMA PushLinks ==
  ASSUME NEW tree \in Tree, NEW b \in Board, NEW par \in Nat
  PROVE  Links(tree, b, par, Push(tree, b, par))
<1> DEFINE L == Len(tree)
           leaf == Leaf(tree, b)
           new == L + 1
           up == Behind(b, tree[leaf].puzzle)
           linked == IF up THEN [tree EXCEPT ![leaf].right = new]
                           ELSE [tree EXCEPT ![leaf].left = new]
           grown == Append(linked, Node(b, par))
<1>1. Push(tree, b, par) = grown
  BY DEF Push
<1>2. /\ L \in Nat \ {0} /\ DOMAIN tree = 1 .. L /\ leaf \in 1 .. L
      /\ tree \in Seq(NodeSet) /\ tree \in [1 .. L -> NodeSet]
      /\ Ordered(tree)
  BY TreeIs, LeafIs, LenProperties DEF Tree
<1> HIDE DEF leaf
<1> DEFINE parent(k) == tree[k].parent
           left(k) == IF k = leaf /\ ~up THEN new ELSE tree[k].left
           right(k) == IF k = leaf /\ up THEN new ELSE tree[k].right
<1>3. \A k \in 1 .. L : tree[k] \in NodeSet
  BY <1>2
<1> HIDE DEF up, L
<1>4. /\ linked \in [1 .. L -> NodeSet]
      /\ \A k \in 1 .. L :
           /\ linked[k].puzzle = tree[k].puzzle /\ linked[k].parent = tree[k].parent
           /\ linked[k].left = left(k) /\ linked[k].right = right(k)
  <2>1. CASE up
    <3>1. linked = [tree EXCEPT ![leaf].right = new] /\ new \in Nat
      BY <1>2, <2>1
    <3>2. linked = [tree EXCEPT ![leaf] = [tree[leaf] EXCEPT !.right = new]]
      BY <3>1, ZenonT(30)
    <3>3. [tree[leaf] EXCEPT !.right = new] \in NodeSet
      BY <1>2, <1>3, <3>1 DEF NodeSet
    <3> QED
      BY <1>2, <1>3, <2>1, <3>2, <3>3 DEF NodeSet
  <2>2. CASE ~up
    <3>1. linked = [tree EXCEPT ![leaf].left = new] /\ new \in Nat
      BY <1>2, <2>2
    <3>2. linked = [tree EXCEPT ![leaf] = [tree[leaf] EXCEPT !.left = new]]
      BY <3>1, ZenonT(30)
    <3>3. [tree[leaf] EXCEPT !.left = new] \in NodeSet
      BY <1>2, <1>3, <3>1 DEF NodeSet
    <3> QED
      BY <1>2, <1>3, <2>2, <3>2, <3>3 DEF NodeSet
  <2> QED
    BY <2>1, <2>2
<1> HIDE DEF linked
<1>5. linked \in Seq(NodeSet) /\ Len(linked) = L
  BY <1>2, <1>4
<1>6. Node(b, par) \in NodeSet /\ Node(b, par).left = 0 /\ Node(b, par).right = 0
  BY DEF Node, NodeSet
<1>7. /\ grown \in Seq(NodeSet) /\ Len(grown) = L + 1
      /\ \A k \in 1 .. L : grown[k] = linked[k]
      /\ grown[L + 1] = Node(b, par)
  BY <1>2, <1>5, <1>6, AppendProperties
<1> HIDE DEF grown
<1>8. Ordered(grown)
  <2>1. ASSUME NEW k \in 1 .. L
        PROVE  /\ grown[k].left = 0 \/ grown[k].left \in k + 1 .. L + 1
               /\ grown[k].right = 0 \/ grown[k].right \in k + 1 .. L + 1
    <3>1. /\ tree[k].left = 0 \/ tree[k].left \in k + 1 .. L
          /\ tree[k].right = 0 \/ tree[k].right \in k + 1 .. L
      BY <1>2 DEF Ordered, L
    <3>2. grown[k].left = left(k) /\ grown[k].right = right(k)
      BY <1>4, <1>7
    <3>3. new \in k + 1 .. L + 1
      BY <1>2
    <3> QED
      BY <1>2, <3>1, <3>2, <3>3
  <2> QED
    BY <1>2, <1>6, <1>7, <2>1 DEF Ordered
<1>9. grown \in Tree
  BY <1>2, <1>7, <1>8 DEF Tree
<1>10. Below(grown, b, leaf) = new
  BY <1>2, <1>4, <1>7 DEF Below, up
<1>11. \A c : Behind(c, tree[leaf].puzzle) # up =>
              Below(grown, c, leaf) = Below(tree, c, leaf)
  <2> SUFFICES ASSUME NEW c, Behind(c, tree[leaf].puzzle) # up
               PROVE  Below(grown, c, leaf) = Below(tree, c, leaf)
    OBVIOUS
  <2>1. /\ grown[leaf].puzzle = tree[leaf].puzzle
        /\ grown[leaf].left = left(leaf) /\ grown[leaf].right = right(leaf)
    BY <1>2, <1>4, <1>7
  <2>2. Behind(c, tree[leaf].puzzle) \in BOOLEAN /\ up \in BOOLEAN
    BY DEF Behind, up
  <2> QED
    BY <2>1, <2>2 DEF Below
<1> QED
  BY <1>1, <1>4, <1>7, <1>9, <1>10, <1>11 DEF Links, up, L, leaf

(* A board that is not in the tree: the way down ends at another one.      *)
LEMMA PushKeeps ==
  ASSUME NEW tree \in Tree, NEW b, NEW par, NEW grown, Links(tree, b, par, grown),
         Below(tree, b, Leaf(tree, b)) = 0,
         NEW c, NEW x \in 1 .. Len(tree), tree[x].puzzle = c, Leaf(tree, c) = x
  PROVE  Leaf(grown, c) = x
<1> DEFINE u == Down(tree, c)
           v == Down(grown, c)
           L == Len(tree)
           leaf == Leaf(tree, b)
           F == {k \in 1 .. L : u[k] = x /\ v[k] # x}
<1>1. /\ L \in Nat \ {0}
      /\ \A k \in 1 .. L : Below(tree, c, k) = 0 \/ Below(tree, c, k) \in k + 1 .. L
      /\ grown \in Tree /\ Len(grown) = L + 1
  BY TreeIs DEF Links
<1>2. /\ u[1] = x
      /\ \A k \in 1 .. L : u[k] = IF Ends(tree, c, k) THEN k ELSE u[Below(tree, c, k)]
  BY DownIs
<1>3. /\ Leaf(grown, c) = v[1]
      /\ \A k \in 1 .. L : v[k] = IF Ends(grown, c, k) THEN k ELSE v[Below(grown, c, k)]
  BY <1>1, DownIs
<1>4. \A k \in 1 .. L : grown[k].puzzle = tree[k].puzzle
  BY DEF Links
<1>5. \A k \in 1 .. L : Below(tree, c, k) # 0 => Below(grown, c, k) = Below(tree, c, k)
  <2> SUFFICES ASSUME NEW k \in 1 .. L, Below(tree, c, k) # 0
               PROVE  Below(grown, c, k) = Below(tree, c, k)
    OBVIOUS
  <2>1. CASE k # leaf
    BY <1>4, <2>1 DEF Links, Below
  <2>2. CASE k = leaf
    <3>1. Behind(c, tree[leaf].puzzle) # Behind(b, tree[leaf].puzzle)
      BY <2>2 DEF Below
    <3> QED
      BY <2>2, <3>1 DEF Links
  <2> QED
    BY <2>1, <2>2
<1> HIDE DEF u, v, L, leaf
<1>6. F = {}
  <2> SUFFICES ASSUME F # {}
               PROVE  FALSE
    OBVIOUS
  <2>1. PICK k \in F : \A m \in 1 .. L : m > k => m \notin F
    <3>1. F \in SUBSET (1 .. L)
      OBVIOUS
    <3> HIDE DEF F
    <3> QED
      BY <1>1, <3>1, Latest
  <2>2. CASE tree[k].puzzle = c
    BY <1>2, <1>3, <1>4, <2>1, <2>2 DEF Ends
  <2>3. CASE tree[k].puzzle # c
    <3>1. Below(tree, c, k) # 0
      BY <1>2, <2>1, <2>3 DEF Ends
    <3>2. ~Ends(tree, c, k) /\ u[Below(tree, c, k)] = x
      BY <1>2, <2>1, <2>3, <3>1 DEF Ends
    <3>3. ~Ends(grown, c, k) /\ v[k] = v[Below(tree, c, k)]
      BY <1>3, <1>4, <1>5, <2>1, <2>3, <3>1 DEF Ends
    <3>4. Below(tree, c, k) \in 1 .. L /\ Below(tree, c, k) > k
      BY <1>1, <2>1, <3>1
    <3>5. Below(tree, c, k) \notin F
      BY <2>1, <3>4
    <3> QED
      BY <2>1, <3>2, <3>3, <3>4, <3>5
  <2> QED
    BY <2>2, <2>3
<1>7. 1 \in 1 .. L
  BY <1>1
<1> QED
  BY <1>2, <1>3, <1>6, <1>7

LEMMA PushFinds ==
  ASSUME NEW tree \in Tree, NEW b \in Board, NEW par, NEW grown,
         Links(tree, b, par, grown), ~Find(tree, b)
  PROVE  Leaf(grown, b) = Len(tree) + 1
<1> DEFINE u == Down(tree, b)
           v == Down(grown, b)
           L == Len(tree)
           leaf == Leaf(tree, b)
           F == {k \in 1 .. L : u[k] = leaf /\ v[k] # L + 1}
<1>1. /\ L \in Nat \ {0}
      /\ \A k \in 1 .. L : Below(tree, b, k) = 0 \/ Below(tree, b, k) \in k + 1 .. L
      /\ grown \in Tree /\ Len(grown) = L + 1
  BY TreeIs DEF Links
<1>2. /\ u[1] = leaf
      /\ \A k \in 1 .. L : u[k] = IF Ends(tree, b, k) THEN k ELSE u[Below(tree, b, k)]
  BY DownIs
<1>3. /\ Leaf(grown, b) = v[1]
      /\ \A k \in 1 .. L + 1 : v[k] = IF Ends(grown, b, k) THEN k ELSE v[Below(grown, b, k)]
  BY <1>1, DownIs
<1>4. /\ \A k \in 1 .. L : grown[k].puzzle = tree[k].puzzle
      /\ grown[L + 1].puzzle = b
      /\ tree[leaf].puzzle # b
      /\ Below(grown, b, leaf) = L + 1
      /\ \A k \in 1 .. L : k # leaf => Below(grown, b, k) = Below(tree, b, k)
  BY DEF Links, Node, Below, Find
<1> HIDE DEF u, v, L, leaf
<1>5. v[L + 1] = L + 1
  <2>1. L + 1 \in 1 .. L + 1
    BY <1>1
  <2> QED
    BY <1>3, <1>4, <2>1 DEF Ends
<1>6. F = {}
  <2> SUFFICES ASSUME F # {}
               PROVE  FALSE
    OBVIOUS
  <2>1. PICK k \in F : \A m \in 1 .. L : m > k => m \notin F
    <3>1. F \in SUBSET (1 .. L)
      OBVIOUS
    <3> HIDE DEF F
    <3> QED
      BY <1>1, <3>1, Latest
  <2>2. k \in 1 .. L /\ k \in 1 .. L + 1 /\ L + 1 # 0
    BY <1>1, <2>1
  <2>3. CASE k = leaf
    <3>1. ~Ends(grown, b, k)
      BY <1>4, <2>2, <2>3 DEF Ends
    <3>2. v[k] = v[L + 1]
      BY <1>3, <1>4, <2>2, <2>3, <3>1
    <3> QED
      BY <1>5, <2>1, <3>2
  <2>4. CASE k # leaf
    <3>1. ~Ends(tree, b, k)
      BY <1>2, <2>1, <2>4
    <3>2. Below(tree, b, k) \in 1 .. L /\ Below(tree, b, k) > k
      BY <1>1, <2>2, <3>1 DEF Ends
    <3>3. ~Ends(grown, b, k)
      BY <1>4, <2>2, <2>4, <3>1 DEF Ends
    <3>4. v[k] = v[Below(tree, b, k)] /\ u[Below(tree, b, k)] = leaf
      BY <1>2, <1>3, <1>4, <2>1, <2>2, <2>4, <3>1, <3>3
    <3>5. Below(tree, b, k) \notin F
      BY <2>1, <3>2
    <3> QED
      BY <2>1, <3>2, <3>4, <3>5
  <2> QED
    BY <2>3, <2>4
<1>7. 1 \in 1 .. L
  BY <1>1
<1> QED
  BY <1>2, <1>3, <1>6, <1>7 DEF L

(* Set.find finds each board that was inserted, at its node.               *)
AllFound(tree) == \A k \in 1 .. Len(tree) : Leaf(tree, tree[k].puzzle) = k

LEMMA PushIs ==
  ASSUME NEW tree \in Tree, AllFound(tree), NEW b \in Board, NEW par \in Nat,
         ~Find(tree, b)
  PROVE  /\ Push(tree, b, par) \in Tree /\ AllFound(Push(tree, b, par))
         /\ Len(Push(tree, b, par)) = Len(tree) + 1
         /\ Push(tree, b, par)[Len(tree) + 1].puzzle = b
         /\ Push(tree, b, par)[Len(tree) + 1].parent = par
         /\ \A k \in 1 .. Len(tree) :
              /\ Push(tree, b, par)[k].puzzle = tree[k].puzzle
              /\ Push(tree, b, par)[k].parent = tree[k].parent
<1> DEFINE grown == Push(tree, b, par)
<1>1. Links(tree, b, par, grown)
  BY PushLinks
<1>2. Len(tree) \in Nat \ {0}
  BY TreeIs
<1> HIDE DEF grown
<1>3. Below(tree, b, Leaf(tree, b)) = 0
  BY LeafIs DEF Ends, Find
<1>4. ASSUME NEW k \in 1 .. Len(tree) + 1
      PROVE  Leaf(grown, grown[k].puzzle) = k
  <2>1. CASE k \in 1 .. Len(tree)
    <3>1. grown[k].puzzle = tree[k].puzzle
      BY <1>1, <2>1 DEF Links
    <3>2. Leaf(tree, tree[k].puzzle) = k
      BY <2>1 DEF AllFound
    <3> QED
      BY <1>1, <1>3, <2>1, <3>1, <3>2, PushKeeps
  <2>2. CASE k = Len(tree) + 1
    <3>1. grown[k].puzzle = b
      BY <1>1, <2>2 DEF Links, Node
    <3> QED
      BY <1>1, <2>2, <3>1, PushFinds
  <2> QED
    BY <1>2, <2>1, <2>2
<1> QED
  BY <1>1, <1>4 DEF Links, Node, AllFound, grown

LEMMA FindIs ==
  ASSUME NEW tree \in Tree, NEW b, AllFound(tree)
  PROVE  Find(tree, b) <=> \E k \in 1 .. Len(tree) : tree[k].puzzle = b
BY LeafIs DEF Find, AllFound

LEMMA OnceIs ==
  ASSUME node \in Tree, AllFound(node)
  PROVE  FoundOnce
<1> DEFINE L == Len(node)
           P == {node[k].puzzle : k \in 1 .. L}
           f == [k \in 1 .. L |-> node[k].puzzle]
<1>1. L \in Nat /\ DOMAIN node = 1 .. L
  BY TreeIs
<1>2. \A j, k \in 1 .. L : node[j].puzzle = node[k].puzzle => j = k
  BY DEF AllFound
<1> HIDE DEF L
<1>3. f \in Bijection(1 .. L, P)
  BY <1>2 DEF Bijection, Injection, Surjection, IsInjective
<1>4. ExistsBijection(1 .. L, P)
  BY <1>3 DEF ExistsBijection
<1>5. Cardinality(P) = L
  BY <1>1, <1>4, FS_CountingElements
<1> QED
  BY <1>1, <1>5 DEF FoundOnce, AllFound, L
-----------------------------------------------------------------------------
(***************************************************************************)
(* The search, level by level.  A node is open from when it is popped      *)
(* until the boards next to it have been looked at.                        *)
(***************************************************************************)
Open == changes # <<>> \/ answer = "found"

PuzzleTypeOK ==
  /\ task \in Board \X Board
  /\ node \in Tree
  /\ popped \in 0 .. Len(node) /\ level_end \in 1 .. Len(node)
  /\ popped <= level_end
  /\ changes \in Seq(Int)
  /\ result \in Nat
  /\ answer \in {"none", "found", "no_path"}
  /\ Open => popped > 0

(* The parent of a board is one move away.                                 *)
ParentInv ==
  /\ node[1].puzzle = task[1] /\ node[1].parent = 0
  /\ \A k \in 2 .. Len(node) :
       /\ node[k].parent \in 1 .. k - 1
       /\ node[k].puzzle \in Moves(node[node[k].parent].puzzle)

(* Node k is d generations below the first one.                            *)
IsLine(tree, f, d, k) ==
  /\ f \in [0 .. d -> 1 .. Len(tree)]
  /\ f[0] = k /\ f[d] = 1
  /\ \A g \in 0 .. d - 1 : f[g + 1] = tree[f[g]].parent
Generation(tree, k, d) == \E f : IsLine(tree, f, d, k)

(* The boards of the level, and of the next one.                           *)
LevelInv ==
  \A k \in 1 .. Len(node) :
    k > popped \/ (k = popped /\ Open) =>
      Generation(node, k, IF k <= level_end THEN result ELSE result + 1)

Boards(tree, m) == {tree[k].puzzle : k \in 1 .. m}

(* The nodes up to level_end are the boards at most result moves away.     *)
NearInv ==
  /\ Boards(node, level_end) = Within(task[1], result)
  /\ Boards(node, Len(node)) \subseteq Within(task[1], result + 1)

(* Of a node that was popped the moves have been made, but for those that  *)
(* main has still to look at.                                              *)
ToLook ==
  {swap_puzzle(node[popped].puzzle, find_position(node[popped].puzzle), c) :
     c \in Range(changes)}

MovesInv ==
  /\ \A k \in 1 .. popped :
       ~(k = popped /\ Open) => Moves(node[k].puzzle) \subseteq Boards(node, Len(node))
  /\ changes # <<>> =>
       /\ Moves(node[popped].puzzle) \subseteq Boards(node, Len(node)) \cup ToLook
       /\ ToLook \subseteq Moves(node[popped].puzzle)

(* The final board ends the search when it is popped.                      *)
FinalInv ==
  /\ \A k \in 1 .. popped :
       node[k].puzzle = final => k = popped /\ answer = "found"
  /\ answer = "found" => node[popped].puzzle = final
  /\ answer # "none" => changes = <<>>
  /\ answer = "no_path" => popped = Len(node)
  /\ result > 0 => final \notin Within(task[1], result - 1)

PuzzleInv ==
  /\ PuzzleTypeOK /\ AllFound(node) /\ ParentInv /\ LevelInv
  /\ NearInv /\ MovesInv /\ FinalInv

LEMMA BoardsAre ==
  ASSUME node \in Tree
  PROVE  /\ Len(node) \in Nat \ {0}
         /\ \A k \in 1 .. Len(node) : node[k].puzzle \in Board
BY TreeIs

LEMMA InitPuzzleInv == PuzzleInit => PuzzleInv
<1> SUFFICES ASSUME PuzzleInit
             PROVE  PuzzleInv
  OBVIOUS
<1>1. /\ task \in Board \X Board /\ task[1] \in Board
      /\ node = <<Node(task[1], 0)>> /\ popped = 0 /\ changes = <<>>
      /\ level_end = 1 /\ result = 0 /\ answer = "none"
  BY PuzzleAssumption DEF PuzzleInit
<1>2. /\ Len(node) = 1 /\ node[1] = Node(task[1], 0)
      /\ node[1].puzzle = task[1] /\ node[1].parent = 0
      /\ node[1].left = 0 /\ node[1].right = 0
  BY <1>1 DEF Node
<1>3. node \in Tree
  <2>1. Node(task[1], 0) \in NodeSet
    BY <1>1 DEF Node, NodeSet
  <2>2. node \in Seq(NodeSet)
    BY <1>1, <2>1
  <2>3. \A k \in 1 .. Len(node) : node[k].left = 0 /\ node[k].right = 0
    BY <1>2
  <2>4. Ordered(node)
    BY <2>3 DEF Ordered
  <2>5. \A t \in Seq(NodeSet) : Len(t) = 1 /\ Ordered(t) => t \in Tree
    BY DEF Tree
  <2> QED
    BY <1>2, <2>2, <2>4, <2>5
<1>4. PuzzleTypeOK
  BY <1>1, <1>2, <1>3 DEF PuzzleTypeOK, Open
<1>5. AllFound(node)
  <2>1. Leaf(node, node[1].puzzle) \in 1 .. 1
    BY <1>2, <1>3, LeafIs
  <2> QED
    BY <1>2, <2>1 DEF AllFound
<1>6. ParentInv
  BY <1>2 DEF ParentInv
<1>7. LevelInv
  <2>1. IsLine(node, [g \in 0 .. 0 |-> 1], 0, 1)
    BY <1>2 DEF IsLine
  <2> QED
    BY <1>1, <1>2, <2>1 DEF LevelInv, Generation
<1>8. NearInv
  <2>1. Boards(node, 1) = {task[1]}
    BY <1>2 DEF Boards
  <2>2. Within(task[1], 0) = {task[1]} /\ Within(task[1], 0 + 1) = Outer({task[1]})
    BY WithinIs
  <2> QED
    BY <1>1, <1>2, <2>1, <2>2 DEF NearInv, Outer
<1>9. MovesInv /\ FinalInv
  BY <1>1 DEF MovesInv, FinalInv
<1> QED
  BY <1>4, <1>5, <1>6, <1>7, <1>8, <1>9 DEF PuzzleInv

LEMMA CheckInv ==
  ASSUME PuzzleInv, Check
  PROVE  PuzzleInv'
<1> DEFINE k == popped + 1
<1>1. /\ answer = "none" /\ changes = <<>> /\ popped < level_end /\ popped' = k
      /\ task' = task /\ node' = node /\ level_end' = level_end /\ result' = result
      /\ final' = final
  BY DEF Check, final
<1>2. /\ PuzzleTypeOK /\ Len(node) \in Nat \ {0} /\ k \in 1 .. Len(node) /\ k <= level_end
      /\ node[k].puzzle \in Board
  BY <1>1, BoardsAre DEF PuzzleInv, PuzzleTypeOK
<1>3. \/ /\ node[k].puzzle = final /\ answer' = "found" /\ changes' = <<>>
      \/ /\ node[k].puzzle # final /\ answer' = "none"
         /\ changes' = Changes(node[k].puzzle)
  BY <1>1 DEF Check
<1>4. changes' \in Seq(Int)
  <2>1. Changes(node[k].puzzle) \in Seq(Int) /\ <<>> \in Seq(Int)
    BY <1>2, ChangesAre, EmptySeq
  <2> QED
    BY <1>3, <2>1
<1>5. PuzzleTypeOK'
  <2>1. answer' \in {"none", "found", "no_path"}
    BY <1>3
  <2>2. popped' \in 0 .. Len(node) /\ popped' <= level_end /\ popped' > 0
    BY <1>1, <1>2 DEF PuzzleTypeOK
  <2> QED
    BY <1>1, <1>2, <1>4, <2>1, <2>2 DEF PuzzleTypeOK
<1>6. AllFound(node)' /\ ParentInv' /\ NearInv'
  BY <1>1 DEF PuzzleInv, AllFound, ParentInv, NearInv, Boards
<1>7. LevelInv'
  <2>1. \A m, d : Generation(node', m, d) <=> Generation(node, m, d)
    BY <1>1 DEF Generation, IsLine
  <2>2. \A m \in 1 .. Len(node) : m >= k => m > popped
    BY <1>2 DEF PuzzleTypeOK
  <2> QED
    BY <1>1, <1>2, <2>1, <2>2 DEF PuzzleInv, LevelInv, PuzzleTypeOK
<1>8. MovesInv'
  <2>1. \A m \in 1 .. popped : Moves(node[m].puzzle) \subseteq Boards(node, Len(node))
    BY <1>1 DEF PuzzleInv, MovesInv, Open
  <2>2. ASSUME changes' # <<>>
        PROVE  ToLook' = Moves(node[k].puzzle)
    <3>1. changes' = Changes(node[k].puzzle)
      BY <1>3, <2>2
    <3> QED
      BY <1>1, <1>2, <3>1, MovesAre DEF ToLook
  <2>3. Boards(node', Len(node')) = Boards(node, Len(node))
    BY <1>1 DEF Boards
  <2>4. CASE Open'
    BY <1>1, <1>2, <2>1, <2>2, <2>3, <2>4 DEF MovesInv, PuzzleTypeOK
  <2>5. CASE ~Open'
    <3>1. changes' = <<>> /\ Changes(node[k].puzzle) = <<>>
      BY <1>3, <2>5 DEF Open
    <3>2. Moves(node[k].puzzle) = {}
      BY <1>2, <3>1, MovesAre DEF Range
    <3> QED
      BY <1>1, <1>2, <2>1, <2>3, <3>1, <3>2 DEF MovesInv, PuzzleTypeOK
  <2> QED
    BY <2>4, <2>5
<1>9. FinalInv'
  <2>1. \A m \in 1 .. popped : node[m].puzzle # final
    BY <1>1 DEF PuzzleInv, FinalInv
  <2>2. \A m \in 1 .. k : m = k \/ m \in 1 .. popped
    BY <1>2 DEF PuzzleTypeOK
  <2> QED
    BY <1>1, <1>3, <2>1, <2>2 DEF PuzzleInv, FinalInv
<1> QED
  BY <1>5, <1>6, <1>7, <1>8, <1>9 DEF PuzzleInv

LEMMA NextLevelInv ==
  ASSUME PuzzleInv, NextLevel
  PROVE  PuzzleInv'
<1>1. /\ answer = "none" /\ changes = <<>> /\ popped = level_end
      /\ result' = result + 1 /\ level_end' = Len(node)
      /\ answer' = IF popped = Len(node) THEN "no_path" ELSE "none"
      /\ task' = task /\ node' = node /\ popped' = popped /\ changes' = changes
      /\ final' = final
  BY DEF NextLevel, final
<1>2. /\ PuzzleTypeOK /\ Len(node) \in Nat \ {0} /\ popped \in 1 .. Len(node)
      /\ result \in Nat /\ ~Open
  BY <1>1, BoardsAre DEF PuzzleInv, PuzzleTypeOK, Open
<1>3. answer' # "found" /\ changes' = <<>> /\ ~Open'
  BY <1>1 DEF Open
<1>4. PuzzleTypeOK'
  BY <1>1, <1>2, <1>3 DEF PuzzleTypeOK
<1>5. AllFound(node)' /\ ParentInv'
  BY <1>1 DEF PuzzleInv, AllFound, ParentInv
<1>6. LevelInv'
  <2>1. \A m, d : Generation(node', m, d) <=> Generation(node, m, d)
    BY <1>1 DEF Generation, IsLine
  <2>2. ASSUME NEW k \in 1 .. Len(node), k > popped
        PROVE  Generation(node, k, result + 1)
    BY <1>1, <1>2, <2>2 DEF PuzzleInv, LevelInv
  <2> QED
    BY <1>1, <1>2, <1>3, <2>1, <2>2 DEF LevelInv
<1>7. \A k \in 1 .. popped : Moves(node[k].puzzle) \subseteq Boards(node, Len(node))
  BY <1>2 DEF PuzzleInv, MovesInv
<1>8. NearInv'
  <2>1. /\ Within(task[1], result + 1) = Outer(Within(task[1], result))
        /\ Within(task[1], result + 1 + 1) = Outer(Within(task[1], result + 1))
    <3>1. \A m \in Nat : Within(task[1], m + 1) = Outer(Within(task[1], m))
      BY WithinIs
    <3>2. result \in Nat /\ result + 1 \in Nat
      BY <1>2
    <3> QED
      BY <3>1, <3>2
  <2>2. Outer(Boards(node, popped)) \subseteq Boards(node, Len(node))
    <3>1. Boards(node, popped) \subseteq Boards(node, Len(node))
      BY <1>2 DEF Boards
    <3>2. ASSUME NEW c \in Boards(node, popped)
          PROVE  Moves(c) \subseteq Boards(node, Len(node))
      <4>1. PICK k \in 1 .. popped : c = node[k].puzzle
        BY DEF Boards
      <4> QED
        BY <1>7, <4>1
    <3> QED
      BY <3>1, <3>2 DEF Outer
  <2>3. Boards(node, Len(node)) = Within(task[1], result + 1)
    BY <1>1, <2>1, <2>2 DEF PuzzleInv, NearInv
  <2>5. Boards(node, Len(node)) \subseteq Within(task[1], result + 1 + 1)
    BY <2>1, <2>3 DEF Outer
  <2> QED
    BY <1>1, <2>3, <2>5 DEF NearInv, Boards
<1>9. MovesInv'
  BY <1>1, <1>3, <1>7 DEF MovesInv, Boards
<1>10. FinalInv'
  <2>1. \A k \in 1 .. popped : node[k].puzzle # final
    BY <1>1 DEF PuzzleInv, FinalInv
  <2>2. final \notin Within(task[1], result)
    BY <1>1, <2>1 DEF PuzzleInv, NearInv, Boards
  <2>3. result' - 1 = result
    BY <1>1, <1>2
  <2> QED
    BY <1>1, <1>3, <2>1, <2>2, <2>3 DEF FinalInv
<1> QED
  BY <1>4, <1>5, <1>6, <1>8, <1>9, <1>10 DEF PuzzleInv

(* Look adds the board to the tree, or it is there already.                *)
Looked(temp) ==
  /\ node' \in Tree /\ AllFound(node)'
  /\ Len(node') \in {Len(node), Len(node) + 1}
  /\ \A k \in 1 .. Len(node) :
       node'[k].puzzle = node[k].puzzle /\ node'[k].parent = node[k].parent
  /\ \A k \in Len(node) + 1 .. Len(node') :
       node'[k].puzzle = temp /\ node'[k].parent = popped
  /\ temp \in Boards(node', Len(node'))

LEMMA LookIs ==
  ASSUME PuzzleInv, Look
  PROVE  /\ popped \in 1 .. Len(node) /\ node[popped].puzzle \in Board
         /\ task' = task /\ popped' = popped /\ level_end' = level_end
         /\ result' = result /\ answer' = answer /\ answer = "none"
         /\ changes # <<>>
         /\ changes' \in Seq(Int)
         /\ \E c \in Range(changes) :
              LET temp == swap_puzzle(node[popped].puzzle,
                                      find_position(node[popped].puzzle), c)
              IN /\ temp \in Moves(node[popped].puzzle)
                 /\ Looked(temp)
                 /\ Range(changes) \subseteq {c} \cup Range(changes')
                 /\ Range(changes') \subseteq Range(changes)
<1> DEFINE b == node[popped].puzzle
           c == Head(changes)
           temp == swap_puzzle(b, find_position(b), c)
<1>1. /\ changes # <<>> /\ changes' = Tail(changes)
      /\ node' = IF Find(node, temp) THEN node ELSE Push(node, temp, popped)
      /\ task' = task /\ popped' = popped /\ level_end' = level_end
      /\ result' = result /\ answer' = answer
  BY DEF Look
<1>2. /\ node \in Tree /\ AllFound(node) /\ changes \in Seq(Int)
      /\ popped \in 1 .. Len(node) /\ Len(node) \in Nat \ {0} /\ b \in Board
  BY <1>1, BoardsAre DEF PuzzleInv, PuzzleTypeOK, Open
<1>3. answer = "none"
  BY <1>1 DEF PuzzleInv, FinalInv
<1>4. /\ c \in Range(changes) /\ changes' \in Seq(Int)
      /\ Range(changes) \subseteq {c} \cup Range(changes')
      /\ Range(changes') \subseteq Range(changes)
  <2>1. /\ Len(changes) \in Nat \ {0} /\ DOMAIN changes = 1 .. Len(changes)
        /\ c = changes[1]
        /\ changes' \in Seq(Int) /\ DOMAIN changes' = 1 .. Len(changes) - 1
        /\ \A k \in 1 .. Len(changes) - 1 : changes'[k] = changes[k + 1]
    BY <1>1, <1>2, LenProperties, HeadTailProperties, EmptySeq
  <2>2. 1 \in 1 .. Len(changes)
    BY <2>1
  <2>3. ASSUME NEW k \in 1 .. Len(changes), k # 1
        PROVE  k - 1 \in 1 .. Len(changes) - 1 /\ changes'[k - 1] = changes[k]
    BY <2>1, <2>3
  <2>4. \A k \in 1 .. Len(changes) - 1 : k + 1 \in 1 .. Len(changes)
    BY <2>1
  <2> HIDE DEF c
  <2>5. Range(changes) \subseteq {c} \cup Range(changes')
    <3> SUFFICES ASSUME NEW k \in 1 .. Len(changes), changes[k] # c
                 PROVE  changes[k] \in Range(changes')
      BY <2>1 DEF Range
    <3>1. k # 1
      BY <2>1
    <3>2. k - 1 \in 1 .. Len(changes) - 1 /\ changes'[k - 1] = changes[k]
      BY <2>3, <3>1
    <3> QED
      BY <2>1, <3>2 DEF Range
  <2>6. Range(changes') \subseteq Range(changes)
    BY <2>1, <2>4 DEF Range
  <2>7. c \in Range(changes)
    BY <2>1, <2>2 DEF Range
  <2> QED
    BY <2>1, <2>5, <2>6, <2>7
<1>5. temp \in Moves(b) /\ temp \in Board
  <2>1. temp \in ToLook
    BY <1>4 DEF ToLook
  <2>2. temp \in Moves(b)
    BY <1>1, <2>1 DEF PuzzleInv, MovesInv
  <2> QED
    BY <1>2, <2>2, MovesAre
<1> HIDE DEF temp
<1>6. Looked(temp)
  <2>1. CASE Find(node, temp)
    <3>1. node' = node
      BY <1>1, <2>1
    <3>2. \E k \in 1 .. Len(node) : node[k].puzzle = temp
      BY <1>2, <2>1, FindIs
    <3>3. Len(node) + 1 .. Len(node) = {}
      BY <1>2
    <3> QED
      BY <1>2, <3>1, <3>2, <3>3 DEF Looked, AllFound, Boards
  <2>2. CASE ~Find(node, temp)
    <3> DEFINE grown == Push(node, temp, popped)
    <3>1. node' = grown
      BY <1>1, <2>2
    <3>2. popped \in Nat
      BY <1>2
    <3>3. /\ grown \in Tree /\ AllFound(grown) /\ Len(grown) = Len(node) + 1
          /\ grown[Len(node) + 1].puzzle = temp
          /\ grown[Len(node) + 1].parent = popped
          /\ \A k \in 1 .. Len(node) :
               grown[k].puzzle = node[k].puzzle /\ grown[k].parent = node[k].parent
      BY <1>2, <1>5, <2>2, <3>2, PushIs
    <3> HIDE DEF grown
    <3>4. /\ Len(node) + 1 \in 1 .. Len(grown)
          /\ \A k \in Len(node) + 1 .. Len(grown) : k = Len(node) + 1
      BY <1>2, <3>3
    <3>5. temp \in Boards(node', Len(node'))
      BY <3>1, <3>3, <3>4 DEF Boards
    <3>6. AllFound(node)'
      BY <3>1, <3>3 DEF AllFound
    <3> QED
      BY <3>1, <3>3, <3>4, <3>5, <3>6 DEF Looked
  <2> QED
    BY <2>1, <2>2
<1> QED
  BY <1>1, <1>2, <1>3, <1>4, <1>5, <1>6 DEF temp

LEMMA LookInv ==
  ASSUME PuzzleInv, Look
  PROVE  PuzzleInv'
<1> DEFINE b == node[popped].puzzle
           L == Len(node)
           LL == Len(node')
<1>1. PICK c \in Range(changes) :
        LET temp == swap_puzzle(b, find_position(b), c)
        IN /\ temp \in Moves(b) /\ Looked(temp)
           /\ Range(changes) \subseteq {c} \cup Range(changes')
           /\ Range(changes') \subseteq Range(changes)
  BY LookIs
<1> DEFINE temp == swap_puzzle(b, find_position(b), c)
<1>2. /\ popped \in 1 .. L /\ b \in Board
      /\ task' = task /\ popped' = popped /\ level_end' = level_end
      /\ result' = result /\ answer' = answer /\ answer = "none"
      /\ changes # <<>> /\ changes' \in Seq(Int) /\ final' = final
  BY LookIs DEF final
<1>3. /\ temp \in Moves(b)
      /\ node' \in Tree /\ AllFound(node)'
      /\ LL \in {L, L + 1}
      /\ \A k \in 1 .. L :
           node'[k].puzzle = node[k].puzzle /\ node'[k].parent = node[k].parent
      /\ \A k \in L + 1 .. LL : node'[k].puzzle = temp /\ node'[k].parent = popped
      /\ temp \in Boards(node', LL)
  BY <1>1 DEF Looked
<1>4. PuzzleTypeOK /\ Len(node) \in Nat \ {0} /\ result \in Nat
  BY BoardsAre DEF PuzzleInv, PuzzleTypeOK
<1>5. /\ LL \in Nat /\ L <= LL
      /\ \A k \in 1 .. LL : k \in 1 .. L \/ k \in L + 1 .. LL
      /\ \A k \in L + 1 .. LL : k = L + 1
      /\ \A k \in 1 .. L : k \in 1 .. LL
  BY <1>3, <1>4
<1> HIDE DEF temp, L, LL
<1>6. PuzzleTypeOK'
  BY <1>2, <1>3, <1>4, <1>5 DEF PuzzleTypeOK, L, LL
<1>7. ParentInv'
  <2>1. node'[1].puzzle = task[1] /\ node'[1].parent = 0
    BY <1>3, <1>4 DEF PuzzleInv, ParentInv, L
  <2>2. ASSUME NEW k \in 2 .. LL
        PROVE  /\ node'[k].parent \in 1 .. k - 1
               /\ node'[k].puzzle \in Moves(node'[node'[k].parent].puzzle)
    <3>1. CASE k \in 1 .. L
      <4>1. /\ node[k].parent \in 1 .. k - 1
            /\ node[k].puzzle \in Moves(node[node[k].parent].puzzle)
        BY <3>1 DEF PuzzleInv, ParentInv, L
      <4>2. node[k].parent \in 1 .. L
        BY <1>4, <3>1, <4>1 DEF L
      <4> QED
        BY <1>3, <3>1, <4>1, <4>2
    <3>2. CASE k \in L + 1 .. LL
      <4>1. k = L + 1 /\ node'[k].puzzle = temp /\ node'[k].parent = popped
        BY <1>3, <1>5, <3>2
      <4>2. popped \in 1 .. k - 1 /\ node'[popped].puzzle = b
        BY <1>2, <1>3, <1>4, <4>1 DEF L
      <4> QED
        BY <1>3, <4>1, <4>2
    <3> QED
      BY <1>5, <3>1, <3>2
  <2> QED
    BY <1>2, <2>1, <2>2 DEF ParentInv, LL
<1>8. ASSUME NEW k \in 1 .. L, NEW d \in Nat, Generation(node, k, d)
      PROVE  Generation(node', k, d)
  <2>1. PICK f : IsLine(node, f, d, k)
    BY <1>8 DEF Generation
  <2>2. f \in [0 .. d -> 1 .. LL]
    BY <1>5, <2>1 DEF IsLine, L
  <2>3. \A g \in 0 .. d - 1 : f[g] \in 1 .. L
    BY <2>1 DEF IsLine, L
  <2>4. \A g \in 0 .. d - 1 : f[g + 1] = node'[f[g]].parent
    BY <1>3, <2>1, <2>3 DEF IsLine
  <2> QED
    BY <2>1, <2>2, <2>4 DEF Generation, IsLine, LL
<1>9. Generation(node, popped, result)
  BY <1>2, <1>4 DEF PuzzleInv, LevelInv, Open, PuzzleTypeOK, L
<1>10. ASSUME NEW k \in L + 1 .. LL
       PROVE  Generation(node', k, result + 1)
  <2>1. PICK f : IsLine(node, f, result, popped)
    BY <1>9 DEF Generation
  <2> DEFINE h == [g \in 0 .. result + 1 |-> IF g = 0 THEN k ELSE f[g - 1]]
  <2>2. k = L + 1 /\ k \in 1 .. LL /\ node'[k].parent = popped
    BY <1>3, <1>4, <1>5 DEF L
  <2>3. ASSUME NEW g \in 0 .. result + 1, g # 0
        PROVE  g - 1 \in 0 .. result /\ h[g] = f[g - 1] /\ f[g - 1] \in 1 .. L
    BY <1>4, <2>1, <2>3 DEF IsLine, L
  <2>4. h \in [0 .. result + 1 -> 1 .. LL]
    BY <1>5, <2>2, <2>3
  <2>5. h[0] = k
    BY <1>4
  <2>6. h[result + 1] = 1
    <3>1. result + 1 \in 0 .. result + 1 /\ result + 1 # 0 /\ (result + 1) - 1 = result
      BY <1>4
    <3> QED
      BY <2>1, <2>3, <3>1 DEF IsLine
  <2>7. ASSUME NEW g \in 0 .. result
        PROVE  h[g + 1] = node'[h[g]].parent
    <3>1. g + 1 \in 0 .. result + 1 /\ g + 1 # 0 /\ (g + 1) - 1 = g
      BY <1>4
    <3>2. h[g + 1] = f[g]
      BY <3>1
    <3>3. CASE g = 0
      <4>1. f[0] = popped
        BY <2>1 DEF IsLine
      <4> QED
        BY <2>2, <2>5, <3>2, <3>3, <4>1
    <3>4. CASE g # 0
      <4>1. g \in 0 .. result + 1 /\ g - 1 \in 0 .. result - 1 /\ (g - 1) + 1 = g
        BY <1>4, <3>4
      <4>2. h[g] = f[g - 1] /\ f[g - 1] \in 1 .. L
        BY <2>3, <3>4, <4>1
      <4>3. f[g] = node[f[g - 1]].parent
        BY <2>1, <4>1 DEF IsLine
      <4> QED
        BY <1>3, <3>2, <4>2, <4>3
    <3> QED
      BY <3>3, <3>4
  <2>8. 0 .. (result + 1) - 1 = 0 .. result
    BY <1>4
  <2> HIDE DEF h
  <2>9. IsLine(node', h, result + 1, k)
    BY <2>4, <2>5, <2>6, <2>7, <2>8 DEF IsLine, LL
  <2> QED
    BY <2>9 DEF Generation
<1>11. LevelInv'
  <2>1. ASSUME NEW k \in 1 .. LL, k >= popped
        PROVE  Generation(node', k, IF k <= level_end THEN result ELSE result + 1)
    <3>1. CASE k \in 1 .. L
      <4>1. k > popped \/ (k = popped /\ Open)
        BY <1>2, <1>4, <2>1, <3>1 DEF Open, PuzzleTypeOK
      <4>2. Generation(node, k, IF k <= level_end THEN result ELSE result + 1)
        BY <3>1, <4>1 DEF PuzzleInv, LevelInv, L
      <4>3. \A d \in Nat : Generation(node, k, d) => Generation(node', k, d)
        BY <1>8, <3>1
      <4>4. result + 1 \in Nat
        BY <1>4
      <4>5. CASE k <= level_end
        <5>1. Generation(node, k, result)
          BY <4>2, <4>5
        <5>2. Generation(node', k, result)
          BY <1>4, <4>3, <5>1
        <5> QED
          BY <4>5, <5>2
      <4>6. CASE ~(k <= level_end)
        <5>1. Generation(node, k, result + 1)
          BY <4>2, <4>6
        <5>2. Generation(node', k, result + 1)
          BY <4>3, <4>4, <5>1
        <5> QED
          BY <4>6, <5>2
      <4> QED
        BY <4>5, <4>6
    <3>2. CASE k \in L + 1 .. LL
      <4>1. ~(k <= level_end)
        BY <1>4, <3>2 DEF PuzzleTypeOK, L
      <4>2. Generation(node', k, result + 1)
        BY <1>10, <3>2
      <4> QED
        BY <1>2, <4>1, <4>2
    <3> QED
      BY <1>5, <3>1, <3>2
  <2>2. \A k \in 1 .. LL : k > popped \/ k = popped => k >= popped
    BY <1>2, <1>4 DEF PuzzleTypeOK
  <2>3. \A k \in 1 .. LL :
          k > popped \/ k = popped =>
            Generation(node', k, IF k <= level_end THEN result ELSE result + 1)
    BY <2>1, <2>2
  <2> QED
    BY <1>2, <2>3 DEF LevelInv, LL
<1>12. \A m \in 1 .. L : Boards(node', m) = Boards(node, m)
  BY <1>3, <1>4, SMTT(30) DEF Boards, L
<1>13. Boards(node, L) \subseteq Boards(node', LL) /\ Boards(node', LL) \subseteq Boards(node, L) \cup {temp}
  BY <1>3, <1>4, <1>5, SMTT(30) DEF Boards, L
<1>14. NearInv'
  <2>1. Boards(node', level_end) = Boards(node, level_end)
    BY <1>2, <1>4, <1>12 DEF PuzzleTypeOK, L
  <2>2. temp \in Within(task[1], result + 1)
    <3>1. b \in Boards(node, level_end)
      <4>1. popped \in 1 .. level_end
        BY <1>2, <1>4 DEF PuzzleTypeOK, L
      <4> QED
        BY <4>1 DEF Boards
    <3>2. \A m \in Nat : Within(task[1], m + 1) = Outer(Within(task[1], m))
      BY WithinIs
    <3>3. Within(task[1], result + 1) = Outer(Boards(node, level_end))
      BY <1>4, <3>2 DEF PuzzleInv, NearInv
    <3> QED
      BY <1>3, <3>1, <3>3 DEF Outer
  <2>3. Boards(node', LL) \subseteq Within(task[1], result + 1)
    BY <1>13, <2>2 DEF PuzzleInv, NearInv, L
  <2>4. Boards(node, level_end) = Within(task[1], result)
    BY DEF PuzzleInv, NearInv
  <2> QED
    BY <1>2, <2>1, <2>3, <2>4 DEF NearInv, LL
<1>15. MovesInv'
  <2>1. \A k \in 1 .. popped : node'[k].puzzle = node[k].puzzle
    BY <1>2, <1>3, <1>4 DEF PuzzleTypeOK, L
  <2>2. ASSUME NEW k \in 1 .. popped, k # popped
        PROVE  Moves(node'[k].puzzle) \subseteq Boards(node', LL)
    <3>1. Moves(node[k].puzzle) \subseteq Boards(node, L)
      BY <2>2 DEF PuzzleInv, MovesInv, L
    <3> QED
      BY <1>13, <2>1, <3>1
  <2>3. popped \in 1 .. popped
    BY <1>2, <1>4 DEF PuzzleTypeOK, L
  <2>4. /\ ToLook = {swap_puzzle(b, find_position(b), x) : x \in Range(changes)}
        /\ ToLook' = {swap_puzzle(b, find_position(b), x) : x \in Range(changes')}
    BY <1>2, <2>1, <2>3 DEF ToLook
  <2>5. ToLook \subseteq {temp} \cup ToLook' /\ ToLook' \subseteq ToLook
    <3>1. /\ Range(changes) \subseteq {c} \cup Range(changes')
          /\ Range(changes') \subseteq Range(changes)
      BY <1>1
    <3> HIDE DEF b
    <3> QED
      BY <2>4, <3>1 DEF temp
  <2>6. /\ Moves(b) \subseteq Boards(node, L) \cup ToLook
        /\ ToLook \subseteq Moves(b)
    BY <1>2 DEF PuzzleInv, MovesInv, L
  <2>7. temp \in Boards(node', LL)
    BY <1>3
  <2>8. Moves(b) \subseteq Boards(node', LL) \cup ToLook' /\ ToLook' \subseteq Moves(b)
    BY <1>13, <2>5, <2>6, <2>7
  <2>9. CASE changes' = <<>>
    <3>1. ToLook' = {}
      BY <2>4, <2>9 DEF Range
    <3>2. Moves(node'[popped].puzzle) \subseteq Boards(node', LL)
      BY <2>1, <2>3, <2>8, <3>1
    <3> QED
      BY <1>2, <2>2, <2>9, <3>2 DEF MovesInv, LL
  <2>10. CASE changes' # <<>>
    BY <1>2, <2>1, <2>2, <2>3, <2>8, <2>10 DEF MovesInv, Open, LL
  <2> QED
    BY <2>9, <2>10
<1>16. FinalInv'
  <2>1. \A k \in 1 .. popped : node'[k].puzzle = node[k].puzzle
    BY <1>2, <1>3, <1>4 DEF PuzzleTypeOK, L
  <2> QED
    BY <1>2, <2>1 DEF PuzzleInv, FinalInv
<1> QED
  BY <1>3, <1>6, <1>7, <1>11, <1>14, <1>15, <1>16 DEF PuzzleInv

LEMMA NextPuzzleInv == PuzzleInv /\ [PuzzleNext]_puzzle_vars => PuzzleInv'
<1> SUFFICES ASSUME PuzzleInv, [PuzzleNext]_puzzle_vars
             PROVE  PuzzleInv'
  OBVIOUS
<1>1. CASE Check
  BY <1>1, CheckInv
<1>2. CASE Look
  BY <1>2, LookInv
<1>3. CASE NextLevel
  BY <1>3, NextLevelInv
<1>4. CASE UNCHANGED puzzle_vars
  <2>1. /\ task' = task /\ node' = node /\ popped' = popped /\ changes' = changes
        /\ level_end' = level_end /\ result' = result /\ answer' = answer
    BY <1>4 DEF puzzle_vars
  <2>2. final' = final /\ Open' = Open /\ ToLook' = ToLook
    BY <2>1 DEF final, Open, ToLook
  <2>3. PuzzleTypeOK' /\ AllFound(node)' /\ ParentInv'
    BY <2>1, <2>2 DEF PuzzleInv, PuzzleTypeOK, AllFound, ParentInv
  <2>4. LevelInv' /\ NearInv'
    BY <2>1, <2>2 DEF PuzzleInv, LevelInv, NearInv
  <2>5. MovesInv' /\ FinalInv'
    BY <2>1, <2>2 DEF PuzzleInv, MovesInv, FinalInv
  <2> QED
    BY <2>3, <2>4, <2>5 DEF PuzzleInv
<1> QED
  BY <1>1, <1>2, <1>3, <1>4 DEF PuzzleNext

(* In every state of the search, its invariant holds.                      *)
THEOREM PuzzleInvariance == PuzzleSpec => []PuzzleInv
<1>1. PuzzleInit => PuzzleInv
  BY InitPuzzleInv
<1>2. PuzzleInv /\ [PuzzleNext]_puzzle_vars => PuzzleInv'
  BY NextPuzzleInv
<1> QED
  BY <1>1, <1>2, PTL DEF PuzzleSpec

(* No board is searched twice and done.find meets every board that was     *)
(* inserted, for boards of any size.                                       *)
THEOREM BoardsFoundOnce == PuzzleSpec => []FoundOnce
<1>1. PuzzleInv => FoundOnce
  BY OnceIs DEF PuzzleInv, PuzzleTypeOK
<1> QED
  BY <1>1, PuzzleInvariance, PTL
-----------------------------------------------------------------------------
(***************************************************************************)
(* What is printed.                                                        *)
(***************************************************************************)
IsUp(k, e, u) == u = [g \in 0 .. e |-> IF g = 0 THEN k ELSE node[u[g - 1]].parent]
Up(k, e) == CHOOSE u : IsUp(k, e, u)

LEMMA AncestorIs ==
  ASSUME NEW d \in Nat, NEW k, NEW f, IsLine(node, f, d, k), NEW e \in 0 .. d
  PROVE  Ancestor(k, e) = f[e]
<1> DEFINE h == [g \in 0 .. e |-> f[g]]
           u == Up(k, e)
<1>1. /\ f[0] = k
      /\ \A g \in 0 .. e : g # 0 => /\ g - 1 \in 0 .. e
                                    /\ f[g] = node[f[g - 1]].parent
  <2>1. \A g \in 0 .. e : g # 0 => g - 1 \in 0 .. d - 1 /\ g - 1 \in 0 .. e /\ (g - 1) + 1 = g
    OBVIOUS
  <2> QED
    BY <2>1 DEF IsLine
<1>2. IsUp(k, e, h)
  BY <1>1 DEF IsUp
<1>3. IsUp(k, e, u)
  <2> HIDE DEF h
  <2> QED
    BY <1>2 DEF Up
<1>4. /\ Ancestor(k, e) = u[e]
      /\ u[0] = k
      /\ \A g \in 0 .. e : g # 0 => u[g] = node[u[g - 1]].parent
  <2>1. Ancestor(k, e) = u[e]
    BY DEF Ancestor, Up, IsUp
  <2> HIDE DEF u
  <2> QED
    BY <1>3, <2>1 DEF IsUp
<1> HIDE DEF u
<1> DEFINE T == {g \in 0 .. e : u[g] # f[g]}
<1>5. T = {}
  <2> SUFFICES ASSUME T # {}
               PROVE  FALSE
    OBVIOUS
  <2>1. PICK g \in T : \A x \in T : g <= x
    <3>1. T \in SUBSET Nat
      OBVIOUS
    <3> HIDE DEF T
    <3> QED
      BY <3>1, Least
  <2>2. g # 0
    BY <1>1, <1>4, <2>1
  <2>3. g \in 0 .. e /\ g - 1 \in 0 .. e /\ g - 1 < g
    BY <2>2
  <2>4. u[g - 1] = f[g - 1]
    BY <2>1, <2>3
  <2> QED
    BY <1>1, <1>4, <2>2, <2>3, <2>4
<1> QED
  BY <1>4, <1>5

LEMMA ShortestIs ==
  ASSUME PuzzleInv
  PROVE  ShortestPath
<1> SUFFICES ASSUME answer = "found"
             PROVE  /\ result > 0 => final \notin Within(task[1], result - 1)
                    /\ Printed[1] = task[1] /\ Printed[result + 1] = final
                    /\ \A m \in 1 .. result : Printed[m + 1] \in Moves(Printed[m])
  BY DEF ShortestPath
<1>1. /\ result \in Nat /\ Len(node) \in Nat \ {0} /\ popped \in 1 .. Len(node)
      /\ popped <= level_end /\ node[popped].puzzle = final
      /\ result > 0 => final \notin Within(task[1], result - 1)
  BY BoardsAre DEF PuzzleInv, PuzzleTypeOK, FinalInv, Open
<1>2. PICK f : IsLine(node, f, result, popped)
  <2>1. Generation(node, popped, result)
    BY <1>1 DEF PuzzleInv, LevelInv, Open
  <2> QED
    BY <2>1 DEF Generation
<1>3. /\ f \in [0 .. result -> 1 .. Len(node)] /\ f[0] = popped /\ f[result] = 1
      /\ \A g \in 0 .. result - 1 : f[g + 1] = node[f[g]].parent
  BY <1>2 DEF IsLine
<1>4. ASSUME NEW m \in 1 .. result + 1
      PROVE  /\ result + 1 - m \in 0 .. result
             /\ Printed[m] = node[f[result + 1 - m]].puzzle
  <2>1. result + 1 - m \in 0 .. result
    BY <1>1
  <2>2. Ancestor(popped, result + 1 - m) = f[result + 1 - m]
    BY <1>1, <1>2, <2>1, AncestorIs
  <2>3. Printed[m] = node[Ancestor(popped, result + 1 - m)].puzzle
    BY DEF Printed
  <2> QED
    BY <2>1, <2>2, <2>3
<1>5. Printed[1] = task[1]
  <2>1. 1 \in 1 .. result + 1 /\ result + 1 - 1 = result
    BY <1>1
  <2>2. Printed[1] = node[1].puzzle
    BY <1>3, <1>4, <2>1
  <2> QED
    BY <2>2 DEF PuzzleInv, ParentInv
<1>6. Printed[result + 1] = final
  <2>1. result + 1 \in 1 .. result + 1 /\ result + 1 - (result + 1) = 0
    BY <1>1
  <2>2. Printed[result + 1] = node[f[result + 1 - (result + 1)]].puzzle
    BY <1>4, <2>1
  <2> QED
    BY <1>1, <1>3, <2>1, <2>2
<1>7. ASSUME NEW m \in 1 .. result
      PROVE  Printed[m + 1] \in Moves(Printed[m])
  <2> DEFINE g == result - m
  <2>1. /\ m \in 1 .. result + 1 /\ m + 1 \in 1 .. result + 1
        /\ result + 1 - m = g + 1 /\ result + 1 - (m + 1) = g
        /\ g \in 0 .. result - 1 /\ g \in 0 .. result /\ g + 1 \in 0 .. result
    BY <1>1
  <2> HIDE DEF g
  <2>2. Printed[m] = node[f[g + 1]].puzzle
    <3>1. Printed[m] = node[f[result + 1 - m]].puzzle
      BY <1>4, <2>1
    <3> QED
      BY <2>1, <3>1
  <2>3. Printed[m + 1] = node[f[g]].puzzle
    <3>1. Printed[m + 1] = node[f[result + 1 - (m + 1)]].puzzle
      BY <1>4, <2>1
    <3> QED
      BY <2>1, <3>1
  <2>4. f[g] \in 1 .. Len(node) /\ f[g + 1] \in 1 .. Len(node) /\ f[g + 1] = node[f[g]].parent
    BY <1>3, <2>1
  <2>5. f[g] # 1
    <3>1. node[1].parent = 0
      BY DEF PuzzleInv, ParentInv
    <3> QED
      BY <1>1, <2>4, <3>1
  <2>6. f[g] \in 2 .. Len(node)
    BY <1>1, <2>4, <2>5
  <2>7. node[f[g]].puzzle \in Moves(node[node[f[g]].parent].puzzle)
    BY <2>6 DEF PuzzleInv, ParentInv
  <2> QED
    BY <2>2, <2>3, <2>4, <2>7
<1> QED
  BY <1>1, <1>5, <1>6, <1>7

(* The number of moves that main prints is the least, for boards of any    *)
(* size, and the boards it prints are that many moves apart.               *)
THEOREM PathIsShortest == PuzzleSpec => []ShortestPath
<1>1. PuzzleInv => ShortestPath
  BY ShortestIs
<1> QED
  BY <1>1, PuzzleInvariance, PTL

(* When main prints that there is no path back, no number of moves leads   *)
(* from the first board to the final one.                                  *)
NoMovesLeadBack ==
  answer = "no_path" => \A d \in Nat : final \notin Within(task[1], d)

LEMMA NoMovesIs ==
  ASSUME PuzzleInv
  PROVE  NoMovesLeadBack
<1> SUFFICES ASSUME answer = "no_path"
             PROVE  \A d \in Nat : final \notin Within(task[1], d)
  BY DEF NoMovesLeadBack
<1> DEFINE All == Boards(node, Len(node))
           T == {d \in Nat : ~(Within(task[1], d) \subseteq All)}
<1>1. /\ changes = <<>> /\ popped = Len(node) /\ ~Open /\ Len(node) \in Nat \ {0}
      /\ \A k \in 1 .. Len(node) : node[k].puzzle # final
  BY BoardsAre DEF PuzzleInv, PuzzleTypeOK, FinalInv, Open
<1>2. final \notin All
  BY <1>1 DEF Boards
<1>3. \A k \in 1 .. Len(node) : Moves(node[k].puzzle) \subseteq All
  BY <1>1 DEF PuzzleInv, MovesInv
<1>4. \A c \in All : Moves(c) \subseteq All
  <2> SUFFICES ASSUME NEW c \in All
               PROVE  Moves(c) \subseteq All
    OBVIOUS
  <2>1. PICK k \in 1 .. Len(node) : c = node[k].puzzle
    BY DEF Boards
  <2> QED
    BY <1>3, <2>1
<1>5. task[1] \in All
  <2>1. 1 \in 1 .. Len(node) /\ node[1].puzzle = task[1]
    BY <1>1 DEF PuzzleInv, ParentInv
  <2> QED
    BY <2>1 DEF Boards
<1> HIDE DEF All
<1>6. T = {}
  <2> SUFFICES ASSUME T # {}
               PROVE  FALSE
    OBVIOUS
  <2>1. PICK d \in T : \A e \in T : d <= e
    <3>1. T \in SUBSET Nat
      OBVIOUS
    <3> HIDE DEF T
    <3> QED
      BY <3>1, Least
  <2>2. Within(task[1], 0) = {task[1]} /\ \A m \in Nat : Within(task[1], m + 1) = Outer(Within(task[1], m))
    BY WithinIs
  <2>3. d \in Nat /\ d # 0
    BY <1>5, <2>1, <2>2
  <2>4. d - 1 \in Nat /\ (d - 1) + 1 = d /\ d - 1 \notin T
    BY <2>1, <2>3
  <2>5. Within(task[1], d - 1) \subseteq All
    BY <2>4
  <2>6. Within(task[1], d) = Outer(Within(task[1], d - 1))
    BY <2>2, <2>4
  <2>7. Within(task[1], d) \subseteq All
    BY <1>4, <2>5, <2>6 DEF Outer
  <2> QED
    BY <2>1, <2>7
<1> QED
  BY <1>2, <1>6

(* "there is no path back" is true of every board for which it is printed. *)
THEOREM NoPathIsRight == PuzzleSpec => []NoMovesLeadBack
<1>1. PuzzleInv => NoMovesLeadBack
  BY NoMovesIs
<1> QED
  BY <1>1, PuzzleInvariance, PTL
-----------------------------------------------------------------------------
(***************************************************************************)
(* A move changes the parity of the inversions and that of the empty       *)
(* place's row and column together.                                        *)
(***************************************************************************)
LEMMA SameSize ==
  ASSUME NEW S, NEW T, IsFiniteSet(S), NEW f \in [S -> T],
         \A x, y \in S : f[x] = f[y] => x = y,
         \A z \in T : \E x \in S : f[x] = z
  PROVE  IsFiniteSet(T) /\ Cardinality(T) = Cardinality(S)
<1>1. f \in Bijection(S, T)
  BY DEF Bijection, Injection, Surjection, IsInjective
<1> QED
  BY <1>1, FS_Bijection DEF ExistsBijection

LEMMA Apart ==
  ASSUME NEW S, NEW T, IsFiniteSet(S), IsFiniteSet(T), S \cap T = {}
  PROVE  /\ IsFiniteSet(S \cup T)
         /\ Cardinality(S) \in Nat /\ Cardinality(T) \in Nat
         /\ Cardinality(S \cup T) = Cardinality(S) + Cardinality(T)
<1>1. Cardinality(S) \in Nat /\ Cardinality(T) \in Nat
  BY FS_CardinalityType
<1>2. /\ IsFiniteSet(S \cup T)
      /\ Cardinality(S \cup T) = Cardinality(S) + Cardinality(T) - Cardinality({})
  BY FS_Union
<1>3. Cardinality({}) = 0
  BY FS_EmptySet
<1> QED
  BY <1>1, <1>2, <1>3

(* Board c is b with the empty place moved from k to m.                    *)
Moved(b, c, k, m) ==
  /\ DOMAIN b = DOMAIN c /\ k \in DOMAIN b /\ m \in DOMAIN b /\ k # m
  /\ b[k] = 0 /\ c[m] = 0 /\ c[k] = b[m]
  /\ \A x \in DOMAIN b : x # k /\ x # m => c[x] = b[x]

LEMMA InversionsFinite ==
  ASSUME NEW b \in Seq(Nat)
  PROVE  IsFiniteSet(Inversions(b)) /\ Cardinality(Inversions(b)) \in Nat
<1> DEFINE D == DOMAIN b
<1>1. Len(b) \in Nat /\ D = 1 .. Len(b)
  OBVIOUS
<1>2. IsFiniteSet(D)
  BY <1>1, FS_Interval
<1> HIDE DEF D
<1>3. IsFiniteSet(D \X D)
  BY <1>2, FS_Product
<1>4. Inversions(b) \in SUBSET (D \X D)
  BY DEF Inversions, D
<1>5. IsFiniteSet(Inversions(b))
  BY <1>3, <1>4, FS_Subset
<1> QED
  BY <1>5, FS_CardinalityType

(* A tile x that passes others to an earlier place: every pair without x   *)
(* keeps an inversion for an inversion; the empty place is behind x now,   *)
(* one more; and the tiles between that are smaller than x are now behind  *)
(* x and before the empty place, two more each.                            *)
LEMMA MovedBack ==
  ASSUME NEW b \in Seq(Nat), NEW c \in Seq(Nat), NEW k \in Nat, NEW m \in Nat,
         Moved(b, c, k, m), k < m, IsInjective(b)
  PROVE  \E z \in Nat :
           Cardinality(Inversions(c)) = Cardinality(Inversions(b)) + 2 * z + 1
<1> DEFINE D == DOMAIN b
           x == b[m]
           B == Inversions(b)
           C == Inversions(c)
           small == {i \in D : k < i /\ i < m /\ b[i] < x}
           afterX == {<<k, i>> : i \in small}
           beforeE == {<<i, m>> : i \in small}
           new == afterX \cup beforeE \cup {<<k, m>>}
           f == [p \in B |-> IF p[1] < k /\ p[2] = k THEN <<p[1], m>>
                             ELSE IF p[1] < k /\ p[2] = m THEN <<p[1], k>>
                             ELSE IF p[1] = m THEN <<k, p[2]>>
                             ELSE p]
<1>1. /\ D \subseteq Nat /\ DOMAIN c = D /\ k \in D /\ m \in D /\ k < m
      /\ \A i \in D : b[i] \in Nat /\ c[i] \in Nat
      /\ b[k] = 0 /\ c[m] = 0 /\ c[k] = x /\ x \in Nat
      /\ \A i \in D : i # k /\ i # m => c[i] = b[i] /\ b[i] > 0 /\ b[i] # x
      /\ x > 0
  <2>1. /\ Len(b) \in Nat /\ D = 1 .. Len(b)
        /\ Len(c) \in Nat /\ DOMAIN c = 1 .. Len(c)
        /\ \A i \in D : b[i] \in Nat
        /\ \A i \in DOMAIN c : c[i] \in Nat
    OBVIOUS
  <2>2. D \subseteq Nat
    BY <2>1
  <2>3. \A i, j \in D : b[i] = b[j] => i = j
    BY DEF IsInjective
  <2> HIDE DEF D
  <2>4. /\ DOMAIN c = D /\ k \in D /\ m \in D /\ k # m
        /\ b[k] = 0 /\ c[m] = 0 /\ c[k] = b[m]
        /\ \A i \in D : i # k /\ i # m => c[i] = b[i]
    BY DEF Moved, D
  <2>5. \A i \in D : i # k => b[i] # 0
    BY <2>3, <2>4
  <2>6. \A i \in D : i # m => b[i] # x
    BY <2>3, <2>4
  <2>7. \A i \in D : i # k => b[i] > 0
    BY <2>1, <2>5
  <2>8. x \in Nat /\ x > 0
    BY <2>1, <2>4, <2>7
  <2>9. \A i \in D : b[i] \in Nat /\ c[i] \in Nat
    BY <2>1, <2>4
  <2>10. \A i \in D : i # k /\ i # m => c[i] = b[i] /\ b[i] > 0 /\ b[i] # x
    BY <2>4, <2>6, <2>7
  <2> QED
    BY <2>2, <2>4, <2>8, <2>9, <2>10
<1> HIDE DEF D, x
<1>2. /\ B = {p \in D \X D : p[1] < p[2] /\ b[p[1]] > b[p[2]]}
      /\ C = {p \in D \X D : p[1] < p[2] /\ c[p[1]] > c[p[2]]}
  BY <1>1 DEF Inversions, D
<1>3. /\ \A i, j : <<i, j>> \in B <=> i \in D /\ j \in D /\ i < j /\ b[i] > b[j]
      /\ \A i, j : <<i, j>> \in C <=> i \in D /\ j \in D /\ i < j /\ c[i] > c[j]
      /\ \A p \in B : p = <<p[1], p[2]>>
      /\ \A p \in C : p = <<p[1], p[2]>>
  BY <1>2
<1> HIDE DEF B, C
<1>4. \A i, j : <<i, j>> \in new <=> \/ i = k /\ j = m
                                     \/ i = k /\ j \in small
                                     \/ i \in small /\ j = m
  <2> HIDE DEF small
  <2> QED
    OBVIOUS
<1>5. \A i : i \in small <=> i \in D /\ k < i /\ i < m /\ b[i] < x
  OBVIOUS
<1> HIDE DEF small, new
<1>6. ASSUME NEW i, NEW j, <<i, j>> \in B
      PROVE  /\ i < k /\ j = k => f[<<i, j>>] = <<i, m>>
             /\ i < k /\ j = m => f[<<i, j>>] = <<i, k>>
             /\ ~(i < k) /\ i = m => f[<<i, j>>] = <<k, j>>
             /\ i # m /\ ~(i < k /\ (j = k \/ j = m)) => f[<<i, j>>] = <<i, j>>
  <2> DEFINE p == <<i, j>>
  <2>1. p[1] = i /\ p[2] = j /\ p \in B
    BY <1>6
  <2> HIDE DEF p
  <2>2. f[p] = IF i < k /\ j = k THEN <<i, m>>
               ELSE IF i < k /\ j = m THEN <<i, k>>
               ELSE IF i = m THEN <<k, j>>
               ELSE p
    BY <2>1
  <2>3. k # m
    BY <1>1
  <2> HIDE DEF f
  <2> QED
    BY <2>2, <2>3 DEF p
<1> HIDE DEF f
<1>7. ASSUME NEW i, NEW j, <<i, j>> \in B
      PROVE  f[<<i, j>>] \in C \ new
  <2>1. i \in D /\ j \in D /\ i < j /\ b[i] > b[j] /\ i \in Nat /\ j \in Nat
    BY <1>1, <1>3, <1>7
  <2>2. CASE i < k /\ j = k
    <3>1. f[<<i, j>>] = <<i, m>>
      BY <1>6, <1>7, <2>2
    <3>2. i # k /\ i # m /\ i < m /\ ~(k < i)
      BY <1>1, <2>1, <2>2
    <3>3. c[i] > c[m]
      BY <1>1, <2>1, <3>2
    <3>4. <<i, m>> \in C
      BY <1>1, <1>3, <2>1, <3>2, <3>3
    <3>5. <<i, m>> \notin new
      BY <1>4, <1>5, <3>2
    <3> QED
      BY <3>1, <3>4, <3>5
  <2>3. CASE i < k /\ j = m
    <3>1. f[<<i, j>>] = <<i, k>>
      BY <1>1, <1>6, <1>7, <2>3
    <3>2. i # k /\ i # m /\ i < k
      BY <1>1, <2>1, <2>3
    <3>3. c[i] > c[k]
      BY <1>1, <2>1, <2>3, <3>2 DEF x
    <3>4. <<i, k>> \in C
      BY <1>1, <1>3, <2>1, <3>2, <3>3
    <3>5. <<i, k>> \notin new
      BY <1>1, <1>4, <1>5, <3>2
    <3> QED
      BY <3>1, <3>4, <3>5
  <2>4. CASE i = m
    <3>0. ~(i < k)
      BY <1>1, <2>4
    <3>1. f[<<i, j>>] = <<k, j>>
      BY <1>6, <1>7, <2>4, <3>0
    <3>2. j # k /\ j # m /\ k < j /\ ~(j < m)
      BY <1>1, <2>1, <2>4
    <3>3. c[k] > c[j]
      BY <1>1, <2>1, <2>4, <3>2 DEF x
    <3>4. <<k, j>> \in C
      BY <1>1, <1>3, <2>1, <3>2, <3>3
    <3>5. <<k, j>> \notin new
      BY <1>1, <1>4, <1>5, <3>2
    <3> QED
      BY <3>1, <3>4, <3>5
  <2>5. CASE i # m /\ ~(i < k /\ (j = k \/ j = m))
    <3>1. f[<<i, j>>] = <<i, j>>
      BY <1>1, <1>6, <1>7, <2>5
    <3>2. i # k /\ j # k
      <4>1. i # k
        <5>1. CASE i = k
          <6>1. b[i] = 0 /\ b[j] \in Nat
            BY <1>1, <2>1, <5>1
          <6> QED
            BY <2>1, <6>1
        <5> QED
          BY <5>1
      <4>2. CASE j = k
        BY <2>1, <2>5, <4>2
      <4> QED
        BY <4>1, <4>2
    <3>3. c[i] = b[i]
      BY <1>1, <2>1, <2>5, <3>2
    <3>4. c[i] > c[j]
      BY <1>1, <2>1, <3>2, <3>3
    <3>5. i \notin small \/ j # m
      BY <1>1, <1>5, <2>1, SMTT(30) DEF x
    <3> QED
      BY <1>3, <1>4, <2>1, <3>1, <3>2, <3>4, <3>5
  <2> QED
    BY <2>2, <2>3, <2>4, <2>5
<1>8. ASSUME NEW i, NEW j, <<i, j>> \in C \ new
      PROVE  \E p \in B : f[p] = <<i, j>>
  <2>1. /\ i \in D /\ j \in D /\ i < j /\ c[i] > c[j] /\ i \in Nat /\ j \in Nat
        /\ k \in Nat /\ m \in Nat /\ k < m
    BY <1>1, <1>3, <1>8
  <2>2. CASE i < k /\ j = m
    <3>1. i # k /\ i # m
      BY <2>1, <2>2
    <3>2. b[i] > b[k]
      BY <1>1, <2>1, <3>1
    <3>3. <<i, k>> \in B
      BY <1>1, <1>3, <2>1, <2>2, <3>2
    <3>4. f[<<i, k>>] = <<i, m>>
      BY <1>6, <2>2, <3>3
    <3> QED
      BY <2>2, <3>3, <3>4
  <2>3. CASE i < k /\ j = k
    <3>1. i # k /\ i # m /\ i < m
      BY <2>1, <2>3
    <3>2. b[i] > b[m]
      BY <1>1, <2>1, <2>3, <3>1 DEF x
    <3>3. <<i, m>> \in B
      BY <1>1, <1>3, <2>1, <3>1, <3>2
    <3>4. f[<<i, m>>] = <<i, k>>
      BY <1>6, <2>3, <3>3
    <3> QED
      BY <2>3, <3>3, <3>4
  <2>4. CASE i = k /\ j > m
    <3>1. j # k /\ j # m /\ m < j
      BY <2>1, <2>4
    <3>2. b[m] > b[j]
      BY <1>1, <2>1, <2>4, <3>1 DEF x
    <3>3. <<m, j>> \in B
      BY <1>1, <1>3, <2>1, <3>1, <3>2
    <3>4. ~(m < k)
      BY <2>1
    <3>5. f[<<m, j>>] = <<k, j>>
      BY <1>6, <3>3, <3>4
    <3> QED
      BY <2>4, <3>3, <3>5
  <2>5. CASE i = k /\ j <= m
    <3>1. CASE j = m
      BY <1>4, <1>8, <2>5, <3>1
    <3>2. CASE j # m
      <4>1. j # k /\ k < j /\ j < m
        BY <2>1, <2>5, <3>2
      <4>2. c[j] = b[j] /\ c[k] > c[j] /\ c[k] = x
        BY <1>1, <2>1, <2>5, <4>1, SMTT(30)
      <4>3. b[j] < x
        BY <1>1, <2>1, <4>2
      <4>4. j \in small
        BY <1>5, <2>1, <4>1, <4>3
      <4> QED
        BY <1>4, <1>8, <2>5, <4>4
    <3> QED
      BY <3>1, <3>2
  <2>6. CASE i > k /\ j = m
    <3>1. i \notin small /\ k < i /\ i < m /\ i # k /\ i # m
      BY <1>4, <1>8, <2>1, <2>6
    <3>2. ~(b[i] < x)
      BY <1>5, <2>1, <3>1
    <3>3. b[i] # x /\ b[i] \in Nat /\ x \in Nat
      BY <1>1, <2>1, <3>1
    <3>4. b[i] > x
      BY <3>2, <3>3
    <3>5. <<i, j>> \in B
      BY <1>3, <2>1, <2>6, <3>4 DEF x
    <3>6. ~(i < k)
      BY <2>1, <3>1
    <3>7. f[<<i, j>>] = <<i, j>>
      BY <1>6, <3>1, <3>5, <3>6
    <3> QED
      BY <3>5, <3>7
  <2>7. CASE i = m
    <3>1. c[i] = 0 /\ c[j] \in Nat
      BY <1>1, <2>1, <2>7
    <3> QED
      BY <2>1, <3>1
  <2>8. CASE i # k /\ i # m /\ j # m /\ ~(i < k /\ j = k)
    <3>1. j # k
      <4>1. CASE j = k
        <5>1. c[j] = x /\ c[i] = b[i] /\ i < k
          BY <1>1, <2>1, <2>8, <4>1
        <5> QED
          BY <2>8, <4>1, <5>1
      <4> QED
        BY <4>1
    <3>2. c[i] = b[i] /\ c[j] = b[j]
      BY <1>1, <2>1, <2>8, <3>1
    <3>3. <<i, j>> \in B
      BY <1>3, <2>1, <3>2
    <3>4. f[<<i, j>>] = <<i, j>>
      BY <1>6, <2>8, <3>1, <3>3
    <3> QED
      BY <3>3, <3>4
  <2> QED
    BY <2>1, <2>2, <2>3, <2>4, <2>5, <2>6, <2>7, <2>8
<1>9. ASSUME NEW p \in B, NEW q \in B, f[p] = f[q]
      PROVE  p = q
  <2>1. ASSUME NEW i, NEW j, <<i, j>> \in B
        PROVE  i \in Nat /\ j \in Nat /\ i < j /\ i # k
    <3>1. i \in D /\ j \in D /\ i < j /\ b[i] > b[j]
      BY <1>3, <2>1
    <3>2. CASE i = k
      <4>1. b[i] = 0 /\ b[j] \in Nat
        BY <1>1, <3>1, <3>2
      <4> QED
        BY <3>1, <4>1
    <3> QED
      BY <1>1, <3>1, <3>2
  <2>2. PICK i, j : p = <<i, j>>
    BY <1>3
  <2>3. PICK g, h : q = <<g, h>>
    BY <1>3
  <2>4. /\ <<i, j>> \in B /\ <<g, h>> \in B /\ f[<<i, j>>] = f[<<g, h>>]
        /\ i \in Nat /\ j \in Nat /\ i < j /\ i # k
        /\ g \in Nat /\ h \in Nat /\ g < h /\ g # k
    BY <1>9, <2>1, <2>2, <2>3
  <2> DEFINE Shape(y, z, u, v) ==
               \/ y < k /\ z = k /\ u = y /\ v = m
               \/ y < k /\ z = m /\ u = y /\ v = k
               \/ ~(y < k) /\ y = m /\ u = k /\ v = z
               \/ y # m /\ ~(y < k /\ (z = k \/ z = m)) /\ u = y /\ v = z
  <2>5. ASSUME NEW y, NEW z, <<y, z>> \in B
        PROVE  \E u, v : f[<<y, z>>] = <<u, v>> /\ Shape(y, z, u, v)
    <3>1. CASE y < k /\ z = k
      BY <1>6, <2>5, <3>1
    <3>2. CASE y < k /\ z = m
      BY <1>6, <2>5, <3>2
    <3>3. CASE ~(y < k) /\ y = m
      BY <1>6, <2>5, <3>3
    <3>4. CASE y # m /\ ~(y < k /\ (z = k \/ z = m))
      BY <1>6, <2>5, <3>4
    <3>5. y < k => y # m
      BY <1>1
    <3> QED
      BY <3>1, <3>2, <3>3, <3>4, <3>5
  <2>6. PICK u, v : f[<<i, j>>] = <<u, v>> /\ Shape(i, j, u, v)
    BY <2>4, <2>5
  <2>7. PICK y, z : f[<<g, h>>] = <<y, z>> /\ Shape(g, h, y, z)
    BY <2>4, <2>5
  <2>8. u = y /\ v = z
    <3>1. <<u, v>> = <<y, z>>
      BY <2>4, <2>6, <2>7
    <3> QED
      BY <3>1
  <2>9. i = g /\ j = h
    BY <1>1, <2>4, <2>6, <2>7, <2>8
  <2> QED
    BY <2>2, <2>3, <2>9
<1>10. IsFiniteSet(B) /\ Cardinality(B) \in Nat
  BY InversionsFinite DEF B
<1>11. IsFiniteSet(C \ new) /\ Cardinality(C \ new) = Cardinality(B)
  <2>1. \A p \in B : f[p] \in C \ new
    BY <1>3, <1>7
  <2>2. f \in [B -> C \ new]
    <3>1. f = [p \in B |-> f[p]]
      BY DEF f
    <3> QED
      BY <2>1, <3>1
  <2>3. ASSUME NEW q \in C \ new
        PROVE  \E p \in B : f[p] = q
    <3>1. q = <<q[1], q[2]>>
      BY <1>3
    <3>2. <<q[1], q[2]>> \in C \ new
      BY <3>1
    <3>3. \E p \in B : f[p] = <<q[1], q[2]>>
      BY <1>8, <3>2
    <3> QED
      BY <3>1, <3>3
  <2> QED
    BY <1>9, <1>10, <2>2, <2>3, SameSize
<1>12. new \subseteq C
  <2>1. ASSUME NEW i, NEW j, <<i, j>> \in new
        PROVE  <<i, j>> \in C
    <3>1. CASE i = k /\ j = m
      <4>1. c[k] > c[m]
        BY <1>1
      <4> QED
        BY <1>1, <1>3, <3>1, <4>1
    <3>2. CASE i = k /\ j \in small
      <4>1. j \in D /\ k < j /\ j # k /\ j # m /\ b[j] < x
        BY <1>1, <1>5, <3>2
      <4>2. c[k] > c[j]
        BY <1>1, <4>1
      <4> QED
        BY <1>1, <1>3, <3>2, <4>1, <4>2
    <3>3. CASE i \in small /\ j = m
      <4>1. i \in D /\ i < m /\ i # k /\ i # m
        BY <1>1, <1>5, <3>3
      <4>2. c[i] > c[m]
        BY <1>1, <4>1
      <4> QED
        BY <1>1, <1>3, <3>3, <4>1, <4>2
    <3> QED
      BY <1>4, <2>1, <3>1, <3>2, <3>3
  <2>2. \A p \in new : p = <<p[1], p[2]>>
    BY DEF new
  <2> QED
    BY <2>1, <2>2
<1>13. IsFiniteSet(small) /\ Cardinality(small) \in Nat
  <2>1. D = 1 .. Len(b) /\ Len(b) \in Nat
    BY DEF D
  <2>2. IsFiniteSet(D)
    BY <2>1, FS_Interval
  <2>3. small \in SUBSET D
    BY DEF small
  <2>4. IsFiniteSet(small)
    BY <2>2, <2>3, FS_Subset
  <2> QED
    BY <2>4, FS_CardinalityType
<1>14. IsFiniteSet(new) /\ Cardinality(new) = 2 * Cardinality(small) + 1
  <2>1. IsFiniteSet(afterX) /\ Cardinality(afterX) = Cardinality(small)
    <3> DEFINE h == [i \in small |-> <<k, i>>]
    <3>1. /\ h \in [small -> afterX]
          /\ \A i, j \in small : h[i] = h[j] => i = j
          /\ \A z \in afterX : \E i \in small : h[i] = z
      OBVIOUS
    <3> HIDE DEF h, afterX
    <3> QED
      BY <1>13, <3>1, SameSize
  <2>2. IsFiniteSet(beforeE) /\ Cardinality(beforeE) = Cardinality(small)
    <3> DEFINE h == [i \in small |-> <<i, m>>]
    <3>1. /\ h \in [small -> beforeE]
          /\ \A i, j \in small : h[i] = h[j] => i = j
          /\ \A z \in beforeE : \E i \in small : h[i] = z
      OBVIOUS
    <3> HIDE DEF h, beforeE
    <3> QED
      BY <1>13, <3>1, SameSize
  <2>3. afterX \cap beforeE = {} /\ <<k, m>> \notin afterX \cup beforeE
    <3>1. k \notin small /\ m \notin small
      BY <1>1, <1>5
    <3> QED
      BY <3>1
  <2> HIDE DEF afterX, beforeE
  <2>4. /\ IsFiniteSet(afterX \cup beforeE)
        /\ Cardinality(afterX \cup beforeE) = Cardinality(small) + Cardinality(small)
    <3>1. IsFiniteSet(afterX)
      BY <2>1
    <3>2. IsFiniteSet(beforeE)
      BY <2>2
    <3>3. afterX \cap beforeE = {}
      BY <2>3
    <3>4. /\ IsFiniteSet(afterX \cup beforeE)
          /\ Cardinality(afterX \cup beforeE)
               = Cardinality(afterX) + Cardinality(beforeE)
      BY <3>1, <3>2, <3>3, Apart
    <3> QED
      BY <2>1, <2>2, <3>4
  <2>5. /\ IsFiniteSet((afterX \cup beforeE) \cup {<<k, m>>})
        /\ Cardinality((afterX \cup beforeE) \cup {<<k, m>>})
             = Cardinality(afterX \cup beforeE) + 1
    BY <2>3, <2>4, FS_AddElement
  <2> QED
    BY <1>13, <2>4, <2>5 DEF new
<1>15. Cardinality(C) = Cardinality(C \ new) + Cardinality(new)
  <2>1. (C \ new) \cap new = {} /\ C = (C \ new) \cup new
    BY <1>12
  <2> QED
    BY <1>11, <1>14, <2>1, Apart
<1>16. Cardinality(C) = Cardinality(B) + 2 * Cardinality(small) + 1
  BY <1>10, <1>11, <1>13, <1>14, <1>15
<1> QED
  BY <1>13, <1>16 DEF B, C

(* Two boards a move apart.                                                *)
LEMMA OddInversions ==
  ASSUME NEW b \in Seq(Nat), NEW c \in Seq(Nat), NEW k \in Nat, NEW m \in Nat,
         Moved(b, c, k, m), IsInjective(b)
  PROVE  /\ IsInjective(c)
         /\ \E z \in Int : Cardinality(Inversions(c)) - Cardinality(Inversions(b))
                             = 2 * z + 1
<1>1. IsInjective(c) /\ Moved(c, b, m, k)
  <2>1. /\ DOMAIN b = DOMAIN c /\ k \in DOMAIN b /\ m \in DOMAIN b /\ k # m
        /\ b[k] = 0 /\ c[m] = 0 /\ c[k] = b[m]
        /\ \A x \in DOMAIN b : x # k /\ x # m => c[x] = b[x]
    BY DEF Moved
  <2>2. ASSUME NEW x \in DOMAIN c, NEW y \in DOMAIN c, c[x] = c[y]
        PROVE  x = y
    <3> DEFINE To(e) == IF e = k THEN m ELSE IF e = m THEN k ELSE e
    <3>1. \A e \in DOMAIN b : To(e) \in DOMAIN b /\ c[e] = b[To(e)]
      BY <2>1
    <3>2. To(x) = To(y)
      BY <2>1, <2>2, <3>1 DEF IsInjective
    <3> QED
      BY <2>1, <3>2
  <2>3. IsInjective(c)
    BY <2>2 DEF IsInjective
  <2>4. Moved(c, b, m, k)
    BY <2>1 DEF Moved
  <2> QED
    BY <2>3, <2>4
<1>2. Cardinality(Inversions(b)) \in Nat /\ Cardinality(Inversions(c)) \in Nat
  BY InversionsFinite
<1>3. k # m
  BY DEF Moved
<1>4. CASE k < m
  <2>1. PICK z \in Nat :
          Cardinality(Inversions(c)) = Cardinality(Inversions(b)) + 2 * z + 1
    BY <1>4, MovedBack
  <2>2. Cardinality(Inversions(c)) - Cardinality(Inversions(b)) = 2 * z + 1
    BY <1>2, <2>1
  <2> QED
    BY <1>1, <2>2
<1>5. CASE m < k
  <2>1. PICK z \in Nat :
          Cardinality(Inversions(b)) = Cardinality(Inversions(c)) + 2 * z + 1
    BY <1>1, <1>5, MovedBack
  <2> DEFINE y == 0 - z - 1
  <2>2. y \in Int /\ Cardinality(Inversions(c)) - Cardinality(Inversions(b)) = 2 * y + 1
    BY <1>2, <2>1
  <2> HIDE DEF y
  <2> QED
    BY <1>1, <2>2
<1> QED
  BY <1>3, <1>4, <1>5

LEMMA OddSquares ==
  ASSUME NEW k \in Nat \ {0}, NEW m \in Nat \ {0}, Adjacent(k, m)
  PROVE  /\ Square(k)[1] + Square(k)[2] \in Nat
         /\ Square(m)[1] + Square(m)[2] \in Nat
         /\ \/ (Square(m)[1] + Square(m)[2]) - (Square(k)[1] + Square(k)[2]) = 1
            \/ (Square(m)[1] + Square(m)[2]) - (Square(k)[1] + Square(k)[2]) = -1
<1> DEFINE k1 == Square(k)[1]
           k2 == Square(k)[2]
           m1 == Square(m)[1]
           m2 == Square(m)[2]
<1>1. k1 \in Nat /\ k2 \in Nat /\ m1 \in Nat /\ m2 \in Nat
  <2>1. k - 1 \in Nat /\ m - 1 \in Nat
    OBVIOUS
  <2>2. /\ k1 = (k - 1) \div Width /\ k2 = (k - 1) % Width
        /\ m1 = (m - 1) \div Width /\ m2 = (m - 1) % Width
    BY DEF Square
  <2>3. /\ (k - 1) \div Width \in Nat /\ (k - 1) % Width \in 0 .. Width - 1
        /\ (m - 1) \div Width \in Nat /\ (m - 1) % Width \in 0 .. Width - 1
    BY <2>1, Divided
  <2> HIDE DEF k1, k2, m1, m2
  <2> QED
    BY <2>2, <2>3, WidthIs
<1>2. (k1 - m1) * (k1 - m1) + (k2 - m2) * (k2 - m2) = 1
  BY DEF Adjacent
<1> HIDE DEF k1, k2, m1, m2
<1>3. \/ (k1 - m1 = 1 \/ k1 - m1 = -1) /\ k2 - m2 = 0
      \/ k1 - m1 = 0 /\ (k2 - m2 = 1 \/ k2 - m2 = -1)
  BY <1>1, <1>2, SquareOne
<1>4. /\ k1 + k2 \in Nat /\ m1 + m2 \in Nat
      /\ (m1 + m2) - (k1 + k2) = 1 \/ (m1 + m2) - (k1 + k2) = -1
  BY <1>1, <1>3
<1> QED
  BY <1>4 DEF k1, k2, m1, m2

LEMMA MoveKeepsParity ==
  ASSUME NEW b \in Board, IsInjective(b), NEW c \in Moves(b)
  PROVE  c \in Board /\ IsInjective(c) /\ Parity(c) = Parity(b)
<1> DEFINE k == Empty(b)
<1>1. PICK m \in DOMAIN b : Adjacent(k, m) /\ c = [b EXCEPT ![k] = b[m], ![m] = 0]
  BY DEF Moves
<1>2. c \in Board
  BY MovesAre
<1>3. /\ b \in Seq(Nat) /\ c \in Seq(Nat) /\ DOMAIN b = 1 .. Len(b) /\ Len(b) \in Nat
      /\ k \in 1 .. Len(b) /\ m \in 1 .. Len(b) /\ b[k] = 0
      /\ \A x \in DOMAIN c : c[x] = 0 => x = Empty(c)
      /\ DOMAIN c = 1 .. Len(c)
  <2>1. find_position(b) + 1 \in 1 .. Len(b)
    BY BoardIs
  <2> QED
    BY <1>2, <2>1, BoardIs
<1> HIDE DEF k
<1>4. k \in Nat \ {0} /\ m \in Nat \ {0}
  BY <1>3
<1>5. (Square(m)[1] + Square(m)[2]) - (Square(k)[1] + Square(k)[2]) \in {1, -1}
      /\ Square(k)[1] + Square(k)[2] \in Nat /\ Square(m)[1] + Square(m)[2] \in Nat
  BY <1>1, <1>4, OddSquares
<1>6. k # m
  <2>1. CASE k = m
    <3>1. (Square(m)[1] + Square(m)[2]) - (Square(k)[1] + Square(k)[2]) = 0
      BY <1>5, <2>1
    <3> QED
      BY <1>5, <3>1
  <2> QED
    BY <2>1
<1>7. Moved(b, c, k, m) /\ Empty(c) = m
  <2>1. k \in DOMAIN b /\ m \in DOMAIN b /\ b[k] = 0
    BY <1>3
  <2>2. c = [b EXCEPT ![k] = b[m], ![m] = 0]
    BY <1>1
  <2>3. DOMAIN c = DOMAIN b
    BY <2>2
  <2>4. c[m] = 0 /\ c[k] = b[m] /\ \A x \in DOMAIN b : x # k /\ x # m => c[x] = b[x]
    BY <1>6, <2>1, <2>2
  <2>5. Moved(b, c, k, m)
    BY <1>6, <2>1, <2>3, <2>4 DEF Moved
  <2> QED
    BY <1>3, <2>1, <2>3, <2>4, <2>5
<1>8. PICK z \in Int :
        Cardinality(Inversions(c)) - Cardinality(Inversions(b)) = 2 * z + 1
  BY <1>3, <1>4, <1>7, OddInversions
<1>9. IsInjective(c)
  BY <1>3, <1>4, <1>7, OddInversions
<1>10. Parity(c) = Parity(b)
  <2> DEFINE p == Cardinality(Inversions(b))
             q == Cardinality(Inversions(c))
             k1 == Square(k)[1]
             k2 == Square(k)[2]
             m1 == Square(m)[1]
             m2 == Square(m)[2]
  <2>1. Parity(b) = (p + k1 + k2) % 2
    BY DEF Parity, k
  <2>2. Parity(c) = (q + m1 + m2) % 2
    BY <1>7 DEF Parity
  <2>3. p \in Nat /\ q \in Nat
    BY <1>3, InversionsFinite
  <2>4. k1 \in Int /\ k2 \in Int /\ m1 \in Int /\ m2 \in Int
    BY <1>4, Divided, WidthIs DEF Square
  <2>5. (m1 + m2) - (k1 + k2) \in {1, -1} /\ q - p = 2 * z + 1
    BY <1>5, <1>8
  <2> HIDE DEF p, q, k1, k2, m1, m2
  <2>6. (q + m1 + m2) % 2 = (p + k1 + k2) % 2
    <3>1. \/ q + m1 + m2 = (p + k1 + k2) + 2 * (z + 1)
          \/ q + m1 + m2 = (p + k1 + k2) + 2 * z
      BY <2>3, <2>4, <2>5
    <3>2. \A x, y \in Int : (x + 2 * y) % 2 = x % 2
      OBVIOUS
    <3>3. p + k1 + k2 \in Int /\ z \in Int /\ z + 1 \in Int
      BY <2>3, <2>4
    <3> QED
      BY <3>1, <3>2, <3>3
  <2> QED
    BY <2>1, <2>2, <2>6
<1> QED
  BY <1>2, <1>9, <1>10

(* The boards that moves lead to have the parity of the first one.         *)
LEMMA WithinKeepsParity ==
  ASSUME NEW b \in Board, IsInjective(b), NEW d \in Nat, NEW c \in Within(b, d)
  PROVE  Parity(c) = Parity(b)
<1> DEFINE Good == {x \in Board : IsInjective(x) /\ Parity(x) = Parity(b)}
           T == {m \in Nat : ~(Within(b, m) \subseteq Good)}
<1>1. Within(b, 0) = {b} /\ \A m \in Nat : Within(b, m + 1) = Outer(Within(b, m))
  BY WithinIs
<1>2. b \in Good
  OBVIOUS
<1>3. \A x \in Good : Moves(x) \subseteq Good
  <2> SUFFICES ASSUME NEW x \in Good, NEW y \in Moves(x)
               PROVE  y \in Good
    OBVIOUS
  <2>1. x \in Board /\ IsInjective(x) /\ Parity(x) = Parity(b)
    OBVIOUS
  <2>2. y \in Board /\ IsInjective(y) /\ Parity(y) = Parity(x)
    BY <2>1, MoveKeepsParity
  <2> QED
    BY <2>1, <2>2
<1> HIDE DEF Good
<1>4. T = {}
  <2> SUFFICES ASSUME T # {}
               PROVE  FALSE
    OBVIOUS
  <2>1. PICK m \in T : \A e \in T : m <= e
    <3>1. T \in SUBSET Nat
      OBVIOUS
    <3> HIDE DEF T
    <3> QED
      BY <3>1, Least
  <2>2. m \in Nat /\ m # 0
    BY <1>1, <1>2, <2>1
  <2>3. m - 1 \in Nat /\ (m - 1) + 1 = m /\ m - 1 \notin T
    BY <2>1, <2>2
  <2>4. Within(b, m - 1) \subseteq Good
    BY <2>3
  <2>5. Within(b, m) = Outer(Within(b, m - 1))
    BY <1>1, <2>3
  <2>6. Within(b, m) \subseteq Good
    BY <1>3, <2>4, <2>5 DEF Outer
  <2> QED
    BY <2>1, <2>6
<1>5. c \in Good
  BY <1>4
<1> QED
  BY <1>5 DEF Good

(* A path is printed only between boards of the same parity: the first     *)
(* half of NoPathExact, for rows of any width and boards of any size whose *)
(* tiles are different, as those of main are (cpp:118).                    *)
FoundOnlySolvable == answer = "found" => Solvable

THEOREM FoundIsSolvable ==
  ASSUME \A t \in Task : IsInjective(t[1])
  PROVE  PuzzleSpec => []FoundOnlySolvable
<1>1. PuzzleInit => IsInjective(task[1])
  BY DEF PuzzleInit
<1>2. IsInjective(task[1]) /\ [PuzzleNext]_puzzle_vars => IsInjective(task[1])'
  BY DEF PuzzleNext, Check, Look, NextLevel, puzzle_vars, IsInjective
<1>3. PuzzleInv /\ IsInjective(task[1]) => FoundOnlySolvable
  <2> SUFFICES ASSUME PuzzleInv, IsInjective(task[1]), answer = "found"
               PROVE  Solvable
    BY DEF FoundOnlySolvable
  <2>1. /\ node \in Tree /\ task[1] \in Board /\ result \in Nat
        /\ popped \in 0 .. Len(node) /\ level_end \in 1 .. Len(node)
        /\ popped <= level_end /\ popped > 0 /\ node[popped].puzzle = final
    BY DEF PuzzleInv, PuzzleTypeOK, FinalInv, Open
  <2>2. popped \in 1 .. level_end
    BY <2>1, BoardsAre
  <2>3. final \in Boards(node, level_end)
    BY <2>1, <2>2 DEF Boards
  <2>4. final \in Within(task[1], result)
    BY <2>3 DEF PuzzleInv, NearInv
  <2> QED
    BY <2>1, <2>4, WithinKeepsParity DEF Solvable
<1> QED
  BY <1>1, <1>2, <1>3, PuzzleInvariance, PTL DEF PuzzleSpec
-----------------------------------------------------------------------------
(***************************************************************************)
(* Moves lead to every board of the same parity.  The places are numbered  *)
(* along a snake, row by row and back again, and a board is its tiles in   *)
(* that order, a word, and the empty place.  Along the snake, the empty    *)
(* place changes nothing in the word; from row to row, it turns a part of  *)
(* the word by one.                                                        *)
(***************************************************************************)
Snake(p) ==
  IF ((p - 1) \div 3) % 2 = 0 THEN p ELSE 6 * ((p - 1) \div 3) + 4 - p

Word(len) == [1 .. len - 1 -> Nat \ {0}]
At(w, e, p) == IF p < e THEN w[p] ELSE IF p = e THEN 0 ELSE w[p - 1]
Lay(w, e, len) == [k \in 1 .. len |-> At(w, e, Snake(k))]

Rows(len) == len \in Nat /\ len > 3 /\ len % 3 = 0

LEMMA Thirds ==
  ASSUME NEW q \in Nat, NEW r \in 0 .. 2, NEW x \in Nat, x = 3 * q + r
  PROVE  x \div 3 = q
<1> DEFINE p == x \div 3
           t == x % 3
<1>1. p \in Nat /\ t \in 0 .. 2 /\ x = 3 * p + t
  OBVIOUS
<1> HIDE DEF p, t
<1>2. p = q
  BY <1>1
<1> QED
  BY <1>2 DEF p

LEMMA Evens ==
  ASSUME NEW q \in Nat
  PROVE  (q + 1) % 2 = 0 <=> q % 2 # 0
OBVIOUS

LEMMA SnakeIs ==
  ASSUME NEW len, Rows(len), NEW p \in 1 .. len
  PROVE  Snake(p) \in 1 .. len /\ Snake(Snake(p)) = p
<1> DEFINE q == (p - 1) \div 3
           r == (p - 1) % 3
           h == len \div 3
<1>1. q \in Nat /\ r \in 0 .. 2 /\ p = 3 * q + r + 1 /\ len \in Nat
  BY DEF Rows
<1>2. h \in Nat /\ len = 3 * h
  BY DEF Rows
<1>3. q < h
  BY <1>1, <1>2
<1>4. Snake(p) = IF q % 2 = 0 THEN p ELSE 3 * q + 3 - r
  BY <1>1 DEF Snake
<1>5. Snake(p) \in 1 .. len
  <2> HIDE DEF q, r, h
  <2> QED
    BY <1>1, <1>2, <1>3, <1>4
<1>6. (Snake(p) - 1) \div 3 = q
  <2> HIDE DEF q, r, h
  <2>1. \/ Snake(p) - 1 = 3 * q + r
        \/ Snake(p) - 1 = 3 * q + (2 - r)
    BY <1>1, <1>4
  <2>2. 2 - r \in 0 .. 2 /\ Snake(p) - 1 \in Nat
    BY <1>1, <1>5
  <2> QED
    BY <1>1, <2>1, <2>2, Thirds
<1>7. Snake(Snake(p)) = IF q % 2 = 0 THEN Snake(p) ELSE 6 * q + 4 - Snake(p)
  <2> DEFINE g == Snake(p)
  <2>1. Snake(g) = IF ((g - 1) \div 3) % 2 = 0 THEN g ELSE 6 * ((g - 1) \div 3) + 4 - g
    BY DEF Snake
  <2>2. (g - 1) \div 3 = q
    BY <1>6
  <2> HIDE DEF g, q
  <2> QED
    BY <2>1, <2>2 DEF g
<1> HIDE DEF q, r, h
<1> QED
  BY <1>1, <1>4, <1>5, <1>7

(* Places next to each other along the snake, and from row to row.         *)
LEMMA SnakeNeighbours ==
  ASSUME Width = 3, NEW len, Rows(len), NEW i \in 1 .. len, NEW j \in 1 .. len,
         \/ j = i + 1
         \/ j = i + 3 /\ i % 3 = 2
         \/ j = i + 5 /\ i % 3 = 1
  PROVE  Adjacent(Snake(i), Snake(j)) /\ Adjacent(Snake(j), Snake(i))
<1> DEFINE q == (i - 1) \div 3
           r == (i - 1) % 3
           k == Snake(i) - 1
           m == Snake(j) - 1
<1>1. q \in Nat /\ r \in 0 .. 2 /\ i = 3 * q + r + 1 /\ i \in Nat /\ j \in Nat
  BY DEF Rows
<1>2. k = IF q % 2 = 0 THEN 3 * q + r ELSE 3 * q + 2 - r
  BY <1>1 DEF Snake
<1>3. k \in Nat /\ m \in Nat /\ k + 1 = Snake(i) /\ m + 1 = Snake(j)
  <2>1. Snake(i) \in 1 .. len /\ Snake(j) \in 1 .. len
    BY SnakeIs
  <2> QED
    BY <2>1
<1>4. k \div 3 = q
  <2>1. 2 - r \in 0 .. 2 /\ (k = 3 * q + r \/ k = 3 * q + (2 - r))
    <3> HIDE DEF q, r, k
    <3> QED
      BY <1>1, <1>2
  <2> HIDE DEF q, r, k
  <2> QED
    BY <1>1, <1>3, <2>1, Thirds
<1>5. CASE j = i + 1 /\ r < 2
  <2>1. (j - 1) \div 3 = q
    <3> HIDE DEF q, r
    <3>1. j - 1 \in Nat /\ r + 1 \in 0 .. 2 /\ j - 1 = 3 * q + (r + 1)
      BY <1>1, <1>5
    <3> QED
      BY <1>1, <3>1, Thirds
  <2>2. m = IF q % 2 = 0 THEN 3 * q + r + 1 ELSE 3 * q + 1 - r
    <3>1. Snake(j) = IF q % 2 = 0 THEN j ELSE 6 * q + 4 - j
      BY <2>1 DEF Snake
    <3> HIDE DEF q, r
    <3> QED
      BY <1>1, <1>5, <3>1
  <2>3. m \div 3 = q
    <3> HIDE DEF q, r, m
    <3>1. /\ r + 1 \in 0 .. 2 /\ 1 - r \in 0 .. 2
          /\ m = 3 * q + (r + 1) \/ m = 3 * q + (1 - r)
      BY <1>1, <1>5, <2>2
    <3> QED
      BY <1>1, <1>3, <3>1, Thirds
  <2>4. m = k + 1 \/ m = k - 1
    <3> HIDE DEF q, r, m, k
    <3> QED
      BY <1>1, <1>2, <1>5, <2>2
  <2>5. Near(k, m) /\ Near(m, k)
    <3> HIDE DEF q, r, m, k
    <3> QED
      BY <1>3, <1>4, <2>3, <2>4 DEF Near
  <2> HIDE DEF k, m
  <2> QED
    BY <1>3, <2>5, AdjacentIs
<1>6. CASE ~(j = i + 1 /\ r < 2)
  <2>1. j = 3 * (q + 1) + (2 - r) + 1
    <3>1. i % 3 = (r + 1) % 3
      BY <1>1
    <3> HIDE DEF q, r
    <3> QED
      BY <1>1, <1>6, <3>1
  <2>2. (j - 1) \div 3 = q + 1
    <3> HIDE DEF q, r
    <3>1. /\ j - 1 \in Nat /\ q + 1 \in Nat /\ 2 - r \in 0 .. 2
          /\ j - 1 = 3 * (q + 1) + (2 - r)
      BY <1>1, <2>1
    <3> QED
      BY <3>1, Thirds
  <2>3. m = IF q % 2 = 0 THEN 3 * (q + 1) + r ELSE 3 * (q + 1) + 2 - r
    <3>1. Snake(j) = IF (q + 1) % 2 = 0 THEN j ELSE 6 * (q + 1) + 4 - j
      BY <2>2 DEF Snake
    <3>2. (q + 1) % 2 = 0 <=> q % 2 # 0
      BY <1>1, Evens
    <3> HIDE DEF q, r
    <3> QED
      BY <1>1, <2>1, <3>1, <3>2
  <2>4. m = k + 3
    <3> HIDE DEF q, r, m, k
    <3> QED
      BY <1>1, <1>2, <2>3
  <2>5. Near(k, m) /\ Near(m, k)
    <3> HIDE DEF q, r, m, k
    <3> QED
      BY <1>3, <2>4 DEF Near
  <2> HIDE DEF k, m
  <2> QED
    BY <1>3, <2>5, AdjacentIs
<1> QED
  BY <1>5, <1>6

LEMMA LayIs ==
  ASSUME NEW len, Rows(len), NEW w \in Word(len), NEW e \in 1 .. len
  PROVE  /\ Lay(w, e, len) \in Board
         /\ DOMAIN Lay(w, e, len) = 1 .. len
         /\ \A p \in 1 .. len : Lay(w, e, len)[Snake(p)] = At(w, e, p)
         /\ Empty(Lay(w, e, len)) = Snake(e)
<1> DEFINE b == Lay(w, e, len)
<1>1. len \in Nat /\ \A p \in 1 .. len : Snake(p) \in 1 .. len /\ Snake(Snake(p)) = p
  BY SnakeIs DEF Rows
<1>2. \A p \in 1 .. len : At(w, e, p) \in Nat /\ (At(w, e, p) = 0 <=> p = e)
  BY <1>1 DEF At, Word
<1>3. DOMAIN b = 1 .. len /\ \A k \in 1 .. len : b[k] = At(w, e, Snake(k))
  BY DEF Lay
<1>4. b \in Seq(Nat)
  <2>1. b \in [1 .. len -> Nat]
    BY <1>1, <1>2 DEF Lay
  <2> QED
    BY <1>1, <2>1, SMTT(30)
<1> HIDE DEF b
<1>5. \A p \in 1 .. len : b[Snake(p)] = At(w, e, p)
  BY <1>1, <1>3
<1>6. Snake(e) \in 1 .. len /\ b[Snake(e)] = 0
  BY <1>1, <1>2, <1>5
<1>7. \A k \in 1 .. len : b[k] = 0 => k = Snake(e)
  <2> SUFFICES ASSUME NEW k \in 1 .. len, b[k] = 0
               PROVE  k = Snake(e)
    OBVIOUS
  <2>1. Snake(k) = e
    BY <1>1, <1>2, <1>3
  <2> QED
    BY <1>1, <2>1
<1>8. b \in Board
  BY <1>3, <1>4, <1>6, <1>7 DEF Board
<1>9. Empty(b) = Snake(e)
  BY <1>3, <1>6, <1>7 DEF Empty
<1> QED
  BY <1>3, <1>5, <1>8, <1>9 DEF b

(* Every board is a word and a place.                                      *)
LEMMA LaidOut ==
  ASSUME NEW b \in Board, Rows(Len(b))
  PROVE  \E w \in Word(Len(b)), e \in 1 .. Len(b) : b = Lay(w, e, Len(b))
<1> DEFINE len == Len(b)
           e == Snake(Empty(b))
           w == [x \in 1 .. len - 1 |-> b[Snake(IF x < e THEN x ELSE x + 1)]]
<1>1. /\ len \in Nat /\ DOMAIN b = 1 .. len /\ b \in Seq(Nat)
      /\ Empty(b) \in 1 .. len /\ b[Empty(b)] = 0
      /\ \A k \in 1 .. len : b[k] = 0 => k = Empty(b)
  <2>1. find_position(b) + 1 \in 1 .. Len(b)
    BY BoardIs
  <2> QED
    BY <2>1, BoardIs
<1>2. \A p \in 1 .. len : Snake(p) \in 1 .. len /\ Snake(Snake(p)) = p
  BY SnakeIs
<1>3. \A k \in 1 .. len : b[k] \in Nat
  BY <1>1
<1>4. e \in 1 .. len /\ Snake(e) = Empty(b)
  BY <1>1, <1>2
<1> HIDE DEF e, len
<1>5. \A p \in 1 .. len : p # e => b[Snake(p)] \in Nat \ {0}
  BY <1>1, <1>2, <1>3, <1>4
<1>6. w \in Word(len)
  <2>1. \A x \in 1 .. len - 1 : (IF x < e THEN x ELSE x + 1) \in 1 .. len
                               /\ (IF x < e THEN x ELSE x + 1) # e
    BY <1>1, <1>4
  <2> QED
    BY <1>5, <2>1 DEF Word
<1>7. \A p \in 1 .. len : At(w, e, p) = b[Snake(p)]
  <2> SUFFICES ASSUME NEW p \in 1 .. len
               PROVE  At(w, e, p) = b[Snake(p)]
    OBVIOUS
  <2>1. CASE p < e
    <3>1. p \in 1 .. len - 1
      BY <1>1, <1>4, <2>1
    <3>2. w[p] = b[Snake(p)]
      BY <2>1, <3>1
    <3> QED
      BY <2>1, <3>2 DEF At
  <2>2. CASE p = e
    BY <1>1, <1>4, <2>2 DEF At
  <2>3. CASE p > e
    <3>1. p - 1 \in 1 .. len - 1 /\ ~(p - 1 < e) /\ p - 1 + 1 = p
      BY <1>1, <1>4, <2>3
    <3>2. w[p - 1] = b[Snake(p)]
      BY <3>1
    <3>3. ~(p < e) /\ p # e
      BY <1>1, <1>4, <2>3
    <3> QED
      BY <3>2, <3>3 DEF At
  <2> QED
    BY <1>1, <1>4, <2>1, <2>2, <2>3
<1>8. b = [k \in 1 .. len |-> b[k]]
  BY <1>1
<1> HIDE DEF w
<1>9. Lay(w, e, len) = [k \in 1 .. len |-> b[k]]
  <2>1. \A k \in 1 .. len : At(w, e, Snake(k)) = b[k]
    BY <1>2, <1>7
  <2> QED
    BY <2>1 DEF Lay
<1> QED
  BY <1>4, <1>6, <1>8, <1>9 DEF len

(* The tile on place j of the snake goes to the empty place i.             *)
LEMMA LayMoves ==
  ASSUME NEW len, Rows(len), NEW w \in Word(len), NEW v \in Word(len),
         NEW i \in 1 .. len, NEW j \in 1 .. len, i # j,
         Adjacent(Snake(i), Snake(j)),
         At(v, j, i) = At(w, i, j),
         \A p \in 1 .. len : p # i /\ p # j => At(v, j, p) = At(w, i, p)
  PROVE  Lay(v, j, len) \in Moves(Lay(w, i, len))
<1> DEFINE b == Lay(w, i, len)
           c == Lay(v, j, len)
           k == Snake(i)
           m == Snake(j)
<1>1. len \in Nat /\ \A p \in 1 .. len : Snake(p) \in 1 .. len /\ Snake(Snake(p)) = p
  BY SnakeIs DEF Rows
<1>2. /\ DOMAIN b = 1 .. len /\ Empty(b) = k /\ b[m] = At(w, i, j)
      /\ \A x \in 1 .. len : b[x] = At(w, i, Snake(x))
  BY LayIs, ZenonT(30) DEF Lay
<1>3. /\ DOMAIN c = 1 .. len
      /\ c = [x \in 1 .. len |-> At(v, j, Snake(x))]
  BY DEF Lay
<1>4. b = [x \in 1 .. len |-> b[x]]
  BY DEF Lay
<1> HIDE DEF b, c
<1>5. k \in 1 .. len /\ m \in 1 .. len /\ k # m /\ Snake(k) = i /\ Snake(m) = j
  BY <1>1
<1>6. At(v, j, j) = 0
  BY <1>1 DEF At
<1>7. c = [b EXCEPT ![k] = b[m], ![m] = 0]
  <2>1. ASSUME NEW x \in 1 .. len
        PROVE  At(v, j, Snake(x)) = [b EXCEPT ![k] = b[m], ![m] = 0][x]
    <3> HIDE DEF k, m
    <3>1. [b EXCEPT ![k] = b[m], ![m] = 0][x]
            = IF x = m THEN 0 ELSE IF x = k THEN b[m] ELSE b[x]
      BY <1>2, <1>4, <1>5
    <3>2. CASE x = m
      BY <1>5, <1>6, <3>1, <3>2
    <3>3. CASE x = k
      BY <1>2, <1>5, <3>1, <3>3
    <3>4. CASE x # k /\ x # m
      <4>1. Snake(x) \in 1 .. len /\ Snake(x) # i /\ Snake(x) # j
        BY <1>1, <3>4 DEF k, m
      <4> QED
        BY <1>2, <3>1, <3>4, <4>1
    <3> QED
      BY <3>2, <3>3, <3>4
  <2>2. [b EXCEPT ![k] = b[m], ![m] = 0]
          = [x \in 1 .. len |-> [b EXCEPT ![k] = b[m], ![m] = 0][x]]
    BY <1>2, <1>4
  <2> QED
    BY <1>3, <2>1, <2>2
<1>8. m \in DOMAIN b /\ Adjacent(Empty(b), m)
  BY <1>2, <1>5
<1> QED
  BY <1>2, <1>7, <1>8 DEF Moves, b, c
-----------------------------------------------------------------------------
(* Boards, with all that moves lead to.                                    *)
Closed(All) == All \subseteq Board /\ \A c \in All : Moves(c) \subseteq All

(* The empty place goes along the snake.                                   *)
LEMMA Slides ==
  ASSUME Width = 3, NEW len, Rows(len), NEW All, Closed(All),
         NEW w \in Word(len), NEW e \in 1 .. len
  PROVE  Lay(w, e, len) \in All <=> Lay(w, 1, len) \in All
<1> DEFINE T == {p \in 1 .. len :
                   ~(Lay(w, p, len) \in All <=> Lay(w, 1, len) \in All)}
<1>1. len \in Nat
  BY DEF Rows
<1>2. T = {}
  <2> SUFFICES ASSUME T # {}
               PROVE  FALSE
    OBVIOUS
  <2>1. PICK p \in T : \A q \in T : p <= q
    <3>1. T \in SUBSET Nat
      BY <1>1
    <3> HIDE DEF T
    <3> QED
      BY <3>1, Least
  <2> DEFINE o == p - 1
  <2>2. p \in 2 .. len
    BY <1>1, <2>1
  <2>3. o \in 1 .. len /\ p = o + 1 /\ o \notin T /\ o # p
    BY <1>1, <2>1, <2>2
  <2>4. Adjacent(Snake(o), Snake(p)) /\ Adjacent(Snake(p), Snake(o))
    BY <2>2, <2>3, SnakeNeighbours
  <2>5. p \in 1 .. len /\ p \in Nat /\ o \in Nat
    BY <1>1, <2>2, <2>3
  <2> HIDE DEF o
  <2>6. /\ At(w, p, o) = At(w, o, p)
        /\ \A q \in 1 .. len : q # o /\ q # p => At(w, p, q) = At(w, o, q)
    BY <2>3, <2>5 DEF At
  <2>7. Lay(w, p, len) \in Moves(Lay(w, o, len))
    BY <2>3, <2>4, <2>5, <2>6, LayMoves
  <2>8. Lay(w, o, len) \in Moves(Lay(w, p, len))
    BY <2>3, <2>4, <2>5, <2>6, LayMoves
  <2> QED
    BY <2>1, <2>3, <2>5, <2>7, <2>8 DEF Closed
<1> QED
  BY <1>2

(* The tiles on i .. j - 1 of a word turned by one, and back.              *)
Turn(w, i, j) ==
  [x \in DOMAIN w |-> IF x = i THEN w[j - 1]
                      ELSE IF i < x /\ x < j THEN w[x - 1] ELSE w[x]]
Back(w, i, j) ==
  [x \in DOMAIN w |-> IF x = j - 1 THEN w[i]
                      ELSE IF i <= x /\ x < j - 1 THEN w[x + 1] ELSE w[x]]

LEMMA TurnIs ==
  ASSUME NEW len, Rows(len), NEW w \in Word(len), NEW i \in 1 .. len,
         NEW j \in 1 .. len, i < j
  PROVE  Turn(w, i, j) \in Word(len) /\ Back(w, i, j) \in Word(len)
<1>1. len \in Nat /\ DOMAIN w = 1 .. len - 1
  BY DEF Rows, Word
<1>2. /\ j - 1 \in 1 .. len - 1 /\ i \in 1 .. len - 1
      /\ \A x \in 1 .. len - 1 : i < x => x - 1 \in 1 .. len - 1
      /\ \A x \in 1 .. len - 1 : x < j - 1 => x + 1 \in 1 .. len - 1
  BY <1>1
<1>3. \A x \in 1 .. len - 1 : w[x] \in Nat \ {0}
  BY DEF Word
<1>4. Turn(w, i, j) \in Word(len)
  BY <1>1, <1>2, <1>3 DEF Turn, Word
<1>5. Back(w, i, j) \in Word(len)
  BY <1>1, <1>2, <1>3 DEF Back, Word
<1> QED
  BY <1>4, <1>5

(* From one row to the next, and back.                                     *)
LEMMA Turns ==
  ASSUME Width = 3, NEW len, Rows(len), NEW All, Closed(All),
         NEW w \in Word(len), Lay(w, 1, len) \in All,
         NEW i \in 1 .. len, NEW j \in 1 .. len,
         \/ j = i + 3 /\ i % 3 = 2
         \/ j = i + 5 /\ i % 3 = 1
  PROVE  /\ Lay(Turn(w, i, j), 1, len) \in All
         /\ Lay(Back(w, i, j), 1, len) \in All
<1> DEFINE v == Turn(w, i, j)
           u == Back(w, i, j)
<1>1. /\ len \in Nat /\ DOMAIN w = 1 .. len - 1 /\ i \in Nat /\ j \in Nat
      /\ i < j /\ i # j /\ i + 1 < j
  BY DEF Rows, Word
<1>2. v \in Word(len) /\ u \in Word(len)
  BY <1>1, TurnIs
<1>3. /\ i \in 1 .. len - 1 /\ j - 1 \in 1 .. len - 1
      /\ \A p \in 1 .. len : p < j => p \in 1 .. len - 1
      /\ \A p \in 1 .. len : p > i => p - 1 \in 1 .. len - 1
  BY <1>1
<1>4. Adjacent(Snake(i), Snake(j)) /\ Adjacent(Snake(j), Snake(i))
  BY SnakeNeighbours
<1>5. \A x \in 1 .. len - 1 :
        /\ v[x] = IF x = i THEN w[j - 1]
                  ELSE IF i < x /\ x < j THEN w[x - 1] ELSE w[x]
        /\ u[x] = IF x = j - 1 THEN w[i]
                  ELSE IF i <= x /\ x < j - 1 THEN w[x + 1] ELSE w[x]
  BY <1>1 DEF Turn, Back
<1> HIDE DEF u, v
<1>6. At(v, j, i) = At(w, i, j)
  BY <1>1, <1>3, <1>5 DEF At
<1>7. At(u, i, j) = At(w, j, i)
  BY <1>1, <1>3, <1>5 DEF At
<1>8. ASSUME NEW p \in 1 .. len, p # i, p # j
      PROVE  At(v, j, p) = At(w, i, p) /\ At(u, i, p) = At(w, j, p)
  <2>1. CASE p < i
    <3>1. p \in 1 .. len - 1 /\ p < j /\ ~(i <= p) /\ p # j - 1
      BY <1>1, <1>3, <2>1
    <3>2. v[p] = w[p] /\ u[p] = w[p]
      BY <1>1, <1>5, <3>1, <2>1
    <3> QED
      BY <1>8, <2>1, <3>1, <3>2 DEF At
  <2>2. CASE i < p /\ p < j
    <3>1. /\ p \in 1 .. len - 1 /\ p - 1 \in 1 .. len - 1 /\ ~(p < i)
          /\ p - 1 + 1 = p /\ i <= p - 1 /\ p - 1 < j - 1 /\ p - 1 # j - 1
      BY <1>1, <1>3, <2>2
    <3>2. v[p] = w[p - 1] /\ u[p - 1] = w[p]
      BY <1>1, <1>5, <3>1, <2>2
    <3> QED
      BY <1>8, <2>2, <3>1, <3>2 DEF At
  <2>3. CASE p > j
    <3>1. /\ p - 1 \in 1 .. len - 1 /\ ~(p < i) /\ ~(p < j)
          /\ p - 1 # i /\ ~(p - 1 < j) /\ p - 1 # j - 1 /\ ~(p - 1 < j - 1)
      BY <1>1, <1>3, <2>3
    <3>2. v[p - 1] = w[p - 1] /\ u[p - 1] = w[p - 1]
      BY <1>1, <1>5, <3>1, <2>3
    <3> QED
      BY <1>8, <2>3, <3>1, <3>2 DEF At
  <2> QED
    BY <1>1, <1>8, <2>1, <2>2, <2>3
<1>9. Lay(v, j, len) \in Moves(Lay(w, i, len))
  BY <1>1, <1>2, <1>4, <1>6, <1>8, LayMoves
<1>10. Lay(u, i, len) \in Moves(Lay(w, j, len))
  BY <1>1, <1>2, <1>4, <1>7, <1>8, LayMoves
<1>11. Lay(w, i, len) \in All /\ Lay(w, j, len) \in All
  BY Slides
<1>12. Lay(v, j, len) \in All /\ Lay(u, i, len) \in All
  BY <1>9, <1>10, <1>11 DEF Closed
<1>13. Lay(v, 1, len) \in All /\ Lay(u, 1, len) \in All
  BY <1>2, <1>12, Slides
<1> QED
  BY <1>13 DEF u, v

(* Three tiles one after the other turn, wherever they are: between two    *)
(* rows they do, and five tiles that turn take three there and back.       *)
LEMMA ThreeTurn ==
  ASSUME Width = 3, NEW len, Rows(len), NEW All, Closed(All),
         NEW w \in Word(len), Lay(w, 1, len) \in All, NEW x \in 2 .. len - 2
  PROVE  Lay(Turn(w, x - 1, x + 2), 1, len) \in All
<1>1. len \in Nat /\ DOMAIN w = 1 .. len - 1 /\ len % 3 = 0 /\ x \in Nat
  BY DEF Rows, Word
<1>2. CASE x % 3 = 0
  <2>1. /\ x - 1 \in 1 .. len /\ x + 2 \in 1 .. len /\ x + 2 = (x - 1) + 3
        /\ (x - 1) % 3 = 2
    BY <1>1, <1>2
  <2> QED
    BY <2>1, Turns
<1>3. CASE x % 3 = 1
  <2> DEFINE i == x - 3
             j == x + 2
             u == Back(w, i, j)
             v == Turn(u, x - 2, x + 1)
             z == Turn(v, i, j)
  <2>1. /\ i \in 1 .. len /\ j \in 1 .. len /\ j = i + 5 /\ i % 3 = 1
        /\ x - 2 \in 1 .. len /\ x + 1 \in 1 .. len /\ x + 1 = (x - 2) + 3
        /\ (x - 2) % 3 = 2 /\ i < j /\ x - 2 < x + 1
    BY <1>1, <1>3
  <2>2. u \in Word(len) /\ Lay(u, 1, len) \in All
    BY <2>1, Turns, TurnIs
  <2>3. v \in Word(len) /\ Lay(v, 1, len) \in All
    BY <2>1, <2>2, Turns, TurnIs
  <2>4. z \in Word(len) /\ Lay(z, 1, len) \in All
    BY <2>1, <2>3, Turns, TurnIs
  <2>5. z = Turn(w, x - 1, x + 2)
    <3>1. x >= 4 /\ x + 2 <= len
      BY <1>1, <2>1
    <3>2. /\ DOMAIN u = 1 .. len - 1 /\ DOMAIN v = 1 .. len - 1
      BY <1>1 DEF Turn, Back
    <3>3. \A y \in 1 .. len - 1 :
            u[y] = IF y = x + 1 THEN w[x - 3]
                   ELSE IF x - 3 <= y /\ y < x + 1 THEN w[y + 1] ELSE w[y]
      BY <1>1 DEF Back
    <3>4. \A y \in 1 .. len - 1 :
            v[y] = IF y = x - 2 THEN u[x]
                   ELSE IF x - 2 < y /\ y < x + 1 THEN u[y - 1] ELSE u[y]
      BY <1>1, <3>2, SMTT(30) DEF Turn
    <3>5. z = [y \in 1 .. len - 1 |-> IF y = x - 3 THEN v[x + 1]
                   ELSE IF x - 3 < y /\ y < x + 2 THEN v[y - 1] ELSE v[y]]
      BY <1>1, <3>2, SMTT(30) DEF Turn
    <3>6. Turn(w, x - 1, x + 2)
            = [y \in 1 .. len - 1 |-> IF y = x - 1 THEN w[x + 1]
                   ELSE IF x - 1 < y /\ y < x + 2 THEN w[y - 1] ELSE w[y]]
      BY <1>1 DEF Turn
    <3> HIDE DEF u, v, z
    <3>7. /\ v[x + 1] = w[x - 3] /\ v[x - 3] = w[x - 2] /\ v[x - 2] = w[x + 1]
          /\ v[x - 1] = w[x - 1] /\ v[x] = w[x]
      BY <1>1, <3>1, <3>3, <3>4
    <3>8. \A y \in 1 .. len - 1 : ~(x - 3 <= y /\ y < x + 2) => v[y] = w[y]
      BY <1>1, <3>1, <3>3, <3>4, SMTT(30)
    <3>9. ASSUME NEW y \in 1 .. len - 1
          PROVE  (IF y = x - 3 THEN v[x + 1]
                  ELSE IF x - 3 < y /\ y < x + 2 THEN v[y - 1] ELSE v[y])
                 = (IF y = x - 1 THEN w[x + 1]
                    ELSE IF x - 1 < y /\ y < x + 2 THEN w[y - 1] ELSE w[y])
      <4>1. \/ y = x - 3 \/ y = x - 2 \/ y = x - 1 \/ y = x \/ y = x + 1
            \/ ~(x - 3 <= y /\ y < x + 2)
        BY <1>1
      <4> QED
        BY <1>1, <3>1, <3>7, <3>8, <4>1
    <3> QED
      BY <3>5, <3>6, <3>9
  <2> QED
    BY <2>4, <2>5
<1>4. CASE x % 3 = 2
  <2> DEFINE i == x - 1
             j == x + 4
             u == Turn(w, i, j)
             v == Turn(u, x, x + 3)
             z == Back(v, i, j)
  <2>1. /\ i \in 1 .. len /\ j \in 1 .. len /\ j = i + 5 /\ i % 3 = 1
        /\ x \in 1 .. len /\ x + 3 \in 1 .. len /\ i < j /\ x < x + 3
    <3>1. x # len - 2 /\ x # len - 3
      BY <1>1, <1>4
    <3> QED
      BY <1>1, <1>4, <3>1
  <2>2. u \in Word(len) /\ Lay(u, 1, len) \in All
    BY <2>1, Turns, TurnIs
  <2>3. v \in Word(len) /\ Lay(v, 1, len) \in All
    BY <1>4, <2>1, <2>2, Turns, TurnIs
  <2>4. z \in Word(len) /\ Lay(z, 1, len) \in All
    BY <2>1, <2>3, Turns, TurnIs
  <2>5. z = Turn(w, x - 1, x + 2)
    <3>1. x >= 2 /\ x + 4 <= len
      BY <1>1, <2>1
    <3>2. /\ DOMAIN u = 1 .. len - 1 /\ DOMAIN v = 1 .. len - 1
      BY <1>1 DEF Turn, Back
    <3>3. \A y \in 1 .. len - 1 :
            u[y] = IF y = x - 1 THEN w[x + 3]
                   ELSE IF x - 1 < y /\ y < x + 4 THEN w[y - 1] ELSE w[y]
      BY <1>1 DEF Turn
    <3>4. \A y \in 1 .. len - 1 :
            v[y] = IF y = x THEN u[x + 2]
                   ELSE IF x < y /\ y < x + 3 THEN u[y - 1] ELSE u[y]
      BY <1>1, <3>2, SMTT(30) DEF Turn
    <3>5. z = [y \in 1 .. len - 1 |-> IF y = x + 3 THEN v[x - 1]
                   ELSE IF x - 1 <= y /\ y < x + 3 THEN v[y + 1] ELSE v[y]]
      BY <1>1, <3>2 DEF Back
    <3>6. Turn(w, x - 1, x + 2)
            = [y \in 1 .. len - 1 |-> IF y = x - 1 THEN w[x + 1]
                   ELSE IF x - 1 < y /\ y < x + 2 THEN w[y - 1] ELSE w[y]]
      BY <1>1 DEF Turn
    <3> HIDE DEF u, v, z
    <3>7. /\ v[x - 1] = w[x + 3] /\ v[x] = w[x + 1] /\ v[x + 1] = w[x - 1]
          /\ v[x + 2] = w[x] /\ v[x + 3] = w[x + 2]
      BY <1>1, <3>1, <3>3, <3>4
    <3>8. \A y \in 1 .. len - 1 : ~(x - 1 <= y /\ y < x + 4) => v[y] = w[y]
      BY <1>1, <3>1, <3>3, <3>4, SMTT(30)
    <3>9. ASSUME NEW y \in 1 .. len - 1
          PROVE  (IF y = x + 3 THEN v[x - 1]
                  ELSE IF x - 1 <= y /\ y < x + 3 THEN v[y + 1] ELSE v[y])
                 = (IF y = x - 1 THEN w[x + 1]
                    ELSE IF x - 1 < y /\ y < x + 2 THEN w[y - 1] ELSE w[y])
      <4>1. \/ y = x - 1 \/ y = x \/ y = x + 1 \/ y = x + 2 \/ y = x + 3
            \/ ~(x - 1 <= y /\ y < x + 4)
        BY <1>1
      <4> QED
        BY <1>1, <3>1, <3>7, <3>8, <4>1
    <3> QED
      BY <3>5, <3>6, <3>9
  <2> QED
    BY <2>4, <2>5
<1> QED
  BY <1>1, <1>2, <1>3, <1>4
-----------------------------------------------------------------------------
(* The same tiles, each once.                                              *)
Sorted(w, t) == IsInjective(w) /\ Range(w) = Range(t)
Agree(w, t, p) == \A x \in 1 .. p : w[x] = t[x]

LEMMA TurnSorted ==
  ASSUME NEW len \in Nat, NEW w \in Word(len), NEW t, Sorted(w, t),
         NEW x \in 2 .. len - 2
  PROVE  LET v == Turn(w, x - 1, x + 2)
         IN /\ v \in Word(len) /\ Sorted(v, t)
            /\ v[x - 1] = w[x + 1] /\ v[x] = w[x - 1] /\ v[x + 1] = w[x]
            /\ \A y \in 1 .. len - 1 :
                 y # x - 1 /\ y # x /\ y # x + 1 => v[y] = w[y]
<1> DEFINE v == Turn(w, x - 1, x + 2)
           From(y) == IF y = x - 1 THEN x + 1 ELSE IF y = x THEN x - 1
                      ELSE IF y = x + 1 THEN x ELSE y
           To(y) == IF y = x + 1 THEN x - 1 ELSE IF y = x - 1 THEN x
                    ELSE IF y = x THEN x + 1 ELSE y
<1>1. /\ DOMAIN w = 1 .. len - 1 /\ DOMAIN v = 1 .. len - 1 /\ x \in Nat
      /\ x - 1 \in 1 .. len - 1 /\ x \in 1 .. len - 1 /\ x + 1 \in 1 .. len - 1
  BY DEF Word, Turn
<1>2. \A y \in 1 .. len - 1 :
        /\ From(y) \in 1 .. len - 1 /\ To(y) \in 1 .. len - 1
        /\ From(To(y)) = y /\ To(From(y)) = y
  BY <1>1
<1>3. v = [y \in 1 .. len - 1 |-> w[From(y)]]
  <2>1. v = [y \in 1 .. len - 1 |->
               IF y = x - 1 THEN w[(x + 2) - 1]
               ELSE IF x - 1 < y /\ y < x + 2 THEN w[y - 1] ELSE w[y]]
    BY <1>1 DEF Turn
  <2>2. ASSUME NEW y \in 1 .. len - 1
        PROVE  (IF y = x - 1 THEN w[(x + 2) - 1]
                ELSE IF x - 1 < y /\ y < x + 2 THEN w[y - 1] ELSE w[y])
                  = w[From(y)]
    <3>1. y = x - 1 \/ y = x \/ y = x + 1 \/ ~(x - 1 <= y /\ y < x + 2)
      BY <1>1
    <3> QED
      BY <1>1, <3>1
  <2> HIDE DEF v
  <2> QED
    BY <2>1, <2>2
<1>4. \A y \in 1 .. len - 1 : v[y] = w[From(y)] /\ w[y] = v[To(y)]
  <2> HIDE DEF From, To, v
  <2> QED
    BY <1>2, <1>3
<1>5. v \in Word(len)
  <2> HIDE DEF From, To, v
  <2> QED
    BY <1>2, <1>3 DEF Word
<1>6. IsInjective(v)
  <2> HIDE DEF From, To, v
  <2>1. ASSUME NEW y \in 1 .. len - 1, NEW z \in 1 .. len - 1, v[y] = v[z]
        PROVE  y = z
    <3>1. From(y) = From(z)
      BY <1>1, <1>2, <1>4, <2>1 DEF Sorted, IsInjective
    <3> QED
      BY <1>2, <3>1
  <2> QED
    BY <1>1, <2>1 DEF IsInjective
<1>7. Range(v) = Range(w)
  <2> HIDE DEF From, To, v
  <2> QED
    BY <1>1, <1>2, <1>4 DEF Range
<1>8. v[x - 1] = w[x + 1] /\ v[x] = w[x - 1] /\ v[x + 1] = w[x]
  <2>1. From(x - 1) = x + 1 /\ From(x) = x - 1 /\ From(x + 1) = x
    BY <1>1
  <2> HIDE DEF From, To, v
  <2> QED
    BY <1>1, <1>4, <2>1
<1>9. \A y \in 1 .. len - 1 : y # x - 1 /\ y # x /\ y # x + 1 => v[y] = w[y]
  <2>1. \A y \in 1 .. len - 1 : y # x - 1 /\ y # x /\ y # x + 1 => From(y) = y
    OBVIOUS
  <2> HIDE DEF From, To, v
  <2> QED
    BY <1>4, <2>1
<1> QED
  BY <1>5, <1>6, <1>7, <1>8, <1>9 DEF Sorted

(* When three tiles may turn, one tile after the other gets to its place,  *)
(* but for the last two.                                                   *)
LEMMA Settles ==
  ASSUME NEW len \in Nat, len > 3, NEW S \in SUBSET Word(len),
         \A w \in S, x \in 2 .. len - 2 : Turn(w, x - 1, x + 2) \in S,
         NEW w0 \in S, NEW t \in Word(len), Sorted(w0, t), IsInjective(t)
  PROVE  \E w \in S : Sorted(w, t) /\ Agree(w, t, len - 3)
<1> DEFINE Q == {w \in S : Sorted(w, t)}
           D == {d \in 0 .. len - 3 : \E w \in Q : Agree(w, t, len - 3 - d)}
<1>1. \A w \in Q : DOMAIN w = 1 .. len - 1 /\ IsInjective(w) /\ Range(w) = Range(t)
  BY DEF Word, Sorted
<1>2. DOMAIN t = 1 .. len - 1
  BY DEF Word
<1>3. ASSUME NEW w \in Q, NEW x \in 2 .. len - 2
      PROVE  \E v \in Q : /\ v[x - 1] = w[x + 1] /\ v[x] = w[x - 1]
                          /\ v[x + 1] = w[x]
                          /\ \A y \in 1 .. len - 1 :
                               y # x - 1 /\ y # x /\ y # x + 1 => v[y] = w[y]
  BY TurnSorted
<1>4. PICK d \in D : \A e \in D : d <= e
  <2>1. w0 \in Q /\ Agree(w0, t, len - 3 - (len - 3))
    BY DEF Agree
  <2>2. len - 3 \in D
    <3>1. len - 3 \in 0 .. len - 3
      OBVIOUS
    <3> HIDE DEF Q
    <3> QED
      BY <2>1, <3>1
  <2>3. D \subseteq Nat
    OBVIOUS
  <2> HIDE DEF D
  <2> QED
    BY <2>2, <2>3, Least
<1>5. d \in 0 .. len - 3
  OBVIOUS
<1>6. CASE d # 0
  <2> DEFINE p == len - 3 - d
             K == {q \in p + 1 .. len - 1 :
                     \E w \in Q : Agree(w, t, p) /\ w[q] = t[p + 1]}
  <2>1. p \in Nat /\ p + 1 <= len - 3 /\ d = len - 3 - p
    BY <1>5, <1>6
  <2>2. PICK w \in Q : Agree(w, t, p)
    OBVIOUS
  <2>3. ~\E v \in Q : Agree(v, t, p + 1)
    <3>1. d - 1 \in 0 .. len - 3 /\ len - 3 - (d - 1) = p + 1
      BY <1>5, <1>6
    <3>2. d - 1 \notin D
      <4>1. \A e \in D : d <= e
        BY <1>4
      <4> HIDE DEF D
      <4> QED
        BY <1>5, <4>1
    <3> QED
      BY <3>1, <3>2
  <2> HIDE DEF p, D, Q
  <2>4. ASSUME NEW v \in Q, Agree(v, t, p), v[p + 1] = t[p + 1]
        PROVE  FALSE
    <3>1. \A x \in 1 .. p + 1 : x \in 1 .. p \/ x = p + 1
      BY <2>1
    <3> QED
      BY <2>3, <2>4, <3>1 DEF Agree
  <2>5. K # {}
    <3>1. p + 1 \in DOMAIN t
      BY <1>2, <2>1
    <3>2. PICK q \in 1 .. len - 1 : w[q] = t[p + 1]
      BY <1>1, <2>2, <3>1 DEF Range
    <3>3. q \notin 1 .. p
      <4>1. ASSUME q \in 1 .. p
            PROVE  FALSE
        <5>1. w[q] = t[q] /\ t[q] = t[p + 1]
          BY <2>2, <3>2, <4>1 DEF Agree
        <5>2. q = p + 1
          BY <1>2, <3>1, <3>2, <5>1 DEF IsInjective
        <5> QED
          BY <2>1, <4>1, <5>2
      <4> QED
        BY <4>1
    <3>4. q \in p + 1 .. len - 1
      BY <2>1, <3>2, <3>3
    <3> QED
      BY <2>2, <3>2, <3>4
  <2>6. PICK q \in K : \A e \in K : q <= e
    <3>1. K \in SUBSET Nat
      BY <2>1
    <3> HIDE DEF K
    <3> QED
      BY <2>5, <3>1, Least
  <2>7. PICK v \in Q : Agree(v, t, p) /\ v[q] = t[p + 1]
    BY <2>6
  <2>8. q \in p + 1 .. len - 1 /\ q \in Nat
    BY <2>1, <2>6
  <2>9. ASSUME NEW u \in Q, NEW e \in p + 1 .. len - 1, e < q,
               u[e] = t[p + 1], Agree(u, t, p)
        PROVE  FALSE
    <3>1. e \in K
      BY <2>9
    <3> HIDE DEF K
    <3> QED
      BY <2>1, <2>6, <2>8, <2>9, <3>1
  <2> HIDE DEF K
  <2>10. CASE q = p + 1
    BY <2>4, <2>7, <2>10
  <2>11. CASE q = p + 2
    <3>1. /\ q \in 2 .. len - 2 /\ q - 1 = p + 1
          /\ \A y \in 1 .. p : y \in 1 .. len - 1 /\ y # q - 1 /\ y # q /\ y # q + 1
      BY <2>1, <2>8, <2>11
    <3>2. PICK u \in Q : /\ u[q + 1] = v[q]
                         /\ \A y \in 1 .. len - 1 :
                              y # q - 1 /\ y # q /\ y # q + 1 => u[y] = v[y]
      BY <1>3, <3>1
    <3>3. PICK z \in Q : /\ z[q - 1] = u[q + 1]
                         /\ \A y \in 1 .. len - 1 :
                              y # q - 1 /\ y # q /\ y # q + 1 => z[y] = u[y]
      BY <1>3, <3>1
    <3>4. Agree(z, t, p)
      BY <2>7, <3>1, <3>2, <3>3 DEF Agree
    <3>5. z[p + 1] = t[p + 1]
      BY <2>7, <3>1, <3>2, <3>3
    <3> QED
      BY <2>4, <3>4, <3>5
  <2>12. CASE q > p + 2
    <3> DEFINE x == q - 1
    <3>1. /\ x \in 2 .. len - 2 /\ x + 1 = q /\ x - 1 \in p + 1 .. len - 1
          /\ x - 1 < q
          /\ \A y \in 1 .. p : y \in 1 .. len - 1 /\ y # x - 1 /\ y # x /\ y # x + 1
      BY <2>1, <2>8, <2>12
    <3> HIDE DEF x
    <3>2. PICK u \in Q : /\ u[x - 1] = v[x + 1]
                         /\ \A y \in 1 .. len - 1 :
                              y # x - 1 /\ y # x /\ y # x + 1 => u[y] = v[y]
      BY <1>3, <3>1
    <3>3. Agree(u, t, p)
      BY <2>7, <3>1, <3>2 DEF Agree
    <3>4. u[x - 1] = t[p + 1]
      BY <2>7, <3>1, <3>2
    <3> QED
      BY <2>9, <3>1, <3>3, <3>4
  <2> QED
    BY <2>8, <2>10, <2>11, <2>12, <2>1
<1>7. CASE d = 0
  <2>1. len - 3 - 0 = len - 3
    OBVIOUS
  <2> QED
    BY <1>7, <2>1
<1> QED
  BY <1>6, <1>7
-----------------------------------------------------------------------------
(* Two tiles one after the other, exchanged: the inversions are one more   *)
(* or one less.                                                            *)
LEMMA OneMore ==
  ASSUME NEW b \in Seq(Nat), NEW c \in Seq(Nat), NEW k \in Nat,
         DOMAIN c = DOMAIN b, k \in DOMAIN b, k + 1 \in DOMAIN b,
         b[k] < b[k + 1], c[k] = b[k + 1], c[k + 1] = b[k],
         \A x \in DOMAIN b : x # k /\ x # k + 1 => c[x] = b[x]
  PROVE  Cardinality(Inversions(c)) = Cardinality(Inversions(b)) + 1
<1> DEFINE D == DOMAIN b
           B == Inversions(b)
           C == Inversions(c)
           one == <<k, k + 1>>
           To(x) == IF x = k THEN k + 1 ELSE IF x = k + 1 THEN k ELSE x
           f == [p \in B |-> <<To(p[1]), To(p[2])>>]
<1>1. /\ D \subseteq Nat /\ k \in D /\ k + 1 \in D
      /\ \A x \in D : b[x] \in Nat /\ c[x] \in Nat
  <2>1. /\ D = 1 .. Len(b) /\ Len(b) \in Nat
        /\ \A x \in D : b[x] \in Nat
        /\ \A x \in DOMAIN c : c[x] \in Nat
    <3>1. D = 1 .. Len(b) /\ Len(b) \in Nat
      BY LenProperties
    <3>2. DOMAIN c = 1 .. Len(c)
      BY LenProperties
    <3>3. \A x \in 1 .. Len(b) : b[x] \in Nat
      BY ElementOfSeq
    <3>4. \A x \in 1 .. Len(c) : c[x] \in Nat
      BY ElementOfSeq
    <3> QED
      BY <3>1, <3>2, <3>3, <3>4
  <2> HIDE DEF D
  <2>2. k \in D /\ k + 1 \in D /\ DOMAIN c = D
    BY DEF D
  <2>3. D \subseteq Nat
    BY <2>1
  <2> QED
    BY <2>1, <2>2, <2>3
<1>2. \A x \in D : To(x) \in D /\ To(To(x)) = x /\ c[To(x)] = b[x] /\ c[x] = b[To(x)]
  <2>1. k # k + 1
    OBVIOUS
  <2> QED
    BY <1>1, <2>1
<1>3. /\ \A i, j : <<i, j>> \in B <=> i \in D /\ j \in D /\ i < j /\ b[i] > b[j]
      /\ \A i, j : <<i, j>> \in C <=> i \in D /\ j \in D /\ i < j /\ c[i] > c[j]
      /\ \A p \in B : p = <<p[1], p[2]>>
      /\ \A p \in C : p = <<p[1], p[2]>>
  BY DEF Inversions
<1>4. \A i, j \in D : i < j /\ ~(i = k /\ j = k + 1) => To(i) < To(j)
  <2> HIDE DEF D
  <2> SUFFICES ASSUME NEW i \in D, NEW j \in D, i < j, ~(i = k /\ j = k + 1)
               PROVE  To(i) < To(j)
    OBVIOUS
  <2>1. i \in Nat /\ j \in Nat
    BY <1>1
  <2> QED
    BY <2>1
<1>5. /\ b[k] < b[k + 1] /\ c[k] > c[k + 1] /\ k < k + 1
      /\ To(k) = k + 1 /\ To(k + 1) = k
  BY <1>1
<1> HIDE DEF D, B, C, To
<1>6. ASSUME NEW i, NEW j, <<i, j>> \in B
      PROVE  <<To(i), To(j)>> \in C \ {one}
  <2>1. i \in D /\ j \in D /\ i < j /\ b[i] > b[j] /\ i \in Nat /\ j \in Nat
    BY <1>1, <1>3, <1>6
  <2>2. ~(i = k /\ j = k + 1)
    BY <1>1, <1>5, <2>1
  <2>3. To(i) \in D /\ To(j) \in D /\ To(i) < To(j) /\ c[To(i)] > c[To(j)]
    BY <1>2, <1>4, <2>1, <2>2
  <2>4. ~(To(i) = k /\ To(j) = k + 1)
    <3>1. ASSUME To(i) = k, To(j) = k + 1
          PROVE  FALSE
      <4>1. i = k + 1 /\ j = k
        BY <1>2, <1>5, <2>1, <3>1
      <4> QED
        BY <2>1, <4>1
    <3> QED
      BY <3>1
  <2> QED
    BY <1>3, <2>3, <2>4
<1>7. ASSUME NEW i, NEW j, <<i, j>> \in C \ {one}
      PROVE  <<To(i), To(j)>> \in B
  <2>1. i \in D /\ j \in D /\ i < j /\ c[i] > c[j] /\ i \in Nat /\ j \in Nat
    BY <1>1, <1>3, <1>7
  <2>2. ~(i = k /\ j = k + 1)
    BY <1>7
  <2>3. To(i) \in D /\ To(j) \in D /\ To(i) < To(j) /\ b[To(i)] > b[To(j)]
    BY <1>2, <1>4, <2>1, <2>2
  <2> QED
    BY <1>3, <2>3
<1>8. \A p \in B : f[p] = <<To(p[1]), To(p[2])>> /\ p[1] \in D /\ p[2] \in D
  <2>1. \A p \in B : <<p[1], p[2]>> \in B
    BY <1>3
  <2> QED
    BY <1>3, <2>1
<1>9. f \in [B -> C \ {one}]
  <2>1. \A p \in B : <<To(p[1]), To(p[2])>> \in C \ {one}
    BY <1>3, <1>6
  <2> QED
    BY <2>1
<1> HIDE DEF f
<1>10. ASSUME NEW p \in B, NEW q \in B, f[p] = f[q]
       PROVE  p = q
  <2>1. To(p[1]) = To(q[1]) /\ To(p[2]) = To(q[2])
    BY <1>8, <1>10
  <2>2. p[1] = q[1] /\ p[2] = q[2]
    BY <1>2, <1>8, <2>1
  <2> QED
    BY <1>3, <2>2
<1>11. ASSUME NEW z \in C \ {one}
       PROVE  \E p \in B : f[p] = z
  <2>1. z = <<z[1], z[2]>> /\ <<z[1], z[2]>> \in C \ {one}
    BY <1>3
  <2> DEFINE p == <<To(z[1]), To(z[2])>>
  <2>2. p \in B /\ p[1] = To(z[1]) /\ p[2] = To(z[2])
    BY <1>7, <2>1
  <2>3. z[1] \in D /\ z[2] \in D
    BY <1>3, <2>1
  <2> HIDE DEF p
  <2>4. f[p] = <<z[1], z[2]>>
    BY <1>2, <1>8, <2>2, <2>3
  <2> QED
    BY <2>1, <2>2, <2>4
<1>12. IsFiniteSet(B) /\ Cardinality(B) \in Nat
  BY InversionsFinite DEF B
<1>13. IsFiniteSet(C \ {one}) /\ Cardinality(C \ {one}) = Cardinality(B)
  BY <1>9, <1>10, <1>11, <1>12, SameSize
<1>14. one \in C
  <2>1. <<k, k + 1>> \in C <=>
          k \in D /\ k + 1 \in D /\ k < k + 1 /\ c[k] > c[k + 1]
    BY <1>3
  <2> QED
    BY <1>1, <1>5, <2>1
<1>15. /\ C = (C \ {one}) \cup {one} /\ one \notin C \ {one}
  BY <1>14
<1>16. Cardinality((C \ {one}) \cup {one}) = Cardinality(C \ {one}) + 1
  BY <1>13, <1>15, FS_AddElement
<1> QED
  BY <1>13, <1>15, <1>16 DEF B, C

LEMMA TilesOfBoard ==
  ASSUME NEW len, Rows(len), NEW w \in Word(len), NEW e \in 1 .. len
  PROVE  /\ Range(Lay(w, e, len)) = Range(w) \cup {0}
         /\ 0 \notin Range(w)
         /\ IsInjective(Lay(w, e, len)) <=> IsInjective(w)
<1> DEFINE b == Lay(w, e, len)
           Place(x) == IF x < e THEN x ELSE x + 1
<1>1. /\ len \in Nat /\ DOMAIN w = 1 .. len - 1
      /\ \A p \in 1 .. len : Snake(p) \in 1 .. len /\ Snake(Snake(p)) = p
  BY SnakeIs DEF Rows, Word
<1>2. /\ DOMAIN b = 1 .. len
      /\ \A p \in 1 .. len : b[Snake(p)] = At(w, e, p)
      /\ \A k \in 1 .. len : b[k] = At(w, e, Snake(k))
  <2>1. DOMAIN b = 1 .. len /\ \A p \in 1 .. len : b[Snake(p)] = At(w, e, p)
    BY LayIs
  <2>2. \A k \in 1 .. len : b[k] = At(w, e, Snake(k))
    BY DEF Lay
  <2> QED
    BY <2>1, <2>2
<1>3. \A x \in 1 .. len - 1 : w[x] \in Nat \ {0}
  BY DEF Word
<1>4. \A x \in 1 .. len - 1 : Place(x) \in 1 .. len /\ At(w, e, Place(x)) = w[x]
  BY <1>1 DEF At
<1>5. \A p \in 1 .. len : p # e => \E x \in 1 .. len - 1 : p = Place(x)
  <2> SUFFICES ASSUME NEW p \in 1 .. len, p # e
               PROVE  \E x \in 1 .. len - 1 : p = Place(x)
    OBVIOUS
  <2>1. CASE p < e
    <3>1. p \in 1 .. len - 1 /\ p = Place(p)
      BY <1>1, <2>1
    <3> HIDE DEF Place
    <3> QED
      BY <3>1
  <2>2. CASE p > e
    <3>1. p - 1 \in 1 .. len - 1 /\ p = Place(p - 1)
      BY <1>1, <2>2
    <3> HIDE DEF Place
    <3> QED
      BY <3>1
  <2> QED
    BY <1>1, <2>1, <2>2
<1>6. \A x, y \in 1 .. len - 1 : Place(x) = Place(y) => x = y
  BY <1>1
<1>7. At(w, e, e) = 0
  BY <1>1 DEF At
<1> HIDE DEF b, Place
<1>8. 0 \notin Range(w)
  BY <1>1, <1>3 DEF Range
<1>9. Range(b) = Range(w) \cup {0}
  <2>1. ASSUME NEW z \in Range(b)
        PROVE  z \in Range(w) \cup {0}
    <3>1. PICK k \in 1 .. len : z = At(w, e, Snake(k))
      BY <1>2, <2>1 DEF Range
    <3>2. CASE Snake(k) = e
      BY <1>7, <3>1, <3>2
    <3>3. CASE Snake(k) # e
      <4>1. PICK x \in 1 .. len - 1 : Snake(k) = Place(x)
        BY <1>1, <1>5, <3>3
      <4>2. z = w[x]
        BY <1>4, <3>1, <4>1
      <4> QED
        BY <1>1, <4>2 DEF Range
    <3> QED
      BY <3>2, <3>3
  <2>2. ASSUME NEW x \in 1 .. len - 1
        PROVE  w[x] \in Range(b)
    <3>1. Snake(Place(x)) \in 1 .. len /\ b[Snake(Place(x))] = w[x]
      BY <1>1, <1>2, <1>4
    <3> QED
      BY <1>2, <3>1 DEF Range
  <2>3. 0 \in Range(b)
    <3>1. Snake(e) \in 1 .. len /\ b[Snake(e)] = 0
      BY <1>1, <1>2, <1>7
    <3> QED
      BY <1>2, <3>1 DEF Range
  <2>4. \A z \in Range(w) : \E x \in 1 .. len - 1 : z = w[x]
    BY <1>1 DEF Range
  <2> QED
    BY <2>1, <2>2, <2>3, <2>4
<1>10. ASSUME IsInjective(b)
       PROVE  IsInjective(w)
  <2>1. ASSUME NEW x \in 1 .. len - 1, NEW y \in 1 .. len - 1, w[x] = w[y]
        PROVE  x = y
    <3>1. /\ Snake(Place(x)) \in 1 .. len /\ b[Snake(Place(x))] = w[x]
          /\ Snake(Place(y)) \in 1 .. len /\ b[Snake(Place(y))] = w[y]
      BY <1>1, <1>2, <1>4
    <3>2. Snake(Place(x)) = Snake(Place(y))
      BY <1>2, <1>10, <2>1, <3>1 DEF IsInjective
    <3>3. Place(x) = Place(y)
      BY <1>1, <1>4, <3>2
    <3> QED
      BY <1>6, <3>3
  <2> QED
    BY <1>1, <2>1 DEF IsInjective
<1>11. ASSUME IsInjective(w)
       PROVE  IsInjective(b)
  <2>1. ASSUME NEW k \in 1 .. len, NEW m \in 1 .. len, b[k] = b[m]
        PROVE  k = m
    <3> DEFINE p == Snake(k)
               q == Snake(m)
    <3>1. /\ p \in 1 .. len /\ q \in 1 .. len /\ Snake(p) = k /\ Snake(q) = m
          /\ At(w, e, p) = At(w, e, q)
      BY <1>1, <1>2, <2>1
    <3> HIDE DEF p, q
    <3>2. CASE p = e
      <4>1. At(w, e, q) = 0
        BY <1>7, <3>1, <3>2
      <4>2. q = e
        BY <1>3, <1>4, <1>5, <3>1, <4>1
      <4> QED
        BY <3>1, <3>2, <4>2
    <3>3. CASE q = e
      <4>1. At(w, e, p) = 0
        BY <1>7, <3>1, <3>3
      <4>2. p = e
        BY <1>3, <1>4, <1>5, <3>1, <4>1
      <4> QED
        BY <3>1, <3>3, <4>2
    <3>4. CASE p # e /\ q # e
      <4>1. PICK x \in 1 .. len - 1 : p = Place(x)
        BY <1>5, <3>1, <3>4
      <4>2. PICK y \in 1 .. len - 1 : q = Place(y)
        BY <1>5, <3>1, <3>4
      <4>3. w[x] = w[y]
        BY <1>4, <3>1, <4>1, <4>2
      <4>4. x = y
        BY <1>1, <1>11, <4>3 DEF IsInjective
      <4> QED
        BY <3>1, <4>1, <4>2, <4>4
    <3> QED
      BY <3>2, <3>3, <3>4
  <2> QED
    BY <1>2, <2>1 DEF IsInjective
<1> QED
  BY <1>8, <1>9, <1>10, <1>11 DEF b

(* A word with its last two tiles exchanged has the other parity.          *)
LEMMA OtherParity ==
  ASSUME Width = 3, NEW len, Rows(len), NEW w \in Word(len), NEW t \in Word(len),
         IsInjective(w), w # t, Sorted(w, t), IsInjective(t), Agree(w, t, len - 3)
  PROVE  Parity(Lay(w, 1, len)) # Parity(Lay(t, 1, len))
<1> DEFINE b == Lay(w, 1, len)
           c == Lay(t, 1, len)
           x == len - 2
           y == len - 1
           u == Snake(len - 1)
           v == Snake(len)
<1>1. /\ len \in Nat /\ len >= 6 /\ len % 3 = 0
      /\ DOMAIN w = 1 .. len - 1 /\ DOMAIN t = 1 .. len - 1
      /\ x \in 1 .. len - 1 /\ y \in 1 .. len - 1 /\ x # y
      /\ \A z \in 1 .. len - 1 : z = x \/ z = y \/ z \in 1 .. len - 3
  <2>1. len \in Nat /\ len >= 6 /\ len % 3 = 0
    BY DEF Rows
  <2>2. DOMAIN w = 1 .. len - 1 /\ DOMAIN t = 1 .. len - 1
    BY DEF Word
  <2>3. x \in 1 .. len - 1 /\ y \in 1 .. len - 1 /\ x # y
    BY <2>1
  <2>4. \A z \in 1 .. len - 1 : z = x \/ z = y \/ z \in 1 .. len - 3
    BY <2>1
  <2> QED
    BY <2>1, <2>2, <2>3, <2>4
<1> HIDE DEF x, y
<1>2. \A z \in 1 .. len - 1 : z # x /\ z # y => w[z] = t[z]
  BY <1>1 DEF Agree
<1>3. w[x] \in {t[x], t[y]} /\ w[y] \in {t[x], t[y]}
  <2>1. ASSUME NEW z \in {x, y}
        PROVE  w[z] \in {t[x], t[y]}
    <3>1. z \in 1 .. len - 1 /\ w[z] \in Range(t)
      BY <1>1 DEF Sorted, Range
    <3>2. PICK a \in 1 .. len - 1 : w[z] = t[a]
      BY <1>1, <3>1 DEF Range
    <3>3. CASE a # x /\ a # y
      <4>1. w[a] = w[z]
        BY <1>2, <3>2, <3>3
      <4> QED
        BY <1>1, <3>1, <3>3, <4>1 DEF IsInjective
    <3> QED
      BY <3>2, <3>3
  <2> QED
    BY <2>1
<1>4. w[x] = t[y] /\ w[y] = t[x]
  <2>1. w[x] # w[y]
    BY <1>1 DEF IsInjective
  <2>2. CASE w[x] = t[x]
    <3>1. w[y] = t[y]
      BY <1>3, <2>1, <2>2
    <3>2. \A z \in 1 .. len - 1 : w[z] = t[z]
      BY <1>2, <2>2, <3>1
    <3>3. w = [z \in 1 .. len - 1 |-> w[z]] /\ t = [z \in 1 .. len - 1 |-> t[z]]
      BY DEF Word
    <3>4. [z \in 1 .. len - 1 |-> w[z]] = [z \in 1 .. len - 1 |-> t[z]]
      BY <3>2
    <3> QED
      BY <3>3, <3>4
  <2> QED
    BY <1>3, <2>1, <2>2
<1>5. w[x] # w[y] /\ w[x] \in Nat /\ w[y] \in Nat
  BY <1>1 DEF IsInjective, Word
<1>6. /\ b \in Board /\ c \in Board /\ DOMAIN b = 1 .. len /\ DOMAIN c = 1 .. len
      /\ Empty(b) = Snake(1) /\ Empty(c) = Snake(1)
      /\ \A p \in 1 .. len : b[Snake(p)] = At(w, 1, p) /\ c[Snake(p)] = At(t, 1, p)
  <2>1. 1 \in 1 .. len
    BY <1>1
  <2> QED
    BY <2>1, LayIs
<1>7. /\ u \in 1 .. len /\ v \in 1 .. len /\ (v = u + 1 \/ u = v + 1)
      /\ \A p \in 1 .. len : Snake(p) \in 1 .. len /\ Snake(Snake(p)) = p
      /\ Snake(u) = len - 1 /\ Snake(v) = len
  <2>1. \A p \in 1 .. len : Snake(p) \in 1 .. len /\ Snake(Snake(p)) = p
    BY SnakeIs
  <2>2. len - 1 \in 1 .. len /\ len \in 1 .. len
    BY <1>1
  <2> DEFINE q == len \div 3 - 1
  <2>3. q \in Nat /\ len = 3 * q + 3
    BY <1>1
  <2> HIDE DEF q
  <2>4. (len - 1) \div 3 = q /\ (len - 1 - 1) \div 3 = q
    <3>1. /\ len - 1 \in Nat /\ len - 1 - 1 \in Nat /\ 2 \in 0 .. 2 /\ 1 \in 0 .. 2
          /\ len - 1 = 3 * q + 2 /\ len - 1 - 1 = 3 * q + 1
      BY <1>1, <2>3
    <3> QED
      BY <2>3, <3>1, Thirds
  <2>5. /\ u = IF q % 2 = 0 THEN len - 1 ELSE 6 * q + 4 - (len - 1)
        /\ v = IF q % 2 = 0 THEN len ELSE 6 * q + 4 - len
    BY <2>4 DEF Snake
  <2>6. v = u + 1 \/ u = v + 1
    <3> HIDE DEF u, v
    <3> QED
      BY <1>1, <2>3, <2>5
  <2> QED
    BY <2>1, <2>2, <2>6
<1>8. /\ b[u] = w[x] /\ b[v] = w[y] /\ c[u] = w[y] /\ c[v] = w[x]
      /\ \A k \in 1 .. len : k # u /\ k # v => c[k] = b[k]
  <2>1. /\ At(w, 1, len - 1) = w[x] /\ At(w, 1, len) = w[y]
        /\ At(t, 1, len - 1) = t[x] /\ At(t, 1, len) = t[y]
    <3>1. /\ ~(len - 1 < 1) /\ len - 1 # 1 /\ (len - 1) - 1 = len - 2
          /\ ~(len < 1) /\ len # 1
      BY <1>1
    <3> QED
      BY <3>1 DEF At, x, y
  <2>2. len - 1 \in 1 .. len /\ len \in 1 .. len
    BY <1>1
  <2>3. b[u] = w[x] /\ b[v] = w[y] /\ c[u] = w[y] /\ c[v] = w[x]
    BY <1>4, <1>6, <2>1, <2>2
  <2>4. ASSUME NEW k \in 1 .. len, k # u, k # v
        PROVE  c[k] = b[k]
    <3> DEFINE p == Snake(k)
    <3>1. p \in 1 .. len /\ Snake(p) = k /\ p # len - 1 /\ p # len
      BY <1>7, <2>4
    <3> HIDE DEF p
    <3>2. At(w, 1, p) = At(t, 1, p)
      <4>1. CASE p = 1
        BY <4>1 DEF At
      <4>2. CASE p # 1
        <5>1. p - 1 \in 1 .. len - 1 /\ p - 1 # x /\ p - 1 # y /\ ~(p < 1)
          BY <1>1, <3>1, <4>2 DEF x, y
        <5> QED
          BY <1>2, <4>2, <5>1 DEF At
      <4> QED
        BY <4>1, <4>2
    <3> QED
      BY <1>6, <3>1, <3>2
  <2> QED
    BY <2>3, <2>4
<1>9. b \in Seq(Nat) /\ c \in Seq(Nat)
  BY <1>6, BoardIs
<1>10. /\ Parity(b) = (Cardinality(Inversions(b)) + Square(Snake(1))[1]
                         + Square(Snake(1))[2]) % 2
       /\ Parity(c) = (Cardinality(Inversions(c)) + Square(Snake(1))[1]
                         + Square(Snake(1))[2]) % 2
  BY <1>6 DEF Parity
<1> HIDE DEF b, c, u, v
<1>11. /\ Cardinality(Inversions(b)) \in Nat /\ Cardinality(Inversions(c)) \in Nat
       /\ \/ Cardinality(Inversions(c)) = Cardinality(Inversions(b)) + 1
          \/ Cardinality(Inversions(b)) = Cardinality(Inversions(c)) + 1
  <2>1. Cardinality(Inversions(b)) \in Nat /\ Cardinality(Inversions(c)) \in Nat
    BY <1>9, InversionsFinite
  <2>2. ASSUME NEW b1 \in Seq(Nat), NEW c1 \in Seq(Nat), NEW k \in 1 .. len,
               k + 1 \in 1 .. len, DOMAIN b1 = 1 .. len, DOMAIN c1 = 1 .. len,
               b1[k] # b1[k + 1], c1[k] = b1[k + 1], c1[k + 1] = b1[k],
               \A z \in 1 .. len : z # k /\ z # k + 1 => c1[z] = b1[z]
        PROVE  \/ Cardinality(Inversions(c1)) = Cardinality(Inversions(b1)) + 1
               \/ Cardinality(Inversions(b1)) = Cardinality(Inversions(c1)) + 1
    <3>1. k \in Nat /\ b1[k] \in Nat /\ b1[k + 1] \in Nat
      <4>1. k \in 1 .. Len(b1) /\ k + 1 \in 1 .. Len(b1)
        <5>1. DOMAIN b1 = 1 .. Len(b1)
          BY LenProperties
        <5> QED
          BY <2>2, <5>1
      <4>2. b1[k] \in Nat /\ b1[k + 1] \in Nat
        BY <4>1, ElementOfSeq
      <4> QED
        BY <1>1, <4>2
    <3>2. /\ DOMAIN c1 = DOMAIN b1 /\ k \in DOMAIN b1 /\ k + 1 \in DOMAIN b1
          /\ c1[k] = b1[k + 1] /\ c1[k + 1] = b1[k]
          /\ \A z \in DOMAIN b1 : z # k /\ z # k + 1 => c1[z] = b1[z]
      BY <2>2
    <3>3. CASE b1[k] < b1[k + 1]
      BY <3>1, <3>2, <3>3, OneMore
    <3>4. CASE b1[k + 1] < b1[k]
      <4>1. \A z \in DOMAIN c1 : z # k /\ z # k + 1 => b1[z] = c1[z]
        BY <3>2
      <4>2. /\ DOMAIN b1 = DOMAIN c1 /\ k \in DOMAIN c1 /\ k + 1 \in DOMAIN c1
            /\ c1[k] < c1[k + 1] /\ b1[k] = c1[k + 1] /\ b1[k + 1] = c1[k]
        BY <3>2, <3>4
      <4> QED
        BY <3>1, <4>1, <4>2, OneMore
    <3> QED
      BY <2>2, <3>1, <3>3, <3>4
  <2>3. CASE v = u + 1
    <3>1. b[u] # b[u + 1] /\ c[u] = b[u + 1] /\ c[u + 1] = b[u]
      BY <1>5, <1>8, <2>3
    <3>2. \A z \in 1 .. len : z # u /\ z # u + 1 => c[z] = b[z]
      BY <1>8, <2>3
    <3>3. u \in 1 .. len /\ u + 1 \in 1 .. len
      BY <1>7, <2>3
    <3>4. DOMAIN b = 1 .. len /\ DOMAIN c = 1 .. len
      BY <1>6
    <3>5. \/ Cardinality(Inversions(c)) = Cardinality(Inversions(b)) + 1
          \/ Cardinality(Inversions(b)) = Cardinality(Inversions(c)) + 1
      BY <1>9, <2>2, <3>1, <3>2, <3>3, <3>4, ZenonT(30)
    <3> QED
      BY <2>1, <3>5
  <2>4. CASE u = v + 1
    <3>1. b[v] # b[v + 1] /\ c[v] = b[v + 1] /\ c[v + 1] = b[v]
      BY <1>5, <1>8, <2>4
    <3>2. \A z \in 1 .. len : z # v /\ z # v + 1 => c[z] = b[z]
      BY <1>8, <2>4
    <3>3. v \in 1 .. len /\ v + 1 \in 1 .. len
      BY <1>7, <2>4
    <3>4. DOMAIN b = 1 .. len /\ DOMAIN c = 1 .. len
      BY <1>6
    <3>5. \/ Cardinality(Inversions(c)) = Cardinality(Inversions(b)) + 1
          \/ Cardinality(Inversions(b)) = Cardinality(Inversions(c)) + 1
      BY <1>9, <2>2, <3>1, <3>2, <3>3, <3>4
    <3> QED
      BY <2>1, <3>5
  <2> QED
    BY <1>7, <2>1, <2>3, <2>4
<1>12. Square(Snake(1))[1] \in Int /\ Square(Snake(1))[2] \in Int
  <2>1. Snake(1) \in 1 .. len
    BY <1>1, <1>7
  <2>2. Snake(1) - 1 \in Nat
    BY <1>1, <2>1
  <2> QED
    BY <2>2, Divided, WidthIs DEF Square
<1>13. Parity(b) # Parity(c)
  <2> DEFINE p == Cardinality(Inversions(b))
             q == Cardinality(Inversions(c))
             k1 == Square(Snake(1))[1]
             k2 == Square(Snake(1))[2]
  <2>1. /\ p \in Nat /\ q \in Nat /\ k1 \in Int /\ k2 \in Int
        /\ q = p + 1 \/ p = q + 1
        /\ Parity(b) = (p + k1 + k2) % 2 /\ Parity(c) = (q + k1 + k2) % 2
    BY <1>10, <1>11, <1>12
  <2> HIDE DEF p, q, k1, k2
  <2>2. (p + k1 + k2) % 2 # (q + k1 + k2) % 2
    BY <2>1
  <2> QED
    BY <2>1, <2>2
<1> QED
  BY <1>13 DEF b, c

(* Of main's kind of boards, moves lead to all of the same parity.         *)
LEMMA ParityIsEnough ==
  ASSUME Width = 3, NEW All, Closed(All), NEW b \in All, NEW c \in Board,
         Rows(Len(b)), Len(c) = Len(b), IsInjective(b), IsInjective(c),
         Range(c) = Range(b), Parity(c) = Parity(b),
         \A x \in All : Parity(x) = Parity(b)
  PROVE  c \in All
<1> SUFFICES ASSUME c \notin All
             PROVE  FALSE
  OBVIOUS
<1> DEFINE len == Len(b)
           S == {w \in Word(len) : Lay(w, 1, len) \in All}
           Same == {x \in Board : IsInjective(x) /\ Parity(x) = Parity(c)}
<1>1. b \in Board /\ Rows(len) /\ len \in Nat /\ len > 3 /\ 1 \in 1 .. len
  BY DEF Closed, Rows
<1>2. PICK w0 \in Word(len), e \in 1 .. len : b = Lay(w0, e, len)
  BY <1>1, LaidOut
<1>3. PICK t \in Word(len), g \in 1 .. len : c = Lay(t, g, len)
  <2>1. Len(c) = len /\ Rows(Len(c))
    BY <1>1
  <2> HIDE DEF len
  <2> QED
    BY <2>1, LaidOut
<1> HIDE DEF len
<1>4. w0 \in S
  BY <1>1, <1>2, Slides
<1>5. t \notin S
  BY <1>1, <1>3, Slides
<1>6. IsInjective(w0) /\ IsInjective(t) /\ Range(w0) = Range(t)
  <2>1. /\ Range(b) = Range(w0) \cup {0} /\ 0 \notin Range(w0)
        /\ IsInjective(b) <=> IsInjective(w0)
    BY <1>1, <1>2, TilesOfBoard
  <2>2. /\ Range(c) = Range(t) \cup {0} /\ 0 \notin Range(t)
        /\ IsInjective(c) <=> IsInjective(t)
    BY <1>1, <1>3, TilesOfBoard
  <2>3. Range(w0) = Range(b) \ {0} /\ Range(t) = Range(c) \ {0}
    BY <2>1, <2>2
  <2> QED
    BY <2>1, <2>2, <2>3
<1>7. ASSUME NEW w \in S, NEW x \in 2 .. len - 2
      PROVE  Turn(w, x - 1, x + 2) \in S
  <2>1. Lay(Turn(w, x - 1, x + 2), 1, len) \in All
    BY <1>1, ThreeTurn
  <2>2. x - 1 \in 1 .. len /\ x + 2 \in 1 .. len /\ x - 1 < x + 2
    BY <1>1
  <2>3. Turn(w, x - 1, x + 2) \in Word(len)
    BY <1>1, <2>2, TurnIs
  <2> QED
    BY <2>1, <2>3
<1>8. S \in SUBSET Word(len)
  OBVIOUS
<1> HIDE DEF S
<1>9. PICK w \in S : Sorted(w, t) /\ Agree(w, t, len - 3)
  <2>1. Sorted(w0, t)
    BY <1>6 DEF Sorted
  <2> QED
    BY <1>1, <1>4, <1>6, <1>7, <1>8, <2>1, Settles
<1>10. Parity(Lay(w, 1, len)) # Parity(Lay(t, 1, len))
  <2>1. w # t /\ IsInjective(w) /\ w \in Word(len)
    BY <1>5, <1>8, <1>9 DEF Sorted
  <2> QED
    BY <1>1, <1>6, <1>9, <2>1, OtherParity
<1>11. Closed(Same)
  BY MoveKeepsParity DEF Closed
<1>12. c \in Same
  OBVIOUS
<1> HIDE DEF Same
<1>13. Lay(t, 1, len) \in Same
  BY <1>1, <1>3, <1>11, <1>12, Slides
<1>14. Parity(Lay(w, 1, len)) = Parity(b)
  BY <1>9 DEF S
<1> QED
  BY <1>10, <1>13, <1>14 DEF Same

(* A path is printed exactly for the boards that have one, for the boards  *)
(* of main and longer ones: "there is no path back" is printed when, and   *)
(* only when, the parities are different.                                  *)
THEOREM NoPathIsExact ==
  ASSUME TasksOfMain
  PROVE  PuzzleSpec => []NoPathExact
<1> DEFINE Given ==
      /\ Len(task[1]) > 3 /\ Len(task[1]) % 3 = 0 /\ Len(task[2]) = Len(task[1])
      /\ IsInjective(task[1]) /\ IsInjective(task[2])
      /\ Range(task[2]) = Range(task[1])
<1>1. PuzzleInit => Given
  BY DEF PuzzleInit, TasksOfMain
<1>2. Given /\ [PuzzleNext]_puzzle_vars => Given'
  <2>1. [PuzzleNext]_puzzle_vars => task' = task
    BY DEF PuzzleNext, Check, Look, NextLevel, puzzle_vars
  <2> QED
    BY <2>1
<1>3. PuzzleInv /\ Given => NoPathExact
  <2> SUFFICES ASSUME PuzzleInv, Given
               PROVE  NoPathExact
    OBVIOUS
  <2>1. /\ node \in Tree /\ task[1] \in Board /\ final \in Board
        /\ IsInjective(task[1]) /\ result \in Nat
    BY DEF PuzzleInv, PuzzleTypeOK, final
  <2> DEFINE All == Boards(node, Len(node))
  <2>2. \A c \in All : c \in Board /\ Parity(c) = Parity(task[1])
    <3>1. All \subseteq Within(task[1], result + 1) /\ result + 1 \in Nat
      BY <2>1 DEF PuzzleInv, NearInv
    <3>2. \A c \in Within(task[1], result + 1) : Parity(c) = Parity(task[1])
      BY <2>1, <3>1, WithinKeepsParity
    <3>3. \A c \in All : c \in Board
      BY <2>1, BoardsAre DEF Boards
    <3> QED
      BY <3>1, <3>2, <3>3
  <2>3. ASSUME answer = "found"
        PROVE  Solvable
    <3>1. final \in All
      BY <2>1, <2>3, BoardsAre DEF PuzzleInv, PuzzleTypeOK, FinalInv, Open, Boards
    <3> QED
      BY <2>2, <3>1 DEF Solvable
  <2>4. ASSUME answer = "no_path", Solvable
        PROVE  FALSE
    <3>1. /\ popped = Len(node) /\ ~Open /\ Len(node) \in Nat \ {0}
          /\ \A k \in 1 .. Len(node) : node[k].puzzle # final
      BY <2>1, <2>4, BoardsAre DEF PuzzleInv, PuzzleTypeOK, FinalInv, Open
    <3>2. final \notin All
      BY <3>1 DEF Boards
    <3>3. \A k \in 1 .. Len(node) : Moves(node[k].puzzle) \subseteq All
      BY <3>1 DEF PuzzleInv, MovesInv
    <3>4. \A c \in All : Moves(c) \subseteq All
      <4> SUFFICES ASSUME NEW c \in All
                   PROVE  Moves(c) \subseteq All
        OBVIOUS
      <4>1. PICK k \in 1 .. Len(node) : c = node[k].puzzle
        BY DEF Boards
      <4> QED
        BY <3>3, <4>1
    <3>5. Closed(All)
      BY <2>2, <3>4 DEF Closed
    <3>6. task[1] \in All
      <4>1. 1 \in 1 .. Len(node) /\ node[1].puzzle = task[1]
        BY <3>1 DEF PuzzleInv, ParentInv
      <4> QED
        BY <4>1 DEF Boards
    <3> HIDE DEF All
    <3>7. Rows(Len(task[1]))
      BY <2>1, BoardIs DEF Rows
    <3>8. /\ Len(final) = Len(task[1]) /\ IsInjective(final)
          /\ Range(final) = Range(task[1]) /\ Parity(final) = Parity(task[1])
      BY <2>4 DEF final, Solvable
    <3>9. Width = 3
      BY DEF TasksOfMain
    <3> QED
      BY <2>1, <2>2, <3>2, <3>5, <3>6, <3>7, <3>8, <3>9, ParityIsEnough
  <2> QED
    BY <2>3, <2>4 DEF NoPathExact
<1> HIDE DEF Given
<1> QED
  BY <1>1, <1>2, <1>3, PuzzleInvariance, PTL DEF PuzzleSpec
=============================================================================
