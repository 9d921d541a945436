--------------------------- MODULE Rmalloc_proofs ---------------------------
(***************************************************************************)
(* Proofs about the allocator, for every size of a header and of a page,   *)
(* any requests, policies and table: the blocks tile the mapped pages,     *)
(* used_size is exact, the requests that go wrong are those named, and the *)
(* client sees an allocator.                                               *)
(***************************************************************************)
EXTENDS Rmalloc, SequenceTheorems, FiniteSetTheorems, NaturalsInduction,
        WellFoundedInduction, TLAPS

BlockSet == [addr : Nat, size : Nat]

(* A region is some whole pages, without its header.                       *)
RegionAt(r, p, n) == r = Block(p * PAGE, n * PAGE - HDR)
IsRegion(r) == \E p \in Page, n \in Nat \ {0} : RegionAt(r, p, n)

HeapSet ==
  [free : Seq(BlockSet), used : SUBSET BlockSet, used_size : Int,
   regions : Seq(BlockSet), max_page : Nat, mapped : SUBSET Page]

HeapType(h) ==
  /\ h \in HeapSet
  /\ \A i \in 1 .. Len(h.regions) : IsRegion(h.regions[i])

SizeExact(h) ==
  /\ IsFiniteSet(Owned(h))
  /\ h.used_size = Cardinality(Owned(h))

HeapInv(h) == HeapType(h) /\ Tiles(h) /\ SizeExact(h)

IInv ==
  /\ HeapInv(heap)
  /\ policy \in {"BestFit", "WorstFit", "FirstFit"}
  /\ DamageExplained
-----------------------------------------------------------------------------
(***************************************************************************)
(* Bytes, blocks and pages.                                                *)
(***************************************************************************)
LEMMA ConstantsAre ==
  /\ HDR \in Nat /\ HDR > 0 /\ PAGE \in Nat /\ PAGE > 0 /\ PAGE > 2 * HDR
  /\ Pages \in Nat /\ Slots \in Nat
  /\ \A s \in Size : s \in Nat /\ s > 0
BY RmallocAssumption

LEMMA ExtentIs ==
  ASSUME NEW b \in BlockSet
  PROVE  /\ b.addr \in Nat /\ b.size \in Nat /\ b = Block(b.addr, b.size)
         /\ \A x : x \in Extent(b) <=>
              x \in Int /\ b.addr <= x /\ x < b.addr + HDR + b.size
         /\ \A x : x \in DataOf(b) <=>
              x \in Int /\ b.addr + HDR <= x /\ x < b.addr + HDR + b.size
         /\ b.addr \in Extent(b)
         /\ DataOf(b) \subseteq Extent(b)
         /\ End(b) = b.addr + HDR + b.size /\ Data(b) = b.addr + HDR
BY ConstantsAre DEF BlockSet, Block, Extent, DataOf, End, Data

LEMMA BlockIs ==
  ASSUME NEW a \in Nat, NEW s \in Nat
  PROVE  /\ Block(a, s) \in BlockSet /\ Block(a, s).addr = a /\ Block(a, s).size = s
         /\ \A x : x \in Extent(Block(a, s)) <=> x \in Int /\ a <= x /\ x < a + HDR + s
BY ConstantsAre DEF BlockSet, Block, Extent, End, Data

LEMMA Divided ==
  ASSUME NEW x \in Int, NEW q \in Int
  PROVE  x \div PAGE = q <=> x \in PageBytes(q)
<1>1. PAGE \in Nat \ {0} /\ PAGE \in Int
  BY ConstantsAre
<1> DEFINE d == x \div PAGE
           m == x % PAGE
<1>2. d \in Int /\ m \in 0 .. PAGE - 1 /\ x = PAGE * d + m
  BY <1>1
<1>3. q * PAGE \in Int /\ d * PAGE \in Int /\ PAGE * d = d * PAGE
  BY <1>1, <1>2
<1> HIDE DEF d, m
<1>4. d = q => x \in PageBytes(q)
  BY <1>1, <1>2, <1>3 DEF PageBytes
<1>5. ASSUME x \in PageBytes(q)
      PROVE  d = q
  <2>1. q * PAGE <= x /\ x < q * PAGE + PAGE
    BY <1>1, <1>3, <1>5 DEF PageBytes
  <2>2. d * PAGE <= x /\ x < d * PAGE + PAGE
    BY <1>1, <1>2, <1>3
  <2>3. (d - q) * PAGE = d * PAGE - q * PAGE /\ (q - d) * PAGE = q * PAGE - d * PAGE
    BY <1>1, <1>2
  <2>4. d - q >= 1 => (d - q) * PAGE >= PAGE
    BY <1>1, <1>2
  <2>5. q - d >= 1 => (q - d) * PAGE >= PAGE
    BY <1>1, <1>2
  <2>6. ~(d - q >= 1)
    BY <1>1, <1>3, <2>1, <2>2, <2>3, <2>4
  <2>7. ~(q - d >= 1)
    BY <1>1, <1>3, <2>1, <2>2, <2>3, <2>5
  <2> QED
    BY <1>2, <2>6, <2>7
<1> QED
  BY <1>4, <1>5 DEF d

(* The bytes of the pages p .. p + n - 1.                                  *)
LEMMA PagesBytes ==
  ASSUME NEW p \in Nat, NEW n \in Nat \ {0}, NEW x \in Int
  PROVE  (p * PAGE <= x /\ x < p * PAGE + n * PAGE) <=> x \div PAGE \in p .. p + n - 1
<1>1. PAGE \in Nat \ {0} /\ PAGE \in Int
  BY ConstantsAre
<1> DEFINE d == x \div PAGE
<1>2. d \in Int
  BY <1>1
<1>3. d * PAGE <= x /\ x < d * PAGE + PAGE /\ d * PAGE \in Int
  <2>1. x \in PageBytes(d)
    BY <1>2, Divided
  <2> QED
    BY <1>1, <1>2, <2>1 DEF PageBytes
<1> HIDE DEF d
<1>4. p * PAGE \in Int /\ n * PAGE \in Int
  BY <1>1
<1>5. /\ (d - p) * PAGE = d * PAGE - p * PAGE
      /\ (p - d) * PAGE = p * PAGE - d * PAGE
      /\ (p + n - d) * PAGE = p * PAGE + n * PAGE - d * PAGE
      /\ (d - p - n) * PAGE = d * PAGE - p * PAGE - n * PAGE
  BY <1>1, <1>2
<1>6. /\ d - p >= 0 => (d - p) * PAGE >= 0
      /\ p - d >= 1 => (p - d) * PAGE >= PAGE
      /\ p + n - d >= 1 => (p + n - d) * PAGE >= PAGE
      /\ d - p - n >= 0 => (d - p - n) * PAGE >= 0
  BY <1>1, <1>2
<1>7. p <= d => p * PAGE <= x
  BY <1>1, <1>2, <1>3, <1>4, <1>5, <1>6
<1>8. p * PAGE <= x => p <= d
  BY <1>1, <1>2, <1>3, <1>4, <1>5, <1>6
<1>9. d <= p + n - 1 => x < p * PAGE + n * PAGE
  BY <1>1, <1>2, <1>3, <1>4, <1>5, <1>6
<1>10. x < p * PAGE + n * PAGE => d <= p + n - 1
  BY <1>1, <1>2, <1>3, <1>4, <1>5, <1>6
<1> QED
  BY <1>2, <1>7, <1>8, <1>9, <1>10 DEF d

MappedBytes(P) == UNION {PageBytes(p) : p \in P}

LEMMA MappedBytesAre ==
  ASSUME NEW P \in SUBSET Nat
  PROVE  \A x : x \in MappedBytes(P) <=> x \in Int /\ x \div PAGE \in P
<1>1. PAGE \in Nat \ {0}
  BY ConstantsAre
<1>2. ASSUME NEW x, x \in MappedBytes(P)
      PROVE  x \in Int /\ x \div PAGE \in P
  <2>1. PICK p \in P : x \in PageBytes(p)
    BY <1>2 DEF MappedBytes
  <2>2. p \in Int /\ p * PAGE \in Int /\ x \in Int
    BY <1>1, <2>1 DEF PageBytes
  <2> QED
    BY <2>1, <2>2, Divided
<1>3. ASSUME NEW x \in Int, x \div PAGE \in P
      PROVE  x \in MappedBytes(P)
  <2> DEFINE q == x \div PAGE
  <2>0. q \in Int
    BY <1>1
  <2>1. x \in PageBytes(q)
    BY <2>0, Divided
  <2> QED
    BY <1>3, <2>1 DEF MappedBytes
<1> QED
  BY <1>2, <1>3

(* A region covers its pages, and no others.                               *)
LEMMA RegionBytes ==
  ASSUME NEW r, NEW p \in Nat, NEW n \in Nat \ {0}, RegionAt(r, p, n)
  PROVE  /\ r \in BlockSet
         /\ \A x : x \in Extent(r) <=> x \in Int /\ x \div PAGE \in p .. p + n - 1
         /\ PagesIn(r) = p .. p + n - 1
         /\ Extent(r) = MappedBytes(PagesIn(r))
<1>1. PAGE \in Nat \ {0} /\ HDR \in Nat /\ PAGE > HDR
  BY ConstantsAre
<1>2. p * PAGE \in Nat /\ n * PAGE \in Nat /\ n * PAGE >= PAGE
  <2>1. n * PAGE = PAGE + (n - 1) * PAGE /\ (n - 1) * PAGE >= 0
    BY <1>1
  <2> QED
    BY <1>1, <2>1
<1>3. n * PAGE - HDR \in Nat
  BY <1>1, <1>2
<1>4. r \in BlockSet /\ \A x : x \in Extent(r) <=>
                          x \in Int /\ p * PAGE <= x /\ x < p * PAGE + n * PAGE
  BY <1>1, <1>2, <1>3, BlockIs DEF RegionAt
<1>5. \A x : x \in Extent(r) <=> x \in Int /\ x \div PAGE \in p .. p + n - 1
  BY <1>4, PagesBytes
<1>6. PagesIn(r) = p .. p + n - 1
  <2>1. PagesIn(r) \subseteq p .. p + n - 1
    BY <1>5 DEF PagesIn
  <2>2. ASSUME NEW q \in p .. p + n - 1
        PROVE  q \in PagesIn(r)
    <3>1. q \in Int /\ q * PAGE \in Int /\ q * PAGE \in PageBytes(q)
      BY <1>1 DEF PageBytes
    <3>2. (q * PAGE) \div PAGE = q
      BY <3>1, Divided
    <3> QED
      BY <1>5, <3>1, <3>2 DEF PagesIn
  <2> QED
    BY <2>1, <2>2
<1>7. Extent(r) = MappedBytes(PagesIn(r))
  <2>1. PagesIn(r) \in SUBSET Nat
    BY <1>6
  <2> QED
    BY <1>5, <1>6, <2>1, MappedBytesAre
<1> QED
  BY <1>4, <1>5, <1>6, <1>7
-----------------------------------------------------------------------------
(***************************************************************************)
(* Blocks that are taken apart and put together.                           *)
(***************************************************************************)
Bytes(S) == UNION {Extent(b) : b \in S}

LEMMA BytesAre ==
  ASSUME NEW S
  PROVE  \A x : x \in Bytes(S) <=> \E b \in S : x \in Extent(b)
BY DEF Bytes

(* The blocks of S make room for those of T, which have the same bytes.    *)
LEMMA Repartition ==
  ASSUME NEW B \in SUBSET BlockSet, Apart(B), NEW S \in SUBSET B,
         NEW T \in SUBSET BlockSet, Apart(T), Bytes(T) = Bytes(S)
  PROVE  /\ (B \ S) \cap T = {}
         /\ Apart((B \ S) \cup T)
         /\ Bytes((B \ S) \cup T) = Bytes(B)
<1>1. \A b \in B \ S, t \in T : Extent(b) \cap Extent(t) = {}
  <2> SUFFICES ASSUME NEW b \in B \ S, NEW t \in T, NEW x \in Extent(b), x \in Extent(t)
               PROVE  FALSE
    OBVIOUS
  <2>1. x \in Bytes(S)
    BY BytesAre
  <2>2. PICK c \in S : x \in Extent(c)
    BY <2>1, BytesAre
  <2>3. b # c /\ b \in B /\ c \in B
    OBVIOUS
  <2> QED
    BY <2>2, <2>3 DEF Apart
<1>2. (B \ S) \cap T = {}
  <2> SUFFICES ASSUME NEW b \in B \ S, b \in T
               PROVE  FALSE
    OBVIOUS
  <2>1. b.addr \in Extent(b)
    BY ExtentIs
  <2> QED
    BY <1>1, <2>1
<1>3. Apart((B \ S) \cup T)
  BY <1>1 DEF Apart
<1>4. \A x : x \in Bytes((B \ S) \cup T) <=> x \in Bytes(B)
  <2>1. \A x : x \in Bytes((B \ S) \cup T) <=> x \in Bytes(B \ S) \/ x \in Bytes(T)
    BY BytesAre
  <2>2. \A x : x \in Bytes(B) <=> x \in Bytes(B \ S) \/ x \in Bytes(S)
    BY BytesAre
  <2> QED
    BY <2>1, <2>2
<1> QED
  BY <1>2, <1>3, <1>4

(* A hole that is cut: the block, and what is left behind it.              *)
LEMMA CutBytes ==
  ASSUME NEW b \in BlockSet, NEW s \in Nat, b.size - s - HDR >= 0,
         NEW x, x = Block(b.addr, s), NEW y, y = Block(b.addr + HDR + s, b.size - s - HDR)
  PROVE  /\ x \in BlockSet /\ y \in BlockSet /\ x # y
         /\ Apart({x, y}) /\ Bytes({x, y}) = Bytes({b})
         /\ Extent(x) \subseteq Extent(b)
<1>1. b.addr \in Nat /\ b.size \in Nat /\ HDR \in Nat /\ HDR > 0
  BY ConstantsAre, ExtentIs
<1>2. b.addr + HDR + s \in Nat /\ b.size - s - HDR \in Nat
  BY <1>1
<1>3. x \in BlockSet /\ x.addr = b.addr
      /\ \A z : z \in Extent(x) <=> z \in Int /\ b.addr <= z /\ z < b.addr + HDR + s
  BY <1>1, BlockIs
<1>4. y \in BlockSet /\ y.addr = b.addr + HDR + s
      /\ \A z : z \in Extent(y) <=>
           z \in Int /\ b.addr + HDR + s <= z /\ z < b.addr + HDR + s + HDR + (b.size - s - HDR)
  BY <1>1, <1>2, BlockIs
<1>5. \A z : z \in Extent(b) <=> z \in Int /\ b.addr <= z /\ z < b.addr + HDR + b.size
  BY ExtentIs
<1>6. x # y
  BY <1>1, <1>3, <1>4
<1>7. Extent(x) \cap Extent(y) = {}
  BY <1>1, <1>3, <1>4
<1>8. \A z : z \in Extent(b) <=> z \in Extent(x) \/ z \in Extent(y)
  BY <1>1, <1>3, <1>4, <1>5
<1>9. Bytes({x, y}) = Extent(x) \cup Extent(y) /\ Bytes({b}) = Extent(b)
  BY DEF Bytes
<1> QED
  BY <1>3, <1>4, <1>6, <1>7, <1>8, <1>9 DEF Apart

(* Two blocks, one right behind the other, and the block that joins them.  *)
LEMMA JoinBytes ==
  ASSUME NEW x \in BlockSet, NEW y \in BlockSet, End(x) = y.addr,
         NEW j, j = Block(x.addr, x.size + HDR + y.size)
  PROVE  /\ j \in BlockSet /\ Extent(j) = Extent(x) \cup Extent(y)
         /\ End(j) = End(y) /\ j.addr = x.addr
<1>1. /\ x.addr \in Nat /\ x.size \in Nat /\ y.addr \in Nat /\ y.size \in Nat
      /\ HDR \in Nat /\ End(x) = x.addr + HDR + x.size /\ End(y) = y.addr + HDR + y.size
  BY ConstantsAre, ExtentIs
<1>2. x.size + HDR + y.size \in Nat
  BY <1>1
<1>3. j \in BlockSet /\ j.addr = x.addr /\ j.size = x.size + HDR + y.size
      /\ \A z : z \in Extent(j) <=>
           z \in Int /\ x.addr <= z /\ z < x.addr + HDR + (x.size + HDR + y.size)
  BY <1>1, <1>2, BlockIs
<1>4. End(j) = j.addr + HDR + j.size
  BY <1>3, ExtentIs
<1>5. \A z : /\ z \in Extent(x) <=> z \in Int /\ x.addr <= z /\ z < x.addr + HDR + x.size
             /\ z \in Extent(y) <=> z \in Int /\ y.addr <= z /\ z < y.addr + HDR + y.size
  BY ExtentIs
<1>6. \A z : z \in Extent(j) <=> z \in Extent(x) \/ z \in Extent(y)
  BY <1>1, <1>3, <1>5
<1>7. End(j) = End(y)
  <2>1. y.addr = x.addr + HDR + x.size
    BY <1>1
  <2>2. End(j) = x.addr + HDR + (x.size + HDR + y.size)
    BY <1>3, <1>4
  <2>3. End(y) = (x.addr + HDR + x.size) + HDR + y.size
    BY <1>1, <2>1
  <2>4. x.addr \in Int /\ x.size \in Int /\ y.size \in Int /\ HDR \in Int
    BY <1>1
  <2> QED
    BY <2>2, <2>3, <2>4
<1> QED
  BY <1>3, <1>6, <1>7

-----------------------------------------------------------------------------
(***************************************************************************)
(* The free list: what the operations on it do to the set of its blocks.   *)
(***************************************************************************)
NoRepeat(f) == \A j, k \in 1 .. Len(f) : f[j] = f[k] => j = k

(* g is f with the blocks S gone and those of T instead.                   *)
Exchanged(f, g, S, T) ==
  /\ g \in Seq(BlockSet)
  /\ NoRepeat(g)
  /\ Range(g) = (Range(f) \ S) \cup T

LEMMA RangeIs ==
  ASSUME NEW f \in Seq(BlockSet)
  PROVE  /\ Len(f) \in Nat /\ DOMAIN f = 1 .. Len(f)
         /\ \A k \in 1 .. Len(f) : f[k] \in BlockSet /\ f[k] \in Range(f)
         /\ \A b : b \in Range(f) <=> \E k \in 1 .. Len(f) : f[k] = b
         /\ Range(f) \in SUBSET BlockSet
BY LenProperties, ElementOfSeq DEF Range

LEMMA AppendIs ==
  ASSUME NEW f \in Seq(BlockSet), NoRepeat(f), NEW b \in BlockSet, b \notin Range(f)
  PROVE  Exchanged(f, Append(f, b), {}, {b})
<1> DEFINE g == Append(f, b)
<1>1. /\ g \in Seq(BlockSet) /\ Len(g) = Len(f) + 1 /\ Len(f) \in Nat
      /\ \A k \in 1 .. Len(f) : g[k] = f[k]
      /\ g[Len(f) + 1] = b
  BY AppendProperties, LenProperties
<1> HIDE DEF g
<1>2. \A k \in 1 .. Len(g) : k \in 1 .. Len(f) \/ k = Len(f) + 1
  BY <1>1
<1>3. \A k \in 1 .. Len(f) : k \in 1 .. Len(g) /\ f[k] # b
  BY <1>1, RangeIs
<1>4. NoRepeat(g)
  BY <1>1, <1>2, <1>3 DEF NoRepeat
<1>5. \A x : x \in Range(g) <=> x \in Range(f) \/ x = b
  BY <1>1, <1>2, <1>3, RangeIs
<1> QED
  BY <1>1, <1>4, <1>5 DEF Exchanged, g

LEMMA ReplaceIs ==
  ASSUME NEW f \in Seq(BlockSet), NoRepeat(f), NEW k \in 1 .. Len(f), NEW b \in BlockSet,
         b \notin Range(f) \/ b = f[k]
  PROVE  /\ Exchanged(f, Replace(f, k, b), {f[k]}, {b})
         /\ Len(Replace(f, k, b)) = Len(f)
         /\ \A j \in 1 .. Len(f) : Replace(f, k, b)[j] = IF j = k THEN b ELSE f[j]
<1> DEFINE g == Replace(f, k, b)
<1>1. /\ g \in Seq(BlockSet) /\ Len(g) = Len(f) /\ Len(f) \in Nat
      /\ \A j \in 1 .. Len(f) : g[j] = IF j = k THEN b ELSE f[j]
  BY ExceptSeq, LenProperties DEF Replace
<1> HIDE DEF g
<1>2. \A j \in 1 .. Len(f) : j # k => f[j] # b /\ f[j] # f[k]
  BY RangeIs DEF NoRepeat
<1>3. NoRepeat(g)
  BY <1>1, <1>2 DEF NoRepeat
<1>4. ASSUME NEW x \in Range(g)
      PROVE  (x \in Range(f) /\ x # f[k]) \/ x = b
  <2>1. PICK j \in 1 .. Len(g) : g[j] = x
    BY <1>1, RangeIs
  <2> QED
    BY <1>1, <1>2, <2>1, RangeIs
<1>5. ASSUME NEW x \in Range(f), x # f[k]
      PROVE  x \in Range(g)
  <2>1. PICK j \in 1 .. Len(f) : f[j] = x
    BY RangeIs
  <2>2. j # k /\ g[j] = x /\ j \in 1 .. Len(g)
    BY <1>1, <1>5, <2>1
  <2> QED
    BY <1>1, <2>2, RangeIs
<1>6. b \in Range(g)
  <2>1. g[k] = b /\ k \in 1 .. Len(g)
    BY <1>1
  <2> QED
    BY <1>1, <2>1, RangeIs
<1>7. Range(g) = (Range(f) \ {f[k]}) \cup {b}
  BY <1>4, <1>5, <1>6
<1> QED
  BY <1>1, <1>3, <1>7 DEF Exchanged, g

LEMMA ReplaceFresh ==
  ASSUME NEW f \in Seq(BlockSet), NoRepeat(f), NEW k \in 1 .. Len(f), NEW b \in BlockSet,
         b \notin Range(f), NEW x, f[k] = x
  PROVE  Exchanged(f, Replace(f, k, b), {x}, {b})
BY ReplaceIs

LEMMA RemoveIs ==
  ASSUME NEW f \in Seq(BlockSet), NoRepeat(f), NEW k \in 1 .. Len(f)
  PROVE  Exchanged(f, RemoveAt(f, k), {f[k]}, {})
<1> DEFINE g == RemoveAt(f, k)
           s == SubSeq(f, 1, k - 1)
           t == SubSeq(f, k + 1, Len(f))
<1>1. Len(f) \in Nat /\ \A j \in 1 .. Len(f) : f[j] \in BlockSet
  BY RangeIs
<1>2. /\ s \in Seq(BlockSet) /\ Len(s) = k - 1
      /\ \A j \in 1 .. k - 1 : s[j] = f[j]
  <2>1. \A j \in 1 .. k - 1 : f[j] \in BlockSet
    BY <1>1
  <2>2. /\ s \in Seq(BlockSet) /\ Len(s) = IF 1 <= k - 1 THEN k - 1 - 1 + 1 ELSE 0
        /\ \A j \in 1 .. k - 1 - 1 + 1 : s[j] = f[1 + j - 1]
    BY <1>1, <2>1, SubSeqProperties
  <2> HIDE DEF s
  <2> QED
    BY <1>1, <2>2
<1>3. /\ t \in Seq(BlockSet) /\ Len(t) = Len(f) - k
      /\ \A j \in 1 .. Len(f) - k : t[j] = f[k + j]
  <2>1. \A j \in k + 1 .. Len(f) : f[j] \in BlockSet
    BY <1>1
  <2>2. /\ t \in Seq(BlockSet)
        /\ Len(t) = IF k + 1 <= Len(f) THEN Len(f) - (k + 1) + 1 ELSE 0
        /\ \A j \in 1 .. Len(f) - (k + 1) + 1 : t[j] = f[(k + 1) + j - 1]
    BY <1>1, <2>1, SubSeqProperties
  <2> HIDE DEF t
  <2> QED
    BY <1>1, <2>2
<1>4. g = s \o t
  BY DEF RemoveAt
<1> HIDE DEF g, s, t
<1>5. /\ g \in Seq(BlockSet) /\ Len(g) = Len(f) - 1
      /\ \A j \in 1 .. Len(f) - 1 : g[j] = IF j <= k - 1 THEN f[j] ELSE f[j + 1]
  <2>1. /\ g \in Seq(BlockSet) /\ Len(g) = Len(s) + Len(t)
        /\ \A j \in 1 .. Len(s) + Len(t) :
             g[j] = IF j <= Len(s) THEN s[j] ELSE t[j - Len(s)]
    BY <1>2, <1>3, <1>4, ConcatProperties
  <2>2. ASSUME NEW j \in 1 .. Len(f) - 1
        PROVE  g[j] = IF j <= k - 1 THEN f[j] ELSE f[j + 1]
    <3>0. j \in 1 .. Len(s) + Len(t)
      BY <1>1, <1>2, <1>3
    <3>1. CASE j <= k - 1
      <4>1. j \in 1 .. k - 1 /\ j <= Len(s)
        BY <1>1, <1>2, <3>1
      <4>2. g[j] = s[j]
        BY <2>1, <3>0, <4>1
      <4> QED
        BY <1>2, <3>1, <4>1, <4>2
    <3>2. CASE j > k - 1
      <4>1. j - (k - 1) \in 1 .. Len(f) - k /\ k + (j - (k - 1)) = j + 1
        BY <1>1, <3>2
      <4>2. ~(j <= Len(s)) /\ j - Len(s) = j - (k - 1)
        BY <1>1, <1>2, <3>2
      <4>3. g[j] = t[j - (k - 1)]
        BY <2>1, <3>0, <4>2
      <4>4. t[j - (k - 1)] = f[k + (j - (k - 1))]
        BY <1>3, <4>1
      <4> QED
        BY <3>2, <4>1, <4>3, <4>4
    <3> QED
      BY <1>1, <3>1, <3>2
  <2> QED
    BY <1>1, <1>2, <1>3, <2>1, <2>2
<1>6. NoRepeat(g)
  BY <1>1, <1>5 DEF NoRepeat
<1>7. ASSUME NEW x
      PROVE  x \in Range(g) <=> x \in Range(f) /\ x # f[k]
  <2>1. ASSUME NEW j \in 1 .. Len(g)
        PROVE  \E i \in 1 .. Len(f) : i # k /\ g[j] = f[i]
    <3>1. j \in 1 .. Len(f) - 1
      BY <1>5
    <3>2. CASE j <= k - 1
      <4>1. j \in 1 .. Len(f) /\ j # k /\ g[j] = f[j]
        BY <1>1, <1>5, <3>1, <3>2
      <4> QED
        BY <4>1
    <3>3. CASE ~(j <= k - 1)
      <4>1. j + 1 \in 1 .. Len(f) /\ j + 1 # k /\ g[j] = f[j + 1]
        BY <1>1, <1>5, <3>1, <3>3
      <4> QED
        BY <4>1
    <3> QED
      BY <3>2, <3>3
  <2>2. ASSUME NEW i \in 1 .. Len(f), i # k
        PROVE  \E j \in 1 .. Len(g) : g[j] = f[i]
    <3>1. CASE i < k
      BY <1>1, <1>5, <3>1
    <3>2. CASE i > k
      <4>1. i - 1 \in 1 .. Len(g) /\ ~(i - 1 <= k - 1) /\ (i - 1) + 1 = i
        BY <1>1, <1>5, <3>2
      <4> QED
        BY <1>1, <1>5, <4>1
    <3> QED
      BY <1>1, <2>2, <3>1, <3>2
  <2>3. \A i \in 1 .. Len(f) : i # k => f[i] # f[k]
    BY DEF NoRepeat
  <2>4. ASSUME x \in Range(g)
        PROVE  x \in Range(f) /\ x # f[k]
    <3>1. PICK j \in 1 .. Len(g) : g[j] = x
      BY <1>5, <2>4, RangeIs
    <3>2. PICK i \in 1 .. Len(f) : i # k /\ x = f[i]
      BY <2>1, <3>1
    <3> QED
      BY <2>3, <3>2, RangeIs
  <2>5. ASSUME x \in Range(f), x # f[k]
        PROVE  x \in Range(g)
    <3>1. PICK i \in 1 .. Len(f) : f[i] = x
      BY <2>5, RangeIs
    <3>2. PICK j \in 1 .. Len(g) : g[j] = x
      BY <2>2, <2>5, <3>1
    <3> QED
      BY <1>5, <3>2, RangeIs
  <2> QED
    BY <2>4, <2>5
<1>8. Range(g) = Range(f) \ {f[k]}
  BY <1>7
<1> QED
  BY <1>5, <1>6, <1>8 DEF Exchanged, g

LEMMA InsertIs ==
  ASSUME NEW f \in Seq(BlockSet), NoRepeat(f), NEW k \in 1 .. Len(f), NEW b \in BlockSet,
         b \notin Range(f)
  PROVE  Exchanged(f, InsertAt(f, k, b), {}, {b})
<1> DEFINE g == InsertAt(f, k, b)
           s == SubSeq(f, 1, k - 1)
           t == SubSeq(f, k, Len(f))
<1>1. Len(f) \in Nat /\ \A j \in 1 .. Len(f) : f[j] \in BlockSet
  BY RangeIs
<1>2. /\ s \in Seq(BlockSet) /\ Len(s) = k - 1
      /\ \A j \in 1 .. k - 1 : s[j] = f[j]
  <2>1. \A j \in 1 .. k - 1 : f[j] \in BlockSet
    BY <1>1
  <2>2. /\ s \in Seq(BlockSet) /\ Len(s) = IF 1 <= k - 1 THEN k - 1 - 1 + 1 ELSE 0
        /\ \A j \in 1 .. k - 1 - 1 + 1 : s[j] = f[1 + j - 1]
    BY <1>1, <2>1, SubSeqProperties
  <2> HIDE DEF s
  <2> QED
    BY <1>1, <2>2
<1>3. /\ t \in Seq(BlockSet) /\ Len(t) = Len(f) - k + 1
      /\ \A j \in 1 .. Len(f) - k + 1 : t[j] = f[k + j - 1]
  <2>1. \A j \in k .. Len(f) : f[j] \in BlockSet
    BY <1>1
  <2>2. /\ t \in Seq(BlockSet)
        /\ Len(t) = IF k <= Len(f) THEN Len(f) - k + 1 ELSE 0
        /\ \A j \in 1 .. Len(f) - k + 1 : t[j] = f[k + j - 1]
    BY <1>1, <2>1, SubSeqProperties
  <2> HIDE DEF t
  <2> QED
    BY <1>1, <2>2
<1> DEFINE u == Append(s, b)
<1>4. /\ u \in Seq(BlockSet) /\ Len(u) = k
      /\ \A j \in 1 .. k - 1 : u[j] = f[j]
      /\ u[k] = b
  <2>1. /\ u \in Seq(BlockSet) /\ Len(u) = Len(s) + 1
        /\ \A j \in 1 .. Len(s) : u[j] = s[j]
        /\ u[Len(s) + 1] = b
    BY <1>2, AppendProperties
  <2>2. Len(s) + 1 = k
    BY <1>1, <1>2
  <2> HIDE DEF u, s
  <2> QED
    BY <1>2, <2>1, <2>2
<1>5. g = u \o t
  BY <1>2, AppendIsConcat DEF InsertAt
<1> HIDE DEF g, s, t, u
<1>6. /\ g \in Seq(BlockSet) /\ Len(g) = Len(u) + Len(t)
      /\ \A j \in 1 .. Len(u) + Len(t) :
           g[j] = IF j <= Len(u) THEN u[j] ELSE t[j - Len(u)]
  BY <1>3, <1>4, <1>5, ConcatProperties
<1>7. Len(g) = Len(f) + 1 /\ Len(u) + Len(t) = Len(f) + 1
  BY <1>1, <1>3, <1>4, <1>6
<1>8. ASSUME NEW j \in 1 .. Len(f) + 1
      PROVE  g[j] = IF j < k THEN f[j] ELSE IF j = k THEN b ELSE f[j - 1]
  <2>1. CASE j < k
    <3>1. j \in 1 .. k - 1 /\ j <= Len(u)
      BY <1>1, <1>4, <2>1
    <3>2. g[j] = u[j]
      BY <1>6, <1>7, <3>1
    <3> QED
      BY <1>4, <2>1, <3>1, <3>2
  <2>2. CASE j = k
    <3>1. j <= Len(u)
      BY <1>1, <1>4, <2>2
    <3>2. g[j] = u[j]
      BY <1>6, <1>7, <3>1
    <3> QED
      BY <1>1, <1>4, <2>2, <3>2
  <2>3. CASE j > k
    <3>1. ~(j <= Len(u)) /\ j - Len(u) = j - k
      BY <1>1, <1>4, <2>3
    <3>2. g[j] = t[j - k]
      BY <1>6, <1>7, <3>1
    <3>3. j - k \in 1 .. Len(f) - k + 1 /\ k + (j - k) - 1 = j - 1
      BY <1>1, <2>3
    <3>4. t[j - k] = f[j - 1]
      BY <1>3, <3>3
    <3>5. ~(j < k) /\ j # k
      BY <1>1, <2>3
    <3> QED
      BY <3>2, <3>4, <3>5
  <2> QED
    BY <1>1, <2>1, <2>2, <2>3
(* Where each place of g comes from.                                       *)
<1>9. \A j \in 1 .. Len(f) + 1 :
        \/ j < k /\ j \in 1 .. Len(f) /\ g[j] = f[j]
        \/ j = k /\ g[j] = b
        \/ j > k /\ j - 1 \in 1 .. Len(f) /\ g[j] = f[j - 1]
  BY <1>1, <1>8
<1>10. \A i \in 1 .. Len(f) : f[i] # b /\ f[i] \in Range(f)
  BY RangeIs
<1>11. NoRepeat(g)
  <2> SUFFICES ASSUME NEW i \in 1 .. Len(f) + 1, NEW j \in 1 .. Len(f) + 1, g[i] = g[j]
               PROVE  i = j
    BY <1>7 DEF NoRepeat
  <2>1. CASE i = k
    BY <1>9, <1>10, <2>1
  <2>2. CASE j = k
    BY <1>9, <1>10, <2>2
  <2>3. CASE i < k /\ j < k
    BY <1>9, <2>3 DEF NoRepeat
  <2>4. CASE i > k /\ j > k
    <3>1. i - 1 \in 1 .. Len(f) /\ g[i] = f[i - 1]
      BY <1>1, <1>9, <2>4
    <3>2. j - 1 \in 1 .. Len(f) /\ g[j] = f[j - 1]
      BY <1>1, <1>9, <2>4
    <3>3. i - 1 = j - 1
      BY <3>1, <3>2 DEF NoRepeat
    <3> QED
      BY <3>3
  <2>5. CASE i < k /\ j > k
    <3>1. i = j - 1
      BY <1>9, <2>5 DEF NoRepeat
    <3> QED
      BY <1>1, <2>5, <3>1
  <2>6. CASE i > k /\ j < k
    <3>1. j = i - 1
      BY <1>9, <2>6 DEF NoRepeat
    <3> QED
      BY <1>1, <2>6, <3>1
  <2> QED
    BY <1>1, <2>1, <2>2, <2>3, <2>4, <2>5, <2>6
<1>12. ASSUME NEW x \in Range(g)
       PROVE  x \in Range(f) \cup {b}
  <2>1. PICK j \in 1 .. Len(g) : g[j] = x
    BY <1>6, RangeIs
  <2> QED
    BY <1>7, <1>9, <1>10, <2>1
<1>13. ASSUME NEW x \in Range(f)
       PROVE  x \in Range(g)
  <2>1. PICK i \in 1 .. Len(f) : f[i] = x
    BY RangeIs
  <2>2. CASE i < k
    <3>1. i \in 1 .. Len(g) /\ g[i] = x
      BY <1>1, <1>7, <1>8, <2>1, <2>2
    <3> QED
      BY <1>6, <3>1, RangeIs
  <2>3. CASE i >= k
    <3>1. i + 1 \in 1 .. Len(f) + 1 /\ ~(i + 1 < k) /\ i + 1 # k /\ (i + 1) - 1 = i
      BY <1>1, <2>3
    <3>2. g[i + 1] = x
      BY <1>8, <2>1, <3>1
    <3> QED
      BY <1>6, <1>7, <3>1, <3>2, RangeIs
  <2> QED
    BY <1>1, <2>2, <2>3
<1>14. b \in Range(g)
  <2>1. k \in 1 .. Len(g) /\ g[k] = b
    BY <1>1, <1>7, <1>8
  <2> QED
    BY <1>6, <2>1, RangeIs
<1>15. Range(g) = (Range(f) \ {}) \cup {b}
  BY <1>12, <1>13, <1>14
<1> QED
  BY <1>6, <1>11, <1>15 DEF Exchanged, g
-----------------------------------------------------------------------------
(***************************************************************************)
(* Heaps: blocks change places, and are taken apart and joined.            *)
(***************************************************************************)
LEMMA HeapIs ==
  ASSUME NEW h, HeapType(h), Tiles(h)
  PROVE  /\ h.free \in Seq(BlockSet) /\ h.used \in SUBSET BlockSet
         /\ h.mapped \in SUBSET Page /\ h.mapped \in SUBSET Nat
         /\ h.regions \in Seq(BlockSet) /\ h.max_page \in Nat
         /\ Len(h.free) \in Nat
         /\ NoRepeat(h.free)
         /\ h.used \cap Range(h.free) = {}
         /\ BlocksOf(h) \in SUBSET BlockSet
         /\ Apart(BlocksOf(h))
         /\ Bytes(BlocksOf(h)) = MappedBytes(h.mapped)
<1>1. h.free \in Seq(BlockSet) /\ h.used \in SUBSET BlockSet /\ h.mapped \in SUBSET Page
      /\ h.regions \in Seq(BlockSet) /\ h.max_page \in Nat
  BY DEF HeapType, HeapSet
<1>2. Page \subseteq Nat
  BY ConstantsAre DEF Page
<1>3. /\ DOMAIN h.free = 1 .. Len(h.free) /\ Range(h.free) \in SUBSET BlockSet
      /\ Len(h.free) \in Nat
  BY <1>1, RangeIs
<1>4. NoRepeat(h.free)
  BY <1>3 DEF Tiles, NoRepeat
<1>5. BlocksOf(h) \in SUBSET BlockSet
  BY <1>1, <1>3 DEF BlocksOf
<1>6. Bytes(BlocksOf(h)) = MappedBytes(h.mapped)
  BY DEF Tiles, Bytes, MappedBytes
<1>7. h.used \cap Range(h.free) = {} /\ Apart(BlocksOf(h))
  BY DEF Tiles
<1> QED
  BY <1>1, <1>2, <1>3, <1>4, <1>5, <1>6, <1>7

(* What has to be shown of a heap.                                         *)
LEMMA TilesIf ==
  ASSUME NEW h, h.free \in Seq(BlockSet), NoRepeat(h.free),
         h.used \cap Range(h.free) = {}, Apart(BlocksOf(h)),
         Bytes(BlocksOf(h)) = MappedBytes(h.mapped)
  PROVE  Tiles(h)
<1>1. DOMAIN h.free = 1 .. Len(h.free)
  BY RangeIs
<1>2. \A j, k \in DOMAIN h.free : h.free[j] = h.free[k] => j = k
  BY <1>1 DEF NoRepeat
<1>3. UNION {Extent(b) : b \in BlocksOf(h)} = UNION {PageBytes(p) : p \in h.mapped}
  BY DEF Bytes, MappedBytes
<1> QED
  BY <1>2, <1>3 DEF Tiles

(* The variables a call assigns.                                           *)
Assign(h, f, u, z) == [h EXCEPT !.free = f, !.used = u, !.used_size = z]
Map(h, f, r, P, m) ==
  [h EXCEPT !.free = f, !.regions = r, !.mapped = P, !.max_page = m]
Unmap(h, f, P) == [h EXCEPT !.free = f, !.mapped = P]

LEMMA Assigned ==
  ASSUME NEW h \in HeapSet, NEW f \in Seq(BlockSet), NEW u \in SUBSET BlockSet, NEW z \in Int
  PROVE  LET g == Assign(h, f, u, z)
         IN /\ g \in HeapSet
            /\ g.free = f /\ g.used = u /\ g.used_size = z
            /\ g.regions = h.regions /\ g.max_page = h.max_page /\ g.mapped = h.mapped
BY DEF HeapSet, Assign

LEMMA MapAssigned ==
  ASSUME NEW h \in HeapSet, NEW f \in Seq(BlockSet), NEW r \in Seq(BlockSet),
         NEW P \in SUBSET Page, NEW m \in Nat
  PROVE  LET g == Map(h, f, r, P, m)
         IN /\ g \in HeapSet
            /\ g.free = f /\ g.regions = r /\ g.mapped = P /\ g.max_page = m
            /\ g.used = h.used /\ g.used_size = h.used_size
BY DEF HeapSet, Map

LEMMA UnmapAssigned ==
  ASSUME NEW h \in HeapSet, NEW f \in Seq(BlockSet), NEW P \in SUBSET Page
  PROVE  LET g == Unmap(h, f, P)
         IN /\ g \in HeapSet
            /\ g.free = f /\ g.mapped = P /\ g.used = h.used /\ g.used_size = h.used_size
            /\ g.regions = h.regions /\ g.max_page = h.max_page
BY DEF HeapSet, Unmap

(* Used blocks Su and holes Sf give way to Tu and Tf.                      *)
Swapped(h, g, Su, Sf, Tu, Tf) ==
  /\ Su \subseteq h.used /\ Sf \subseteq Range(h.free)
  /\ Tu \subseteq BlockSet /\ Tf \subseteq BlockSet /\ Tu \cap Tf = {}
  /\ Apart(Tu \cup Tf) /\ Bytes(Tu \cup Tf) = Bytes(Su \cup Sf)
  /\ g.used = (h.used \ Su) \cup Tu
  /\ Exchanged(h.free, g.free, Sf, Tf)
  /\ g.mapped = h.mapped

LEMMA Swap ==
  ASSUME NEW h, HeapType(h), Tiles(h), NEW g, NEW Su, NEW Sf, NEW Tu, NEW Tf,
         Swapped(h, g, Su, Sf, Tu, Tf)
  PROVE  Tiles(g)
<1> DEFINE B == BlocksOf(h)
           S == Su \cup Sf
           T == Tu \cup Tf
<1>1. /\ B \in SUBSET BlockSet /\ Apart(B) /\ Bytes(B) = MappedBytes(h.mapped)
      /\ h.used \cap Range(h.free) = {}
      /\ B = h.used \cup Range(h.free)
  BY HeapIs DEF BlocksOf
<1>2. S \in SUBSET B /\ T \in SUBSET BlockSet /\ Apart(T) /\ Bytes(T) = Bytes(S)
  BY DEF BlocksOf, Swapped
<1> HIDE DEF S, T
<1>3. (B \ S) \cap T = {} /\ Apart((B \ S) \cup T) /\ Bytes((B \ S) \cup T) = Bytes(B)
  BY <1>1, <1>2, Repartition
<1>4. /\ g.free \in Seq(BlockSet) /\ NoRepeat(g.free)
      /\ Range(g.free) = (Range(h.free) \ Sf) \cup Tf
  BY DEF Exchanged, Swapped
<1>5. (B \ S) \cup T = BlocksOf(g)
  BY <1>1, <1>4 DEF BlocksOf, S, T, Swapped
<1>6. g.used \cap Range(g.free) = {}
  BY <1>1, <1>3, <1>4 DEF S, T, Swapped
<1>7. g.mapped = h.mapped
  BY DEF Swapped
<1> QED
  BY <1>1, <1>3, <1>4, <1>5, <1>6, <1>7, TilesIf

(* A used block more.                                                      *)
OwnedBytes(U) == UNION {DataOf(b) : b \in U}

LEMMA OneMore ==
  ASSUME NEW U \in SUBSET BlockSet, NEW b \in BlockSet, b \notin U, Apart(U \cup {b})
  PROVE  LET V == U \cup {b}
         IN /\ IsFiniteSet(OwnedBytes(U)) <=> IsFiniteSet(OwnedBytes(V))
            /\ IsFiniteSet(OwnedBytes(U)) =>
                 Cardinality(OwnedBytes(V)) = Cardinality(OwnedBytes(U)) + b.size
<1> DEFINE V == U \cup {b}
<1>1. OwnedBytes(V) = OwnedBytes(U) \cup DataOf(b)
  BY DEF OwnedBytes
<1>2. OwnedBytes(U) \cap DataOf(b) = {}
  <2> SUFFICES ASSUME NEW x \in DataOf(b), x \in OwnedBytes(U)
               PROVE  FALSE
    OBVIOUS
  <2>1. PICK c \in U : x \in DataOf(c)
    BY DEF OwnedBytes
  <2>2. x \in Extent(b) /\ x \in Extent(c)
    BY <2>1, ExtentIs
  <2> QED
    BY <2>2 DEF Apart
<1>3. IsFiniteSet(DataOf(b)) /\ Cardinality(DataOf(b)) = b.size
  <2> DEFINE lo == Data(b)
             hi == End(b) - 1
  <2>1. DataOf(b) = lo .. hi
    BY DEF DataOf
  <2>2. /\ lo \in Int /\ hi \in Int /\ b.size \in Nat /\ hi = lo + b.size - 1
        /\ b.addr \in Nat /\ HDR \in Nat
    BY ConstantsAre, ExtentIs
  <2> HIDE DEF lo, hi
  <2>3. /\ IsFiniteSet(DataOf(b))
        /\ Cardinality(DataOf(b)) = IF lo > hi THEN 0 ELSE hi - lo + 1
    BY <2>1, <2>2, FS_Interval
  <2>4. CASE b.size = 0
    BY <2>2, <2>3, <2>4
  <2>5. CASE b.size > 0
    BY <2>2, <2>3, <2>5
  <2> QED
    BY <2>2, <2>3, <2>4, <2>5
<1> HIDE DEF V
<1>4. IsFiniteSet(OwnedBytes(U)) => IsFiniteSet(OwnedBytes(V))
  BY <1>1, <1>3, FS_Union
<1>5. IsFiniteSet(OwnedBytes(V)) => IsFiniteSet(OwnedBytes(U))
  BY <1>1, FS_Subset
<1>6. ASSUME IsFiniteSet(OwnedBytes(U))
      PROVE  Cardinality(OwnedBytes(V)) = Cardinality(OwnedBytes(U)) + b.size
  <2>1. Cardinality(OwnedBytes(V)) = Cardinality(OwnedBytes(U)) + Cardinality(DataOf(b))
             - Cardinality(OwnedBytes(U) \cap DataOf(b))
    BY <1>1, <1>3, <1>6, FS_Union
  <2>2. Cardinality(OwnedBytes(U) \cap DataOf(b)) = 0
    BY <1>2, FS_EmptySet
  <2>3. Cardinality(OwnedBytes(U)) \in Nat
    BY <1>6, FS_CardinalityType
  <2>4. b.size \in Nat
    BY ExtentIs
  <2> QED
    BY <1>3, <2>1, <2>2, <2>3, <2>4
<1> QED
  BY <1>4, <1>5, <1>6 DEF V

LEMMA SizeGrows ==
  ASSUME NEW h, HeapType(h), SizeExact(h), NEW g, Tiles(g), g.used \in SUBSET BlockSet,
         NEW b \in BlockSet, b \notin h.used, g.used = h.used \cup {b},
         g.used_size = h.used_size + b.size
  PROVE  SizeExact(g)
<1>1. h.used \in SUBSET BlockSet
  BY DEF HeapType, HeapSet
<1>2. Apart(h.used \cup {b})
  BY DEF Tiles, Apart, BlocksOf
<1>3. Owned(h) = OwnedBytes(h.used) /\ Owned(g) = OwnedBytes(h.used \cup {b})
  BY DEF Owned, OwnedBytes
<1>4. /\ IsFiniteSet(OwnedBytes(h.used)) <=> IsFiniteSet(OwnedBytes(h.used \cup {b}))
      /\ IsFiniteSet(OwnedBytes(h.used)) =>
           Cardinality(OwnedBytes(h.used \cup {b})) = Cardinality(OwnedBytes(h.used)) + b.size
  BY <1>1, <1>2, OneMore
<1> QED
  BY <1>3, <1>4 DEF SizeExact

LEMMA SizeShrinks ==
  ASSUME NEW h, HeapType(h), Tiles(h), SizeExact(h), NEW g, NEW b \in h.used,
         g.used = h.used \ {b}, g.used_size = h.used_size - b.size
  PROVE  SizeExact(g)
<1> DEFINE U == h.used \ {b}
<1>1. h.used \in SUBSET BlockSet /\ b \in BlockSet /\ U \in SUBSET BlockSet
  BY DEF HeapType, HeapSet
<1>2. b \notin U /\ U \cup {b} = h.used
  OBVIOUS
<1>3. Apart(U \cup {b})
  BY <1>2 DEF Tiles, Apart, BlocksOf
<1>4. Owned(h) = OwnedBytes(U \cup {b}) /\ Owned(g) = OwnedBytes(U)
  BY <1>2 DEF Owned, OwnedBytes
<1> HIDE DEF U
<1>5. /\ IsFiniteSet(OwnedBytes(U)) <=> IsFiniteSet(OwnedBytes(U \cup {b}))
      /\ IsFiniteSet(OwnedBytes(U)) =>
           Cardinality(OwnedBytes(U \cup {b})) = Cardinality(OwnedBytes(U)) + b.size
  BY <1>1, <1>2, <1>3, OneMore
<1>6. IsFiniteSet(OwnedBytes(U)) /\ h.used_size = Cardinality(OwnedBytes(U)) + b.size
  BY <1>4, <1>5 DEF SizeExact
<1>7. Cardinality(OwnedBytes(U)) \in Nat /\ b.size \in Nat
  BY <1>1, <1>6, FS_CardinalityType, ExtentIs
<1>8. g.used_size = Cardinality(OwnedBytes(U))
  BY <1>6, <1>7
<1> QED
  BY <1>4, <1>6, <1>8 DEF SizeExact
-----------------------------------------------------------------------------
(***************************************************************************)
(* rmalloc: a hole is taken, whole or in part, or a region is mapped.      *)
(***************************************************************************)
(* What a call that succeeds does for the client: x is the new block.      *)
Gets(h, g, x, s) ==
  /\ x \in BlockSet /\ x.size = s
  /\ x \notin h.used
  /\ g.used = h.used \cup {x}
  /\ Extent(x) \cap Bytes(h.used) = {}
  /\ h.mapped \subseteq g.mapped

LEMMA TakeWholeIs ==
  ASSUME NEW h, HeapInv(h), NEW k \in 1 .. Len(h.free), NEW s \in Nat, h.free[k].size = s
  PROVE  HeapInv(TakeWhole(h, k, s)) /\ Gets(h, TakeWhole(h, k, s), h.free[k], s)
<1> DEFINE g == TakeWhole(h, k, s)
           b == h.free[k]
<1>1. /\ h.free \in Seq(BlockSet) /\ h.used \in SUBSET BlockSet /\ NoRepeat(h.free)
      /\ h.used \cap Range(h.free) = {} /\ Apart(BlocksOf(h))
      /\ b \in BlockSet /\ b \in Range(h.free) /\ b \notin h.used
  <2>1. /\ h.free \in Seq(BlockSet) /\ h.used \in SUBSET BlockSet /\ NoRepeat(h.free)
        /\ h.used \cap Range(h.free) = {} /\ Apart(BlocksOf(h))
    BY HeapIs DEF HeapInv
  <2>2. b \in BlockSet /\ b \in Range(h.free)
    BY <2>1, RangeIs
  <2> QED
    BY <2>1, <2>2
<1>2. /\ HeapType(h) /\ h \in HeapSet
      /\ h.used_size \in Int
  BY DEF HeapInv, HeapType, HeapSet
<1> HIDE DEF b
<1>3. Exchanged(h.free, RemoveAt(h.free, k), {b}, {}) /\ RemoveAt(h.free, k) \in Seq(BlockSet)
  BY <1>1, RemoveIs DEF b, Exchanged
<1>4. /\ g \in HeapSet
      /\ g.free = RemoveAt(h.free, k) /\ g.used = h.used \cup {b}
      /\ g.used_size = h.used_size + s /\ g.regions = h.regions /\ g.mapped = h.mapped
  <2>1. h.used \cup {b} \in SUBSET BlockSet /\ h.used_size + s \in Int
    BY <1>1, <1>2
  <2>2. g = Assign(h, RemoveAt(h.free, k), h.used \cup {b}, h.used_size + s)
    BY DEF TakeWhole, Assign, b
  <2> HIDE DEF g
  <2> QED
    BY <1>2, <1>3, <2>1, <2>2, Assigned
<1>5. HeapType(g)
  BY <1>2, <1>4 DEF HeapType
<1> HIDE DEF g
<1>6. Tiles(g)
  <2>1. Apart({b} \cup {}) /\ Bytes({b} \cup {}) = Bytes({} \cup {b}) /\ {b} \cap {} = {}
    BY DEF Apart
  <2>2. Swapped(h, g, {}, {b}, {b}, {})
    BY <1>1, <1>3, <1>4, <2>1 DEF Swapped
  <2> QED
    BY <1>2, <2>2, Swap DEF HeapInv
<1>7. SizeExact(g)
  <2>1. g.used \in SUBSET BlockSet
    BY <1>5 DEF HeapType, HeapSet
  <2>2. g.used_size = h.used_size + b.size
    BY <1>4 DEF b
  <2> QED
    BY <1>1, <1>2, <1>4, <1>6, <2>1, <2>2, SizeGrows DEF HeapInv
<1>8. Extent(b) \cap Bytes(h.used) = {}
  <2> SUFFICES ASSUME NEW z \in Extent(b), z \in Bytes(h.used)
               PROVE  FALSE
    OBVIOUS
  <2>1. PICK c \in h.used : z \in Extent(c)
    BY BytesAre
  <2> QED
    BY <1>1, <2>1 DEF Apart, BlocksOf
<1>9. HeapInv(g)
  BY <1>5, <1>6, <1>7 DEF HeapInv
<1>10. Gets(h, g, b, s)
  <2>1. b.size = s
    BY DEF b
  <2> QED
    BY <1>1, <1>4, <1>8, <2>1 DEF Gets
<1> QED
  BY <1>9, <1>10 DEF g, b

LEMMA SplitIs ==
  ASSUME NEW h, HeapInv(h), NEW k \in 1 .. Len(h.free), NEW s \in Nat, Fit(h, s, k) >= 0
  PROVE  HeapInv(Split(h, k, s)) /\ Gets(h, Split(h, k, s), Block(h.free[k].addr, s), s)
<1> DEFINE g == Split(h, k, s)
           b == h.free[k]
           x == Block(b.addr, s)
           y == Block(b.addr + HDR + s, b.size - s - HDR)
<1>1. /\ h.free \in Seq(BlockSet) /\ h.used \in SUBSET BlockSet /\ NoRepeat(h.free)
      /\ h.used \cap Range(h.free) = {} /\ Apart(BlocksOf(h))
      /\ b \in BlockSet /\ b \in Range(h.free) /\ b \notin h.used
  <2>1. /\ h.free \in Seq(BlockSet) /\ h.used \in SUBSET BlockSet /\ NoRepeat(h.free)
        /\ h.used \cap Range(h.free) = {} /\ Apart(BlocksOf(h))
    BY HeapIs DEF HeapInv
  <2>2. b \in BlockSet /\ b \in Range(h.free)
    BY <2>1, RangeIs
  <2> QED
    BY <2>1, <2>2
<1>2. /\ HeapType(h) /\ h \in HeapSet
      /\ h.used_size \in Int
  BY DEF HeapInv, HeapType, HeapSet
<1>3. g = Assign(h, Replace(h.free, k, y), h.used \cup {x}, h.used_size + s)
  BY DEF Split, Assign
<1>4. b.size - s - HDR >= 0
  BY DEF Fit
<1>6. x.size = s
  BY DEF Block
<1>5. b = h.free[k]
  OBVIOUS
<1> HIDE DEF g, x, y, b
<1>7. /\ x \in BlockSet /\ y \in BlockSet /\ x # y
      /\ Apart({x, y}) /\ Bytes({x, y}) = Bytes({b})
      /\ Extent(x) \subseteq Extent(b)
  BY <1>1, <1>4, CutBytes DEF x, y
<1>8. Extent(b) \cap Bytes(h.used) = {}
  <2> SUFFICES ASSUME NEW z \in Extent(b), z \in Bytes(h.used)
               PROVE  FALSE
    OBVIOUS
  <2>1. PICK c \in h.used : z \in Extent(c)
    BY BytesAre
  <2> QED
    BY <1>1, <2>1 DEF Apart, BlocksOf
(* The remainder is no block yet: it lies in the hole, and is smaller.     *)
<1>9. y \notin Range(h.free) \/ y = b
  <2> SUFFICES ASSUME y \in Range(h.free), y # b
               PROVE  FALSE
    OBVIOUS
  <2>1. y.addr \in Extent(y)
    BY <1>7, ExtentIs
  <2>2. y.addr \in Bytes({x, y})
    BY <2>1, BytesAre
  <2>3. y.addr \in Extent(b)
    BY <1>7, <2>2 DEF Bytes
  <2> QED
    BY <1>1, <2>1, <2>3 DEF Apart, BlocksOf
<1>10. /\ Exchanged(h.free, Replace(h.free, k, y), {b}, {y})
       /\ Replace(h.free, k, y) \in Seq(BlockSet)
  BY <1>1, <1>5, <1>7, <1>9, ReplaceIs DEF Exchanged
<1>11. /\ g \in HeapSet
       /\ g.free = Replace(h.free, k, y) /\ g.used = h.used \cup {x}
       /\ g.used_size = h.used_size + s /\ g.regions = h.regions /\ g.mapped = h.mapped
  <2>1. h.used \cup {x} \in SUBSET BlockSet /\ h.used_size + s \in Int
    BY <1>1, <1>2, <1>7
  <2> QED
    BY <1>2, <1>3, <1>10, <2>1, Assigned
<1>12. HeapType(g) /\ Tiles(g)
  <2>1. /\ {x} \cup {y} = {x, y} /\ {} \cup {b} = {b} /\ {x} \cap {y} = {}
        /\ g.used = (h.used \ {}) \cup {x}
    BY <1>7, <1>11
  <2>2. Apart({x} \cup {y}) /\ Bytes({x} \cup {y}) = Bytes({} \cup {b})
    BY <1>7, <2>1
  <2>3. Swapped(h, g, {}, {b}, {x}, {y})
    BY <1>1, <1>7, <1>10, <1>11, <2>1, <2>2 DEF Swapped
  <2>4. HeapType(g)
    BY <1>2, <1>11 DEF HeapType
  <2> QED
    BY <1>2, <2>3, <2>4, Swap DEF HeapInv
<1>13. Extent(x) \cap Bytes(h.used) = {}
  BY <1>7, <1>8
<1>14. x \notin h.used
  <2>1. x.addr \in Extent(x)
    BY <1>7, ExtentIs
  <2> QED
    BY <1>13, <2>1 DEF Bytes
<1>15. SizeExact(g)
  <2>1. g.used \in SUBSET BlockSet
    BY <1>12 DEF HeapType, HeapSet
  <2>2. g.used_size = h.used_size + x.size
    BY <1>6, <1>11
  <2> QED
    BY <1>2, <1>7, <1>11, <1>12, <1>14, <2>1, <2>2, SizeGrows DEF HeapInv
<1>16. HeapInv(g)
  BY <1>12, <1>15 DEF HeapInv
<1>17. Gets(h, g, x, s)
  BY <1>6, <1>11, <1>7, <1>13, <1>14 DEF Gets
<1> QED
  BY <1>16, <1>17 DEF g, x, b

LEMMA TakeIs ==
  ASSUME NEW h, HeapInv(h), NEW k \in 1 .. Len(h.free), NEW s \in Nat, ~Unsuitable(h, k, s)
  PROVE  HeapInv(Take(h, k, s)) /\ \E x : Gets(h, Take(h, k, s), x, s)
<1>1. CASE s = h.free[k].size
  BY <1>1, TakeWholeIs DEF Take
<1>2. CASE s # h.free[k].size
  <2>1. Fit(h, s, k) \in Int
    <3>1. h.free \in Seq(BlockSet)
      BY HeapIs DEF HeapInv
    <3>2. h.free[k].size \in Nat
      BY <3>1, RangeIs, ExtentIs
    <3> QED
      BY <3>2, ConstantsAre DEF Fit
  <2>2. Fit(h, s, k) >= 0
    BY <1>2, <2>1 DEF Unsuitable
  <2> QED
    BY <1>2, <2>2, SplitIs DEF Take
<1> QED
  BY <1>1, <1>2

LEMMA NeedPageIs ==
  ASSUME NEW s \in Nat
  PROVE  NeedPage(s) \in Nat \ {0}
<1>1. PAGE \in Nat \ {0} /\ s + HDR \in Nat
  BY ConstantsAre
<1>2. (s + HDR) \div PAGE \in Nat
  BY <1>1
<1> QED
  BY <1>2 DEF NeedPage

LEMMA MappedIs ==
  ASSUME NEW h, HeapInv(h), NEW s \in Nat, NEW a \in Places(h, s)
  PROVE  LET g == Mapped(h, s, a)
         IN /\ HeapInv(g)
            /\ g.used = h.used /\ h.mapped \subseteq g.mapped
            /\ Len(g.free) = Len(h.free) + 1
            /\ g.free[Len(h.free) + 1].size = RegionSize(s)
            /\ \E r : g.regions = Append(h.regions, r)
<1> DEFINE g == Mapped(h, s, a)
           r == Block(a, RegionSize(s))
           n == NeedPage(s)
<1>1. PICK p \in Page : a = p * PAGE /\ p .. p + n - 1 \subseteq Page \ h.mapped
  BY DEF Places
<1>2. p \in Nat /\ n \in Nat \ {0} /\ RegionAt(r, p, n)
  BY <1>1, ConstantsAre, NeedPageIs DEF RegionAt, RegionSize, Page
<1>3. /\ HeapType(h) /\ Tiles(h) /\ SizeExact(h) /\ h \in HeapSet
      /\ h.max_page \in Nat /\ h.regions \in Seq(BlockSet) /\ h.mapped \in SUBSET Page
  BY DEF HeapInv, HeapType, HeapSet
<1> DEFINE m == IF h.max_page < n THEN n ELSE h.max_page
<1>4. g = Map(h, Append(h.free, r), Append(h.regions, r), h.mapped \cup PagesIn(r), m)
  BY DEF Mapped, Map
<1>5. r.size = RegionSize(s)
  BY DEF Block
<1> HIDE DEF g, r, n
<1>6. /\ r \in BlockSet /\ PagesIn(r) = p .. p + n - 1
      /\ Extent(r) = MappedBytes(PagesIn(r))
      /\ \A x : x \in Extent(r) <=> x \in Int /\ x \div PAGE \in p .. p + n - 1
  BY <1>2, RegionBytes
<1>7. /\ h.free \in Seq(BlockSet) /\ h.used \in SUBSET BlockSet /\ NoRepeat(h.free)
      /\ h.used \cap Range(h.free) = {} /\ Apart(BlocksOf(h)) /\ Len(h.free) \in Nat
      /\ BlocksOf(h) \in SUBSET BlockSet /\ h.mapped \in SUBSET Nat
      /\ Bytes(BlocksOf(h)) = MappedBytes(h.mapped)
  BY <1>3, HeapIs
<1>8. Extent(r) \cap Bytes(BlocksOf(h)) = {}
  <2> SUFFICES ASSUME NEW x \in Extent(r), x \in MappedBytes(h.mapped)
               PROVE  FALSE
    BY <1>7
  <2>1. x \div PAGE \in h.mapped
    BY <1>7, MappedBytesAre
  <2> QED
    BY <1>1, <1>6, <2>1
<1>9. r \notin BlocksOf(h)
  <2>1. r.addr \in Extent(r)
    BY <1>6, ExtentIs
  <2> QED
    BY <1>8, <2>1 DEF Bytes
<1>18. /\ Exchanged(h.free, Append(h.free, r), {}, {r})
       /\ Append(h.free, r) \in Seq(BlockSet)
  BY <1>6, <1>7, <1>9, AppendIs DEF BlocksOf, Exchanged
<1>19. /\ g \in HeapSet
       /\ g.free = Append(h.free, r) /\ g.regions = Append(h.regions, r)
       /\ g.mapped = h.mapped \cup PagesIn(r)
       /\ g.used = h.used /\ g.used_size = h.used_size
  <2>1. Append(h.regions, r) \in Seq(BlockSet)
    BY <1>3, <1>6, AppendProperties
  <2>2. h.mapped \cup PagesIn(r) \in SUBSET Page
    BY <1>1, <1>3, <1>6
  <2>3. m \in Nat
    BY <1>2, <1>3
  <2> DEFINE f == Append(h.free, r)
             R == Append(h.regions, r)
             P == h.mapped \cup PagesIn(r)
  <2>4. f \in Seq(BlockSet) /\ R \in Seq(BlockSet) /\ P \in SUBSET Page
    BY <1>18, <2>1, <2>2
  <2>5. g = Map(h, f, R, P, m)
    BY <1>4
  <2> HIDE DEF f, R, P, m
  <2>6. /\ Map(h, f, R, P, m) \in HeapSet
        /\ Map(h, f, R, P, m).free = f /\ Map(h, f, R, P, m).regions = R
        /\ Map(h, f, R, P, m).mapped = P
        /\ Map(h, f, R, P, m).used = h.used /\ Map(h, f, R, P, m).used_size = h.used_size
    BY <1>3, <2>3, <2>4, MapAssigned
  <2> QED
    BY <2>5, <2>6 DEF f, R, P
<1>10. Exchanged(h.free, g.free, {}, {r})
  BY <1>18, <1>19
<1>11. BlocksOf(g) = BlocksOf(h) \cup {r}
  BY <1>10, <1>19 DEF Exchanged, BlocksOf
<1>12. Tiles(g)
  <2>1. g.free \in Seq(BlockSet) /\ NoRepeat(g.free)
    BY <1>10 DEF Exchanged
  <2>2. g.used \cap Range(g.free) = {}
    BY <1>7, <1>9, <1>10, <1>19 DEF Exchanged, BlocksOf
  <2>3. Apart(BlocksOf(g))
    <3> SUFFICES ASSUME NEW b \in BlocksOf(g), NEW c \in BlocksOf(g), b # c
                 PROVE  Extent(b) \cap Extent(c) = {}
      BY DEF Apart
    <3>1. CASE b \in BlocksOf(h) /\ c \in BlocksOf(h)
      BY <1>7, <3>1 DEF Apart
    <3>2. CASE b = r
      BY <1>8, <1>11, <3>2 DEF Bytes
    <3>3. CASE c = r
      BY <1>8, <1>11, <3>3 DEF Bytes
    <3> QED
      BY <1>11, <3>1, <3>2, <3>3
  <2>4. Bytes(BlocksOf(g)) = MappedBytes(g.mapped)
    <3>1. Bytes(BlocksOf(g)) = Bytes(BlocksOf(h)) \cup Extent(r)
      BY <1>11 DEF Bytes
    <3>2. MappedBytes(g.mapped) = MappedBytes(h.mapped) \cup MappedBytes(PagesIn(r))
      BY <1>19 DEF MappedBytes
    <3> QED
      BY <1>6, <1>7, <3>1, <3>2
  <2> QED
    BY <2>1, <2>2, <2>3, <2>4, TilesIf
<1>13. HeapType(g)
  <2>2. /\ g.regions \in Seq(BlockSet) /\ Len(g.regions) = Len(h.regions) + 1
        /\ Len(h.regions) \in Nat
        /\ \A i \in 1 .. Len(h.regions) : g.regions[i] = h.regions[i]
        /\ g.regions[Len(h.regions) + 1] = r
    BY <1>3, <1>6, <1>19, AppendProperties, LenProperties
  <2>7. IsRegion(r)
    BY <1>1, <1>2 DEF IsRegion
  <2>8. \A i \in 1 .. Len(h.regions) : IsRegion(h.regions[i])
    BY <1>3 DEF HeapType
  <2>9. \A i \in 1 .. Len(g.regions) : IsRegion(g.regions[i])
    <3> SUFFICES ASSUME NEW i \in 1 .. Len(g.regions)
                 PROVE  IsRegion(g.regions[i])
      OBVIOUS
    <3>1. i \in 1 .. Len(h.regions) \/ i = Len(h.regions) + 1
      BY <2>2
    <3> QED
      BY <2>2, <2>7, <2>8, <3>1
  <2> QED
    BY <1>19, <2>9 DEF HeapType
<1>14. SizeExact(g)
  BY <1>3, <1>19 DEF SizeExact, Owned
<1>15. Len(g.free) = Len(h.free) + 1 /\ g.free[Len(h.free) + 1] = r
  BY <1>6, <1>7, <1>19, AppendProperties
<1>16. HeapInv(g)
  BY <1>12, <1>13, <1>14 DEF HeapInv
<1>17. h.mapped \subseteq g.mapped
  BY <1>19
<1> QED
  BY <1>5, <1>15, <1>16, <1>17, <1>19 DEF g
-----------------------------------------------------------------------------
(***************************************************************************)
(* rfree and rmshrink.                                                     *)
(***************************************************************************)
LEMMA Least ==
  ASSUME NEW T \in SUBSET Nat, T # {}
  PROVE  \E x \in T : \A y \in T : x <= y
<1> DEFINE R == {p \in Nat \X Nat : p[1] < p[2]}
<1>1. R = OpToRel(<, Nat)
  BY DEF OpToRel
<1>2. IsWellFoundedOn(R, Nat)
  BY <1>1, NatLessThanWellFounded
<1>3. PICK x \in T : \A y \in T : <<y, x>> \notin R
  BY <1>2, WFMin
<1>4. \A y \in T : x <= y
  <2> SUFFICES ASSUME NEW y \in T
               PROVE  x <= y
    OBVIOUS
  <2>1. <<y, x>> \in Nat \X Nat /\ ~(y < x)
    BY <1>3
  <2> QED
    BY <2>1
<1> QED
  BY <1>4

LEMMA MinIs ==
  ASSUME NEW T \in SUBSET Nat, T # {}
  PROVE  Min(T) \in T
<1>1. \E x \in T : \A y \in T : x <= y
  BY Least
<1> QED
  BY <1>1 DEF Min

(* What Insert does to the list: the block is joined with the holes next   *)
(* to it, or added.                                                        *)
Inserted(h, f, b) ==
  \/ Exchanged(h.free, f, {}, {b})
  \/ \E x \in Range(h.free), j \in BlockSet :
       /\ Extent(j) = Extent(x) \cup Extent(b)
       /\ Exchanged(h.free, f, {x}, {j})
  \/ \E x, y \in Range(h.free), j \in BlockSet :
       /\ Extent(j) = Extent(x) \cup Extent(b) \cup Extent(y)
       /\ Exchanged(h.free, f, {x, y}, {j})

LEMMA InsertTypes ==
  ASSUME NEW h, HeapInv(h), NEW b \in h.used
  PROVE  /\ h.free \in Seq(BlockSet) /\ NoRepeat(h.free) /\ b \in BlockSet
         /\ h.used \in SUBSET BlockSet
         /\ b \notin Range(h.free) /\ Apart(BlocksOf(h))
         /\ \A k \in 1 .. Len(h.free) : h.free[k] \in BlockSet /\ h.free[k] \in Range(h.free)
         /\ \A x \in BlockSet, c \in BlocksOf(h) : x.addr = c.addr /\ x \in Range(h.free) => x = c
<1>1. /\ h.free \in Seq(BlockSet) /\ NoRepeat(h.free) /\ b \in BlockSet
      /\ h.used \in SUBSET BlockSet /\ BlocksOf(h) \in SUBSET BlockSet
      /\ b \notin Range(h.free) /\ Apart(BlocksOf(h))
  BY HeapIs DEF HeapInv
<1>2. \A k \in 1 .. Len(h.free) : h.free[k] \in BlockSet /\ h.free[k] \in Range(h.free)
  BY <1>1, RangeIs
<1>3. ASSUME NEW x \in BlockSet, NEW c \in BlocksOf(h), x.addr = c.addr, x \in Range(h.free)
      PROVE  x = c
  <2>1. c.addr \in Extent(c) /\ x.addr \in Extent(x)
    BY <1>1, ExtentIs
  <2> QED
    BY <1>1, <1>3, <2>1 DEF Apart, BlocksOf
<1> QED
  BY <1>1, <1>2, <1>3

LEMMA JoinTemp ==
  ASSUME NEW h, HeapInv(h), NEW b \in h.used, NEW k \in 1 .. Len(h.free), MeetsTemp(h, b, k)
  PROVE  LET x == h.free[k - 1]
             j == Block(x.addr, x.size + HDR + b.size)
         IN /\ k - 1 \in 1 .. Len(h.free) /\ x \in Range(h.free)
            /\ j \in BlockSet /\ j \notin Range(h.free)
            /\ Extent(j) = Extent(x) \cup Extent(b) /\ End(j) = End(b)
            /\ j.addr = x.addr
<1> DEFINE x == h.free[k - 1]
           j == Block(x.addr, x.size + HDR + b.size)
<1>1. k - 1 \in 1 .. Len(h.free) /\ End(x) = b.addr
  BY DEF MeetsTemp
<1>2. x \in BlockSet /\ x \in Range(h.free) /\ b \in BlockSet
  BY <1>1, InsertTypes
<1>3. j.size = x.size + HDR + b.size
  BY DEF Block
<1> HIDE DEF x
<1>4. /\ j \in BlockSet /\ Extent(j) = Extent(x) \cup Extent(b)
      /\ End(j) = End(b) /\ j.addr = x.addr
  <2>1. j = Block(x.addr, x.size + HDR + b.size)
    OBVIOUS
  <2> HIDE DEF j
  <2> QED
    BY <1>1, <1>2, <2>1, JoinBytes
<1> HIDE DEF j
<1>5. j \notin Range(h.free)
  <2>1. j # x
    <3>1. x.size \in Nat /\ b.size \in Nat /\ HDR \in Nat /\ HDR > 0
      BY <1>2, ExtentIs, ConstantsAre
    <3> QED
      BY <1>3, <3>1
  <2>2. x \in BlocksOf(h)
    BY <1>2 DEF BlocksOf
  <2> QED
    BY <1>4, <2>1, <2>2, InsertTypes
<1> QED
  BY <1>1, <1>2, <1>4, <1>5 DEF x, j

LEMMA JoinItr ==
  ASSUME NEW h, HeapInv(h), NEW b \in h.used, NEW k \in 1 .. Len(h.free), MeetsItr(h, b, k)
  PROVE  LET y == h.free[k]
             j == Block(b.addr, b.size + HDR + y.size)
         IN /\ y \in Range(h.free)
            /\ j \in BlockSet /\ j \notin Range(h.free)
            /\ Extent(j) = Extent(b) \cup Extent(y)
<1> DEFINE y == h.free[k]
           j == Block(b.addr, b.size + HDR + y.size)
<1>1. End(b) = y.addr
  BY DEF MeetsItr
<1>2. y \in BlockSet /\ y \in Range(h.free) /\ b \in BlockSet
  BY InsertTypes
<1> HIDE DEF y
<1>4. j \in BlockSet /\ Extent(j) = Extent(b) \cup Extent(y) /\ j.addr = b.addr
  <2>1. j = Block(b.addr, b.size + HDR + y.size)
    OBVIOUS
  <2> HIDE DEF j
  <2> QED
    BY <1>1, <1>2, <2>1, JoinBytes
<1> HIDE DEF j
<1>5. j \notin Range(h.free)
  <2>1. b \in BlocksOf(h) /\ b \notin Range(h.free)
    BY InsertTypes DEF BlocksOf
  <2> QED
    BY <1>4, <2>1, InsertTypes
<1> QED
  BY <1>2, <1>4, <1>5 DEF y, j

LEMMA InsertDoes ==
  ASSUME NEW h, HeapInv(h), NEW b \in h.used
  PROVE  Inserted(h, Insert(h, b), b)
<1> DEFINE f == h.free
           stops == {k \in DOMAIN f : Stops(h, b, k)}
           k == Min(stops)
           joined(x, y) == Block(x.addr, x.size + HDR + y.size)
<1>1. /\ f \in Seq(BlockSet) /\ NoRepeat(f) /\ b \in BlockSet /\ b \notin Range(f)
      /\ Apart(BlocksOf(h))
      /\ \A i \in 1 .. Len(f) : f[i] \in BlockSet /\ f[i] \in Range(f)
  BY InsertTypes
<1>2. DOMAIN f = 1 .. Len(f) /\ Len(f) \in Nat
  BY <1>1, RangeIs
<1>3. CASE stops = {}
  <2>1. Insert(h, b) = Append(f, b)
    BY <1>3 DEF Insert
  <2> QED
    BY <1>1, <2>1, AppendIs DEF Inserted
<1>4. CASE stops # {}
  <2>1. k \in stops
    <3>1. stops \in SUBSET Nat
      BY <1>2
    <3> HIDE DEF stops
    <3> QED
      BY <1>4, <3>1, MinIs
  <2>2. k \in 1 .. Len(f)
    BY <1>2, <2>1
  <2>3. Insert(h, b) =
          IF MeetsTemp(h, b, k) /\ MeetsItr(h, b, k)
            THEN RemoveAt(Replace(f, k - 1, joined(joined(f[k - 1], b), f[k])), k)
          ELSE IF MeetsTemp(h, b, k)
            THEN Replace(f, k - 1, joined(f[k - 1], b))
          ELSE IF MeetsItr(h, b, k)
            THEN Replace(f, k, joined(b, f[k]))
          ELSE InsertAt(f, k, b)
    BY <1>4 DEF Insert
  <2> HIDE DEF k, stops
  <2>4. CASE MeetsTemp(h, b, k) /\ MeetsItr(h, b, k)
    <3> DEFINE x == f[k - 1]
               y == f[k]
               i == joined(x, b)
               j == joined(i, y)
               g == Replace(f, k - 1, j)
    <3>1. /\ k - 1 \in 1 .. Len(f) /\ x \in Range(f) /\ x \in BlockSet
          /\ i \in BlockSet /\ i \notin Range(f)
          /\ Extent(i) = Extent(x) \cup Extent(b) /\ End(i) = End(b) /\ i.addr = x.addr
      <4>1. /\ k - 1 \in 1 .. Len(f) /\ x \in Range(f)
            /\ i \in BlockSet /\ i \notin Range(f)
            /\ Extent(i) = Extent(x) \cup Extent(b) /\ End(i) = End(b) /\ i.addr = x.addr
        BY <2>2, <2>4, JoinTemp
      <4> HIDE DEF i
      <4> QED
        BY <1>1, <4>1
    <3>2. y \in Range(f) /\ y \in BlockSet /\ End(b) = y.addr
      BY <1>1, <2>2, <2>4 DEF MeetsItr
    <3>3. x # y
      <4>1. k - 1 # k
        BY <2>2
      <4> QED
        BY <1>1, <2>2, <3>1, <4>1 DEF NoRepeat
    <3>4. /\ j \in BlockSet /\ Extent(j) = Extent(i) \cup Extent(y)
          /\ j.addr = x.addr
      <4>1. j = Block(i.addr, i.size + HDR + y.size) /\ End(i) = y.addr
        BY <3>1, <3>2
      <4> HIDE DEF i, j, y, x
      <4> QED
        BY <3>1, <3>2, <4>1, JoinBytes
    <3>5. j \notin Range(f)
      <4>1. y.addr \in Extent(y) /\ y.addr \in Extent(j)
        BY <3>2, <3>4, ExtentIs
      <4>2. x.addr \in Extent(x) /\ x.addr \in Extent(j)
        BY <3>1, <3>4, ExtentIs
      <4> HIDE DEF x, y, i, j
      <4>3. ASSUME j \in Range(f)
            PROVE  FALSE
        <5>1. j = x
          BY <1>1, <3>1, <4>2, <4>3 DEF Apart, BlocksOf
        <5>2. j = y
          BY <1>1, <3>2, <4>1, <4>3 DEF Apart, BlocksOf
        <5> QED
          BY <3>3, <5>1, <5>2
      <4> QED
        BY <4>3
    <3>6. Insert(h, b) = RemoveAt(g, k)
      BY <2>3, <2>4
    <3> HIDE DEF j, i
    <3>7. Exchanged(f, g, {x}, {j})
      BY <1>1, <3>1, <3>4, <3>5, ReplaceFresh
    <3>8. g[k] = y /\ Len(g) = Len(f)
      <4>1. k # k - 1
        BY <2>2
      <4>2. g = [f EXCEPT ![k - 1] = j]
        BY DEF Replace
      <4> HIDE DEF g
      <4> QED
        BY <1>1, <2>2, <3>1, <3>4, <4>1, <4>2, ExceptSeq
    <3> HIDE DEF g
    <3>9. g \in Seq(BlockSet) /\ NoRepeat(g) /\ Range(g) = (Range(f) \ {x}) \cup {j}
      BY <3>7 DEF Exchanged
    <3>10. Exchanged(g, RemoveAt(g, k), {y}, {})
      BY <2>2, <3>8, <3>9, RemoveIs
    <3>11. Exchanged(f, RemoveAt(g, k), {x, y}, {j})
      <4>1. j # y
        BY <3>2, <3>5
      <4> HIDE DEF x, y
      <4> QED
        BY <3>9, <3>10, <4>1 DEF Exchanged
    <3>12. Extent(j) = Extent(x) \cup Extent(b) \cup Extent(y)
      BY <3>1, <3>4
    <3> HIDE DEF x, y
    <3> QED
      BY <3>1, <3>2, <3>4, <3>6, <3>11, <3>12 DEF Inserted
  <2>5. CASE MeetsTemp(h, b, k) /\ ~MeetsItr(h, b, k)
    <3> DEFINE x == f[k - 1]
               j == joined(x, b)
    <3>1. /\ k - 1 \in 1 .. Len(f) /\ x \in Range(f)
          /\ j \in BlockSet /\ j \notin Range(f)
          /\ Extent(j) = Extent(x) \cup Extent(b)
      BY <1>1, <2>2, <2>5, JoinTemp
    <3>2. Insert(h, b) = Replace(f, k - 1, j)
      BY <2>3, <2>5
    <3> HIDE DEF j
    <3>3. Exchanged(f, Insert(h, b), {x}, {j})
      BY <1>1, <3>1, <3>2, ReplaceFresh
    <3> QED
      BY <3>1, <3>3 DEF Inserted
  <2>6. CASE ~MeetsTemp(h, b, k) /\ MeetsItr(h, b, k)
    <3> DEFINE y == f[k]
               j == joined(b, y)
    <3>1. /\ y \in Range(f)
          /\ j \in BlockSet /\ j \notin Range(f)
          /\ Extent(j) = Extent(b) \cup Extent(y)
      BY <1>1, <2>2, <2>6, JoinItr
    <3>2. Insert(h, b) = Replace(f, k, j)
      BY <2>3, <2>6
    <3> HIDE DEF j
    <3>3. Exchanged(f, Insert(h, b), {y}, {j})
      BY <1>1, <2>2, <3>1, <3>2, ReplaceFresh
    <3>4. Extent(j) = Extent(y) \cup Extent(b)
      BY <3>1
    <3> QED
      BY <3>1, <3>3, <3>4 DEF Inserted
  <2>7. CASE ~MeetsTemp(h, b, k) /\ ~MeetsItr(h, b, k)
    <3>1. Insert(h, b) = InsertAt(f, k, b)
      BY <2>3, <2>7
    <3> QED
      BY <1>1, <2>2, <3>1, InsertIs DEF Inserted
  <2> QED
    BY <2>4, <2>5, <2>6, <2>7
<1> QED
  BY <1>3, <1>4

LEMMA FreedIs ==
  ASSUME NEW h, HeapInv(h), NEW b \in h.used
  PROVE  LET g == Freed(h, b)
         IN HeapInv(g) /\ g.used = h.used \ {b} /\ g.mapped = h.mapped
<1> DEFINE f == Insert(h, b)
           g == Freed(h, b)
           F == h.free
<1>1. /\ HeapType(h) /\ Tiles(h) /\ SizeExact(h) /\ h \in HeapSet /\ h.used_size \in Int
      /\ h.used \in SUBSET BlockSet /\ b \in BlockSet /\ b.size \in Nat
      /\ Apart(BlocksOf(h)) /\ b \notin Range(F) /\ BlocksOf(h) \in SUBSET BlockSet
  <2>1. b \in BlockSet /\ b \notin Range(F) /\ Apart(BlocksOf(h)) /\ h.used \in SUBSET BlockSet
    BY InsertTypes
  <2>2. HeapType(h) /\ Tiles(h) /\ SizeExact(h)
    BY DEF HeapInv
  <2>3. h \in HeapSet /\ h.used_size \in Int
    BY <2>2 DEF HeapType, HeapSet
  <2> QED
    BY <2>1, <2>2, <2>3, ExtentIs, HeapIs
<1>2. Inserted(h, f, b)
  BY InsertDoes
<1>3. g = Assign(h, f, h.used \ {b}, h.used_size - b.size)
  BY DEF Freed, Assign
<1> HIDE DEF f, g
<1>4. f \in Seq(BlockSet)
  BY <1>2 DEF Inserted, Exchanged
<1>5. /\ g \in HeapSet /\ g.free = f /\ g.used = h.used \ {b}
      /\ g.used_size = h.used_size - b.size /\ g.regions = h.regions /\ g.mapped = h.mapped
  <2>1. h.used \ {b} \in SUBSET BlockSet /\ h.used_size - b.size \in Int
    BY <1>1
  <2> QED
    BY <1>1, <1>3, <1>4, <2>1, Assigned
<1>6. Tiles(g)
  <2>0. g.used = (h.used \ {b}) \cup {}
    BY <1>5
  <2>1. CASE Exchanged(F, f, {}, {b})
    <3>1. /\ Apart({} \cup {b}) /\ Bytes({} \cup {b}) = Bytes({b} \cup {})
          /\ {} \cap {b} = {}
      BY DEF Apart
    <3>2. Swapped(h, g, {b}, {}, {}, {b})
      BY <1>1, <1>5, <2>0, <2>1, <3>1 DEF Swapped
    <3> QED
      BY <1>1, <3>2, Swap
  <2>2. CASE \E x \in Range(F), j \in BlockSet :
               /\ Extent(j) = Extent(x) \cup Extent(b)
               /\ Exchanged(F, f, {x}, {j})
    <3>1. PICK x \in Range(F), j \in BlockSet :
               /\ Extent(j) = Extent(x) \cup Extent(b)
               /\ Exchanged(F, f, {x}, {j})
      BY <2>2
    <3>2. Apart({} \cup {j}) /\ {} \cap {j} = {}
      BY DEF Apart
    <3>3. Bytes({} \cup {j}) = Bytes({b} \cup {x})
      BY <3>1 DEF Bytes
    <3>4. Swapped(h, g, {b}, {x}, {}, {j})
      BY <1>1, <1>5, <2>0, <3>1, <3>2, <3>3 DEF Swapped
    <3> QED
      BY <1>1, <3>4, Swap
  <2>3. CASE \E x, y \in Range(F), j \in BlockSet :
               /\ Extent(j) = Extent(x) \cup Extent(b) \cup Extent(y)
               /\ Exchanged(F, f, {x, y}, {j})
    <3>1. PICK x \in Range(F), y \in Range(F), j \in BlockSet :
               /\ Extent(j) = Extent(x) \cup Extent(b) \cup Extent(y)
               /\ Exchanged(F, f, {x, y}, {j})
      BY <2>3
    <3>2. Apart({} \cup {j}) /\ {} \cap {j} = {}
      BY DEF Apart
    <3>3. Bytes({} \cup {j}) = Bytes({b} \cup {x, y})
      <4>1. Bytes({} \cup {j}) = Extent(j)
        BY DEF Bytes
      <4>2. Bytes({b} \cup {x, y}) = Extent(b) \cup Extent(x) \cup Extent(y)
        BY DEF Bytes
      <4> QED
        BY <3>1, <4>1, <4>2
    <3>4. Swapped(h, g, {b}, {x, y}, {}, {j})
      BY <1>1, <1>5, <2>0, <3>1, <3>2, <3>3 DEF Swapped
    <3> QED
      BY <1>1, <3>4, Swap
  <2> QED
    BY <1>2, <2>1, <2>2, <2>3 DEF Inserted
<1>7. HeapType(g)
  BY <1>1, <1>5 DEF HeapType
<1>8. SizeExact(g)
  BY <1>1, <1>5, SizeShrinks
<1> QED
  BY <1>5, <1>6, <1>7, <1>8 DEF HeapInv, g

(* What rmshrink does with one entry of the table.                         *)
Shrinks(h, g) ==
  /\ HeapInv(g)
  /\ g.regions = h.regions /\ g.used = h.used
  /\ g.mapped \subseteq h.mapped

LEMMA ShrunkByIs ==
  ASSUME NEW h, HeapInv(h), NEW r, IsRegion(r)
  PROVE  Shrinks(h, ShrunkBy(h, r))
<1> DEFINE F == h.free
           holes == {k \in DOMAIN F : F[k] = r}
           k == Min(holes)
           g == ShrunkBy(h, r)
<1>1. /\ HeapType(h) /\ Tiles(h) /\ SizeExact(h) /\ h \in HeapSet
      /\ F \in Seq(BlockSet) /\ h.mapped \in SUBSET Page /\ NoRepeat(F)
      /\ h.mapped \in SUBSET Nat
      /\ h.used \cap Range(F) = {} /\ Apart(BlocksOf(h))
      /\ Bytes(BlocksOf(h)) = MappedBytes(h.mapped)
      /\ DOMAIN F = 1 .. Len(F) /\ Len(F) \in Nat
  BY HeapIs, RangeIs DEF HeapInv, HeapType
<1>2. CASE holes = {}
  <2>1. g = h
    BY <1>2 DEF ShrunkBy
  <2> QED
    BY <2>1 DEF Shrinks
<1>3. CASE holes # {}
  <2>1. k \in holes
    <3>1. holes \in SUBSET Nat
      BY <1>1
    <3> HIDE DEF holes
    <3> QED
      BY <1>3, <3>1, MinIs
  <2>2. k \in 1 .. Len(F) /\ F[k] = r
    BY <1>1, <2>1
  <2>3. g = Unmap(h, RemoveAt(F, k), h.mapped \ PagesIn(r))
    BY <1>3 DEF ShrunkBy, Unmap
  <2> HIDE DEF k, holes, g
  <2>4. Exchanged(F, RemoveAt(F, k), {r}, {})
    BY <1>1, <2>2, RemoveIs
  <2>5. RemoveAt(F, k) \in Seq(BlockSet) /\ h.mapped \ PagesIn(r) \in SUBSET Page
    BY <1>1, <2>4 DEF Exchanged
  <2>6. /\ g \in HeapSet /\ g.free = RemoveAt(F, k) /\ g.mapped = h.mapped \ PagesIn(r)
        /\ g.used = h.used /\ g.used_size = h.used_size /\ g.regions = h.regions
    BY <1>1, <2>3, <2>5, UnmapAssigned
  <2>7. r \in Range(F) /\ r \in BlocksOf(h)
    BY <1>1, <2>2, RangeIs DEF BlocksOf
  <2>8. g.free \in Seq(BlockSet) /\ NoRepeat(g.free) /\ Range(g.free) = Range(F) \ {r}
    BY <2>4, <2>6 DEF Exchanged
  <2>9. BlocksOf(g) = BlocksOf(h) \ {r}
    BY <1>1, <2>6, <2>7, <2>8 DEF BlocksOf
  <2>10. Extent(r) = MappedBytes(PagesIn(r)) /\ PagesIn(r) \in SUBSET Nat
    <3>1. PICK p \in Page, n \in Nat \ {0} : RegionAt(r, p, n)
      BY DEF IsRegion
    <3>2. p \in Nat
      BY ConstantsAre DEF Page
    <3>3. Extent(r) = MappedBytes(PagesIn(r)) /\ PagesIn(r) = p .. p + n - 1
      BY <3>1, <3>2, RegionBytes
    <3> QED
      BY <3>2, <3>3
  <2>11. ASSUME NEW x
         PROVE  x \in Bytes(BlocksOf(g)) <=> x \in MappedBytes(g.mapped)
    <3>1. x \in Bytes(BlocksOf(g)) <=> x \in Bytes(BlocksOf(h)) /\ x \notin Extent(r)
      <4>1. ASSUME x \in Bytes(BlocksOf(g))
            PROVE  x \in Bytes(BlocksOf(h)) /\ x \notin Extent(r)
        <5>1. PICK c \in BlocksOf(g) : x \in Extent(c)
          BY <4>1, BytesAre
        <5>2. c \in BlocksOf(h) /\ c # r
          BY <2>9
        <5> QED
          BY <1>1, <2>7, <5>1, <5>2, BytesAre DEF Apart
      <4>2. ASSUME x \in Bytes(BlocksOf(h)), x \notin Extent(r)
            PROVE  x \in Bytes(BlocksOf(g))
        <5>1. PICK c \in BlocksOf(h) : x \in Extent(c)
          BY <4>2, BytesAre
        <5>2. c \in BlocksOf(g)
          BY <2>9, <4>2, <5>1
        <5> QED
          BY <5>1, <5>2, BytesAre
      <4> QED
        BY <4>1, <4>2
    <3>2. x \in MappedBytes(g.mapped) <=>
            x \in MappedBytes(h.mapped) /\ x \notin MappedBytes(PagesIn(r))
      <4>1. g.mapped \in SUBSET Nat
        BY <1>1, <2>6
      <4>2. /\ x \in MappedBytes(g.mapped) <=> x \in Int /\ x \div PAGE \in g.mapped
            /\ x \in MappedBytes(h.mapped) <=> x \in Int /\ x \div PAGE \in h.mapped
            /\ x \in MappedBytes(PagesIn(r)) <=> x \in Int /\ x \div PAGE \in PagesIn(r)
        BY <1>1, <2>10, <4>1, MappedBytesAre
      <4> QED
        BY <2>6, <4>2
    <3> QED
      BY <1>1, <2>10, <3>1, <3>2
  <2>12. Tiles(g)
    <3>1. g.used \cap Range(g.free) = {}
      BY <1>1, <2>6, <2>8
    <3>2. Apart(BlocksOf(g))
      BY <1>1, <2>9 DEF Apart
    <3>3. Bytes(BlocksOf(g)) = MappedBytes(g.mapped)
      BY <2>11
    <3> QED
      BY <2>8, <3>1, <3>2, <3>3, TilesIf
  <2>13. HeapType(g)
    BY <1>1, <2>6 DEF HeapType
  <2>14. SizeExact(g)
    BY <1>1, <2>6 DEF SizeExact, Owned
  <2>15. g.mapped \subseteq h.mapped
    BY <2>6
  <2> QED
    BY <2>6, <2>12, <2>13, <2>14, <2>15 DEF HeapInv, Shrinks, g
<1> QED
  BY <1>2, <1>3

(* The heaps between the entries of the table.                             *)
IsAfter(h, n, u) ==
  u = [i \in 0 .. n |-> IF i = 0 THEN h ELSE ShrunkBy(u[i - 1], h.regions[i])]
After(h, n) == CHOOSE u : IsAfter(h, n, u)

LEMMA AfterExists ==
  ASSUME NEW h, NEW n \in Nat
  PROVE  \E u : IsAfter(h, n, u)
<1> DEFINE T == {i \in Nat : ~\E u : IsAfter(h, i, u)}
<1> SUFFICES ASSUME T # {}
             PROVE  FALSE
  OBVIOUS
<1>1. PICK m \in T : \A i \in T : m <= i
  <2>1. T \in SUBSET Nat
    OBVIOUS
  <2> HIDE DEF T
  <2> QED
    BY <2>1, Least
<1>2. m # 0
  <2>1. IsAfter(h, 0, [i \in 0 .. 0 |-> h])
    BY DEF IsAfter
  <2> QED
    BY <1>1, <2>1
<1>3. m - 1 \in Nat /\ m - 1 \notin T
  BY <1>1, <1>2
<1>4. PICK u : IsAfter(h, m - 1, u)
  BY <1>3
<1> DEFINE v == [i \in 0 .. m |-> IF i = m THEN ShrunkBy(u[m - 1], h.regions[m]) ELSE u[i]]
<1>5. ASSUME NEW i \in 0 .. m
      PROVE  v[i] = IF i = 0 THEN h ELSE ShrunkBy(v[i - 1], h.regions[i])
  <2>1. CASE i = 0
    <3>1. v[0] = u[0] /\ 0 \in 0 .. m - 1
      BY <1>2, <1>3
    <3>2. u[0] = h
      BY <1>4, <3>1 DEF IsAfter
    <3> QED
      BY <2>1, <3>1, <3>2
  <2>2. CASE i = m
    <3>1. v[i] = ShrunkBy(u[m - 1], h.regions[m])
      BY <2>2
    <3>2. v[i - 1] = u[m - 1]
      BY <1>2, <1>3, <2>2
    <3> QED
      BY <1>2, <2>2, <3>1, <3>2
  <2>3. CASE i # 0 /\ i # m
    <3>1. i \in 0 .. m - 1 /\ i - 1 \in 0 .. m - 1
      BY <1>3, <2>3
    <3>2. v[i] = u[i] /\ v[i - 1] = u[i - 1]
      BY <1>3, <2>3, <3>1
    <3>3. u[i] = ShrunkBy(u[i - 1], h.regions[i])
      BY <1>4, <2>3, <3>1 DEF IsAfter
    <3> QED
      BY <2>3, <3>2, <3>3
  <2> QED
    BY <2>1, <2>2, <2>3
<1>6. v = [i \in 0 .. m |-> v[i]]
  OBVIOUS
<1> HIDE DEF v
<1>7. IsAfter(h, m, v)
  BY <1>5, <1>6 DEF IsAfter
<1> QED
  BY <1>1, <1>7

LEMMA ShrunkIs ==
  ASSUME NEW h, HeapInv(h)
  PROVE  Shrinks(h, Shrunk(h))
<1> DEFINE n == Len(h.regions)
           w == After(h, n)
<1>1. n \in Nat /\ \A i \in 1 .. n : IsRegion(h.regions[i])
  <2>1. h.regions \in Seq(BlockSet)
    BY DEF HeapInv, HeapType, HeapSet
  <2> QED
    BY <2>1, LenProperties DEF HeapInv, HeapType
<1>2. IsAfter(h, n, w)
  <2> HIDE DEF n
  <2>1. \E u : IsAfter(h, n, u)
    BY <1>1, AfterExists
  <2> QED
    BY <2>1 DEF After
<1>3. Shrunk(h) = w[n]
  BY DEF Shrunk, After, IsAfter
<1> HIDE DEF w, n
<1>4. w[0] = h /\ \A i \in 1 .. n : w[i] = ShrunkBy(w[i - 1], h.regions[i])
  <2>1. 0 \in 0 .. n /\ \A i \in 1 .. n : i \in 0 .. n /\ i # 0
    BY <1>1
  <2>2. \A i \in 0 .. n : w[i] = IF i = 0 THEN h ELSE ShrunkBy(w[i - 1], h.regions[i])
    BY <1>2 DEF IsAfter
  <2> QED
    BY <2>1, <2>2
<1> DEFINE T == {i \in 0 .. n : ~Shrinks(h, w[i])}
<1>5. T = {}
  <2> SUFFICES ASSUME T # {}
               PROVE  FALSE
    OBVIOUS
  <2>1. PICK m \in T : \A i \in T : m <= i
    <3>1. T \in SUBSET Nat
      BY <1>1
    <3> HIDE DEF T
    <3> QED
      BY <3>1, Least
  <2>2. m # 0
    <3>1. Shrinks(h, h)
      BY DEF Shrinks
    <3> QED
      BY <1>4, <2>1, <3>1
  <2>3. m \in 1 .. n /\ m - 1 \in 0 .. n /\ m - 1 \notin T
    BY <1>1, <2>1, <2>2
  <2>4. Shrinks(h, w[m - 1])
    BY <2>3
  <2>5. Shrinks(w[m - 1], ShrunkBy(w[m - 1], h.regions[m]))
    BY <1>1, <2>3, <2>4, ShrunkByIs DEF Shrinks
  <2>6. Shrinks(h, w[m])
    BY <1>4, <2>3, <2>4, <2>5 DEF Shrinks
  <2> QED
    BY <2>1, <2>6
<1>6. n \in 0 .. n
  BY <1>1
<1> QED
  BY <1>3, <1>5, <1>6
-----------------------------------------------------------------------------
(***************************************************************************)
(* The search for a hole, and the outcomes of a call.                      *)
(***************************************************************************)
PolicyIs == policy \in {"BestFit", "WorstFit", "FirstFit"}

LEMMA FitIs ==
  ASSUME NEW h, HeapInv(h), NEW s \in Nat
  PROVE  /\ DOMAIN h.free = 1 .. Len(h.free) /\ Len(h.free) \in Nat
         /\ \A k \in 1 .. Len(h.free) :
              /\ h.free[k].size \in Nat /\ h.free[k] \in Range(h.free)
              /\ Fit(h, s, k) \in Int /\ Fit(h, s, k) = h.free[k].size - s - HDR
<1>1. h.free \in Seq(BlockSet)
  BY HeapIs DEF HeapInv
<1>2. /\ DOMAIN h.free = 1 .. Len(h.free) /\ Len(h.free) \in Nat
      /\ \A k \in 1 .. Len(h.free) : h.free[k] \in BlockSet /\ h.free[k] \in Range(h.free)
  BY <1>1, RangeIs
<1>3. \A k \in 1 .. Len(h.free) : h.free[k].size \in Nat
  BY <1>2, ExtentIs
<1>4. \A k \in 1 .. Len(h.free) : Fit(h, s, k) \in Int /\ Fit(h, s, k) = h.free[k].size - s - HDR
  BY <1>3, ConstantsAre DEF Fit
<1> QED
  BY <1>2, <1>3, <1>4

LEMMA BetterIs ==
  ASSUME NEW h, HeapInv(h), NEW s \in Nat, PolicyIs,
         NEW j \in 1 .. Len(h.free), NEW k \in 1 .. Len(h.free)
  PROVE  /\ j # k => Better(h, s, j, k) \/ Better(h, s, k, j)
         /\ \A l \in 1 .. Len(h.free) :
              Better(h, s, j, k) /\ Better(h, s, k, l) => Better(h, s, j, l)
<1>1. /\ Fit(h, s, j) \in Int /\ Fit(h, s, k) \in Int /\ j \in Int /\ k \in Int
      /\ \A l \in 1 .. Len(h.free) : Fit(h, s, l) \in Int /\ l \in Int
  BY FitIs
<1>2. CASE policy = "BestFit"
  BY <1>1, <1>2 DEF Better
<1>3. CASE policy = "WorstFit"
  BY <1>1, <1>3 DEF Better
<1>4. CASE policy = "FirstFit"
  BY <1>1, <1>4 DEF Better
<1> QED
  BY <1>2, <1>3, <1>4 DEF PolicyIs

(* k is the best of the candidates.                                        *)
BestOf(h, s, C, k) == k \in C /\ \A j \in C \ {k} : Better(h, s, k, j)

LEMMA HoleIs ==
  ASSUME NEW h, HeapInv(h), NEW s \in Nat, PolicyIs, Candidates(h, s) # {}
  PROVE  Hole(h, s) \in Candidates(h, s) /\ Hole(h, s) \in 1 .. Len(h.free)
<1> DEFINE C == Candidates(h, s)
           L == Len(h.free)
<1>1. C \subseteq 1 .. L /\ L \in Nat
  BY FitIs DEF Candidates
<1> HIDE DEF C
<1> DEFINE C_(n) == C \cap (1 .. n)
           T == {n \in 0 .. L : C_(n) # {} /\ ~\E k \in C : BestOf(h, s, C_(n), k)}
<1>2. T = {}
  <2> SUFFICES ASSUME T # {}
               PROVE  FALSE
    OBVIOUS
  <2>1. PICK m \in T : \A i \in T : m <= i
    <3>1. T \in SUBSET Nat
      BY <1>1
    <3> HIDE DEF T
    <3> QED
      BY <3>1, Least
  <2>2. m \in 0 .. L /\ C_(m) # {} /\ ~\E k \in C : BestOf(h, s, C_(m), k)
    BY <2>1
  <2>3. m # 0
    BY <2>2
  <2>4. m - 1 \in 0 .. L /\ m - 1 \notin T
    <3>1. m - 1 \in 0 .. L /\ ~(m <= m - 1)
      BY <1>1, <2>2, <2>3
    <3> HIDE DEF T
    <3> QED
      BY <2>1, <3>1
  <2>5. \A i \in C_(m) : i \in C_(m - 1) \/ i = m
    BY <1>1, <2>2
  <2>6. C_(m - 1) \subseteq C_(m) /\ m \notin C_(m - 1)
    BY <1>1, <2>2
  <2>7. C_(m - 1) = {} \/ \E k \in C : BestOf(h, s, C_(m - 1), k)
    BY <2>4
  <2>9. \A i \in C_(m) : i \in C /\ i \in 1 .. L
    BY <1>1
  <2> HIDE DEF C_, T
  <2>8. m \in C_(m)
    <3> SUFFICES ASSUME m \notin C_(m)
                 PROVE  FALSE
      OBVIOUS
    <3>1. C_(m) = C_(m - 1)
      BY <2>5, <2>6
    <3> QED
      BY <2>2, <2>7, <3>1
  <2>10. CASE C_(m - 1) = {}
    <3>1. BestOf(h, s, C_(m), m)
      BY <2>5, <2>8, <2>10 DEF BestOf
    <3> QED
      BY <2>2, <2>8, <2>9, <3>1
  <2>11. CASE \E k \in C : BestOf(h, s, C_(m - 1), k)
    <3>1. PICK k \in C : BestOf(h, s, C_(m - 1), k)
      BY <2>11
    <3>2. k \in C_(m - 1) /\ k \in C_(m) /\ k # m
      BY <2>6, <3>1 DEF BestOf
    <3>3. k \in 1 .. L /\ m \in 1 .. L
      BY <2>8, <2>9, <3>2
    <3>4. CASE Better(h, s, k, m)
      <4>1. BestOf(h, s, C_(m), k)
        BY <2>5, <3>1, <3>2, <3>4 DEF BestOf
      <4> QED
        BY <2>2, <4>1
    <3>5. CASE Better(h, s, m, k)
      <4>1. ASSUME NEW j \in C_(m) \ {m}
            PROVE  Better(h, s, m, j)
        <5>1. j \in C_(m - 1) /\ j \in 1 .. L
          BY <2>5, <2>9
        <5>2. j = k \/ Better(h, s, k, j)
          BY <3>1, <5>1 DEF BestOf
        <5> QED
          BY <3>3, <3>5, <5>1, <5>2, BetterIs
      <4>2. BestOf(h, s, C_(m), m)
        BY <2>8, <4>1 DEF BestOf
      <4> QED
        BY <2>2, <2>8, <2>9, <4>2
    <3> QED
      BY <3>2, <3>3, <3>4, <3>5, BetterIs
  <2> QED
    BY <2>7, <2>10, <2>11
<1>3. C_(L) = C /\ C # {}
  BY <1>1 DEF C
<1>4. \E k \in C : BestOf(h, s, C, k)
  <2> SUFFICES ASSUME ~\E k \in C : BestOf(h, s, C, k)
               PROVE  FALSE
    OBVIOUS
  <2>1. L \in 0 .. L
    BY <1>1
  <2> HIDE DEF L, C_
  <2>2. L \in T
    BY <1>3, <2>1
  <2> QED
    BY <1>2, <2>2
<1>5. \E k \in C : \A j \in C \ {k} : Better(h, s, k, j)
  BY <1>4 DEF BestOf
<1>6. Hole(h, s) = CHOOSE k \in C : \A j \in C \ {k} : Better(h, s, k, j)
  BY DEF Hole, C
<1>7. Hole(h, s) \in C
  BY <1>5, <1>6
<1> QED
  BY <1>1, <1>7 DEF C

(* Why a request can go wrong.                                             *)
Explained(h, why, s) ==
  \/ why = "hole" /\ \E b \in Range(h.free) :
       \/ policy = "WorstFit" /\ b.size = s + HDR - 1
       \/ policy = "FirstFit" /\ b.size < HDR
  \/ why = "region" /\ LeavesNoHeader(s)
  \/ why = "table" /\ Len(h.regions) = Slots

LEMMA OutcomeIs ==
  ASSUME NEW h, HeapInv(h), NEW s \in Nat, PolicyIs, NEW o \in Outcomes(h, s)
  PROVE  \/ o.why = "none" /\ HeapInv(o.heap) /\ \E x : Gets(h, o.heap, x, s)
         \/ o.why # "none" /\ Explained(h, o.why, s)
<1>1. CASE Candidates(h, s) # {}
  <2> DEFINE k == Hole(h, s)
  <2>1. k \in Candidates(h, s) /\ k \in 1 .. Len(h.free)
    BY <1>1, HoleIs
  <2>2. o = TakeOrFail(h, k, s, "hole")
    BY <1>1 DEF Outcomes
  <2> HIDE DEF k
  <2>3. /\ h.free[k].size \in Nat /\ h.free[k] \in Range(h.free) /\ HDR \in Nat
        /\ Fit(h, s, k) \in Int /\ Fit(h, s, k) = h.free[k].size - s - HDR
    BY <2>1, FitIs, ConstantsAre
  <2>4. CASE ~Unsuitable(h, k, s)
    <3>1. o.why = "none" /\ o.heap = Take(h, k, s)
      BY <2>2, <2>4 DEF TakeOrFail, Success
    <3> QED
      BY <2>1, <2>4, <3>1, TakeIs
  <2>5. CASE Unsuitable(h, k, s)
    <3>1. o.why = "hole"
      BY <2>2, <2>5 DEF TakeOrFail, Failure
    <3>2. Fit(h, s, k) < 0
      BY <2>5 DEF Unsuitable
    <3>3. \/ policy = "BestFit" /\ Fit(h, s, k) \in 0 .. h.max_page * PAGE
          \/ policy = "WorstFit" /\ Fit(h, s, k) >= -1
          \/ policy = "FirstFit" /\ (h.free[k].size < HDR \/ Fit(h, s, k) >= 0)
      BY <2>1 DEF Candidates
    <3>4. \/ policy = "WorstFit" /\ h.free[k].size = s + HDR - 1
          \/ policy = "FirstFit" /\ h.free[k].size < HDR
      <4>1. CASE policy = "BestFit" /\ Fit(h, s, k) \in 0 .. h.max_page * PAGE
        BY <2>3, <3>2, <4>1
      <4>2. CASE policy = "WorstFit" /\ Fit(h, s, k) >= -1
        BY <2>3, <3>2, <4>2
      <4>3. CASE policy = "FirstFit" /\ (h.free[k].size < HDR \/ Fit(h, s, k) >= 0)
        BY <2>3, <3>2, <4>3
      <4> QED
        BY <3>3, <4>1, <4>2, <4>3
    <3> QED
      BY <2>3, <3>1, <3>4 DEF Explained
  <2> QED
    BY <2>4, <2>5
<1>2. CASE Candidates(h, s) = {} /\ Len(h.regions) = Slots
  BY <1>2 DEF Outcomes, Failure, Explained
<1>3. CASE Candidates(h, s) = {} /\ Len(h.regions) # Slots
  <2>1. PICK a \in Places(h, s) : o = TakeOrFail(Mapped(h, s, a), Len(h.free) + 1, s, "region")
    BY <1>3 DEF Outcomes
  <2> DEFINE g == Mapped(h, s, a)
             k == Len(h.free) + 1
  <2>2. /\ HeapInv(g) /\ g.used = h.used /\ h.mapped \subseteq g.mapped
        /\ Len(g.free) = k /\ g.free[k].size = RegionSize(s)
    BY MappedIs
  <2>3. k \in 1 .. k
    BY FitIs
  <2> HIDE DEF g
  <2>4. CASE ~Unsuitable(g, k, s)
    <3>1. o.why = "none" /\ o.heap = Take(g, k, s)
      BY <2>1, <2>4 DEF TakeOrFail, Success, g
    <3>2. HeapInv(o.heap) /\ \E x : Gets(g, o.heap, x, s)
      BY <2>2, <2>3, <2>4, <3>1, TakeIs
    <3>3. \E x : Gets(h, o.heap, x, s)
      BY <2>2, <3>2 DEF Gets
    <3> QED
      BY <3>1, <3>2, <3>3
  <2>5. CASE Unsuitable(g, k, s)
    <3>1. o.why = "region"
      BY <2>1, <2>5 DEF TakeOrFail, Failure, g
    <3>2. Fit(g, s, k) < 0 /\ Fit(g, s, k) = RegionSize(s) - s - HDR /\ RegionSize(s) \in Nat
      <4> HIDE DEF k
      <4>1. k \in 1 .. Len(g.free)
        BY <2>2, <2>3
      <4>2. Fit(g, s, k) = g.free[k].size - s - HDR /\ g.free[k].size \in Nat
        BY <2>2, <4>1, FitIs
      <4> QED
        BY <2>2, <2>5, <4>2 DEF Unsuitable
    <3>3. LeavesNoHeader(s)
      BY <3>2, ConstantsAre DEF LeavesNoHeader
    <3> QED
      BY <3>1, <3>3 DEF Explained
  <2> QED
    BY <2>4, <2>5
<1> QED
  BY <1>1, <1>2, <1>3
-----------------------------------------------------------------------------
(***************************************************************************)
(* The invariant.                                                          *)
(***************************************************************************)
LEMMA EmptyIs == HeapInv(EmptyHeap)
<1> DEFINE h == EmptyHeap
<1>1. /\ h.free = <<>> /\ h.used = {} /\ h.used_size = 0 /\ h.regions = <<>>
      /\ h.max_page = 1 /\ h.mapped = {} /\ h \in HeapSet
  BY DEF EmptyHeap, HeapSet
<1> HIDE DEF h
<1>2. HeapType(h)
  BY <1>1 DEF HeapType
<1>3. BlocksOf(h) = {} /\ Range(h.free) = {}
  BY <1>1 DEF BlocksOf, Range
<1>4. Tiles(h)
  BY <1>1, <1>3 DEF Tiles, Apart
<1>5. Owned(h) = {}
  BY <1>1 DEF Owned
<1>6. SizeExact(h)
  BY <1>1, <1>5, FS_EmptySet DEF SizeExact
<1> QED
  BY <1>2, <1>4, <1>6 DEF HeapInv, h

LEMMA InitIInv == Init => IInv
<1> SUFFICES ASSUME Init
             PROVE  IInv
  OBVIOUS
<1>1. HeapInv(heap)
  BY EmptyIs DEF Init
<1>2. DamageExplained
  BY DEF Init, None, DamageExplained
<1> QED
  BY <1>1, <1>2 DEF IInv, Init

LEMMA StaysRunning ==
  ASSUME Running, UNCHANGED damage
  PROVE  DamageExplained'
BY DEF Running, None, DamageExplained

LEMMA FailsExplained ==
  ASSUME NEW why, NEW s \in Nat, Explained(heap, why, s),
         damage' = [why |-> why, size |-> s], UNCHANGED <<heap, policy>>
  PROVE  DamageExplained'
<1>1. damage'.why = why /\ damage'.size = s
  OBVIOUS
<1>2. Holes' = Range(heap.free) /\ heap' = heap /\ policy' = policy
  BY DEF Holes
<1>3. CASE why = "hole"
  BY <1>1, <1>2, <1>3 DEF Explained, DamageExplained
<1>4. CASE why = "region"
  BY <1>1, <1>2, <1>4 DEF Explained, DamageExplained
<1>5. CASE why = "table"
  BY <1>1, <1>2, <1>5 DEF Explained, DamageExplained
<1> QED
  BY <1>3, <1>4, <1>5 DEF Explained

LEMMA NextIInv == IInv /\ [Next]_vars => IInv'
<1> SUFFICES ASSUME IInv, [Next]_vars
             PROVE  IInv'
  OBVIOUS
<1>1. HeapInv(heap) /\ PolicyIs /\ DamageExplained
  BY DEF IInv, PolicyIs
<1>2. ASSUME NEW s \in Size, Rmalloc(s)
      PROVE  IInv'
  <2>1. PICK o \in Outcomes(heap, s) : Leaves(o, s, o.heap)
    BY <1>2 DEF Rmalloc
  <2>2. s \in Nat /\ Running /\ policy' = policy
    BY <1>2, ConstantsAre DEF Rmalloc
  <2>3. CASE o.why = "none" /\ HeapInv(o.heap) /\ \E x : Gets(heap, o.heap, x, s)
    <3>1. heap' = o.heap /\ UNCHANGED damage
      BY <2>1, <2>3 DEF Leaves
    <3>2. HeapInv(heap')
      BY <2>3, <3>1
    <3> QED
      BY <1>1, <2>2, <3>1, <3>2, StaysRunning DEF IInv, PolicyIs
  <2>4. CASE o.why # "none" /\ Explained(heap, o.why, s)
    <3>1. heap' = heap /\ damage' = [why |-> o.why, size |-> s]
      BY <2>1, <2>4 DEF Leaves
    <3> QED
      BY <1>1, <2>2, <2>4, <3>1, FailsExplained DEF IInv, PolicyIs
  <2> QED
    BY <1>1, <2>2, <2>3, <2>4, OutcomeIs
<1>3. ASSUME NEW b \in heap.used, Rfree(b)
      PROVE  IInv'
  <2>1. HeapInv(heap') /\ Running /\ UNCHANGED <<policy, damage>>
    BY <1>1, <1>3, FreedIs DEF Rfree
  <2> QED
    BY <1>1, <2>1, StaysRunning DEF IInv, PolicyIs
<1>4. ASSUME NEW b \in heap.used, NEW s \in Size, Rrealloc(b, s)
      PROVE  IInv'
  <2>1. PICK o \in Outcomes(heap, s) : Leaves(o, s, Freed(o.heap, b))
    BY <1>4 DEF Rrealloc
  <2>2. s \in Nat /\ Running /\ policy' = policy
    BY <1>4, ConstantsAre DEF Rrealloc
  <2>3. CASE o.why = "none" /\ HeapInv(o.heap) /\ \E x : Gets(heap, o.heap, x, s)
    <3>1. heap' = Freed(o.heap, b) /\ UNCHANGED damage
      BY <2>1, <2>3 DEF Leaves
    <3>2. b \in o.heap.used
      BY <2>3 DEF Gets
    <3>3. HeapInv(heap')
      BY <2>3, <3>1, <3>2, FreedIs
    <3> QED
      BY <1>1, <2>2, <3>1, <3>3, StaysRunning DEF IInv, PolicyIs
  <2>4. CASE o.why # "none" /\ Explained(heap, o.why, s)
    <3>1. heap' = heap /\ damage' = [why |-> o.why, size |-> s]
      BY <2>1, <2>4 DEF Leaves
    <3> QED
      BY <1>1, <2>2, <2>4, <3>1, FailsExplained DEF IInv, PolicyIs
  <2> QED
    BY <1>1, <2>2, <2>3, <2>4, OutcomeIs
<1>5. CASE Rmshrink
  <2>1. HeapInv(heap') /\ Running /\ UNCHANGED <<policy, damage>>
    BY <1>1, <1>5, ShrunkIs DEF Rmshrink, Shrinks
  <2> QED
    BY <1>1, <2>1, StaysRunning DEF IInv, PolicyIs
<1>6. ASSUME NEW opt \in Policy, Rmconfig(opt)
      PROVE  IInv'
  <2>1. policy' \in {"BestFit", "WorstFit", "FirstFit"}
    BY <1>6, RmallocAssumption DEF Rmconfig
  <2>2. heap' = heap /\ UNCHANGED damage /\ Running
    BY <1>6 DEF Rmconfig
  <2> QED
    BY <1>1, <2>1, <2>2, StaysRunning DEF IInv
<1>7. CASE WrongPointer
  <2>1. HeapInv(heap') /\ policy' = policy
    BY <1>7, EmptyIs DEF WrongPointer
  <2>2. damage'.why = "exit"
    BY <1>7 DEF WrongPointer
  <2>3. DamageExplained'
    BY <2>2 DEF DamageExplained
  <2> QED
    BY <1>1, <2>1, <2>3 DEF IInv, PolicyIs
<1>8. CASE UNCHANGED vars
  BY <1>1, <1>8 DEF IInv, vars, DamageExplained, Holes
<1> QED
  BY <1>2, <1>3, <1>4, <1>5, <1>6, <1>7, <1>8 DEF Next, Ended

(* The invariant holds in every reachable state.                           *)
THEOREM Invariance == Spec => []IInv
BY InitIInv, NextIInv, PTL DEF Spec

(* The blocks in use and the holes cover the mapped pages of rmalloc.c     *)
(* exactly, whatever calls were made: no byte is lost, none is in two      *)
(* blocks.                                                                 *)
THEOREM BlocksTile == Spec => []Tiling
<1>1. IInv => Tiling
  BY DEF IInv, HeapInv, Tiling
<1> QED
  BY <1>1, Invariance, PTL

(* rm_used_list.size is the number of bytes the client owns.               *)
THEOREM SizeIsOwned == Spec => []UsedSizeExact
<1>1. IInv => UsedSizeExact
  BY DEF IInv, HeapInv, SizeExact, UsedSizeExact
<1> QED
  BY <1>1, Invariance, PTL

(* The requests that go wrong are those of the comparisons in rmalloc that *)
(* are too weak, and those of a full table.                                *)
THEOREM FailuresExplained == Spec => []DamageExplained
<1>1. IInv => DamageExplained
  BY DEF IInv
<1> QED
  BY <1>1, Invariance, PTL
-----------------------------------------------------------------------------
(***************************************************************************)
(* The refinement: what the client sees is an allocator.                   *)
(***************************************************************************)
OwnedIn(h) ==
  [a \in {Data(b) : b \in h.used} |-> DataOf(CHOOSE b \in h.used : Data(b) = a)]
MappedIn(h) == MappedBytes(h.mapped)

(* owned, and what a call makes of it, as Allocator has it.                *)
Less(f, K) == [a \in DOMAIN f \ K |-> f[a]]
More(f, a, s) ==
  [x \in DOMAIN f \cup {a} |-> IF x = a THEN a .. a + s - 1 ELSE f[x]]

(* A block in use is known by its address.                                 *)
LEMMA OwnedInIs ==
  ASSUME NEW h, HeapInv(h)
  PROVE  /\ DOMAIN OwnedIn(h) = {Data(b) : b \in h.used}
         /\ \A b \in h.used : OwnedIn(h)[Data(b)] = DataOf(b)
         /\ \A b, c \in h.used : Data(b) = Data(c) => b = c
<1>1. h.used \in SUBSET BlockSet /\ Apart(BlocksOf(h)) /\ h.used \subseteq BlocksOf(h)
  BY HeapIs DEF HeapInv, BlocksOf
<1>2. ASSUME NEW b \in h.used, NEW c \in h.used, Data(b) = Data(c)
      PROVE  b = c
  <2>1. b \in BlockSet /\ c \in BlockSet
    BY <1>1
  <2>2. /\ Data(b) = b.addr + HDR /\ Data(c) = c.addr + HDR
        /\ b.addr \in Nat /\ c.addr \in Nat /\ HDR \in Nat
    BY <2>1, ExtentIs, ConstantsAre
  <2>3. b.addr = c.addr
    <3>1. b.addr + HDR = c.addr + HDR
      BY <1>2, <2>2
    <3>2. b.addr \in Int /\ c.addr \in Int /\ HDR \in Int
      BY <2>2
    <3> QED
      BY <3>1, <3>2
  <2>4. b.addr \in Extent(b) /\ b.addr \in Extent(c)
    BY <2>1, <2>3, ExtentIs
  <2> QED
    BY <1>1, <2>4 DEF Apart
<1>3. ASSUME NEW b \in h.used
      PROVE  OwnedIn(h)[Data(b)] = DataOf(b)
  <2>1. (CHOOSE c \in h.used : Data(c) = Data(b)) = b
    BY <1>2
  <2> QED
    BY <2>1 DEF OwnedIn
<1>4. DOMAIN OwnedIn(h) = {Data(b) : b \in h.used}
  BY DEF OwnedIn
<1> QED
  BY <1>2, <1>3, <1>4

LEMMA OwnedIsUnion ==
  ASSUME NEW h, HeapInv(h)
  PROVE  UNION {OwnedIn(h)[a] : a \in DOMAIN OwnedIn(h)} = Owned(h)
<1>1. /\ DOMAIN OwnedIn(h) = {Data(b) : b \in h.used}
      /\ \A b \in h.used : OwnedIn(h)[Data(b)] = DataOf(b)
  BY OwnedInIs
<1>2. ASSUME NEW x \in UNION {OwnedIn(h)[a] : a \in DOMAIN OwnedIn(h)}
      PROVE  x \in Owned(h)
  <2>1. PICK a \in DOMAIN OwnedIn(h) : x \in OwnedIn(h)[a]
    OBVIOUS
  <2>2. PICK b \in h.used : a = Data(b)
    BY <1>1
  <2>3. x \in DataOf(b)
    BY <1>1, <2>1, <2>2
  <2> QED
    BY <2>3 DEF Owned
<1>3. ASSUME NEW x \in Owned(h)
      PROVE  x \in UNION {OwnedIn(h)[a] : a \in DOMAIN OwnedIn(h)}
  <2>1. PICK b \in h.used : x \in DataOf(b)
    BY DEF Owned
  <2>2. Data(b) \in DOMAIN OwnedIn(h) /\ x \in OwnedIn(h)[Data(b)]
    BY <1>1, <2>1
  <2> QED
    BY <2>2
<1> QED
  BY <1>2, <1>3

(* Every byte the client owns is mapped.                                   *)
LEMMA OwnedIsMapped ==
  ASSUME NEW h, HeapInv(h)
  PROVE  /\ Owned(h) \subseteq MappedIn(h)
         /\ Owned(h) \subseteq Bytes(h.used)
         /\ \A b \in h.used : DataOf(b) \subseteq MappedIn(h)
<1>1. /\ h.used \in SUBSET BlockSet /\ Bytes(BlocksOf(h)) = MappedIn(h)
      /\ h.used \subseteq BlocksOf(h)
  BY HeapIs DEF HeapInv, BlocksOf, MappedIn
<1>2. \A b \in h.used : DataOf(b) \subseteq Extent(b)
  BY <1>1, ExtentIs
<1>3. Owned(h) \subseteq Bytes(h.used)
  BY <1>2 DEF Owned, Bytes
<1>4. Bytes(h.used) \subseteq MappedIn(h)
  BY <1>1 DEF Bytes
<1>5. \A b \in h.used : DataOf(b) \subseteq Owned(h)
  BY DEF Owned
<1> QED
  BY <1>3, <1>4, <1>5

(* The client gives block b back.                                          *)
LEMMA GivesBack ==
  ASSUME NEW h, HeapInv(h), NEW g, HeapInv(g), NEW b \in h.used, g.used = h.used \ {b}
  PROVE  OwnedIn(g) = Less(OwnedIn(h), {Data(b)})
<1> DEFINE f == Less(OwnedIn(h), {Data(b)})
<1>1. /\ DOMAIN OwnedIn(h) = {Data(c) : c \in h.used}
      /\ \A c \in h.used : OwnedIn(h)[Data(c)] = DataOf(c)
      /\ \A c, d \in h.used : Data(c) = Data(d) => c = d
  BY OwnedInIs
<1>2. /\ DOMAIN OwnedIn(g) = {Data(c) : c \in g.used}
      /\ \A c \in g.used : OwnedIn(g)[Data(c)] = DataOf(c)
  BY OwnedInIs
<1>3. DOMAIN f = DOMAIN OwnedIn(h) \ {Data(b)} /\ \A a \in DOMAIN f : f[a] = OwnedIn(h)[a]
  BY DEF Less
<1>4. DOMAIN f = DOMAIN OwnedIn(g)
  <2> DEFINE D(S) == {Data(c) : c \in S}
  <2>1. D(h.used) \ {Data(b)} = D(h.used \ {b})
    <3>1. \A c \in h.used : c # b => Data(c) # Data(b)
      BY <1>1
    <3> QED
      BY <3>1
  <2>2. DOMAIN OwnedIn(h) = D(h.used) /\ DOMAIN OwnedIn(g) = D(h.used \ {b})
    BY <1>1, <1>2
  <2> HIDE DEF D, f
  <2> QED
    BY <1>3, <2>1, <2>2
<1>5. ASSUME NEW a \in DOMAIN f
      PROVE  f[a] = OwnedIn(g)[a]
  <2>1. PICK c \in g.used : a = Data(c)
    BY <1>2, <1>4
  <2> QED
    BY <1>1, <1>2, <1>3, <2>1
<1>6. f = [a \in DOMAIN f |-> f[a]] /\ OwnedIn(g) = [a \in DOMAIN OwnedIn(g) |-> OwnedIn(g)[a]]
  BY DEF Less, OwnedIn
<1> HIDE DEF f
<1>7. f = OwnedIn(g)
  BY <1>4, <1>5, <1>6
<1> QED
  BY <1>7 DEF f

(* The client gets block x, which is new memory.                           *)
NewIn(h, g, a, s) ==
  /\ a .. a + s - 1 \subseteq MappedIn(g)
  /\ (a .. a + s - 1) \cap Owned(h) = {}
  /\ MappedIn(h) \subseteq MappedIn(g)

LEMMA GetsNew ==
  ASSUME NEW h, HeapInv(h), NEW g, HeapInv(g), NEW s \in Nat, NEW x, Gets(h, g, x, s)
  PROVE  /\ NewIn(h, g, Data(x), s)
         /\ Data(x) \in DOMAIN OwnedIn(g)
         /\ OwnedIn(g) = More(OwnedIn(h), Data(x), s)
<1> DEFINE f == More(OwnedIn(h), Data(x), s)
<1>0. /\ x \in BlockSet /\ x.size = s /\ x \notin h.used /\ g.used = h.used \cup {x}
      /\ Extent(x) \cap Bytes(h.used) = {} /\ h.mapped \subseteq g.mapped
  BY DEF Gets
<1>1. /\ DOMAIN OwnedIn(h) = {Data(c) : c \in h.used}
      /\ \A c \in h.used : OwnedIn(h)[Data(c)] = DataOf(c)
  BY OwnedInIs
<1>2. /\ DOMAIN OwnedIn(g) = {Data(c) : c \in g.used}
      /\ \A c \in g.used : OwnedIn(g)[Data(c)] = DataOf(c)
      /\ \A c, d \in g.used : Data(c) = Data(d) => c = d
  BY OwnedInIs
<1>3. Data(x) .. Data(x) + s - 1 = DataOf(x)
  <2>1. Data(x) = x.addr + HDR /\ End(x) = x.addr + HDR + s /\ x.addr \in Nat /\ HDR \in Nat
    BY <1>0, ExtentIs, ConstantsAre
  <2>2. Data(x) + s - 1 = End(x) - 1
    BY <2>1
  <2> QED
    BY <2>2 DEF DataOf
<1>4. /\ DOMAIN f = DOMAIN OwnedIn(h) \cup {Data(x)}
      /\ \A a \in DOMAIN f : f[a] = IF a = Data(x) THEN DataOf(x) ELSE OwnedIn(h)[a]
  BY <1>3 DEF More
<1>5. DOMAIN f = DOMAIN OwnedIn(g)
  BY <1>0, <1>1, <1>2, <1>4
<1>6. ASSUME NEW a \in DOMAIN f
      PROVE  f[a] = OwnedIn(g)[a]
  <2>1. PICK c \in g.used : a = Data(c)
    BY <1>2, <1>5
  <2>2. CASE c = x
    BY <1>2, <1>4, <2>1, <2>2
  <2>3. CASE c # x
    <3>1. c \in h.used /\ Data(c) # Data(x)
      BY <1>0, <1>2, <2>3
    <3> QED
      BY <1>1, <1>2, <1>4, <2>1, <3>1
  <2> QED
    BY <2>2, <2>3
<1>7. f = [a \in DOMAIN f |-> f[a]] /\ OwnedIn(g) = [a \in DOMAIN OwnedIn(g) |-> OwnedIn(g)[a]]
  BY DEF More, OwnedIn
<1> HIDE DEF f
<1>8. f = OwnedIn(g)
  BY <1>5, <1>6, <1>7
<1>9. DataOf(x) \subseteq MappedIn(g)
  BY <1>0, OwnedIsMapped
<1>10. DataOf(x) \cap Owned(h) = {}
  <2>1. DataOf(x) \subseteq Extent(x)
    BY <1>0, ExtentIs
  <2> QED
    BY <1>0, <2>1, OwnedIsMapped
<1>11. MappedIn(h) \subseteq MappedIn(g)
  BY <1>0 DEF MappedIn, MappedBytes
<1>12. NewIn(h, g, Data(x), s)
  BY <1>3, <1>9, <1>10, <1>11 DEF NewIn
<1> QED
  BY <1>0, <1>2, <1>8, <1>12 DEF f

LEMMA MappingIs ==
  /\ [a \in {Data(b) : b \in heap.used} |->
        DataOf(CHOOSE b \in heap.used : Data(b) = a)] = OwnedIn(heap)
  /\ [a \in {Data(b) : b \in heap'.used} |->
        DataOf(CHOOSE b \in heap'.used : Data(b) = a)] = OwnedIn(heap')
  /\ UNION {PageBytes(p) : p \in heap.mapped} = MappedIn(heap)
  /\ UNION {PageBytes(p) : p \in heap'.mapped} = MappedIn(heap')
BY DEF OwnedIn, MappedIn, MappedBytes

(* The actions of Allocator, on heaps.                                     *)
LEMMA AllocatorSteps ==
  ASSUME HeapInv(heap), HeapInv(heap')
  PROVE  /\ \A a \in DOMAIN OwnedIn(heap'), s \in Size :
              /\ NewIn(heap, heap', a, s)
              /\ OwnedIn(heap') = More(OwnedIn(heap), a, s)
              => A!Next
         /\ \A a \in DOMAIN OwnedIn(heap) :
              /\ OwnedIn(heap') = Less(OwnedIn(heap), {a})
              /\ MappedIn(heap') = MappedIn(heap)
              => A!Next
         /\ \A a \in DOMAIN OwnedIn(heap), b \in DOMAIN OwnedIn(heap'), s \in Size :
              /\ NewIn(heap, heap', b, s)
              /\ OwnedIn(heap') = More(Less(OwnedIn(heap), {a}), b, s)
              => A!Next
         /\ /\ MappedIn(heap') \subseteq MappedIn(heap)
            /\ Owned(heap) \subseteq MappedIn(heap')
            /\ OwnedIn(heap') = OwnedIn(heap)
            => A!Next
         /\ /\ OwnedIn(heap') = Less(OwnedIn(heap), DOMAIN OwnedIn(heap))
            /\ MappedIn(heap') = {}
            => A!Next
<1>1. A!Owned = Owned(heap)
  <2>1. UNION {OwnedIn(heap)[a] : a \in DOMAIN OwnedIn(heap)} = Owned(heap)
    BY OwnedIsUnion
  <2> QED
    BY <2>1 DEF A!Owned, OwnedIn
<1>2. ASSUME NEW a, NEW s
      PROVE  A!IsNew(a, s) <=> NewIn(heap, heap', a, s)
  BY <1>1, MappingIs DEF A!IsNew, NewIn
<1>3. ASSUME NEW a \in DOMAIN OwnedIn(heap'), NEW s \in Size,
             NewIn(heap, heap', a, s), OwnedIn(heap') = More(OwnedIn(heap), a, s)
      PROVE  A!Next
  <2>1. A!Alloc(a, s)
    BY <1>2, <1>3, MappingIs DEF A!Alloc, A!With, More
  <2> QED
    BY <2>1, MappingIs DEF A!Next
<1>4. ASSUME NEW a \in DOMAIN OwnedIn(heap),
             OwnedIn(heap') = Less(OwnedIn(heap), {a}), MappedIn(heap') = MappedIn(heap)
      PROVE  A!Next
  <2>1. A!Free(a)
    BY <1>4, MappingIs DEF A!Free, A!Without, Less
  <2> QED
    BY <2>1, MappingIs DEF A!Next
<1>5. ASSUME NEW a \in DOMAIN OwnedIn(heap), NEW b \in DOMAIN OwnedIn(heap'), NEW s \in Size,
             NewIn(heap, heap', b, s),
             OwnedIn(heap') = More(Less(OwnedIn(heap), {a}), b, s)
      PROVE  A!Next
  <2>1. A!Realloc(a, b, s)
    BY <1>2, <1>5, MappingIs DEF A!Realloc, A!With, A!Without, More, Less
  <2> QED
    BY <2>1, MappingIs DEF A!Next
<1>6. ASSUME MappedIn(heap') \subseteq MappedIn(heap), Owned(heap) \subseteq MappedIn(heap'),
             OwnedIn(heap') = OwnedIn(heap)
      PROVE  A!Next
  <2>1. A!Shrink
    BY <1>1, <1>6, MappingIs DEF A!Shrink
  <2> QED
    BY <2>1 DEF A!Next
<1>7. ASSUME OwnedIn(heap') = Less(OwnedIn(heap), DOMAIN OwnedIn(heap)), MappedIn(heap') = {}
      PROVE  A!Next
  <2>1. A!Exit
    BY <1>7, MappingIs DEF A!Exit, A!Without, Less
  <2> QED
    BY <2>1 DEF A!Next
<1> QED
  BY <1>3, <1>4, <1>5, <1>6, <1>7

LEMMA StutterIs == UNCHANGED heap => UNCHANGED A!vars
BY DEF A!vars

LEMMA InitImplements == Init => A!Init
<1> SUFFICES ASSUME Init
             PROVE  A!Init
  OBVIOUS
<1>1. heap.used = {} /\ heap.mapped = {}
  BY DEF Init, EmptyHeap
<1>2. OwnedIn(heap) = [a \in {} |-> {}]
  BY <1>1 DEF OwnedIn
<1>3. MappedIn(heap) = {}
  BY <1>1 DEF MappedIn, MappedBytes
<1> QED
  BY <1>2, <1>3, MappingIs DEF A!Init

LEMMA StepImplements == IInv /\ IInv' /\ [Next]_vars => [A!Next]_(A!vars)
<1> SUFFICES ASSUME IInv, IInv', [Next]_vars
             PROVE  A!Next \/ UNCHANGED A!vars
  OBVIOUS
<1>1. HeapInv(heap) /\ HeapInv(heap') /\ PolicyIs
  BY DEF IInv, PolicyIs
<1>2. ASSUME NEW s \in Size, Rmalloc(s)
      PROVE  A!Next \/ UNCHANGED A!vars
  <2>1. PICK o \in Outcomes(heap, s) : Leaves(o, s, o.heap)
    BY <1>2 DEF Rmalloc
  <2>2. s \in Nat
    BY ConstantsAre
  <2>3. CASE o.why = "none" /\ \E x : Gets(heap, o.heap, x, s)
    <3>1. heap' = o.heap
      BY <2>1, <2>3 DEF Leaves
    <3>2. PICK x : Gets(heap, heap', x, s)
      BY <2>3, <3>1
    <3>3. /\ NewIn(heap, heap', Data(x), s) /\ Data(x) \in DOMAIN OwnedIn(heap')
          /\ OwnedIn(heap') = More(OwnedIn(heap), Data(x), s)
      BY <1>1, <2>2, <3>2, GetsNew
    <3> QED
      BY <1>1, <3>3, AllocatorSteps
  <2>4. CASE o.why # "none"
    BY <2>1, <2>4, StutterIs DEF Leaves
  <2> QED
    BY <1>1, <2>2, <2>3, <2>4, OutcomeIs
<1>3. ASSUME NEW b \in heap.used, Rfree(b)
      PROVE  A!Next \/ UNCHANGED A!vars
  <2>1. heap'.used = heap.used \ {b} /\ heap'.mapped = heap.mapped
    BY <1>1, <1>3, FreedIs DEF Rfree
  <2>2. OwnedIn(heap') = Less(OwnedIn(heap), {Data(b)})
    BY <1>1, <2>1, GivesBack
  <2>3. MappedIn(heap') = MappedIn(heap)
    BY <2>1 DEF MappedIn
  <2>4. Data(b) \in DOMAIN OwnedIn(heap)
    BY <1>1, OwnedInIs
  <2> QED
    BY <1>1, <2>2, <2>3, <2>4, AllocatorSteps
<1>4. ASSUME NEW b \in heap.used, NEW s \in Size, Rrealloc(b, s)
      PROVE  A!Next \/ UNCHANGED A!vars
  <2>1. PICK o \in Outcomes(heap, s) : Leaves(o, s, Freed(o.heap, b))
    BY <1>4 DEF Rrealloc
  <2>2. s \in Nat
    BY ConstantsAre
  <2>3. CASE o.why = "none" /\ HeapInv(o.heap) /\ \E x : Gets(heap, o.heap, x, s)
    <3> DEFINE g == o.heap
    <3>1. heap' = Freed(g, b)
      BY <2>1, <2>3 DEF Leaves
    <3>2. PICK x : Gets(heap, g, x, s)
      BY <2>3
    <3>3. b \in g.used /\ x \in g.used /\ b # x
      BY <3>2 DEF Gets
    <3>4. heap'.used = g.used \ {b} /\ heap'.mapped = g.mapped
      BY <2>3, <3>1, <3>3, FreedIs
    <3> HIDE DEF g
    <3>5. HeapInv(g)
      BY <2>3 DEF g
    <3>6. NewIn(heap, g, Data(x), s) /\ OwnedIn(g) = More(OwnedIn(heap), Data(x), s)
      BY <1>1, <2>2, <3>2, <3>5, GetsNew
    <3>7. NewIn(heap, heap', Data(x), s)
      BY <3>4, <3>6 DEF NewIn, MappedIn
    <3>8. OwnedIn(heap') = Less(More(OwnedIn(heap), Data(x), s), {Data(b)})
      BY <1>1, <3>3, <3>4, <3>5, <3>6, GivesBack
    <3>9. Data(x) # Data(b)
      BY <3>3, <3>5, OwnedInIs
    <3>10. OwnedIn(heap') = More(Less(OwnedIn(heap), {Data(b)}), Data(x), s)
      BY <3>8, <3>9 DEF Less, More
    <3>11. Data(b) \in DOMAIN OwnedIn(heap)
      BY <1>1, OwnedInIs
    <3>12. Data(x) \in DOMAIN OwnedIn(heap')
      BY <3>10 DEF More
    <3> QED
      BY <1>1, <3>7, <3>10, <3>11, <3>12, AllocatorSteps
  <2>4. CASE o.why # "none"
    BY <2>1, <2>4, StutterIs DEF Leaves
  <2> QED
    BY <1>1, <2>2, <2>3, <2>4, OutcomeIs
<1>5. CASE Rmshrink
  <2>1. Shrinks(heap, heap')
    BY <1>1, <1>5, ShrunkIs DEF Rmshrink
  <2>2. OwnedIn(heap') = OwnedIn(heap) /\ Owned(heap') = Owned(heap)
    BY <2>1 DEF Shrinks, OwnedIn, Owned
  <2>3. MappedIn(heap') \subseteq MappedIn(heap)
    BY <2>1 DEF Shrinks, MappedIn, MappedBytes
  <2>4. Owned(heap) \subseteq MappedIn(heap')
    BY <1>1, <2>2, OwnedIsMapped
  <2> QED
    BY <1>1, <2>2, <2>3, <2>4, AllocatorSteps
<1>6. CASE \E opt \in Policy : Rmconfig(opt)
  BY <1>6, StutterIs DEF Rmconfig
<1>7. CASE WrongPointer
  <2>1. heap'.used = {} /\ heap'.mapped = {}
    BY <1>7 DEF WrongPointer, EmptyHeap
  <2>2. OwnedIn(heap') = Less(OwnedIn(heap), DOMAIN OwnedIn(heap))
    BY <2>1 DEF OwnedIn, Less
  <2>3. MappedIn(heap') = {}
    BY <2>1 DEF MappedIn, MappedBytes
  <2> QED
    BY <1>1, <2>2, <2>3, AllocatorSteps
<1>8. CASE UNCHANGED vars
  BY <1>8, StutterIs DEF vars
<1> QED
  BY <1>2, <1>3, <1>4, <1>5, <1>6, <1>7, <1>8 DEF Next, Ended

(* The client of rmalloc.c sees an allocator: a block it gets is new and   *)
(* mapped, only it gives a block back, and rrealloc does not reuse the     *)
(* block it copies from.                                                   *)
THEOREM Implements == Spec => ImplementsAllocator
<1>1. Spec => A!Spec
  BY InitImplements, StepImplements, Invariance, PTL DEF Spec, A!Spec
<1> QED
  BY <1>1 DEF ImplementsAllocator
=============================================================================
