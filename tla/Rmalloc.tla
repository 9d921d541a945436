------------------------------ MODULE Rmalloc ------------------------------
(***************************************************************************)
(* The allocator of OS/HW3/rmalloc.c: rmalloc, rfree, rrealloc, rmshrink   *)
(* and rmconfig, for one thread, on the addresses they compute.            *)
(*                                                                         *)
(* A block is a header of HDR bytes at addr and size bytes of data behind  *)
(* it.  rm_free_list is the sequence of its blocks, in the order of the    *)
(* list; of rm_used_list only its members matter.                          *)
(*                                                                         *)
(* Where the code leaves its own blocks (a remainder of negative size, a   *)
(* block too small for the request, the table of regions overrun), what    *)
(* follows is undefined: the model records why, and stops.                 *)
(***************************************************************************)
EXTENDS Integers, Sequences, FiniteSets, FiniteSetsExt, SequencesExt

CONSTANTS
  HDR,       (* sizeof(rm_header): 16                                      *)
  PAGE,      (* getpagesize()                                              *)
  Pages,     (* the pages of the address space mmap can use                *)
  Slots,     (* the length of address[] and size[]: 100                    *)
  Size,      (* the sizes the client asks for                              *)
  Policy     (* the policies the client configures                         *)

ASSUME RmallocAssumption ==
  /\ HDR \in Nat \ {0}
  /\ PAGE \in Nat /\ PAGE > 2 * HDR
  /\ Pages \in Nat
  /\ Slots \in Nat
  /\ Size \subseteq Nat \ {0}
  /\ Policy \subseteq {"BestFit", "WorstFit", "FirstFit"}

VARIABLES
  heap,       (* the variables of rmalloc.c:                               *)
              (*   free      rm_free_list                                  *)
              (*   used      rm_used_list                                  *)
              (*   used_size rm_used_list.size                             *)
              (*   regions   address[i] and size[i] for i < page_count     *)
              (*   max_page                                                *)
              (* and the pages the kernel has mapped, mapped               *)
  policy,
  damage      (* history: the request that went wrong, if one did          *)

vars == <<heap, policy, damage>>

Page == 0 .. Pages - 1
None == [why |-> "none"]

Block(a, s) == [addr |-> a, size |-> s]
Data(b) == b.addr + HDR                    \* _data(b)
End(b) == Data(b) + b.size                 \* _data(b) + b->size
Extent(b) == b.addr .. End(b) - 1
PagesIn(b) == {x \div PAGE : x \in Extent(b)}
Replace(f, k, b) == [f EXCEPT ![k] = b]

EmptyHeap ==
  [free |-> <<>>, used |-> {}, used_size |-> 0, regions |-> <<>>,
   max_page |-> 1, mapped |-> {}]

Init ==
  /\ heap = EmptyHeap
  /\ policy = "FirstFit"
  /\ damage = None
-----------------------------------------------------------------------------
(* The hole rmalloc chooses for s bytes, as an index into rm_free_list.    *)
(* Sizes are size_t: the difference FirstFit compares wraps round, the     *)
(* other two look at theirs as an int.  Of equally good holes BestFit and  *)
(* WorstFit take the last.                                                 *)
Fit(h, s, k) == h.free[k].size - s - HDR

(* This and the operators like it below are plausible mistakes, on which   *)
(* the properties must fail: here, BestFit leaves no room for the header.  *)
NoHeaderCandidates(h, s) ==
  {k \in DOMAIN h.free :
     \/ policy = "BestFit" /\ h.free[k].size - s \in 0 .. h.max_page * PAGE
     \/ policy = "WorstFit" /\ Fit(h, s, k) >= -1
     \/ policy = "FirstFit" /\ (h.free[k].size < HDR \/ Fit(h, s, k) >= 0)}

Candidates(h, s) ==
  {k \in DOMAIN h.free :
     \/ policy = "BestFit" /\ Fit(h, s, k) \in 0 .. h.max_page * PAGE
     \/ policy = "WorstFit" /\ Fit(h, s, k) >= -1
     \/ policy = "FirstFit" /\ (h.free[k].size < HDR \/ Fit(h, s, k) >= 0)}

Better(h, s, k, j) ==
  \/ policy = "BestFit" /\ Fit(h, s, k) < Fit(h, s, j)
  \/ policy = "WorstFit" /\ Fit(h, s, k) > Fit(h, s, j)
  \/ policy # "FirstFit" /\ Fit(h, s, k) = Fit(h, s, j) /\ k > j
  \/ policy = "FirstFit" /\ k < j

Hole(h, s) ==
  CHOOSE k \in Candidates(h, s) :
    \A j \in Candidates(h, s) \ {k} : Better(h, s, k, j)

(* Without a hole, the pages for a new region.  Their number is one more   *)
(* than needed when the block and its header fill the pages exactly.       *)
NeedPage(s) == (s + HDR) \div PAGE + 1
RegionSize(s) == NeedPage(s) * PAGE - HDR

(* mmap: the kernel may choose any free place.  The region becomes the     *)
(* last hole.                                                              *)
Mapped(h, s, a) ==
  [h EXCEPT !.free = Append(@, Block(a, RegionSize(s))),
            !.regions = Append(@, Block(a, RegionSize(s))),
            !.mapped = @ \cup PagesIn(Block(a, RegionSize(s))),
            !.max_page = IF @ < NeedPage(s) THEN NeedPage(s) ELSE @]

HeaderlessSplit(h, k, s) ==       \* the header of the remainder is forgotten
  LET hole == h.free[k]
      remainder == Block(hole.addr + HDR + s, hole.size - s)
  IN [h EXCEPT !.free = Replace(@, k, remainder),
               !.used = @ \cup {Block(hole.addr, s)},
               !.used_size = @ + s]

(* rsplit: the rest of the hole takes its place in rm_free_list.           *)
Split(h, k, s) ==
  LET hole == h.free[k]
      remainder == Block(hole.addr + HDR + s, hole.size - s - HDR)
  IN [h EXCEPT !.free = Replace(@, k, remainder),
               !.used = @ \cup {Block(hole.addr, s)},
               !.used_size = @ + s]

TakeWhole(h, k, s) ==
  [h EXCEPT !.free = RemoveAt(@, k),
            !.used = @ \cup {h.free[k]},
            !.used_size = @ + s]

(* rmalloc hands out hole k of h, and what can go wrong with that: the     *)
(* remainder has no room for its header, or the hole is too small and      *)
(* stays in rm_free_list although the client gets it.                      *)
Take(h, k, s) ==
  IF s = h.free[k].size THEN TakeWhole(h, k, s) ELSE Split(h, k, s)

Unsuitable(h, k, s) == s # h.free[k].size /\ Fit(h, s, k) < 0
-----------------------------------------------------------------------------
(* rfree: the block goes to the place in rm_free_list the loop finds.      *)
(* temp and itr are neighbours in the list; before the first block, temp   *)
(* is the list head, which lies outside every region.  The last block is   *)
(* never temp while the loop runs.                                         *)
(*                                                                         *)
(* The region is looked up with a pointer to headers, so that its size     *)
(* counts HDR times: it can be one that ends below the block.              *)
RegionOf(h, b) ==
  h.regions[CHOOSE i \in DOMAIN h.regions :
    LET in(j) == h.regions[j].addr <= b.addr
                 /\ b.addr < h.regions[j].addr + HDR * (h.regions[j].size + HDR)
    IN in(i) /\ \A j \in 1 .. i - 1 : ~in(j)]

MeetsTemp(h, b, k) == k > 1 /\ End(h.free[k - 1]) = b.addr
MeetsItr(h, b, k) == End(b) = h.free[k].addr

(* The conditions under which a block that meets neither is put between    *)
(* temp and itr.                                                           *)
Between(h, b, k) ==
  LET r == RegionOf(h, b)
      itr == h.free[k].addr
      temp == h.free[k - 1].addr
      temp_in == k > 1 /\ temp \in Extent(r)
      itr_in == itr \in Extent(r) \ {r.addr}
  IN \/ temp_in /\ itr_in /\ temp < b.addr /\ b.addr < itr
     \/ ~temp_in /\ itr_in /\ End(b) < itr
     \/ temp_in /\ ~itr_in /\ itr \notin Extent(r)

Stops(h, b, k) == MeetsTemp(h, b, k) \/ MeetsItr(h, b, k) \/ Between(h, b, k)

Insert(h, b) ==
  LET f == h.free
      stops == {k \in DOMAIN f : Stops(h, b, k)}
      k == Min(stops)
      joined(x, y) == Block(x.addr, x.size + HDR + y.size)
  IN IF stops = {}
       THEN Append(f, b)
     ELSE IF MeetsTemp(h, b, k) /\ MeetsItr(h, b, k)
       THEN RemoveAt(Replace(f, k - 1, joined(joined(f[k - 1], b), f[k])), k)
     ELSE IF MeetsTemp(h, b, k)
       THEN Replace(f, k - 1, joined(f[k - 1], b))
     ELSE IF MeetsItr(h, b, k)
       THEN Replace(f, k, joined(b, f[k]))
     ELSE InsertAt(f, k, b)

HeaderFreed(h, b) ==              \* rm_used_list.size counts the header
  [h EXCEPT !.used = @ \ {b},
            !.used_size = @ - (b.size + HDR),
            !.free = Insert(h, b)]

Freed(h, b) ==
  [h EXCEPT !.used = @ \ {b},
            !.used_size = @ - b.size,
            !.free = Insert(h, b)]
-----------------------------------------------------------------------------
AnyRoomShrunkBy(h, r) ==          \* size[i] is not compared
  LET holes == {k \in DOMAIN h.free : h.free[k].addr = r.addr}
  IN IF holes = {} THEN h
     ELSE [h EXCEPT !.free = RemoveAt(@, Min(holes)),
                    !.mapped = @ \ PagesIn(r)]

(* rmshrink: for each entry of the table, the first hole that starts where *)
(* the entry does and has its size is unmapped.  The entry stays.          *)
ShrunkBy(h, r) ==
  LET holes == {k \in DOMAIN h.free : h.free[k] = r}
  IN IF holes = {} THEN h
     ELSE [h EXCEPT !.free = RemoveAt(@, Min(holes)),
                    !.mapped = @ \ PagesIn(r)]

Shrunk(h) ==
  LET after[i \in 0 .. Len(h.regions)] ==
        IF i = 0 THEN h ELSE ShrunkBy(after[i - 1], h.regions[i])
  IN after[Len(h.regions)]
-----------------------------------------------------------------------------
(* A call of rmalloc(s): the heaps it can leave, or why it leaves none.    *)
Success(h) == [heap |-> h, why |-> "none"]
Failure(h, why) == [heap |-> h, why |-> why]

TakeOrFail(h, k, s, why) ==
  IF Unsuitable(h, k, s) THEN Failure(h, why) ELSE Success(Take(h, k, s))

Places(h, s) ==
  {p * PAGE : p \in {q \in Page : q .. q + NeedPage(s) - 1 \subseteq Page \ h.mapped}}

Outcomes(h, s) ==
  IF Candidates(h, s) # {}
    THEN {TakeOrFail(h, Hole(h, s), s, "hole")}
  ELSE IF Len(h.regions) = Slots
    THEN {Failure(h, "table")}
  ELSE {TakeOrFail(Mapped(h, s, a), Len(h.free) + 1, s, "region") : a \in Places(h, s)}

Running == damage = None

Leaves(o, s, h) ==
  IF o.why = "none"
    THEN heap' = h /\ UNCHANGED damage
    ELSE UNCHANGED heap /\ damage' = [why |-> o.why, size |-> s]

-----------------------------------------------------------------------------
(* The calls of the client.  rmalloc(0) and rrealloc of a negative size    *)
(* change nothing; rrealloc(p, 0) is rfree(p).                             *)
Rmalloc(s) ==
  /\ Running
  /\ \E o \in Outcomes(heap, s) : Leaves(o, s, o.heap)
  /\ UNCHANGED policy

Rfree(b) ==
  /\ Running
  /\ heap' = Freed(heap, b)
  /\ UNCHANGED <<policy, damage>>

Rrealloc(b, s) ==
  /\ Running
  /\ \E o \in Outcomes(heap, s) : Leaves(o, s, Freed(o.heap, b))
  /\ UNCHANGED policy

Rmshrink ==
  /\ Running
  /\ heap' = Shrunk(heap)
  /\ UNCHANGED <<policy, damage>>

Rmconfig(opt) ==
  /\ Running
  /\ policy' = opt
  /\ UNCHANGED <<heap, damage>>

(* rfree or rrealloc of an address that no block in use has: exit(1)       *)
WrongPointer ==
  /\ Running
  /\ damage' = [why |-> "exit"]
  /\ heap' = EmptyHeap
  /\ UNCHANGED policy

Ended == ~Running /\ UNCHANGED vars

Next ==
  \/ \E s \in Size : Rmalloc(s)
  \/ \E b \in heap.used : Rfree(b)
  \/ \E b \in heap.used, s \in Size : Rrealloc(b, s)
  \/ Rmshrink
  \/ \E opt \in Policy : Rmconfig(opt)
  \/ WrongPointer
  \/ Ended

Spec == Init /\ [][Next]_vars
-----------------------------------------------------------------------------
Holes == Range(heap.free)
BlocksOf(h) == h.used \cup Range(h.free)
Apart(S) == \A b, c \in S : b # c => Extent(b) \cap Extent(c) = {}
PageBytes(p) == p * PAGE .. p * PAGE + PAGE - 1
DataOf(b) == Data(b) .. End(b) - 1
Owned(h) == UNION {DataOf(b) : b \in h.used}

(* The blocks cover the mapped pages without a gap or an overlap: no byte  *)
(* is lost and none is in two blocks, whatever the client does with the    *)
(* policies.                                                               *)
Tiles(h) ==
  /\ \A j, k \in DOMAIN h.free : h.free[j] = h.free[k] => j = k
  /\ h.used \cap Range(h.free) = {}
  /\ Apart(BlocksOf(h))
  /\ UNION {Extent(b) : b \in BlocksOf(h)} = UNION {PageBytes(p) : p \in h.mapped}

Tiling == Tiles(heap)

(* rm_used_list.size is what the client asked for and still owns.          *)
UsedSizeExact == heap.used_size = Cardinality(Owned(heap))

(* The requests that go wrong.  With BestFit it is those that leave less   *)
(* than a header of a new region; WorstFit also takes a hole that is one   *)
(* byte too small, and FirstFit any hole smaller than a header.            *)
LeavesNoHeader(s) == RegionSize(s) - s < HDR

DamageExplained ==
  /\ damage.why = "hole" =>
       \E b \in Holes : \/ policy = "WorstFit" /\ b.size = damage.size + HDR - 1
                        \/ policy = "FirstFit" /\ b.size < HDR
  /\ damage.why = "region" => LeavesNoHeader(damage.size)
  /\ damage.why = "table" => Len(heap.regions) = Slots

(* The client sees an allocator.                                           *)
A == INSTANCE Allocator WITH
       owned <- [a \in {Data(b) : b \in heap.used} |->
                   DataOf(CHOOSE b \in heap.used : Data(b) = a)],
       mapped <- UNION {PageBytes(p) : p \in heap.mapped}

ImplementsAllocator == A!Spec

(* rmalloc hands out a hole only when there is one that is large enough;   *)
(* the other case is that of rmalloc.c:76, "적당한 크가가 없을 때" (when   *)
(* there is no suitable size).                                             *)
HolesAreLargeEnough == damage.why # "hole"
=============================================================================
