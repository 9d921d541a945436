------------------------ MODULE TwoLockQueue_proofs ------------------------
(***************************************************************************)
(* Proofs about the task queue of tfind, for any set of threads, memory    *)
(* blocks and values.                                                      *)
(***************************************************************************)
EXTENDS TwoLockQueue, SequenceTheorems, TLAPS

(* A step that leaves the list and the private nodes alone keeps every     *)
(* block with its owner.                                                   *)
LEMMA OwnershipStable ==
  ASSUME NodeOwnership,
         allocated' = allocated,
         \A n \in Node : Linked(n)' <=> Linked(n),
         \A n \in Node, u \in Thread : Owns(u, n)' <=> Owns(u, n)
  PROVE  NodeOwnership'
BY DEF NodeOwnership

(* A call links the block it owned, or frees it.                           *)
LEMMA OwnershipGivenUp ==
  ASSUME NodeOwnership,
         NEW t \in Thread, NEW m \in Node, Owns(t, m),
         \A n \in Node, u \in Thread : Owns(u, n)' <=> Owns(u, n) /\ u # t,
         \/ /\ allocated' = allocated
            /\ \A n \in Node : Linked(n)' <=> Linked(n) \/ n = m
         \/ /\ allocated' = allocated \ {m}
            /\ \A n \in Node : Linked(n)' <=> Linked(n)
  PROVE  NodeOwnership'
<1>1. ASSUME NEW n \in Node
      PROVE  n \in allocated' <=> Linked(n)' \/ \E u \in Thread : Owns(u, n)'
  <2>1. Owns(t, n) <=> n = m
    BY DEF Owns
  <2>2. \A u \in Thread : Owns(u, n) /\ Owns(t, n) => u = t
    BY DEF NodeOwnership
  <2>3. n = m => ~Linked(n)
    BY DEF NodeOwnership
  <2>4. n \in allocated <=> Linked(n) \/ \E u \in Thread : Owns(u, n)
    BY DEF NodeOwnership
  <2>5. (\E u \in Thread : Owns(u, n)) <=>
          n = m \/ \E u \in Thread : Owns(u, n)'
    BY <2>1
  <2>6. n = m => ~\E u \in Thread : Owns(u, n)'
    BY <2>1, <2>2
  <2>7. QED
    BY <2>3, <2>4, <2>5, <2>6
<1>2. ASSUME NEW n \in Node, NEW u \in Thread, Owns(u, n)'
      PROVE  ~Linked(n)'
  <2>1. Owns(u, n) /\ u # t
    BY <1>2
  <2>2. ~Linked(n) /\ n # m
    BY <2>1 DEF NodeOwnership
  <2>3. QED
    BY <2>2
<1>3. ASSUME NEW n \in Node, NEW u \in Thread, NEW v \in Thread,
             Owns(u, n)', Owns(v, n)'
      PROVE  u = v
  BY <1>3 DEF NodeOwnership
<1>4. QED
  BY <1>1, <1>2, <1>3 DEF NodeOwnership

LEMMA EnqCallInv ==
  ASSUME IInv, NEW t \in Thread, NEW d \in Data, EnqCall(t, d)
  PROVE  IInv'
<1> USE NullAssumption DEF IInv, EnqCall, Goto, heap, locks, locals, Last,
                            EnqPC, DeqPC, PC, PrivatePC, HeadSection,
                            TailSection
<1>1. TypeOK'
  BY DEF TypeOK, LocalsInv, ListShape
<1>2. LockInv'
  BY DEF TypeOK, LockInv
<1>3. LocalsInv'
  BY DEF TypeOK, LockInv, LocalsInv, ListShape, NodeOwnership, Owns, Linked
<1>4. NodeOwnership'
  <2>1. PICK b \in Node \ allocated :
          /\ allocated' = allocated \cup {b}
          /\ temp' = [temp EXCEPT ![t] = b]
    OBVIOUS
  <2>2. \A n \in Node : Linked(n)' <=> Linked(n)
    BY DEF Linked
  <2>3. \A n \in Node, u \in Thread :
          Owns(u, n)' <=> Owns(u, n) \/ (u = t /\ n = b)
    BY <2>1 DEF TypeOK, Owns
  <2>4. QED
    BY <2>1, <2>2, <2>3 DEF NodeOwnership
<1>5. ListShape'
  BY DEF TypeOK, LockInv, LocalsInv, ListShape, NodeOwnership, Owns, Linked
<1>6. QED
  BY <1>1, <1>2, <1>3, <1>4, <1>5

LEMMA EnqLockInv ==
  ASSUME IInv, NEW t \in Thread, EnqLock(t)
  PROVE  IInv'
<1> USE NullAssumption DEF IInv, EnqLock, Goto, heap, locks, locals, Last,
                            EnqPC, DeqPC, PC, PrivatePC, HeadSection,
                            TailSection
<1>1. TypeOK'
  BY DEF TypeOK, LocalsInv, ListShape
<1>2. LockInv'
  BY DEF TypeOK, LockInv
<1>3. LocalsInv'
  BY DEF TypeOK, LockInv, LocalsInv, ListShape, NodeOwnership, Owns, Linked
<1>4. NodeOwnership'
  <2>1. \A n \in Node : Linked(n)' <=> Linked(n)
    BY DEF Linked
  <2>2. \A n \in Node, u \in Thread : Owns(u, n)' <=> Owns(u, n)
    BY DEF TypeOK, Owns
  <2>3. QED
    BY <2>1, <2>2, OwnershipStable
<1>5. ListShape'
  BY DEF TypeOK, LockInv, LocalsInv, ListShape, NodeOwnership, Owns, Linked
<1>6. QED
  BY <1>1, <1>2, <1>3, <1>4, <1>5

LEMMA EnqLinkInv ==
  ASSUME IInv, NEW t \in Thread, EnqLink(t)
  PROVE  IInv'
<1> USE NullAssumption DEF IInv, EnqLink, Goto, heap, locks, locals, Last,
                            EnqPC, DeqPC, PC, PrivatePC, HeadSection,
                            TailSection
<1>1. TypeOK'
  BY DEF TypeOK, LocalsInv, ListShape
<1>2. LockInv'
  BY DEF TypeOK, LockInv
<1>3. LocalsInv'
  BY DEF TypeOK, LockInv, LocalsInv, ListShape, NodeOwnership, Owns, Linked
<1>4. NodeOwnership'
  <2>1. temp[t] \in Node /\ Owns(t, temp[t])
    BY DEF TypeOK, LocalsInv, Owns
  <2>2. \A n \in Node : Linked(n)' <=> Linked(n) \/ n = temp[t]
    <3>1. /\ Len(chain) \in Nat
          /\ Len(chain') = Len(chain) + 1
          /\ chain'[Len(chain) + 1] = temp[t]
          /\ \A i \in 1 .. Len(chain) : chain'[i] = chain[i]
      BY <2>1, AppendProperties DEF TypeOK
    <3>2. \A i \in 1 .. Len(chain') :
            i \in 1 .. Len(chain) \/ i = Len(chain) + 1
      BY <3>1
    <3>3. \A i \in 1 .. Len(chain) : i \in 1 .. Len(chain')
      BY <3>1
    <3>4. Len(chain) + 1 \in 1 .. Len(chain')
      BY <3>1
    <3>5. QED
      BY ONLY <3>1, <3>2, <3>3, <3>4 DEF Linked
  <2>3. \A n \in Node, u \in Thread : Owns(u, n)' <=> Owns(u, n) /\ u # t
    BY DEF TypeOK, Owns
  <2>4. QED
    BY <2>1, <2>2, <2>3, OwnershipGivenUp
<1>5. ListShape'
  BY DEF TypeOK, LockInv, LocalsInv, ListShape, NodeOwnership, Owns, Linked
<1>6. QED
  BY <1>1, <1>2, <1>3, <1>4, <1>5

LEMMA EnqSwingInv ==
  ASSUME IInv, NEW t \in Thread, EnqSwing(t)
  PROVE  IInv'
<1> USE NullAssumption DEF IInv, EnqSwing, Goto, heap, locks, locals, Last,
                            EnqPC, DeqPC, PC, PrivatePC, HeadSection,
                            TailSection
<1>1. TypeOK'
  BY DEF TypeOK, LocalsInv, ListShape
<1>2. LockInv'
  BY DEF TypeOK, LockInv
<1>3. LocalsInv'
  BY DEF TypeOK, LockInv, LocalsInv, ListShape, NodeOwnership, Owns, Linked
<1>4. NodeOwnership'
  <2>1. \A n \in Node : Linked(n)' <=> Linked(n)
    BY DEF Linked
  <2>2. \A n \in Node, u \in Thread : Owns(u, n)' <=> Owns(u, n)
    BY DEF TypeOK, Owns
  <2>3. QED
    BY <2>1, <2>2, OwnershipStable
<1>5. ListShape'
  BY DEF TypeOK, LockInv, LocalsInv, ListShape, NodeOwnership, Owns, Linked
<1>6. QED
  BY <1>1, <1>2, <1>3, <1>4, <1>5

LEMMA EnqLoadCountInv ==
  ASSUME IInv, NEW t \in Thread, EnqLoadCount(t)
  PROVE  IInv'
<1> USE NullAssumption DEF IInv, EnqLoadCount, Goto, heap, locks, locals, Last,
                            EnqPC, DeqPC, PC, PrivatePC, HeadSection,
                            TailSection
<1>1. TypeOK'
  BY DEF TypeOK, LocalsInv, ListShape
<1>2. LockInv'
  BY DEF TypeOK, LockInv
<1>3. LocalsInv'
  BY DEF TypeOK, LockInv, LocalsInv, ListShape, NodeOwnership, Owns, Linked
<1>4. NodeOwnership'
  <2>1. \A n \in Node : Linked(n)' <=> Linked(n)
    BY DEF Linked
  <2>2. \A n \in Node, u \in Thread : Owns(u, n)' <=> Owns(u, n)
    BY DEF TypeOK, Owns
  <2>3. QED
    BY <2>1, <2>2, OwnershipStable
<1>5. ListShape'
  BY DEF TypeOK, LockInv, LocalsInv, ListShape, NodeOwnership, Owns, Linked
<1>6. QED
  BY <1>1, <1>2, <1>3, <1>4, <1>5

LEMMA EnqStoreCountInv ==
  ASSUME IInv, NEW t \in Thread, EnqStoreCount(t)
  PROVE  IInv'
<1> USE NullAssumption DEF IInv, EnqStoreCount, Goto, heap, locks, locals, Last,
                            EnqPC, DeqPC, PC, PrivatePC, HeadSection,
                            TailSection
<1>1. TypeOK'
  BY DEF TypeOK, LocalsInv, ListShape
<1>2. LockInv'
  BY DEF TypeOK, LockInv
<1>3. LocalsInv'
  BY DEF TypeOK, LockInv, LocalsInv, ListShape, NodeOwnership, Owns, Linked
<1>4. NodeOwnership'
  <2>1. \A n \in Node : Linked(n)' <=> Linked(n)
    BY DEF Linked
  <2>2. \A n \in Node, u \in Thread : Owns(u, n)' <=> Owns(u, n)
    BY DEF TypeOK, Owns
  <2>3. QED
    BY <2>1, <2>2, OwnershipStable
<1>5. ListShape'
  BY DEF TypeOK, LockInv, LocalsInv, ListShape, NodeOwnership, Owns, Linked
<1>6. QED
  BY <1>1, <1>2, <1>3, <1>4, <1>5

LEMMA EnqUnlockInv ==
  ASSUME IInv, NEW t \in Thread, EnqUnlock(t)
  PROVE  IInv'
<1> USE NullAssumption DEF IInv, EnqUnlock, Goto, heap, locks, locals, Last,
                            EnqPC, DeqPC, PC, PrivatePC, HeadSection,
                            TailSection
<1>1. TypeOK'
  BY DEF TypeOK, LocalsInv, ListShape
<1>2. LockInv'
  BY DEF TypeOK, LockInv
<1>3. LocalsInv'
  BY DEF TypeOK, LockInv, LocalsInv, ListShape, NodeOwnership, Owns, Linked
<1>4. NodeOwnership'
  <2>1. \A n \in Node : Linked(n)' <=> Linked(n)
    BY DEF Linked
  <2>2. \A n \in Node, u \in Thread : Owns(u, n)' <=> Owns(u, n)
    BY DEF TypeOK, Owns
  <2>3. QED
    BY <2>1, <2>2, OwnershipStable
<1>5. ListShape'
  BY DEF TypeOK, LockInv, LocalsInv, ListShape, NodeOwnership, Owns, Linked
<1>6. QED
  BY <1>1, <1>2, <1>3, <1>4, <1>5

LEMMA DeqCallInv ==
  ASSUME IInv, NEW t \in Thread, DeqCall(t)
  PROVE  IInv'
<1> USE NullAssumption DEF IInv, DeqCall, Goto, heap, locks, locals, Last,
                            EnqPC, DeqPC, PC, PrivatePC, HeadSection,
                            TailSection
<1>1. TypeOK'
  BY DEF TypeOK, LocalsInv, ListShape
<1>2. LockInv'
  BY DEF TypeOK, LockInv
<1>3. LocalsInv'
  BY DEF TypeOK, LockInv, LocalsInv, ListShape, NodeOwnership, Owns, Linked
<1>4. NodeOwnership'
  <2>1. \A n \in Node : Linked(n)' <=> Linked(n)
    BY DEF Linked
  <2>2. \A n \in Node, u \in Thread : Owns(u, n)' <=> Owns(u, n)
    BY DEF TypeOK, Owns
  <2>3. QED
    BY <2>1, <2>2, OwnershipStable
<1>5. ListShape'
  BY DEF TypeOK, LockInv, LocalsInv, ListShape, NodeOwnership, Owns, Linked
<1>6. QED
  BY <1>1, <1>2, <1>3, <1>4, <1>5

LEMMA DeqLockInv ==
  ASSUME IInv, NEW t \in Thread, DeqLock(t)
  PROVE  IInv'
<1> USE NullAssumption DEF IInv, DeqLock, Goto, heap, locks, locals, Last,
                            EnqPC, DeqPC, PC, PrivatePC, HeadSection,
                            TailSection
<1>1. TypeOK'
  BY DEF TypeOK, LocalsInv, ListShape
<1>2. LockInv'
  BY DEF TypeOK, LockInv
<1>3. LocalsInv'
  BY DEF TypeOK, LockInv, LocalsInv, ListShape, NodeOwnership, Owns, Linked
<1>4. NodeOwnership'
  <2>1. \A n \in Node : Linked(n)' <=> Linked(n)
    BY DEF Linked
  <2>2. \A n \in Node, u \in Thread : Owns(u, n)' <=> Owns(u, n)
    BY DEF TypeOK, Owns
  <2>3. QED
    BY <2>1, <2>2, OwnershipStable
<1>5. ListShape'
  BY DEF TypeOK, LockInv, LocalsInv, ListShape, NodeOwnership, Owns, Linked
<1>6. QED
  BY <1>1, <1>2, <1>3, <1>4, <1>5

LEMMA DeqReadInv ==
  ASSUME IInv, NEW t \in Thread, DeqRead(t)
  PROVE  IInv'
<1> USE NullAssumption DEF IInv, DeqRead, Goto, heap, locks, locals, Last,
                            EnqPC, DeqPC, PC, PrivatePC, HeadSection,
                            TailSection
<1>1. TypeOK'
  BY DEF TypeOK, LocalsInv, ListShape
<1>2. LockInv'
  BY DEF TypeOK, LockInv
<1>3. LocalsInv'
  <2>1. next[head] # NULL => Len(chain) > 1 /\ next[head] = chain[2]
    <3>1. Len(chain) \in Nat /\ Len(chain) >= 1
      BY DEF TypeOK, ListShape
    <3>2. Len(chain) = 1 => next[head] = NULL
      BY DEF ListShape
    <3>3. ASSUME Len(chain) > 1
          PROVE  next[head] = chain[2]
      <4>1. 1 \in 1 .. Len(chain) - 1
        BY <3>1, <3>3
      <4>2. next[chain[1]] = chain[1 + 1] /\ head = chain[1]
        BY <4>1 DEF ListShape
      <4>3. QED
        BY <3>3, <4>2
    <3>4. Len(chain) = 1 \/ Len(chain) > 1
      BY ONLY <3>1
    <3>5. QED
      BY ONLY <3>2, <3>3, <3>4
  <2>2. Last(chain)' = Last(chain)
    OBVIOUS
  <2>3. TypeOK' /\ next' = next /\ data' = data /\ val' = val /\ head' = head
    BY <1>1
  <2>4. ASSUME NEW u \in Thread, u # t
        PROVE  /\ pc'[u] = pc[u]
               /\ temp'[u] = temp[u]
               /\ new_head'[u] = new_head[u]
    BY <2>4 DEF TypeOK
  <2>5. /\ pc'[t] \in {"d_empty", "d_take"}
        /\ pc'[t] = "d_take" =>
             temp'[t] = head /\ new_head'[t] = next[head] /\ next[head] # NULL
    BY DEF TypeOK
  <2>6. QED
    BY <2>1, <2>2, <2>3, <2>4, <2>5 DEF TypeOK, LockInv, LocalsInv
<1>4. NodeOwnership'
  <2>1. \A n \in Node : Linked(n)' <=> Linked(n)
    BY DEF Linked
  <2>2. \A n \in Node, u \in Thread : Owns(u, n)' <=> Owns(u, n)
    BY DEF TypeOK, Owns
  <2>3. QED
    BY <2>1, <2>2, OwnershipStable
<1>5. ListShape'
  BY DEF TypeOK, LockInv, LocalsInv, ListShape, NodeOwnership, Owns, Linked
<1>6. QED
  BY <1>1, <1>2, <1>3, <1>4, <1>5

LEMMA DeqEmptyInv ==
  ASSUME IInv, NEW t \in Thread, DeqEmpty(t)
  PROVE  IInv'
<1> USE NullAssumption DEF IInv, DeqEmpty, Goto, heap, locks, locals, Last,
                            EnqPC, DeqPC, PC, PrivatePC, HeadSection,
                            TailSection
<1>1. TypeOK'
  BY DEF TypeOK, LocalsInv, ListShape
<1>2. LockInv'
  BY DEF TypeOK, LockInv
<1>3. LocalsInv'
  BY DEF TypeOK, LockInv, LocalsInv, ListShape, NodeOwnership, Owns, Linked
<1>4. NodeOwnership'
  <2>1. \A n \in Node : Linked(n)' <=> Linked(n)
    BY DEF Linked
  <2>2. \A n \in Node, u \in Thread : Owns(u, n)' <=> Owns(u, n)
    BY DEF TypeOK, Owns
  <2>3. QED
    BY <2>1, <2>2, OwnershipStable
<1>5. ListShape'
  BY DEF TypeOK, LockInv, LocalsInv, ListShape, NodeOwnership, Owns, Linked
<1>6. QED
  BY <1>1, <1>2, <1>3, <1>4, <1>5

LEMMA DeqTakeInv ==
  ASSUME IInv, NEW t \in Thread, DeqTake(t)
  PROVE  IInv'
<1> USE NullAssumption DEF IInv, DeqTake, Goto, heap, locks, locals, Last,
                            EnqPC, DeqPC, PC, PrivatePC, HeadSection,
                            TailSection
<1>1. TypeOK'
  BY DEF TypeOK, LocalsInv, ListShape
<1>2. LockInv'
  BY DEF TypeOK, LockInv
<1>3. LocalsInv'
  BY DEF TypeOK, LockInv, LocalsInv, ListShape, NodeOwnership, Owns, Linked
<1>4. NodeOwnership'
  <2>1. \A n \in Node : Linked(n)' <=> Linked(n) /\ n # head
    <3>1. Len(chain) > 1 /\ head = chain[1]
      BY DEF LocalsInv, ListShape
    <3>2. /\ Len(chain') = Len(chain) - 1
          /\ \A i \in 1 .. Len(chain) - 1 : chain'[i] = chain[i + 1]
      BY <3>1, HeadTailProperties DEF TypeOK
    <3>3. Len(chain) \in Nat
      BY DEF TypeOK
    <3>4. ASSUME NEW n \in Node, Linked(n)'
          PROVE  Linked(n) /\ n # head
      <4>1. PICK i \in 1 .. Len(chain) - 1 : chain[i + 1] = n
        BY <3>2, <3>3, <3>4 DEF Linked
      <4>2. i + 1 \in 1 .. Len(chain) /\ i + 1 # 1 /\ 1 \in 1 .. Len(chain)
        BY <3>1, <3>3, <4>1
      <4>3. QED
        BY <3>1, <4>1, <4>2 DEF ListShape, Linked
    <3>5. ASSUME NEW n \in Node, Linked(n), n # head
          PROVE  Linked(n)'
      <4>1. PICK i \in 1 .. Len(chain) : chain[i] = n
        BY <3>5 DEF Linked
      <4>2. i # 1
        BY <3>1, <3>5, <4>1
      <4>3. i - 1 \in 1 .. Len(chain) - 1 /\ (i - 1) + 1 = i
        BY <3>3, <4>1, <4>2
      <4>4. QED
        BY <3>2, <4>1, <4>3 DEF Linked
    <3>6. QED
      BY <3>4, <3>5
  <2>2. Linked(head)
    BY DEF TypeOK, ListShape, Linked
  <2>3. \A n \in Node, u \in Thread :
          Owns(u, n)' <=> Owns(u, n) \/ (u = t /\ n = head)
    BY DEF TypeOK, LocalsInv, Owns
  <2>4. QED
    BY <2>1, <2>2, <2>3 DEF NodeOwnership, TypeOK
<1>5. ListShape'
  <2>1. /\ chain' \in Seq(Node)
        /\ Len(chain) > 1
        /\ Len(chain') = Len(chain) - 1
        /\ \A i \in 1 .. Len(chain) - 1 : chain'[i] = chain[i + 1]
    BY HeadTailProperties DEF TypeOK, LocalsInv
  <2>2. Last(chain)' = Last(chain)
    BY <2>1 DEF TypeOK
  <2>3. \A i \in 1 .. Len(chain') - 1 : next'[chain'[i]] = chain'[i + 1]
    <3>1. TAKE i \in 1 .. Len(chain') - 1
    <3>2. /\ i \in 1 .. Len(chain) - 1
          /\ i + 1 \in 1 .. Len(chain) - 1
      BY <2>1 DEF TypeOK
    <3>3. next[chain[i + 1]] = chain[(i + 1) + 1] /\ next' = next
      BY <3>2 DEF ListShape
    <3>4. chain'[i] = chain[i + 1]
      BY <2>1, <3>2
    <3>5. chain'[i + 1] = chain[(i + 1) + 1]
      BY <2>1, <3>2
    <3>6. QED
      BY <3>3, <3>4, <3>5
  <2>4. \A i, j \in 1 .. Len(chain') : chain'[i] = chain'[j] => i = j
    <3>1. TAKE i, j \in 1 .. Len(chain')
    <3>2. /\ i \in 1 .. Len(chain) - 1 /\ i + 1 \in 1 .. Len(chain)
          /\ j \in 1 .. Len(chain) - 1 /\ j + 1 \in 1 .. Len(chain)
      BY <2>1 DEF TypeOK
    <3>3. chain[i + 1] = chain[j + 1] => i + 1 = j + 1
      BY <3>2 DEF ListShape
    <3>4. chain'[i] = chain[i + 1] /\ chain'[j] = chain[j + 1]
      BY <2>1, <3>2
    <3>5. i \in Int /\ j \in Int
      BY <3>2
    <3>6. QED
      BY ONLY <3>3, <3>4, <3>5
  <2>5. head' = chain'[1] /\ chain' # <<>>
    <3>1. Len(chain) \in Nat
      BY DEF TypeOK
    <3>2. 1 \in 1 .. Len(chain) - 1
      BY <2>1, <3>1
    <3>3. chain'[1] = chain[1 + 1] /\ head' = chain[2]
      BY <2>1, <3>2 DEF LocalsInv
    <3>4. chain' # <<>>
      <4>1. Len(chain') # 0
        BY ONLY <2>1, <3>1
      <4>2. QED
        BY ONLY <2>1, <4>1, EmptySeq
    <3>5. QED
      BY <3>3, <3>4
  <2>6. next'[Last(chain)'] = NULL
    BY <2>2 DEF ListShape
  <2>7. (\A u \in Thread : pc'[u] # "e_swing") => tail' = Last(chain)'
    BY <2>2 DEF TypeOK, ListShape
  <2>8. QED
    BY <2>3, <2>4, <2>5, <2>6, <2>7 DEF ListShape
<1>6. QED
  BY <1>1, <1>2, <1>3, <1>4, <1>5

LEMMA DeqLoadCountInv ==
  ASSUME IInv, NEW t \in Thread, DeqLoadCount(t)
  PROVE  IInv'
<1> USE NullAssumption DEF IInv, DeqLoadCount, Goto, heap, locks, locals, Last,
                            EnqPC, DeqPC, PC, PrivatePC, HeadSection,
                            TailSection
<1>1. TypeOK'
  BY DEF TypeOK, LocalsInv, ListShape
<1>2. LockInv'
  BY DEF TypeOK, LockInv
<1>3. LocalsInv'
  BY DEF TypeOK, LockInv, LocalsInv, ListShape, NodeOwnership, Owns, Linked
<1>4. NodeOwnership'
  <2>1. \A n \in Node : Linked(n)' <=> Linked(n)
    BY DEF Linked
  <2>2. \A n \in Node, u \in Thread : Owns(u, n)' <=> Owns(u, n)
    BY DEF TypeOK, Owns
  <2>3. QED
    BY <2>1, <2>2, OwnershipStable
<1>5. ListShape'
  BY DEF TypeOK, LockInv, LocalsInv, ListShape, NodeOwnership, Owns, Linked
<1>6. QED
  BY <1>1, <1>2, <1>3, <1>4, <1>5

LEMMA DeqStoreCountInv ==
  ASSUME IInv, NEW t \in Thread, DeqStoreCount(t)
  PROVE  IInv'
<1> USE NullAssumption DEF IInv, DeqStoreCount, Goto, heap, locks, locals, Last,
                            EnqPC, DeqPC, PC, PrivatePC, HeadSection,
                            TailSection
<1>1. TypeOK'
  BY DEF TypeOK, LocalsInv, ListShape
<1>2. LockInv'
  BY DEF TypeOK, LockInv
<1>3. LocalsInv'
  BY DEF TypeOK, LockInv, LocalsInv, ListShape, NodeOwnership, Owns, Linked
<1>4. NodeOwnership'
  <2>1. \A n \in Node : Linked(n)' <=> Linked(n)
    BY DEF Linked
  <2>2. \A n \in Node, u \in Thread : Owns(u, n)' <=> Owns(u, n)
    BY DEF TypeOK, Owns
  <2>3. QED
    BY <2>1, <2>2, OwnershipStable
<1>5. ListShape'
  BY DEF TypeOK, LockInv, LocalsInv, ListShape, NodeOwnership, Owns, Linked
<1>6. QED
  BY <1>1, <1>2, <1>3, <1>4, <1>5

LEMMA DeqUnlockInv ==
  ASSUME IInv, NEW t \in Thread, DeqUnlock(t)
  PROVE  IInv'
<1> USE NullAssumption DEF IInv, DeqUnlock, Goto, heap, locks, locals, Last,
                            EnqPC, DeqPC, PC, PrivatePC, HeadSection,
                            TailSection
<1>1. TypeOK'
  BY DEF TypeOK, LocalsInv, ListShape
<1>2. LockInv'
  BY DEF TypeOK, LockInv
<1>3. LocalsInv'
  BY DEF TypeOK, LockInv, LocalsInv, ListShape, NodeOwnership, Owns, Linked
<1>4. NodeOwnership'
  <2>1. \A n \in Node : Linked(n)' <=> Linked(n)
    BY DEF Linked
  <2>2. \A n \in Node, u \in Thread : Owns(u, n)' <=> Owns(u, n)
    BY DEF TypeOK, Owns
  <2>3. QED
    BY <2>1, <2>2, OwnershipStable
<1>5. ListShape'
  BY DEF TypeOK, LockInv, LocalsInv, ListShape, NodeOwnership, Owns, Linked
<1>6. QED
  BY <1>1, <1>2, <1>3, <1>4, <1>5

LEMMA DeqFreeInv ==
  ASSUME IInv, NEW t \in Thread, DeqFree(t)
  PROVE  IInv'
<1> USE NullAssumption DEF IInv, DeqFree, Goto, heap, locks, locals, Last,
                            EnqPC, DeqPC, PC, PrivatePC, HeadSection,
                            TailSection
<1>1. TypeOK'
  BY DEF TypeOK, LocalsInv, ListShape
<1>2. LockInv'
  BY DEF TypeOK, LockInv
<1>3. LocalsInv'
  BY DEF TypeOK, LockInv, LocalsInv, ListShape, NodeOwnership, Owns, Linked
<1>4. NodeOwnership'
  <2>1. temp[t] \in Node /\ Owns(t, temp[t])
    BY DEF TypeOK, LocalsInv, Owns
  <2>2. \A n \in Node : Linked(n)' <=> Linked(n)
    BY DEF Linked
  <2>3. \A n \in Node, u \in Thread : Owns(u, n)' <=> Owns(u, n) /\ u # t
    BY DEF TypeOK, Owns
  <2>4. QED
    BY <2>1, <2>2, <2>3, OwnershipGivenUp
<1>5. ListShape'
  BY DEF TypeOK, LockInv, LocalsInv, ListShape, NodeOwnership, Owns, Linked
<1>6. QED
  BY <1>1, <1>2, <1>3, <1>4, <1>5

-----------------------------------------------------------------------------
LEMMA InitInv == Init => IInv
<1> SUFFICES ASSUME Init
             PROVE  IInv
  OBVIOUS
<1>1. PICK dummy \in Node :
        /\ chain = <<dummy>> /\ allocated = {dummy}
        /\ head = dummy /\ tail = dummy
  BY DEF Init
<1>2. TypeOK
  BY <1>1, NullAssumption DEF Init, TypeOK, PC
<1>3. LockInv
  BY NullAssumption
     DEF Init, LockInv, HeadSection, TailSection
<1>4. LocalsInv
  BY DEF Init, LocalsInv, EnqPC, PrivatePC
<1>5. NodeOwnership
  BY <1>1 DEF Init, NodeOwnership, Linked, Owns, PrivatePC
<1>6. ListShape
  BY <1>1 DEF Init, ListShape, Last
<1>7. QED
  BY <1>2, <1>3, <1>4, <1>5, <1>6 DEF IInv

LEMMA NextInv == IInv /\ [Next]_vars => IInv'
<1> SUFFICES ASSUME IInv, [Next]_vars
             PROVE  IInv'
  OBVIOUS
<1>1. ASSUME NEW t \in Thread, NEW d \in Data, EnqCall(t, d)
      PROVE  IInv'
  BY <1>1, EnqCallInv
<1>2. ASSUME NEW t \in Thread, EnqStep(t)
      PROVE  IInv'
  BY <1>2, EnqLockInv, EnqLinkInv, EnqSwingInv, EnqLoadCountInv,
     EnqStoreCountInv, EnqUnlockInv DEF EnqStep
<1>3. ASSUME NEW t \in Thread, DeqCall(t)
      PROVE  IInv'
  BY <1>3, DeqCallInv
<1>4. ASSUME NEW t \in Thread, DeqStep(t)
      PROVE  IInv'
  BY <1>4, DeqLockInv, DeqReadInv, DeqEmptyInv, DeqTakeInv, DeqLoadCountInv,
     DeqStoreCountInv, DeqUnlockInv, DeqFreeInv DEF DeqStep
<1>5. CASE UNCHANGED vars
  BY <1>5 DEF vars, heap, locks, locals, IInv, TypeOK, LockInv, LocalsInv,
              NodeOwnership, ListShape, Linked, Owns, Last
<1>6. QED
  BY <1>1, <1>2, <1>3, <1>4, <1>5 DEF Next

(* The inductive invariant of the queue holds in every reachable state.    *)
THEOREM Invariance == Spec => []IInv
<1>1. Init => IInv
  BY InitInv
<1>2. IInv /\ [Next]_vars => IInv'
  BY NextInv
<1>3. QED
  BY <1>1, <1>2, PTL DEF Spec

(* Enqueue and Dequeue never touch a block that is already freed.          *)
THEOREM MemorySafety == Spec => []NoDanglingAccess
<1>1. IInv => NoDanglingAccess
  <2> SUFFICES ASSUME IInv, NEW t \in Thread
               PROVE  /\ pc[t] = "e_link" => tail \in allocated
                      /\ pc[t] = "d_read" => head \in allocated
                      /\ pc[t] = "d_take" => new_head[t] \in allocated
                      /\ pc[t] = "d_free" => temp[t] \in allocated
    BY DEF NoDanglingAccess
  <2>1. Linked(head) /\ Linked(Last(chain))
    BY DEF IInv, TypeOK, ListShape, Linked, Last
  <2>2. ASSUME pc[t] = "e_link"
        PROVE  tail \in allocated
    <3>1. \A u \in Thread : pc[u] # "e_swing"
      BY <2>2 DEF IInv, LockInv, TailSection
    <3>2. QED
      BY <2>1, <3>1 DEF IInv, TypeOK, ListShape, NodeOwnership
  <2>3. head \in allocated
    BY <2>1 DEF IInv, TypeOK, NodeOwnership
  <2>4. ASSUME pc[t] = "d_take"
        PROVE  new_head[t] \in allocated
    <3>1. new_head[t] \in Node /\ Linked(new_head[t])
      BY <2>4 DEF IInv, TypeOK, LocalsInv, Linked
    <3>2. QED
      BY <3>1 DEF IInv, NodeOwnership
  <2>5. ASSUME pc[t] = "d_free"
        PROVE  temp[t] \in allocated
    <3>1. temp[t] \in Node /\ Owns(t, temp[t])
      BY <2>5 DEF IInv, LocalsInv, Owns, PrivatePC
    <3>2. QED
      BY <3>1 DEF IInv, NodeOwnership
  <2>6. QED
    BY <2>2, <2>3, <2>4, <2>5
<1>2. QED
  BY <1>1, Invariance, PTL

(* Each block is in the list or owned by one call: none is leaked, shared  *)
(* between two calls, or freed twice.                                      *)
THEOREM Ownership == Spec => []NodeOwnership
BY Invariance, PTL DEF IInv

(* No interleaving of the two locks breaks the list.                       *)
THEOREM Shape == Spec => []ListShape
BY Invariance, PTL DEF IInv

(* Every field of the queue keeps its type.                                *)
THEOREM TypeCorrect == Spec => []TypeOK
BY Invariance, PTL DEF IInv

-----------------------------------------------------------------------------
(***************************************************************************)
(* The linked list with two locks implements the atomic queue FifoQueue.   *)
(***************************************************************************)
(* A thread that moves in the program moves in the abstract queue.         *)
LEMMA PhaseMoves ==
  ASSUME TypeOK, NEW t \in Thread, NEW from \in PC, NEW to \in PC,
         Goto(t, from, to)
  PROVE  /\ phase[t] = PhaseOf(from)
         /\ phase' = [phase EXCEPT ![t] = PhaseOf(to)]
BY DEF TypeOK, Goto, phase

(* A thread whose step stays within one abstract phase does not move.      *)
LEMMA PhaseStays ==
  ASSUME TypeOK, NEW t \in Thread, NEW from \in PC, NEW to \in PC,
         Goto(t, from, to), PhaseOf(from) = PhaseOf(to)
  PROVE  phase' = phase
BY DEF TypeOK, Goto, phase

(* The items depend on the list and on the data of its nodes only.         *)
LEMMA ItemsStable ==
  ASSUME chain' = chain,
         \A i \in 1 .. Len(chain) : data'[chain[i]] = data[chain[i]],
         Len(chain) \in Nat
  PROVE  items' = items
<1>1. \A i \in 1 .. Len(chain) - 1 : i + 1 \in 1 .. Len(chain)
  OBVIOUS
<1>2. QED
  BY <1>1 DEF items

LEMMA ItemsLength ==
  ASSUME IInv
  PROVE  /\ Len(chain) \in Nat /\ Len(chain) >= 1
         /\ items \in Seq(Data \cup {NULL})
         /\ Len(items) = Len(chain) - 1
         /\ \A i \in 1 .. Len(chain) - 1 : items[i] = data[chain[i + 1]]
<1>1. Len(chain) \in Nat /\ Len(chain) >= 1
  BY DEF IInv, TypeOK, ListShape
<1>2. \A i \in 1 .. Len(chain) - 1 : data[chain[i + 1]] \in Data \cup {NULL}
  BY <1>1 DEF IInv, TypeOK
<1>3. Len(chain) - 1 \in Nat
  BY <1>1
<1>4. QED
  BY <1>1, <1>2, <1>3 DEF items

-----------------------------------------------------------------------------
(* Enqueue begins: malloc may reuse any free block, and none of them is in *)
(* the list.                                                               *)
LEMMA EnqCallRefines ==
  ASSUME IInv, NEW t \in Thread, NEW d \in Data, EnqCall(t, d)
  PROVE  Fifo!CallEnqueue(t, d)
<1>1. items' = items
  <2>1. PICK b \in Node \ allocated : data' = [data EXCEPT ![b] = d]
    BY DEF EnqCall
  <2>2. chain' = chain /\ Len(chain) \in Nat
    BY ItemsLength DEF EnqCall
  <2>3. \A i \in 1 .. Len(chain) : chain[i] \in Node /\ chain[i] \in allocated
    BY DEF IInv, TypeOK, NodeOwnership, Linked
  <2>4. \A i \in 1 .. Len(chain) : data'[chain[i]] = data[chain[i]]
    BY <2>1, <2>3 DEF IInv, TypeOK
  <2>5. QED
    BY <2>2, <2>4, ItemsStable
<1>2. Goto(t, "idle", "e_lock") /\ val' = [val EXCEPT ![t] = d]
  BY DEF EnqCall
<1>3. /\ phase[t] = PhaseOf("idle")
      /\ phase' = [phase EXCEPT ![t] = PhaseOf("e_lock")]
  BY <1>2, PhaseMoves DEF IInv, PC, EnqPC, DeqPC
<1>4. QED
  BY <1>1, <1>2, <1>3 DEF Fifo!CallEnqueue, Fifo!Move, PhaseOf

(* Enqueue takes effect when its node is linked.                           *)
LEMMA EnqLinkRefines ==
  ASSUME IInv, NEW t \in Thread, EnqLink(t)
  PROVE  Fifo!Enqueue(t)
<1>1. items' = Append(items, val[t])
  <2> DEFINE k == Len(chain)
  <2>1. /\ temp[t] \in Node /\ data[temp[t]] = val[t]
        /\ val[t] \in Data \cup {NULL}
    BY DEF IInv, TypeOK, LocalsInv, PrivatePC, EnqLink, Goto, EnqPC
  <2>2. /\ Len(chain') = k + 1
        /\ chain'[k + 1] = temp[t]
        /\ \A i \in 1 .. k : chain'[i] = chain[i]
    BY <2>1, AppendProperties DEF EnqLink, IInv, TypeOK
  <2>3. /\ k \in Nat /\ k >= 1
        /\ items \in Seq(Data \cup {NULL}) /\ Len(items) = k - 1
        /\ \A i \in 1 .. k - 1 : items[i] = data[chain[i + 1]]
    BY ItemsLength
  <2>4. data' = data
    BY DEF EnqLink
  <2>5. items' = [i \in 1 .. k |-> data[chain'[i + 1]]]
    BY <2>2, <2>3, <2>4 DEF items
  <2>6. /\ Append(items, val[t]) \in Seq(Data \cup {NULL})
        /\ Len(Append(items, val[t])) = k
        /\ \A i \in 1 .. k - 1 : Append(items, val[t])[i] = items[i]
        /\ Append(items, val[t])[k] = val[t]
    BY <2>1, <2>3, AppendProperties
  <2>7. /\ items'[k] = val[t]
        /\ \A i \in 1 .. k - 1 : items'[i] = items[i]
    <3>1. k \in 1 .. k /\ items'[k] = data[chain'[k + 1]]
      BY <2>3, <2>5
    <3>2. ASSUME NEW i \in 1 .. k - 1
          PROVE  items'[i] = items[i]
      <4>1. i \in 1 .. k /\ i + 1 \in 1 .. k
        BY <2>3
      <4>2. items'[i] = data[chain'[i + 1]] /\ chain'[i + 1] = chain[i + 1]
        BY <2>2, <2>5, <4>1
      <4>3. QED
        BY <2>3, <4>2
    <3>3. QED
      BY <2>1, <2>2, <3>1, <3>2
  <2>8. items' \in Seq(Data \cup {NULL}) /\ Len(items') = k
    <3>1. \A i \in 1 .. k : items'[i] \in Data \cup {NULL}
      <4>1. TAKE i \in 1 .. k
      <4>2. CASE i = k
        BY <2>1, <2>7, <4>2
      <4>3. CASE i # k
        BY <2>3, <2>7, <4>3
      <4>4. QED
        BY <4>2, <4>3
    <3>2. QED
      BY <2>3, <2>5, <3>1
  <2>9. QED
    BY <2>3, <2>6, <2>7, <2>8, SeqEqual
<1>2. Goto(t, "e_link", "e_swing") /\ val' = val
  BY DEF EnqLink, locals
<1>3. /\ phase[t] = PhaseOf("e_link")
      /\ phase' = [phase EXCEPT ![t] = PhaseOf("e_swing")]
  BY <1>2, PhaseMoves DEF IInv, PC, EnqPC, DeqPC
<1>4. QED
  BY <1>1, <1>2, <1>3 DEF Fifo!Enqueue, Fifo!Move, PhaseOf

(* Dequeue finds the queue empty when it reads the NULL behind the dummy,  *)
(* and not when it returns.                                                *)
LEMMA DeqReadRefines ==
  ASSUME IInv, NEW t \in Thread, DeqRead(t)
  PROVE  Fifo!DequeueEmpty(t) \/ UNCHANGED Fifo!vars
<1>1. items' = items /\ val' = val
  BY DEF DeqRead, heap, items
<1>2. CASE next[head] = NULL
  <2>1. ~(Len(chain) > 1)
    <3> SUFFICES ASSUME Len(chain) > 1
                 PROVE  FALSE
      OBVIOUS
    <3>1. /\ Len(chain) \in Nat
          /\ 1 \in 1 .. Len(chain) - 1 /\ 2 \in 1 .. Len(chain)
      BY ItemsLength
    <3>2. next[chain[1]] = chain[1 + 1] /\ head = chain[1]
      BY <3>1 DEF IInv, ListShape
    <3>3. chain[2] \in Node
      BY <3>1 DEF IInv, TypeOK
    <3>4. QED
      BY <1>2, <3>2, <3>3, NullAssumption
  <2>2. items = <<>>
    BY <2>1, ItemsLength, EmptySeq
  <2>3. Goto(t, "d_read", "d_empty")
    BY <1>2 DEF DeqRead
  <2>4. /\ phase[t] = PhaseOf("d_read")
        /\ phase' = [phase EXCEPT ![t] = PhaseOf("d_empty")]
    BY <2>3, PhaseMoves DEF IInv, PC, EnqPC, DeqPC
  <2>5. QED
    BY <1>1, <2>2, <2>4 DEF Fifo!DequeueEmpty, Fifo!Move, PhaseOf
<1>3. CASE next[head] # NULL
  <2>1. Goto(t, "d_read", "d_take")
    BY <1>3 DEF DeqRead
  <2>2. phase' = phase
    BY <2>1, PhaseStays DEF IInv, PC, EnqPC, DeqPC, PhaseOf
  <2>3. QED
    BY <1>1, <2>2 DEF Fifo!vars
<1>4. QED
  BY <1>2, <1>3

(* Dequeue takes effect when it moves head.                                *)
LEMMA DeqTakeRefines ==
  ASSUME IInv, NEW t \in Thread, DeqTake(t)
  PROVE  Fifo!Dequeue(t)
<1> DEFINE k == Len(chain)
<1>1. /\ k \in Nat
      /\ items \in Seq(Data \cup {NULL}) /\ Len(items) = k - 1
      /\ \A i \in 1 .. k - 1 : items[i] = data[chain[i + 1]]
  BY ItemsLength
<1>2. k > 1 /\ new_head[t] = chain[2]
  BY DEF IInv, LocalsInv, DeqTake, Goto
<1>3. items # <<>>
  BY <1>1, <1>2, EmptySeq
<1>4. val' = [val EXCEPT ![t] = Head(items)]
  <2>1. 1 \in 1 .. k - 1
    BY <1>1, <1>2
  <2>2. items[1] = data[chain[1 + 1]]
    BY <1>1, <2>1
  <2>3. Head(items) = items[1]
    BY <1>1, <1>3
  <2>4. Head(items) = data[new_head[t]]
    BY <1>2, <2>2, <2>3
  <2>5. val' = [val EXCEPT ![t] = data[new_head[t]]]
    BY DEF DeqTake
  <2>6. QED
    BY ONLY <2>4, <2>5
<1>5. items' = Tail(items)
  <2>1. /\ Tail(items) \in Seq(Data \cup {NULL})
        /\ Len(Tail(items)) = k - 2
        /\ \A i \in 1 .. k - 2 : Tail(items)[i] = items[i + 1]
    BY <1>1, <1>3, HeadTailProperties
  <2>2. /\ Len(chain') = k - 1
        /\ \A i \in 1 .. k - 1 : chain'[i] = chain[i + 1]
    <3>1. chain \in Seq(Node) /\ chain # <<>> /\ chain' = Tail(chain)
      BY DEF IInv, TypeOK, ListShape, DeqTake
    <3>2. QED
      BY <1>1, <3>1, HeadTailProperties
  <2>3. items' = [i \in 1 .. k - 2 |-> data[chain'[i + 1]]]
    BY <1>1, <2>2 DEF items, DeqTake, heap
  <2>4. \A i \in 1 .. k - 2 : items'[i] = items[i + 1]
    <3>1. TAKE i \in 1 .. k - 2
    <3>2. i + 1 \in 1 .. k - 1
      BY <1>1
    <3>3. items'[i] = data[chain'[i + 1]]
      BY <2>3
    <3>4. chain'[i + 1] = chain[(i + 1) + 1]
      BY <2>2, <3>2
    <3>5. items[i + 1] = data[chain[(i + 1) + 1]]
      BY <1>1, <3>2
    <3>6. QED
      BY <3>3, <3>4, <3>5
  <2>5. \A i \in 1 .. k - 2 : items'[i] = Tail(items)[i]
    BY <2>1, <2>4
  <2>6. k - 2 \in Nat
    BY <1>1, <1>2
  <2>7. items' \in Seq(Data \cup {NULL}) /\ Len(items') = k - 2
    <3>1. \A i \in 1 .. k - 2 : items'[i] \in Data \cup {NULL}
      BY <2>1, <2>5, ElementOfSeq
    <3>2. QED
      BY <2>3, <2>6, <3>1
  <2>8. QED
    BY <2>1, <2>5, <2>7, SeqEqual
<1>6. Goto(t, "d_take", "d_load")
  BY DEF DeqTake
<1>7. /\ phase[t] = PhaseOf("d_take")
      /\ phase' = [phase EXCEPT ![t] = PhaseOf("d_load")]
  BY <1>6, PhaseMoves DEF IInv, PC, EnqPC, DeqPC
<1>8. QED
  BY <1>3, <1>4, <1>5, <1>7 DEF Fifo!Dequeue, Fifo!Move, PhaseOf

(* The beginning of Dequeue and the end of each function.                  *)
LEMMA CallReturnRefines ==
  ASSUME IInv, NEW t \in Thread
  PROVE  /\ DeqCall(t) => Fifo!CallDequeue(t)
         /\ EnqUnlock(t) => Fifo!ReturnEnqueue(t)
         /\ DeqEmpty(t) \/ DeqFree(t) => Fifo!ReturnDequeue(t)
<1> USE DEF IInv, PC, EnqPC, DeqPC
<1>1. ASSUME DeqCall(t)
      PROVE  Fifo!CallDequeue(t)
  <2>1. Goto(t, "idle", "d_lock") /\ items' = items
    BY <1>1 DEF DeqCall, heap, items
  <2>2. /\ phase[t] = PhaseOf("idle")
        /\ phase' = [phase EXCEPT ![t] = PhaseOf("d_lock")]
    BY <2>1, PhaseMoves
  <2>3. QED
    BY <1>1, <2>1, <2>2 DEF DeqCall, Fifo!CallDequeue, Fifo!Move, PhaseOf
<1>2. ASSUME EnqUnlock(t)
      PROVE  Fifo!ReturnEnqueue(t)
  <2>1. Goto(t, "e_unlock", "idle") /\ items' = items
    BY <1>2 DEF EnqUnlock, heap, items
  <2>2. /\ phase[t] = PhaseOf("e_unlock")
        /\ phase' = [phase EXCEPT ![t] = PhaseOf("idle")]
    BY <2>1, PhaseMoves
  <2>3. QED
    BY <1>2, <2>1, <2>2 DEF EnqUnlock, Fifo!ReturnEnqueue, Fifo!Move, PhaseOf
<1>3. ASSUME DeqEmpty(t) \/ DeqFree(t)
      PROVE  Fifo!ReturnDequeue(t)
  <2>1. items' = items /\ val' = val
    BY <1>3 DEF DeqEmpty, DeqFree, heap, locals, items
  <2>2. PICK from \in {"d_empty", "d_free"} : Goto(t, from, "idle")
    BY <1>3 DEF DeqEmpty, DeqFree
  <2>3. /\ phase[t] = PhaseOf(from)
        /\ phase' = [phase EXCEPT ![t] = PhaseOf("idle")]
    BY <2>2, PhaseMoves
  <2>4. QED
    BY <2>1, <2>2, <2>3 DEF Fifo!ReturnDequeue, Fifo!Move, PhaseOf
<1>4. QED
  BY <1>1, <1>2, <1>3

(* The locks, tail, count and free leave the abstract queue unchanged.     *)
LEMMA InternalSteps ==
  ASSUME IInv, NEW t \in Thread,
         \/ EnqLock(t) \/ EnqSwing(t) \/ EnqLoadCount(t) \/ EnqStoreCount(t)
         \/ DeqLock(t) \/ DeqLoadCount(t) \/ DeqStoreCount(t) \/ DeqUnlock(t)
  PROVE  UNCHANGED Fifo!vars
<1>1. items' = items /\ val' = val
  BY DEF EnqLock, EnqSwing, EnqLoadCount, EnqStoreCount, DeqLock,
         DeqLoadCount, DeqStoreCount, DeqUnlock, heap, locals, items
<1>2. PICK from \in PC, to \in PC :
        Goto(t, from, to) /\ PhaseOf(from) = PhaseOf(to)
  BY DEF EnqLock, EnqSwing, EnqLoadCount, EnqStoreCount, DeqLock,
         DeqLoadCount, DeqStoreCount, DeqUnlock, PC, EnqPC, DeqPC, PhaseOf
<1>3. phase' = phase
  BY <1>2, PhaseStays DEF IInv
<1>4. QED
  BY <1>1, <1>3 DEF Fifo!vars

LEMMA InitRefines == Init => Fifo!Init
<1> SUFFICES ASSUME Init
             PROVE  Fifo!Init
  OBVIOUS
<1>1. IInv
  BY InitInv
<1>2. Len(chain) = 1
  BY DEF Init
<1>3. items = <<>>
  BY <1>1, <1>2, ItemsLength, EmptySeq
<1>4. QED
  BY <1>3 DEF Init, Fifo!Init, phase, PhaseOf

LEMMA StepRefines == IInv /\ [Next]_vars => [Fifo!Next]_(Fifo!vars)
<1> SUFFICES ASSUME IInv, [Next]_vars
             PROVE  [Fifo!Next]_(Fifo!vars)
  OBVIOUS
<1>1. ASSUME NEW t \in Thread, NEW d \in Data, EnqCall(t, d)
      PROVE  Fifo!Step(t)
  BY <1>1, EnqCallRefines DEF Fifo!Step
<1>2. ASSUME NEW t \in Thread, DeqCall(t)
      PROVE  Fifo!Step(t)
  BY <1>2, CallReturnRefines DEF Fifo!Step
<1>3. ASSUME NEW t \in Thread, EnqStep(t)
      PROVE  Fifo!Step(t) \/ UNCHANGED Fifo!vars
  BY <1>3, EnqLinkRefines, CallReturnRefines, InternalSteps
     DEF EnqStep, Fifo!Step
<1>4. ASSUME NEW t \in Thread, DeqStep(t)
      PROVE  Fifo!Step(t) \/ UNCHANGED Fifo!vars
  BY <1>4, DeqReadRefines, DeqTakeRefines, CallReturnRefines, InternalSteps
     DEF DeqStep, Fifo!Step
<1>5. CASE UNCHANGED vars
  BY <1>5 DEF vars, heap, locals, Fifo!vars, items, phase
<1>6. QED
  BY <1>1, <1>2, <1>3, <1>4, <1>5 DEF Next, Fifo!Next

(* Whatever the interleaving of Enqueue and Dequeue, a Dequeue returns the *)
(* oldest value no Dequeue has returned before, or NULL if there was none  *)
(* at one instant of the call.                                             *)
THEOREM Linearizable == Spec => FifoSpec
<1>1. Init => Fifo!Init
  BY InitRefines
<1>2. IInv /\ [Next]_vars => [Fifo!Next]_(Fifo!vars)
  BY StepRefines
<1>3. QED
  BY <1>1, <1>2, Invariance, PTL DEF Spec, FifoSpec, Fifo!Spec
=============================================================================
