---------------------------- MODULE Pfind_proofs ----------------------------
(***************************************************************************)
(* The proofs about pfind, for any number of workers, any capacity of the  *)
(* pipes and any file systems.  First the two protocols: the locks keep    *)
(* messages together, every reader finds what it reads, and a lost SIGCONT *)
(* is fatal.  The inductive invariant has a part for each of these:        *)
(*   ManagerInv, LockInv  where the processes are, and the locks they hold *)
(*   OutInv               what a process has still to write                *)
(*   FrameInv             a pipe, with what its writer has still to write, *)
(*                        holds the rest of the reader's message and then  *)
(*                        whole messages                                   *)
(*   RoundInv             the tasks of a round, and the SIGCONTs and       *)
(*                        SIGSTOPs sent for them                           *)
(*   LostInv              what a lost SIGCONT leaves behind                *)
(***************************************************************************)
EXTENDS Pfind, FiniteSetTheorems, SequenceTheorems, TLAPS

(***************************************************************************)
(* Where the manager and the workers can be, and who holds which lock.     *)
(***************************************************************************)
Reading2 == {"length", "option", "dir_length", "dir"}

ManagerInv ==
  /\ mpc = "fork" =>
       i < Num /\ \A w \in Worker : wpc[w] \in {"none", "open1"}
  /\ mpc \in {"fork", "open1", "open2", "plan"} => queue # <<>>
  /\ mpc \in {"lock1", "write", "wake", "stop", "lock2"} \cup Reading2 =>
       available > 0
  /\ mpc = "lock1" => i = 0 /\ available <= Len(queue)
  /\ mpc = "write" => i <= available /\ available - i <= Len(queue)
  /\ mpc \in {"wake", "stop", "option", "dir_length", "dir"} => i < available
  /\ mpc = "lock2" => i = 0
  /\ mpc = "length" => i <= available
  /\ mpc = "kill" => i < Num
  /\ Manager \in stopped => mpc \in {"stop", "lock2"}

LockInv ==
  /\ lock1 = Manager <=> mpc = "write"
  /\ \A w \in Worker : lock1 = w <=> wpc[w] \in {"length", "task", "unlock1"}
  /\ lock2 = Manager <=> mpc \in Reading2 \cup {"overrun"}
  /\ \A w \in Worker : lock2 = w <=> wpc[w] \in {"open", "read", "last", "spin"}

(* What a process has still to write.                                      *)
TaskPending ==
  out[Manager] \in {<<>>} \cup {<<p>> : p \in Path} \cup {<<"len", p>> : p \in Path}

OutInv ==
  /\ mpc # "write" => out[Manager] = <<>>
  /\ TaskPending
  /\ \A w \in Worker :
       /\ wpc[w] \notin {"read", "last"} => out[w] = <<>>
       /\ wpc[w] = "read" => \A k \in 1 .. Len(out[w]) : out[w][k] # "n"
       /\ wpc[w] = "last" => out[w] \in {<<>>, <<"n">>, <<"len", "n">>}
       /\ w \in stopped => wpc[w] = "lock1"

(***************************************************************************)
(* The fields of a message, one after the other: what the field x can be   *)
(* where the reader stands at p, and where the reader stands after it.     *)
(***************************************************************************)
Moves(p, x, q) ==
  \/ p = "length" /\ x = "len" /\ q = "option"
  \/ p = "option" /\ x \in {"f", "l", "n"} /\ q = "length"
  \/ p = "option" /\ x = "d" /\ q = "dir_length"
  \/ p = "dir_length" /\ x = "len" /\ q = "dir"
  \/ p = "dir" /\ x \in Path /\ q = "length"
  \/ p = "task_length" /\ x = "len" /\ q = "task"
  \/ p = "task" /\ x \in Path /\ q = "task_length"

Phase == Reading2 \cup {"task_length", "task"}

(* The fields of s take a reader from p to q.                              *)
Frames(s, p, q) ==
  \E at \in [1 .. Len(s) + 1 -> Phase] :
    /\ at[1] = p /\ at[Len(s) + 1] = q
    /\ \A k \in 1 .. Len(s) : Moves(at[k], s[k], at[k + 1])

Reader1 == IF \E w \in Worker : wpc[w] = "task" THEN "task" ELSE "task_length"
Reader2 == IF mpc \in {"option", "dir_length", "dir"} THEN mpc ELSE "length"

FrameInv ==
  /\ Frames(pipe1 \o out[Manager], Reader1, "task_length")
  /\ (\A w \in Worker : out[w] = <<>>) => Frames(pipe2, Reader2, "length")
  /\ \A w \in Worker : out[w] # <<>> => Frames(pipe2 \o out[w], Reader2, "length")

(***************************************************************************)
(* The tasks of a round, from the manager's write to the "n" it reads.     *)
(***************************************************************************)
Positions(s, V) == {k \in 1 .. Len(s) : s[k] \in V}
CountIn(s, V) == Cardinality(Positions(s, V))

Busy == {w \in Worker : wpc[w] \in {"unlock1", "lock2", "open", "read", "spin",
                                    "exited"}}
Reporting == {w \in Worker : wpc[w] = "last"}
Unsent == {w \in Worker : wpc[w] = "last" /\ out[w] # <<>>}
Waking == {w \in Worker : wpc[w] = "wake"}

(* Those who have been continued and have no task yet.                     *)
Awake == {w \in Worker : wpc[w] \in {"lock1", "length", "task"} /\ w \notin stopped}

Tasks == CountIn(pipe1, Path)
Reports == CountIn(pipe2, {"n"}) + Cardinality(Unsent)

(* The SIGCONTs sent to the manager, and the SIGSTOPs it has returned from.*)
Told == Reports - Cardinality(Reporting) - Cardinality(Waking)
Down == IF Manager \in stopped THEN 1 ELSE 0
Resumed == IF mpc = "stop" THEN i - Down
           ELSE IF mpc = "lock2" THEN available - Down
           ELSE 0
ToWake == IF mpc = "wake" THEN available - i ELSE 0
Rounds == {"wake", "stop", "lock2"}

Idle == Busy = {} /\ Reporting = {} /\ Waking = {} /\ Awake = {}

RoundInv ==
  /\ mpc \notin Rounds => Idle
  /\ mpc \notin Rounds \cup {"write"} => Tasks = 0
  /\ mpc = "write" => Tasks = i - (IF out[Manager] = <<>> THEN 0 ELSE 1)
  /\ mpc \notin Rounds \cup Reading2 \cup {"overrun"} => Reports = 0
  /\ mpc \in Reading2 \cup {"overrun"} => Reports = available - i
  /\ mpc \in Rounds =>
       /\ Tasks + Cardinality(Busy) + Reports = available
       /\ Cardinality(Awake) + ToWake <= Tasks
       /\ Resumed <= Told

LostInv ==
  lost => /\ mpc \in Rounds
          /\ Cardinality(Awake) + ToWake < Tasks \/ Resumed < Told

IInv ==
  TypeOK /\ ManagerInv /\ LockInv /\ OutInv /\ FrameInv /\ RoundInv /\ LostInv

-----------------------------------------------------------------------------
(* How many fields of a sequence are in V.                                 *)
LEMMA CountType ==
  ASSUME NEW S, NEW s \in Seq(S), NEW V
  PROVE  /\ IsFiniteSet(Positions(s, V))
         /\ CountIn(s, V) \in Nat
<1>1. IsFiniteSet(1 .. Len(s))
  BY LenProperties, FS_Interval
<1>2. Positions(s, V) \subseteq 1 .. Len(s)
  BY DEF Positions
<1> QED
  BY <1>1, <1>2, FS_Subset, FS_CardinalityType DEF CountIn

LEMMA CountEmpty ==
  ASSUME NEW V
  PROVE  CountIn(<<>>, V) = 0
<1>1. Positions(<<>>, V) = {}
  BY DEF Positions
<1> QED
  BY <1>1, FS_EmptySet DEF CountIn

(* A count is zero where no field is in V.                                 *)
LEMMA CountZero ==
  ASSUME NEW S, NEW s \in Seq(S), NEW V
  PROVE  CountIn(s, V) = 0 <=> \A k \in 1 .. Len(s) : s[k] \notin V
<1>1. CountIn(s, V) = 0 <=> Positions(s, V) = {}
  BY CountType, FS_EmptySet DEF CountIn
<1> QED
  BY <1>1 DEF Positions

LEMMA CountAppend ==
  ASSUME NEW S, NEW s \in Seq(S), NEW x \in S, NEW V
  PROVE  CountIn(Append(s, x), V) = CountIn(s, V) + (IF x \in V THEN 1 ELSE 0)
<1>1. /\ Len(Append(s, x)) = Len(s) + 1 /\ Len(s) \in Nat
      /\ \A k \in 1 .. Len(s) : Append(s, x)[k] = s[k]
      /\ Append(s, x)[Len(s) + 1] = x
  BY AppendProperties, LenProperties
<1>2. IsFiniteSet(Positions(s, V)) /\ CountIn(s, V) \in Nat
  BY CountType
<1>3. Len(s) + 1 \notin Positions(s, V)
  BY <1>1 DEF Positions
<1>4. CASE x \in V
  <2>1. Positions(Append(s, x), V) = Positions(s, V) \cup {Len(s) + 1}
    BY <1>1, <1>4 DEF Positions
  <2> QED
    BY <2>1, <1>2, <1>3, <1>4, FS_AddElement DEF CountIn
<1>5. CASE x \notin V
  <2>1. Positions(Append(s, x), V) = Positions(s, V)
    BY <1>1, <1>5 DEF Positions
  <2> QED
    BY <2>1, <1>2, <1>5 DEF CountIn
<1> QED
  BY <1>4, <1>5

LEMMA CountConcat ==
  ASSUME NEW S, NEW s \in Seq(S), NEW t \in Seq(S), NEW V
  PROVE  CountIn(s \o t, V) = CountIn(s, V) + CountIn(t, V)
<1> DEFINE K == Positions(s, V)
           M == Positions(t, V)
           L == Positions(s \o t, V)
           N == {k \in L : k > Len(s)}
           g == [k \in M |-> k + Len(s)]
<1>1. /\ Len(s \o t) = Len(s) + Len(t) /\ Len(s) \in Nat /\ Len(t) \in Nat
      /\ \A k \in 1 .. Len(s) + Len(t) :
           (s \o t)[k] = IF k <= Len(s) THEN s[k] ELSE t[k - Len(s)]
  BY ConcatProperties, LenProperties
<1>2. L = K \cup N /\ K \cap N = {}
  BY <1>1 DEF Positions
<1>3. \A k \in M : k \in Nat /\ k + Len(s) \in N
  BY <1>1 DEF Positions
<1>4. \A n \in N : n - Len(s) \in M /\ n = (n - Len(s)) + Len(s)
  BY <1>1 DEF Positions
<1>5. g \in [M -> N]
  BY <1>3
<1>6. g \in Bijection(M, N)
  <2>1. \A k, l \in M : g[k] = g[l] => k = l
    BY <1>1, <1>3
  <2>2. \A n \in N : \E k \in M : g[k] = n
    BY <1>1, <1>4
  <2> QED
    BY <1>5, <2>1, <2>2 DEF Bijection, Injection, Surjection, IsInjective
<1>7. IsFiniteSet(M) /\ IsFiniteSet(K)
  BY CountType
<1> HIDE DEF K, M, L, N, g
<1>8. IsFiniteSet(N) /\ Cardinality(N) = Cardinality(M)
  BY <1>6, <1>7, FS_Bijection DEF ExistsBijection
<1>9. Cardinality(K \cup N) = Cardinality(K) + Cardinality(N)
  <2>1. Cardinality(K \cup N)
          = Cardinality(K) + Cardinality(N) - Cardinality(K \cap N)
    BY <1>7, <1>8, FS_Union
  <2>2. Cardinality(K \cap N) = 0
    BY <1>2, FS_EmptySet
  <2> QED
    BY <2>1, <2>2, <1>7, <1>8, FS_CardinalityType
<1> QED
  BY <1>2, <1>8, <1>9 DEF CountIn, K, M, L

LEMMA SeqHeadTail ==
  ASSUME NEW S, NEW s \in Seq(S), s # <<>>
  PROVE  s = <<Head(s)>> \o Tail(s)
OBVIOUS

LEMMA CountTail ==
  ASSUME NEW S, NEW s \in Seq(S), s # <<>>, NEW V
  PROVE  CountIn(s, V) = CountIn(Tail(s), V) + (IF Head(s) \in V THEN 1 ELSE 0)
<1>1. /\ Head(s) \in S /\ Tail(s) \in Seq(S)
      /\ s = <<Head(s)>> \o Tail(s)
  BY HeadTailProperties, SeqHeadTail
<1>2. <<Head(s)>> \in Seq(S) /\ <<>> \in Seq(S) /\ <<Head(s)>> = Append(<<>>, Head(s))
  BY <1>1
<1>3. CountIn(<<Head(s)>>, V) = IF Head(s) \in V THEN 1 ELSE 0
  <2>1. CountIn(Append(<<>>, Head(s)), V)
          = CountIn(<<>>, V) + (IF Head(s) \in V THEN 1 ELSE 0)
    BY <1>1, <1>2, CountAppend
  <2> QED
    BY <2>1, <1>2, CountEmpty
<1>4. CountIn(<<Head(s)>> \o Tail(s), V)
        = CountIn(<<Head(s)>>, V) + CountIn(Tail(s), V)
  BY <1>1, <1>2, CountConcat
<1>5. CountIn(Tail(s), V) \in Nat
  BY <1>1, CountType
<1>6. CountIn(s, V) = CountIn(<<Head(s)>> \o Tail(s), V)
  BY <1>1
<1> QED
  BY <1>3, <1>4, <1>5, <1>6

(* Writing the first of the fields still to be written.                    *)
LEMMA MoveHead ==
  ASSUME NEW S, NEW s \in Seq(S), NEW t \in Seq(S), t # <<>>
  PROVE  Append(s, Head(t)) \o Tail(t) = s \o t
<1>1. /\ Head(t) \in S /\ Tail(t) \in Seq(S) /\ Len(Tail(t)) = Len(t) - 1
      /\ \A k \in 1 .. Len(Tail(t)) : Tail(t)[k] = t[k + 1]
      /\ Len(t) \in Nat \ {0} /\ Len(s) \in Nat /\ Head(t) = t[1]
  BY HeadTailProperties, LenProperties, EmptySeq
<1>2. /\ Append(s, Head(t)) \in Seq(S) /\ Len(Append(s, Head(t))) = Len(s) + 1
      /\ \A k \in 1 .. Len(s) : Append(s, Head(t))[k] = s[k]
      /\ Append(s, Head(t))[Len(s) + 1] = t[1]
  BY <1>1, AppendProperties
<1> DEFINE u == Append(s, Head(t)) \o Tail(t)
           v == s \o t
<1>3. /\ u \in Seq(S) /\ Len(u) = Len(s) + Len(t)
      /\ \A k \in 1 .. Len(s) + Len(t) :
           u[k] = IF k <= Len(s) + 1 THEN Append(s, Head(t))[k]
                  ELSE Tail(t)[k - (Len(s) + 1)]
  BY <1>1, <1>2, ConcatProperties
<1>4. /\ v \in Seq(S) /\ Len(v) = Len(s) + Len(t)
      /\ \A k \in 1 .. Len(s) + Len(t) :
           v[k] = IF k <= Len(s) THEN s[k] ELSE t[k - Len(s)]
  BY ConcatProperties
<1>5. ASSUME NEW k \in 1 .. Len(s) + Len(t)
      PROVE  u[k] = v[k]
  <2> HIDE DEF u, v
  <2>1. CASE k <= Len(s)
    BY <2>1, <1>1, <1>2, <1>3, <1>4
  <2>2. CASE k = Len(s) + 1
    BY <2>2, <1>1, <1>2, <1>3, <1>4
  <2>3. CASE k > Len(s) + 1
    <3>1. u[k] = Tail(t)[k - (Len(s) + 1)] /\ v[k] = t[k - Len(s)]
      BY <2>3, <1>1, <1>3, <1>4
    <3>2. /\ k - (Len(s) + 1) \in 1 .. Len(Tail(t))
          /\ (k - (Len(s) + 1)) + 1 = k - Len(s)
      BY <2>3, <1>1
    <3> QED
      BY <3>1, <3>2, <1>1
  <2> QED
    BY <2>1, <2>2, <2>3, <1>1
<1> HIDE DEF u, v
<1>6. u = v
  BY <1>3, <1>4, <1>5, SeqEqual
<1> QED
  BY <1>6 DEF u, v

-----------------------------------------------------------------------------
(* Sequences of fields that begin and end between two messages.            *)
LEMMA FramesEmpty ==
  ASSUME NEW p, NEW q
  PROVE  Frames(<<>>, p, q) <=> p = q /\ p \in Phase
<1>1. ASSUME p = q, p \in Phase
      PROVE  Frames(<<>>, p, q)
  <2> DEFINE at == [k \in 1 .. Len(<<>>) + 1 |-> p]
  <2>1. at \in [1 .. Len(<<>>) + 1 -> Phase]
    BY <1>1
  <2>2. at[1] = p /\ at[Len(<<>>) + 1] = q
    BY <1>1
  <2>3. \A k \in 1 .. Len(<<>>) : Moves(at[k], <<>>[k], at[k + 1])
    OBVIOUS
  <2> HIDE DEF at
  <2> QED
    BY <2>1, <2>2, <2>3 DEF Frames
<1>2. ASSUME Frames(<<>>, p, q)
      PROVE  p = q /\ p \in Phase
  BY <1>2 DEF Frames
<1> QED
  BY <1>1, <1>2

LEMMA FramesConcat ==
  ASSUME NEW S, NEW s \in Seq(S), NEW t \in Seq(S), NEW p, NEW q, NEW r,
         Frames(s, p, q), Frames(t, q, r)
  PROVE  Frames(s \o t, p, r)
<1>1. PICK a \in [1 .. Len(s) + 1 -> Phase] :
        /\ a[1] = p /\ a[Len(s) + 1] = q
        /\ \A k \in 1 .. Len(s) : Moves(a[k], s[k], a[k + 1])
  BY DEF Frames
<1>2. PICK b \in [1 .. Len(t) + 1 -> Phase] :
        /\ b[1] = q /\ b[Len(t) + 1] = r
        /\ \A k \in 1 .. Len(t) : Moves(b[k], t[k], b[k + 1])
  BY DEF Frames
<1>3. /\ Len(s \o t) = Len(s) + Len(t) /\ Len(s) \in Nat /\ Len(t) \in Nat
      /\ \A k \in 1 .. Len(s) + Len(t) :
           (s \o t)[k] = IF k <= Len(s) THEN s[k] ELSE t[k - Len(s)]
  BY ConcatProperties, LenProperties
<1> DEFINE c == [k \in 1 .. Len(s \o t) + 1 |->
                   IF k <= Len(s) + 1 THEN a[k] ELSE b[k - Len(s)]]
<1>4. c \in [1 .. Len(s \o t) + 1 -> Phase]
  BY <1>1, <1>2, <1>3
<1>5. c[1] = p /\ c[Len(s \o t) + 1] = r
  BY <1>1, <1>2, <1>3
<1>6. ASSUME NEW k \in 1 .. Len(s \o t)
      PROVE  Moves(c[k], (s \o t)[k], c[k + 1])
  <2>1. CASE k <= Len(s)
    <3>1. c[k] = a[k] /\ c[k + 1] = a[k + 1] /\ (s \o t)[k] = s[k]
      BY <2>1, <1>3
    <3> QED
      BY <3>1, <2>1, <1>1, <1>3
  <2>2. CASE k > Len(s)
    <3>1. k - Len(s) \in 1 .. Len(t) /\ (k - Len(s)) + 1 = (k + 1) - Len(s)
      BY <2>2, <1>3
    <3>2. c[k + 1] = b[(k + 1) - Len(s)] /\ (s \o t)[k] = t[k - Len(s)]
      BY <2>2, <1>3
    <3>3. c[k] = b[k - Len(s)]
      BY <2>2, <1>1, <1>2, <1>3
    <3> QED
      BY <3>1, <3>2, <3>3, <1>2
  <2> QED
    BY <2>1, <2>2, <1>3
<1> QED
  BY <1>4, <1>5, <1>6 DEF Frames

LEMMA FramesTail ==
  ASSUME NEW S, NEW s \in Seq(S), s # <<>>, NEW p, NEW r, Frames(s, p, r)
  PROVE  \E q \in Phase : Moves(p, Head(s), q) /\ Frames(Tail(s), q, r)
<1>1. PICK a \in [1 .. Len(s) + 1 -> Phase] :
        /\ a[1] = p /\ a[Len(s) + 1] = r
        /\ \A k \in 1 .. Len(s) : Moves(a[k], s[k], a[k + 1])
  BY DEF Frames
<1>2. /\ Len(s) \in Nat \ {0} /\ Head(s) = s[1] /\ Len(Tail(s)) = Len(s) - 1
      /\ \A k \in 1 .. Len(Tail(s)) : Tail(s)[k] = s[k + 1]
  BY HeadTailProperties, EmptySeq
<1> DEFINE b == [k \in 1 .. Len(Tail(s)) + 1 |-> a[k + 1]]
<1>3. b \in [1 .. Len(Tail(s)) + 1 -> Phase]
  BY <1>2
<1>4. b[1] = a[2] /\ b[Len(Tail(s)) + 1] = r /\ a[2] \in Phase
  BY <1>1, <1>2
<1>5. \A k \in 1 .. Len(Tail(s)) : Moves(b[k], Tail(s)[k], b[k + 1])
  BY <1>1, <1>2
<1>6. Frames(Tail(s), a[2], r)
  BY <1>3, <1>4, <1>5 DEF Frames
<1>7. Moves(p, Head(s), a[2])
  BY <1>1, <1>2
<1> QED
  BY <1>4, <1>6, <1>7

LEMMA FramesOne ==
  ASSUME NEW x, NEW p \in Phase, NEW q \in Phase, Moves(p, x, q)
  PROVE  Frames(<<x>>, p, q)
<1> DEFINE a == [k \in 1 .. 2 |-> IF k = 1 THEN p ELSE q]
<1>1. a \in [1 .. Len(<<x>>) + 1 -> Phase]
  OBVIOUS
<1>2. a[1] = p /\ a[Len(<<x>>) + 1] = q
  OBVIOUS
<1>3. \A k \in 1 .. Len(<<x>>) : Moves(a[k], <<x>>[k], a[k + 1])
  OBVIOUS
<1> QED
  BY <1>1, <1>2, <1>3 DEF Frames
LEMMA Distinct ==
  /\ Manager \notin Worker /\ NULL \notin Worker /\ NULL # Manager
  /\ NULL \notin Path /\ "n" \notin Path
  /\ Num \in Nat \ {0} /\ Worker \subseteq Nat /\ FdLimit \in Nat /\ Capacity \in Nat
BY PfindAssumption DEF Manager, Worker

LEMMA TreeType == TypeOK => tree \in Tree /\ Root \in Dir /\ Hierarchy(tree)
BY PfindAssumption DEF TypeOK, Dir

(* What can be taken from the queues, and what can be added to them.       *)
LEMMA Taken ==
  ASSUME TypeOK
  PROVE  /\ pipe1 # <<>> => /\ Head(pipe1) \in {"len"} \cup Path
                            /\ Tail(pipe1) \in Seq({"len"} \cup Path)
                            /\ Len(Tail(pipe1)) <= Capacity
         /\ pipe2 # <<>> => /\ Head(pipe2) \in Field
                            /\ Tail(pipe2) \in Seq(Field)
                            /\ Len(Tail(pipe2)) <= Capacity
         /\ queue # <<>> => /\ Head(queue) \in Path
                            /\ Tail(queue) \in Seq(Path)
                            /\ Len(Tail(queue)) = Len(queue) - 1
         /\ \A p \in Worker \cup {Manager} : out[p] # <<>> =>
              Head(out[p]) \in Field /\ Tail(out[p]) \in Seq(Field)
<1> USE DEF TypeOK
<1>1. Capacity \in Nat
  BY PfindAssumption
<1>2. ASSUME pipe1 # <<>>
      PROVE  /\ Head(pipe1) \in {"len"} \cup Path
             /\ Tail(pipe1) \in Seq({"len"} \cup Path)
             /\ Len(Tail(pipe1)) <= Capacity
  <2>1. /\ Head(pipe1) \in {"len"} \cup Path
        /\ Tail(pipe1) \in Seq({"len"} \cup Path)
        /\ Len(Tail(pipe1)) = Len(pipe1) - 1
    BY <1>2, HeadTailProperties
  <2> QED
    BY <1>1, <2>1, LenProperties
<1>3. ASSUME pipe2 # <<>>
      PROVE  /\ Head(pipe2) \in Field
             /\ Tail(pipe2) \in Seq(Field)
             /\ Len(Tail(pipe2)) <= Capacity
  <2>1. /\ Head(pipe2) \in Field
        /\ Tail(pipe2) \in Seq(Field)
        /\ Len(Tail(pipe2)) = Len(pipe2) - 1
    BY <1>3, HeadTailProperties
  <2> QED
    BY <1>1, <2>1, LenProperties
<1>4. queue # <<>> => /\ Head(queue) \in Path
                      /\ Tail(queue) \in Seq(Path)
                      /\ Len(Tail(queue)) = Len(queue) - 1
  BY HeadTailProperties
<1>5. \A p \in Worker \cup {Manager} : out[p] # <<>> =>
        Head(out[p]) \in Field /\ Tail(out[p]) \in Seq(Field)
  BY HeadTailProperties
<1> QED
  BY <1>2, <1>3, <1>4, <1>5

LEMMA Added ==
  ASSUME TypeOK
  PROVE  /\ \A x \in {"len"} \cup Path :
              /\ Append(pipe1, x) \in Seq({"len"} \cup Path)
              /\ Len(Append(pipe1, x)) = Len(pipe1) + 1
         /\ \A x \in Field : /\ Append(pipe2, x) \in Seq(Field)
                             /\ Len(Append(pipe2, x)) = Len(pipe2) + 1
         /\ \A x \in Path : Append(queue, x) \in Seq(Path)
         /\ Len(pipe1) \in Nat /\ Len(pipe2) \in Nat /\ Len(queue) \in Nat
BY AppendProperties, LenProperties DEF TypeOK

LEMMA Opened ==
  ASSUME TypeOK, NEW w \in Worker, OpenDescriptor(w)
  PROVE  fds' \in [Worker -> 0 .. FdLimit]
<1>1. fds \in [Worker -> 0 .. FdLimit] /\ fds[w] \in 0 .. FdLimit /\ FdLimit \in Nat
  BY Distinct DEF TypeOK
<1>2. fds[w] + 1 \in 0 .. FdLimit /\ fds' = [fds EXCEPT ![w] = @ + 1]
  BY <1>1 DEF OpenDescriptor
<1> QED
  BY <1>1, <1>2

LEMMA DirectoryReport ==
  ASSUME NEW e \in Entry
  PROVE  /\ Message("d") \o Message(e) = <<"len", "d", "len", e>>
         /\ <<"len", "d", "len", e>> \in Seq(Field)
<1> DEFINE u == <<"len", "d">>
           v == <<"len", e>>
           x == <<"len", "d", "len", e>>
<1>1. u \in Seq(Field) /\ v \in Seq(Field) /\ x \in Seq(Field)
  BY DEF Field, Path
<1>2. Len(u) = 2 /\ Len(v) = 2 /\ Len(x) = 4
  OBVIOUS
<1>3. /\ u \o v \in Seq(Field) /\ Len(u \o v) = 4
      /\ \A k \in 1 .. 4 : (u \o v)[k] = IF k <= 2 THEN u[k] ELSE v[k - 2]
  <2> HIDE DEF u, v
  <2>1. /\ u \o v \in Seq(Field) /\ Len(u \o v) = Len(u) + Len(v)
        /\ \A k \in 1 .. Len(u) + Len(v) :
             (u \o v)[k] = IF k <= Len(u) THEN u[k] ELSE v[k - Len(u)]
    BY <1>1, ConcatProperties
  <2> QED
    BY <1>2, <2>1
<1>4. \A k \in 1 .. 4 : (u \o v)[k] = x[k]
  BY <1>3
<1>5. u \o v = x
  <2> HIDE DEF u, v, x
  <2> QED
    BY <1>1, <1>2, <1>3, <1>4, SeqEqual
<1> QED
  BY <1>1, <1>5 DEF Message

LEMMA TailShort ==
  ASSUME NEW x, NEW y
  PROVE  Tail(<<x>>) = <<>> /\ Tail(<<x, y>>) = <<y>>
OBVIOUS

(* The report of a text file: its two parts, and what can be in it.        *)
LEMMA TextParts ==
  ASSUME TypeOK, NEW e \in Entry
  PROVE  LET s == [k \in 1 .. 2 * tree.hits[e] |-> IF k % 2 = 1 THEN "len" ELSE "l"]
             t == IF e \in tree.has_keyword THEN Message("f") ELSE <<>>
         IN  /\ tree.hits[e] \in Nat
             /\ s \in Seq({"len", "l", "f"}) /\ Len(s) = 2 * tree.hits[e]
             /\ t \in Seq({"len", "l", "f"})
             /\ TextReport(e) = s \o t
             /\ TextReport(e) \in Seq({"len", "l", "f"})
<1> DEFINE s == [k \in 1 .. 2 * tree.hits[e] |-> IF k % 2 = 1 THEN "len" ELSE "l"]
           t == IF e \in tree.has_keyword THEN Message("f") ELSE <<>>
<1>1. tree.hits[e] \in Nat
  BY TreeType DEF Tree
<1>2. s \in Seq({"len", "l", "f"}) /\ Len(s) = 2 * tree.hits[e]
  BY <1>1
<1>3. t \in Seq({"len", "l", "f"})
  <2>1. <<"len", "f">> \in Seq({"len", "l", "f"}) /\ <<>> \in Seq({"len", "l", "f"})
    OBVIOUS
  <2> QED
    BY <2>1 DEF Message
<1>4. s \o t \in Seq({"len", "l", "f"})
  BY <1>2, <1>3, ConcatProperties
<1> QED
  BY <1>1, <1>2, <1>3, <1>4 DEF TextReport

LEMMA Reported ==
  ASSUME TypeOK
  PROVE  /\ \A p \in Path : Message(p) \in Seq(Field)
         /\ Message("n") \in Seq(Field)
         /\ \A e \in Entry : /\ TextReport(e) \in Seq(Field)
                             /\ Message("d") \o Message(e) \in Seq(Field)
<1>1. \A x \in Field : Message(x) \in Seq(Field)
  BY DEF Message, Field
<1>2. \A e \in Entry : Message("d") \o Message(e) \in Seq(Field)
  BY DirectoryReport DEF Field, Path
<1>3. \A e \in Entry : TextReport(e) \in Seq(Field)
  BY TextParts, SeqMonotonic DEF Field
<1> QED
  BY <1>1, <1>2, <1>3 DEF Field

LEMMA FramesTwo ==
  ASSUME NEW x, NEW y, NEW p \in Phase, NEW q \in Phase, NEW r \in Phase,
         Moves(p, x, q), Moves(q, y, r)
  PROVE  Frames(<<x, y>>, p, r)
<1> DEFINE a == [k \in 1 .. 3 |-> IF k = 1 THEN p ELSE IF k = 2 THEN q ELSE r]
<1>1. a \in [1 .. Len(<<x, y>>) + 1 -> Phase]
  OBVIOUS
<1>2. a[1] = p /\ a[Len(<<x, y>>) + 1] = r
  OBVIOUS
<1>3. \A k \in 1 .. Len(<<x, y>>) : Moves(a[k], <<x, y>>[k], a[k + 1])
  OBVIOUS
<1> HIDE DEF a
<1> QED
  BY <1>1, <1>2, <1>3 DEF Frames

(* A task, and the reports of the three kinds of entries and of the last.  *)
LEMMA TaskFrames ==
  \A p \in Path : Frames(Message(p), "task_length", "task_length")
<1> TAKE p \in Path
<1>1. /\ Moves("task_length", "len", "task") /\ Moves("task", p, "task_length")
      /\ "task_length" \in Phase /\ "task" \in Phase
  BY DEF Moves, Phase
<1> QED
  BY <1>1, FramesTwo DEF Message

LEMMA LastFrames == Frames(Message("n"), "length", "length")
<1>1. /\ Moves("length", "len", "option") /\ Moves("option", "n", "length")
      /\ "length" \in Phase /\ "option" \in Phase
  BY DEF Moves, Phase, Reading2
<1> QED
  BY <1>1, FramesTwo DEF Message

LEMMA DirectoryFrames ==
  ASSUME NEW e \in Entry
  PROVE  Frames(Message("d") \o Message(e), "length", "length")
<1>1. /\ Moves("length", "len", "option") /\ Moves("option", "d", "dir_length")
      /\ Moves("dir_length", "len", "dir") /\ Moves("dir", e, "length")
      /\ {"length", "option", "dir_length", "dir"} \subseteq Phase
  BY DEF Moves, Phase, Reading2, Path
<1>2. Frames(Message("d"), "length", "dir_length")
  BY <1>1, FramesTwo DEF Message
<1>3. Frames(Message(e), "dir_length", "length")
  BY <1>1, FramesTwo DEF Message
<1>4. Message("d") \in Seq(Field) /\ Message(e) \in Seq(Field)
  BY DEF Message, Field, Path
<1> QED
  BY <1>2, <1>3, <1>4, FramesConcat

LEMMA TextFrames ==
  ASSUME TypeOK, NEW e \in Entry
  PROVE  Frames(TextReport(e), "length", "length")
<1> DEFINE s == [k \in 1 .. 2 * tree.hits[e] |-> IF k % 2 = 1 THEN "len" ELSE "l"]
           t == IF e \in tree.has_keyword THEN Message("f") ELSE <<>>
           F == {"len", "l", "f"}
           a == [k \in 1 .. Len(s) + 1 |-> IF k % 2 = 1 THEN "length" ELSE "option"]
<1>1. /\ tree.hits[e] \in Nat /\ s \in Seq(F) /\ Len(s) = 2 * tree.hits[e]
      /\ t \in Seq(F) /\ TextReport(e) = s \o t
  BY TextParts
<1>2. Frames(s, "length", "length")
  <2>1. a \in [1 .. Len(s) + 1 -> Phase]
    BY <1>1 DEF Phase, Reading2
  <2>2. a[1] = "length" /\ a[Len(s) + 1] = "length"
    BY <1>1
  <2>3. ASSUME NEW k \in 1 .. Len(s)
        PROVE  Moves(a[k], s[k], a[k + 1])
    <3>1. k \in Nat /\ k \in 1 .. 2 * tree.hits[e] /\ k + 1 \in 1 .. Len(s) + 1
      BY <1>1
    <3>2. /\ s[k] = IF k % 2 = 1 THEN "len" ELSE "l"
          /\ a[k] = IF k % 2 = 1 THEN "length" ELSE "option"
          /\ a[k + 1] = IF (k + 1) % 2 = 1 THEN "length" ELSE "option"
      BY <1>1, <3>1
    <3>3. (k + 1) % 2 = 1 <=> k % 2 # 1
      BY <3>1
    <3> HIDE DEF s, a
    <3> QED
      BY <3>2, <3>3 DEF Moves
  <2> HIDE DEF s, a
  <2> QED
    BY <2>1, <2>2, <2>3 DEF Frames
<1>3. Frames(t, "length", "length")
  <2>1. /\ Moves("length", "len", "option") /\ Moves("option", "f", "length")
        /\ "length" \in Phase /\ "option" \in Phase
    BY DEF Moves, Phase, Reading2
  <2>2. Frames(<<"len", "f">>, "length", "length")
    BY <2>1, FramesTwo
  <2>3. Frames(<<>>, "length", "length")
    BY <2>1, FramesEmpty
  <2> QED
    BY <2>2, <2>3 DEF Message
<1> HIDE DEF s, t, F
<1> QED
  BY <1>1, <1>2, <1>3, FramesConcat

(* While the manager reads pipe2 no worker writes to it, and while a       *)
(* worker reads pipe1 the manager does not.                                *)
LEMMA ManagerAlone ==
  ASSUME TypeOK, LockInv, OutInv, FrameInv, mpc \in Reading2
  PROVE  /\ \A w \in Worker : wpc[w] \notin {"read", "last"} /\ out[w] = <<>>
         /\ Frames(pipe2, mpc, "length")
<1>1. \A w \in Worker : lock2 # w
  BY Distinct DEF LockInv
<1>2. \A w \in Worker : wpc[w] \notin {"read", "last"}
  BY <1>1 DEF LockInv
<1>3. \A w \in Worker : out[w] = <<>>
  BY <1>2 DEF OutInv
<1>4. Frames(pipe2, Reader2, "length")
  BY <1>3 DEF FrameInv
<1>5. Reader2 = mpc
  BY DEF Reader2, Reading2
<1> QED
  BY <1>2, <1>3, <1>4, <1>5

LEMMA WorkerAlone ==
  ASSUME TypeOK, LockInv, OutInv, FrameInv,
         NEW w \in Worker, wpc[w] \in {"length", "task"}
  PROVE  /\ out[Manager] = <<>> /\ mpc # "write"
         /\ \A u \in Worker : u # w => wpc[u] \notin {"length", "task"}
         /\ Reader1 = IF wpc[w] = "task" THEN "task" ELSE "task_length"
         /\ Frames(pipe1, Reader1, "task_length")
<1>1. lock1 = w /\ w # Manager
  BY Distinct DEF LockInv
<1>2. mpc # "write" /\ out[Manager] = <<>>
  BY <1>1 DEF LockInv, OutInv
<1>3. \A u \in Worker : u # w => wpc[u] \notin {"length", "task"}
  BY <1>1 DEF LockInv
<1>4. Reader1 = IF wpc[w] = "task" THEN "task" ELSE "task_length"
  BY <1>3 DEF Reader1
<1>5. pipe1 \o <<>> = pipe1
  BY ConcatEmptySeq DEF TypeOK
<1> QED
  BY <1>2, <1>3, <1>4, <1>5 DEF FrameInv

LEMMA FramedNow ==
  ASSUME TypeOK, LockInv, OutInv, FrameInv
  PROVE  Framed
<1>1. ASSUME pipe2 # <<>>, mpc \in Reading2
      PROVE  /\ mpc \in {"length", "dir_length"} => Head(pipe2) = "len"
             /\ mpc = "option" => Head(pipe2) \in {"f", "l", "d", "n"}
             /\ mpc = "dir" => Head(pipe2) \in Path
  <2>1. \E q \in Phase : Moves(mpc, Head(pipe2), q)
    BY <1>1, ManagerAlone, FramesTail DEF TypeOK
  <2> QED
    BY <2>1 DEF Moves
<1>2. ASSUME pipe1 # <<>>, NEW w \in Worker
      PROVE  /\ wpc[w] = "length" => Head(pipe1) = "len"
             /\ wpc[w] = "task" => Head(pipe1) \in Path
  <2>1. CASE wpc[w] \in {"length", "task"}
    <3>1. Frames(pipe1, Reader1, "task_length")
      BY <2>1, WorkerAlone
    <3>2. Reader1 = IF wpc[w] = "task" THEN "task" ELSE "task_length"
      BY <2>1, WorkerAlone
    <3>3. \E q \in Phase : Moves(Reader1, Head(pipe1), q)
      BY <1>2, <3>1, FramesTail DEF TypeOK
    <3> QED
      BY <2>1, <3>2, <3>3 DEF Moves
  <2> QED
    BY <2>1
<1> QED
  BY <1>1, <1>2 DEF Framed, Reading2
LEMMA ControlStep ==
  ASSUME TypeOK, ManagerInv, LockInv, OutInv, Next
  PROVE  ManagerInv' /\ LockInv'
<1> USE Distinct DEF TypeOK, ManagerInv, LockInv, OutInv, Reading2, ManagerGoto,
   WorkerGoto, Continue, Stop, signals, pipes, managed, worked, Manager
<1>1. ASSUME ManagerFork, UNCHANGED tree
      PROVE  ManagerInv' /\ LockInv'
  <2>1. /\ mpc = "fork" /\ i \in 0 .. Num /\ i < Num /\ i + 1 \in Worker
        /\ i' = i + 1 /\ mpc' = (IF i + 1 = Num THEN "open1" ELSE "fork")
        /\ wpc' = [wpc EXCEPT ![i + 1] = "open1"]
        /\ UNCHANGED <<stopped, lock1, lock2, queue, available>>
    BY <1>1 DEF ManagerFork, Worker
  <2>2. \A w \in Worker : wpc[w] \in {"none", "open1"} /\ wpc'[w] \in {"none", "open1"}
    BY <2>1
  <2>3. mpc' = "fork" => i' < Num
    BY <2>1
  <2>4. ManagerInv'
    BY <2>1, <2>2, <2>3
  <2>5. LockInv'
    BY <2>1, <2>2
  <2> QED
    BY <2>4, <2>5
<1>2. ASSUME ManagerOpen1, UNCHANGED tree
      PROVE  ManagerInv' /\ LockInv'
  BY <1>2 DEF ManagerOpen1
<1>3. ASSUME ManagerOpen2, UNCHANGED tree
      PROVE  ManagerInv' /\ LockInv'
  BY <1>3 DEF ManagerOpen2
<1>4. ASSUME ManagerPlan, UNCHANGED tree
      PROVE  ManagerInv' /\ LockInv'
  BY <1>4 DEF ManagerPlan
<1>5. ASSUME ManagerLock1, UNCHANGED tree
      PROVE  ManagerInv' /\ LockInv'
  BY <1>5 DEF ManagerLock1
<1>6. ASSUME ManagerNextTask, UNCHANGED tree
      PROVE  ManagerInv' /\ LockInv'
  BY <1>6 DEF ManagerNextTask
<1>7. ASSUME ManagerWrite, UNCHANGED tree
      PROVE  ManagerInv' /\ LockInv'
  BY <1>7 DEF ManagerWrite
<1>8. ASSUME ManagerUnlock1, UNCHANGED tree
      PROVE  ManagerInv' /\ LockInv'
  BY <1>8 DEF ManagerUnlock1
<1>9. ASSUME ManagerWake, UNCHANGED tree
      PROVE  ManagerInv' /\ LockInv'
  BY <1>9 DEF ManagerWake
<1>10. ASSUME ManagerStop, UNCHANGED tree
      PROVE  ManagerInv' /\ LockInv'
  BY <1>10 DEF ManagerStop
<1>11. ASSUME ManagerLock2, UNCHANGED tree
      PROVE  ManagerInv' /\ LockInv'
  BY <1>11 DEF ManagerLock2
<1>12. ASSUME ManagerReadLength, UNCHANGED tree
      PROVE  ManagerInv' /\ LockInv'
  BY <1>12 DEF ManagerReadLength, ManagerRead
<1>13. ASSUME ManagerReadFile, UNCHANGED tree
      PROVE  ManagerInv' /\ LockInv'
  BY <1>13 DEF ManagerReadFile, ManagerRead
<1>14. ASSUME ManagerReadLine, UNCHANGED tree
      PROVE  ManagerInv' /\ LockInv'
  BY <1>14 DEF ManagerReadLine, ManagerRead
<1>15. ASSUME ManagerReadDirectory, UNCHANGED tree
      PROVE  ManagerInv' /\ LockInv'
  BY <1>15 DEF ManagerReadDirectory, ManagerRead
<1>16. ASSUME ManagerReadNothing, UNCHANGED tree
      PROVE  ManagerInv' /\ LockInv'
  BY <1>16 DEF ManagerReadNothing, ManagerRead
<1>17. ASSUME ManagerReadDirLength, UNCHANGED tree
      PROVE  ManagerInv' /\ LockInv'
  BY <1>17 DEF ManagerReadDirLength, ManagerRead
<1>18. ASSUME ManagerReadDir, UNCHANGED tree
      PROVE  ManagerInv' /\ LockInv'
  BY <1>18 DEF ManagerReadDir, ManagerRead
<1>19. ASSUME ManagerUnlock2, UNCHANGED tree
      PROVE  ManagerInv' /\ LockInv'
  BY <1>19 DEF ManagerUnlock2
<1>20. ASSUME ManagerKill, UNCHANGED tree
      PROVE  ManagerInv' /\ LockInv'
  BY <1>20 DEF ManagerKill
<1>21. ASSUME NEW w \in Worker, WorkerOpen1(w), UNCHANGED tree
      PROVE  ManagerInv' /\ LockInv'
  BY <1>21 DEF WorkerOpen1
<1>22. ASSUME NEW w \in Worker, WorkerOpen2(w), UNCHANGED tree
      PROVE  ManagerInv' /\ LockInv'
  BY <1>22 DEF WorkerOpen2
<1>23. ASSUME NEW w \in Worker, WorkerSetup(w), UNCHANGED tree
      PROVE  ManagerInv' /\ LockInv'
  BY <1>23 DEF WorkerSetup
<1>24. ASSUME NEW w \in Worker, WorkerStop(w), UNCHANGED tree
      PROVE  ManagerInv' /\ LockInv'
  BY <1>24 DEF WorkerStop
<1>25. ASSUME NEW w \in Worker, WorkerLock1(w), UNCHANGED tree
      PROVE  ManagerInv' /\ LockInv'
  BY <1>25 DEF WorkerLock1
<1>26. ASSUME NEW w \in Worker, WorkerReadLength(w), UNCHANGED tree
      PROVE  ManagerInv' /\ LockInv'
  BY <1>26 DEF WorkerReadLength
<1>27. ASSUME NEW w \in Worker, WorkerReadTask(w), UNCHANGED tree
      PROVE  ManagerInv' /\ LockInv'
  BY <1>27 DEF WorkerReadTask
<1>28. ASSUME NEW w \in Worker, WorkerUnlock1(w), UNCHANGED tree
      PROVE  ManagerInv' /\ LockInv'
  BY <1>28 DEF WorkerUnlock1
<1>29. ASSUME NEW w \in Worker, WorkerLock2(w), UNCHANGED tree
      PROVE  ManagerInv' /\ LockInv'
  BY <1>29 DEF WorkerLock2
<1>30. ASSUME NEW w \in Worker, WorkerOpenDir(w), UNCHANGED tree
      PROVE  ManagerInv' /\ LockInv'
  BY <1>30 DEF WorkerOpenDir, OpenDescriptor
<1>31. ASSUME NEW w \in Worker, WorkerExit(w), UNCHANGED tree
      PROVE  ManagerInv' /\ LockInv'
  BY <1>31 DEF WorkerExit, OpenFails
<1>32. ASSUME NEW w \in Worker, WorkerReadLast(w), UNCHANGED tree
      PROVE  ManagerInv' /\ LockInv'
  BY <1>32 DEF WorkerReadLast
<1>33. ASSUME NEW w \in Worker, WorkerWrite(w), UNCHANGED tree
      PROVE  ManagerInv' /\ LockInv'
  BY <1>33 DEF WorkerWrite
<1>34. ASSUME NEW w \in Worker, WorkerUnlock2(w), UNCHANGED tree
      PROVE  ManagerInv' /\ LockInv'
  BY <1>34 DEF WorkerUnlock2
<1>35. ASSUME NEW w \in Worker, WorkerWake(w), UNCHANGED tree
      PROVE  ManagerInv' /\ LockInv'
  BY <1>35 DEF WorkerWake
<1>36. ASSUME NEW w \in Worker, NEW e \in Entry, WorkerReadText(w, e), UNCHANGED tree
      PROVE  ManagerInv' /\ LockInv'
  BY <1>36 DEF WorkerReadText, OpenDescriptor, ReadEntry
<1>37. ASSUME NEW w \in Worker, NEW e \in Entry, WorkerReadEndless(w, e), UNCHANGED tree
      PROVE  ManagerInv' /\ LockInv'
  BY <1>37 DEF WorkerReadEndless, OpenDescriptor, ReadEntry
<1>38. ASSUME NEW w \in Worker, NEW e \in Entry, WorkerReadDirectory(w, e), UNCHANGED tree
      PROVE  ManagerInv' /\ LockInv'
  BY <1>38 DEF WorkerReadDirectory, ReadEntry
<1>39. ASSUME NEW w \in Worker, NEW e \in Entry, WorkerReadOther(w, e), UNCHANGED tree
      PROVE  ManagerInv' /\ LockInv'
  BY <1>39 DEF WorkerReadOther, ReadEntry
<1> QED
  BY <1>1, <1>2, <1>3, <1>4, <1>5, <1>6, <1>7, <1>8, <1>9, <1>10, <1>11, <1>12, <1>13,
     <1>14, <1>15, <1>16, <1>17, <1>18, <1>19, <1>20, <1>21, <1>22, <1>23, <1>24, <1>25,
     <1>26, <1>27, <1>28, <1>29, <1>30, <1>31, <1>32, <1>33, <1>34, <1>35, <1>36, <1>37,
     <1>38, <1>39
     DEF Next, ManagerStep, ManagerAction, WorkerStep, WorkerAction

LEMMA TypeStep ==
  ASSUME TypeOK, Framed, ManagerInv, OutInv, Next
  PROVE  TypeOK'
<1> USE Distinct DEF TypeOK, ManagerInv, ManagerGoto, WorkerGoto, Continue, Stop, signals,
   pipes, managed, worked, Manager, MPC, WPC
<1>1. ASSUME ManagerFork, UNCHANGED tree
      PROVE  TypeOK'
  <2>1. wpc' \in [Worker -> WPC]
    BY <1>1 DEF ManagerFork
  <2>2. i' \in 0 .. Num
    BY <1>1 DEF ManagerFork
  <2> QED
    BY <1>1, <2>1, <2>2 DEF ManagerFork
<1>2. ASSUME ManagerOpen1, UNCHANGED tree
      PROVE  TypeOK'
  BY <1>2 DEF ManagerOpen1
<1>3. ASSUME ManagerOpen2, UNCHANGED tree
      PROVE  TypeOK'
  BY <1>3 DEF ManagerOpen2
<1>4. ASSUME ManagerPlan, UNCHANGED tree
      PROVE  TypeOK'
  <2>1. available' \in 0 .. Num
    BY <1>4, LenProperties DEF ManagerPlan
  <2> QED
    BY <1>4, <2>1 DEF ManagerPlan
<1>5. ASSUME ManagerLock1, UNCHANGED tree
      PROVE  TypeOK'
  BY <1>5 DEF ManagerLock1
<1>6. ASSUME ManagerNextTask, UNCHANGED tree
      PROVE  TypeOK'
  <2>1. Head(queue) \in Path /\ Tail(queue) \in Seq(Path)
    BY <1>6, Taken DEF ManagerNextTask
  <2>2. Message(Head(queue)) \in Seq(Field)
    BY <1>6, <2>1, Reported DEF ManagerNextTask
  <2>3. out' \in [Worker \cup {Manager} -> Seq(Field)]
    BY <1>6, <2>2 DEF ManagerNextTask
  <2>4. i' \in 0 .. Num
    BY <1>6 DEF ManagerNextTask
  <2> QED
    BY <1>6, <2>1, <2>2, <2>3, <2>4 DEF ManagerNextTask
<1>7. ASSUME ManagerWrite, UNCHANGED tree
      PROVE  TypeOK'
  <2>1. Head(out[Manager]) \in {"len"} \cup Path
    BY <1>7 DEF ManagerWrite, OutInv, TaskPending, OutInv, TaskPending
  <2>2. pipe1' \in Seq({"len"} \cup Path) /\ Len(pipe1') <= Capacity
    BY <1>7, <2>1, Added DEF ManagerWrite, OutInv, TaskPending
  <2>3. Tail(out[Manager]) \in Seq(Field)
    BY <1>7, Taken DEF ManagerWrite, OutInv, TaskPending
  <2>4. out' \in [Worker \cup {Manager} -> Seq(Field)]
    BY <1>7, <2>3 DEF ManagerWrite, OutInv, TaskPending
  <2> QED
    BY <1>7, <2>1, <2>2, <2>3, <2>4 DEF ManagerWrite, OutInv, TaskPending
<1>8. ASSUME ManagerUnlock1, UNCHANGED tree
      PROVE  TypeOK'
  BY <1>8 DEF ManagerUnlock1
<1>9. ASSUME ManagerWake, UNCHANGED tree
      PROVE  TypeOK'
  <2>1. stopped' \subseteq Worker \cup {Manager}
    BY <1>9 DEF ManagerWake
  <2>2. i' \in 0 .. Num
    BY <1>9 DEF ManagerWake
  <2> QED
    BY <1>9, <2>1, <2>2 DEF ManagerWake
<1>10. ASSUME ManagerStop, UNCHANGED tree
      PROVE  TypeOK'
  BY <1>10 DEF ManagerStop
<1>11. ASSUME ManagerLock2, UNCHANGED tree
      PROVE  TypeOK'
  BY <1>11 DEF ManagerLock2
<1>12. ASSUME ManagerReadLength, UNCHANGED tree
      PROVE  TypeOK'
  BY <1>12, Taken DEF ManagerReadLength, ManagerRead
<1>13. ASSUME ManagerReadFile, UNCHANGED tree
      PROVE  TypeOK'
  <2>1. pipe2' \in Seq(Field) /\ Len(pipe2') <= Capacity
    BY <1>13, Taken DEF ManagerReadFile, ManagerRead
  <2>2. {file_count, line_count, dir_count}' \subseteq Nat
    BY <1>13 DEF ManagerReadFile, ManagerRead
  <2> QED
    BY <1>13, <2>1, <2>2 DEF ManagerReadFile, ManagerRead
<1>14. ASSUME ManagerReadLine, UNCHANGED tree
      PROVE  TypeOK'
  <2>1. pipe2' \in Seq(Field) /\ Len(pipe2') <= Capacity
    BY <1>14, Taken DEF ManagerReadLine, ManagerRead
  <2>2. {file_count, line_count, dir_count}' \subseteq Nat
    BY <1>14 DEF ManagerReadLine, ManagerRead
  <2> QED
    BY <1>14, <2>1, <2>2 DEF ManagerReadLine, ManagerRead
<1>15. ASSUME ManagerReadDirectory, UNCHANGED tree
      PROVE  TypeOK'
  BY <1>15, Taken DEF ManagerReadDirectory, ManagerRead
<1>16. ASSUME ManagerReadNothing, UNCHANGED tree
      PROVE  TypeOK'
  <2>1. pipe2' \in Seq(Field) /\ Len(pipe2') <= Capacity
    BY <1>16, Taken DEF ManagerReadNothing, ManagerRead
  <2>2. i' \in 0 .. Num
    BY <1>16 DEF ManagerReadNothing, ManagerRead
  <2> QED
    BY <1>16, <2>1, <2>2 DEF ManagerReadNothing, ManagerRead
<1>17. ASSUME ManagerReadDirLength, UNCHANGED tree
      PROVE  TypeOK'
  BY <1>17, Taken DEF ManagerReadDirLength, ManagerRead
<1>18. ASSUME ManagerReadDir, UNCHANGED tree
      PROVE  TypeOK'
  <2>1. pipe2' \in Seq(Field) /\ Len(pipe2') <= Capacity
    BY <1>18, Taken DEF ManagerReadDir, ManagerRead, Framed
  <2>2. {file_count, line_count, dir_count}' \subseteq Nat
    BY <1>18 DEF ManagerReadDir, ManagerRead, Framed
  <2>3. Head(pipe2) \in Path
    BY <1>18 DEF ManagerReadDir, ManagerRead, Framed, Framed
  <2>4. queue' \in Seq(Path)
    BY <1>18, <2>3, Added DEF ManagerReadDir, ManagerRead, Framed
  <2>5. ind \in Nat /\ ind' = ind + 1
    BY <1>18 DEF ManagerReadDir, ManagerRead, Framed
  <2>6. ind' \in Nat
    BY <1>18, <2>5 DEF ManagerReadDir, ManagerRead, Framed
  <2> QED
    BY <1>18, <2>1, <2>2, <2>3, <2>4, <2>5, <2>6 DEF ManagerReadDir, ManagerRead, Framed
<1>19. ASSUME ManagerUnlock2, UNCHANGED tree
      PROVE  TypeOK'
  BY <1>19 DEF ManagerUnlock2
<1>20. ASSUME ManagerKill, UNCHANGED tree
      PROVE  TypeOK'
  <2>1. wpc' \in [Worker -> WPC]
    BY <1>20 DEF ManagerKill
  <2>2. i' \in 0 .. Num
    BY <1>20 DEF ManagerKill
  <2>3. stopped' \subseteq Worker \cup {Manager}
    BY <1>20 DEF ManagerKill
  <2>4. {lock1', lock2'} \subseteq Worker \cup {Manager, NULL}
    BY <1>20 DEF ManagerKill
  <2> QED
    BY <1>20, <2>1, <2>2, <2>3, <2>4 DEF ManagerKill
<1>21. ASSUME NEW w \in Worker, WorkerOpen1(w), UNCHANGED tree
      PROVE  TypeOK'
  BY <1>21 DEF WorkerOpen1
<1>22. ASSUME NEW w \in Worker, WorkerOpen2(w), UNCHANGED tree
      PROVE  TypeOK'
  BY <1>22 DEF WorkerOpen2
<1>23. ASSUME NEW w \in Worker, WorkerSetup(w), UNCHANGED tree
      PROVE  TypeOK'
  BY <1>23 DEF WorkerSetup
<1>24. ASSUME NEW w \in Worker, WorkerStop(w), UNCHANGED tree
      PROVE  TypeOK'
  BY <1>24 DEF WorkerStop
<1>25. ASSUME NEW w \in Worker, WorkerLock1(w), UNCHANGED tree
      PROVE  TypeOK'
  BY <1>25 DEF WorkerLock1
<1>26. ASSUME NEW w \in Worker, WorkerReadLength(w), UNCHANGED tree
      PROVE  TypeOK'
  BY <1>26, Taken DEF WorkerReadLength
<1>27. ASSUME NEW w \in Worker, WorkerReadTask(w), UNCHANGED tree
      PROVE  TypeOK'
  BY <1>27, Taken DEF WorkerReadTask, Framed
<1>28. ASSUME NEW w \in Worker, WorkerUnlock1(w), UNCHANGED tree
      PROVE  TypeOK'
  BY <1>28 DEF WorkerUnlock1
<1>29. ASSUME NEW w \in Worker, WorkerLock2(w), UNCHANGED tree
      PROVE  TypeOK'
  BY <1>29 DEF WorkerLock2
<1>30. ASSUME NEW w \in Worker, WorkerOpenDir(w), UNCHANGED tree
      PROVE  TypeOK'
  <2>1. tree.listing[task[w]] \in SUBSET Entry
    BY <1>30, TreeType DEF WorkerOpenDir, OpenDescriptor, Dir, Tree
  <2>2. remaining' \in [Worker -> SUBSET Entry]
    BY <1>30, <2>1 DEF WorkerOpenDir, OpenDescriptor
  <2>3. fds' \in [Worker -> 0 .. FdLimit]
    BY <1>30, Opened DEF WorkerOpenDir, OpenDescriptor
  <2> QED
    BY <1>30, <2>1, <2>2, <2>3 DEF WorkerOpenDir, OpenDescriptor
<1>31. ASSUME NEW w \in Worker, WorkerExit(w), UNCHANGED tree
      PROVE  TypeOK'
  BY <1>31 DEF WorkerExit, OpenFails
<1>32. ASSUME NEW w \in Worker, WorkerReadLast(w), UNCHANGED tree
      PROVE  TypeOK'
  BY <1>32, Reported DEF WorkerReadLast
<1>33. ASSUME NEW w \in Worker, WorkerWrite(w), UNCHANGED tree
      PROVE  TypeOK'
  <2>1. Head(out[w]) \in Field /\ Tail(out[w]) \in Seq(Field)
    BY <1>33, Taken DEF WorkerWrite
  <2>2. pipe2' \in Seq(Field) /\ Len(pipe2') <= Capacity
    BY <1>33, <2>1, Added DEF WorkerWrite
  <2>3. out' \in [Worker \cup {Manager} -> Seq(Field)]
    BY <1>33, <2>1 DEF WorkerWrite
  <2> QED
    BY <1>33, <2>1, <2>2, <2>3 DEF WorkerWrite
<1>34. ASSUME NEW w \in Worker, WorkerUnlock2(w), UNCHANGED tree
      PROVE  TypeOK'
  BY <1>34 DEF WorkerUnlock2
<1>35. ASSUME NEW w \in Worker, WorkerWake(w), UNCHANGED tree
      PROVE  TypeOK'
  BY <1>35 DEF WorkerWake
<1>36. ASSUME NEW w \in Worker, NEW e \in Entry, WorkerReadText(w, e), UNCHANGED tree
      PROVE  TypeOK'
  <2>1. TextReport(e) \in Seq(Field)
    BY <1>36, Reported DEF WorkerReadText, OpenDescriptor, ReadEntry
  <2>2. out' \in [Worker \cup {Manager} -> Seq(Field)]
    BY <1>36, <2>1 DEF WorkerReadText, OpenDescriptor, ReadEntry
  <2>3. fds' \in [Worker -> 0 .. FdLimit]
    BY <1>36, Opened DEF WorkerReadText, OpenDescriptor, ReadEntry
  <2> QED
    BY <1>36, <2>1, <2>2, <2>3 DEF WorkerReadText, OpenDescriptor, ReadEntry
<1>37. ASSUME NEW w \in Worker, NEW e \in Entry, WorkerReadEndless(w, e), UNCHANGED tree
      PROVE  TypeOK'
  <2>1. out' \in [Worker \cup {Manager} -> Seq(Field)]
    BY <1>37, EmptySeq DEF WorkerReadEndless, OpenDescriptor, ReadEntry
  <2>2. fds' \in [Worker -> 0 .. FdLimit]
    BY <1>37, Opened DEF WorkerReadEndless, OpenDescriptor, ReadEntry
  <2> QED
    BY <1>37, <2>1, <2>2 DEF WorkerReadEndless, OpenDescriptor, ReadEntry
<1>38. ASSUME NEW w \in Worker, NEW e \in Entry, WorkerReadDirectory(w, e), UNCHANGED tree
      PROVE  TypeOK'
  BY <1>38, Reported DEF WorkerReadDirectory, ReadEntry
<1>39. ASSUME NEW w \in Worker, NEW e \in Entry, WorkerReadOther(w, e), UNCHANGED tree
      PROVE  TypeOK'
  BY <1>39 DEF WorkerReadOther, ReadEntry
<1> QED
  BY <1>1, <1>2, <1>3, <1>4, <1>5, <1>6, <1>7, <1>8, <1>9, <1>10, <1>11, <1>12, <1>13,
     <1>14, <1>15, <1>16, <1>17, <1>18, <1>19, <1>20, <1>21, <1>22, <1>23, <1>24, <1>25,
     <1>26, <1>27, <1>28, <1>29, <1>30, <1>31, <1>32, <1>33, <1>34, <1>35, <1>36, <1>37,
     <1>38, <1>39
     DEF Next, ManagerStep, ManagerAction, WorkerStep, WorkerAction

LEMMA OutStep ==
  ASSUME TypeOK, ManagerInv, LockInv, OutInv, RoundInv, Next
  PROVE  OutInv'
<1> USE Distinct DEF LockInv, ManagerGoto, WorkerGoto, Continue, Stop, signals, pipes,
   managed, worked, Manager
<1> DEFINE OutOf(w) ==
      /\ wpc[w] \notin {"read", "last"} => out[w] = <<>>
      /\ wpc[w] = "read" => \A k \in 1 .. Len(out[w]) : out[w][k] # "n"
      /\ wpc[w] = "last" => out[w] \in {<<>>, <<"n">>, <<"len", "n">>}
      /\ w \in stopped => wpc[w] = "lock1"
<1>a. \A w \in Worker : OutOf(w)
  BY DEF OutInv
<1>b. out \in [Worker \cup {Manager} -> Seq(Field)] /\ wpc \in [Worker -> WPC]
      /\ stopped \subseteq Worker \cup {Manager}
  BY DEF TypeOK
<1>1. ASSUME ManagerFork, UNCHANGED tree
      PROVE  OutInv'
  BY <1>1 DEF ManagerFork, TypeOK, ManagerInv, OutInv, TaskPending
<1>2. ASSUME ManagerOpen1, UNCHANGED tree
      PROVE  OutInv'
  BY <1>2 DEF ManagerOpen1, TypeOK, ManagerInv, OutInv, TaskPending
<1>3. ASSUME ManagerOpen2, UNCHANGED tree
      PROVE  OutInv'
  BY <1>3 DEF ManagerOpen2, TypeOK, ManagerInv, OutInv, TaskPending
<1>4. ASSUME ManagerPlan, UNCHANGED tree
      PROVE  OutInv'
  BY <1>4 DEF ManagerPlan, TypeOK, ManagerInv, OutInv, TaskPending
<1>5. ASSUME ManagerLock1, UNCHANGED tree
      PROVE  OutInv'
  BY <1>5 DEF ManagerLock1, TypeOK, ManagerInv, OutInv, TaskPending
<1>6. ASSUME ManagerNextTask, UNCHANGED tree
      PROVE  OutInv'
  <2>1. Head(queue) \in Path
    BY <1>6, Taken DEF ManagerNextTask, ManagerInv, TypeOK
  <2>2. /\ out'[Manager] = <<"len", Head(queue)>> /\ mpc' = "write"
        /\ \A w \in Worker : out'[w] = out[w] /\ wpc'[w] = wpc[w]
        /\ stopped' = stopped
    BY <1>6, <1>b DEF ManagerNextTask, Message
  <2>3. \A w \in Worker : OutOf(w)'
    BY <2>2, <1>a
  <2> QED
    BY <2>1, <2>2, <2>3 DEF OutInv, TaskPending
<1>7. ASSUME ManagerWrite, UNCHANGED tree
      PROVE  OutInv'
  <2>1. Tail(out[Manager]) \in {<<>>} \cup {<<p>> : p \in Path}
    <3>1. PICK p \in Path : out[Manager] \in {<<p>>, <<"len", p>>}
      BY <1>7 DEF ManagerWrite, OutInv, TaskPending
    <3>2. Tail(<<p>>) = <<>> /\ Tail(<<"len", p>>) = <<p>>
      BY TailShort
    <3> QED
      BY <3>1, <3>2
  <2>2. /\ out'[Manager] = Tail(out[Manager]) /\ mpc' = "write"
        /\ \A w \in Worker : out'[w] = out[w] /\ wpc'[w] = wpc[w]
        /\ stopped' = stopped
    BY <1>7, <1>b DEF ManagerWrite
  <2>3. \A w \in Worker : OutOf(w)'
    BY <2>2, <1>a
  <2> QED
    BY <2>1, <2>2, <2>3 DEF OutInv, TaskPending
<1>8. ASSUME ManagerUnlock1, UNCHANGED tree
      PROVE  OutInv'
  BY <1>8 DEF ManagerUnlock1, TypeOK, ManagerInv, OutInv, TaskPending
<1>9. ASSUME ManagerWake, UNCHANGED tree
      PROVE  OutInv'
  BY <1>9 DEF ManagerWake, TypeOK, ManagerInv, OutInv, TaskPending
<1>10. ASSUME ManagerStop, UNCHANGED tree
      PROVE  OutInv'
  BY <1>10 DEF ManagerStop, TypeOK, ManagerInv, OutInv, TaskPending
<1>11. ASSUME ManagerLock2, UNCHANGED tree
      PROVE  OutInv'
  BY <1>11 DEF ManagerLock2, TypeOK, ManagerInv, OutInv, TaskPending
<1>12. ASSUME ManagerReadLength, UNCHANGED tree
      PROVE  OutInv'
  BY <1>12 DEF ManagerReadLength, ManagerRead, TypeOK, ManagerInv, OutInv, TaskPending
<1>13. ASSUME ManagerReadFile, UNCHANGED tree
      PROVE  OutInv'
  BY <1>13 DEF ManagerReadFile, ManagerRead, TypeOK, ManagerInv, OutInv, TaskPending
<1>14. ASSUME ManagerReadLine, UNCHANGED tree
      PROVE  OutInv'
  BY <1>14 DEF ManagerReadLine, ManagerRead, TypeOK, ManagerInv, OutInv, TaskPending
<1>15. ASSUME ManagerReadDirectory, UNCHANGED tree
      PROVE  OutInv'
  BY <1>15 DEF ManagerReadDirectory, ManagerRead, TypeOK, ManagerInv, OutInv, TaskPending
<1>16. ASSUME ManagerReadNothing, UNCHANGED tree
      PROVE  OutInv'
  BY <1>16 DEF ManagerReadNothing, ManagerRead, TypeOK, ManagerInv, OutInv, TaskPending
<1>17. ASSUME ManagerReadDirLength, UNCHANGED tree
      PROVE  OutInv'
  BY <1>17 DEF ManagerReadDirLength, ManagerRead, TypeOK, ManagerInv, OutInv, TaskPending
<1>18. ASSUME ManagerReadDir, UNCHANGED tree
      PROVE  OutInv'
  BY <1>18 DEF ManagerReadDir, ManagerRead, TypeOK, ManagerInv, OutInv, TaskPending
<1>19. ASSUME ManagerUnlock2, UNCHANGED tree
      PROVE  OutInv'
  BY <1>19 DEF ManagerUnlock2, TypeOK, ManagerInv, OutInv, TaskPending
<1>20. ASSUME ManagerKill, UNCHANGED tree
      PROVE  OutInv'
  <2>1. i + 1 \in Worker /\ mpc # "write" /\ mpc' # "write"
    BY <1>20 DEF ManagerKill, ManagerInv, TypeOK, Worker
  <2>2. \A w \in Worker : wpc[w] \notin {"read", "last"}
    BY <1>20 DEF ManagerKill, RoundInv, Idle, Busy, Reporting, Rounds
  <2>3. /\ out' = out /\ stopped' = stopped \ {i + 1}
        /\ \A w \in Worker : wpc'[w] = IF w = i + 1 THEN "killed" ELSE wpc[w]
    BY <1>20, <1>b, <2>1 DEF ManagerKill
  <2>4. \A w \in Worker : OutOf(w)'
    BY <2>2, <2>3, <1>a
  <2> QED
    BY <2>1, <2>3, <2>4 DEF OutInv, TaskPending
<1>21. ASSUME NEW w \in Worker, WorkerOpen1(w), UNCHANGED tree
      PROVE  OutInv'
  BY <1>21 DEF WorkerOpen1, TypeOK, ManagerInv, OutInv, TaskPending
<1>22. ASSUME NEW w \in Worker, WorkerOpen2(w), UNCHANGED tree
      PROVE  OutInv'
  BY <1>22 DEF WorkerOpen2, TypeOK, ManagerInv, OutInv, TaskPending
<1>23. ASSUME NEW w \in Worker, WorkerSetup(w), UNCHANGED tree
      PROVE  OutInv'
  BY <1>23 DEF WorkerSetup, TypeOK, ManagerInv, OutInv, TaskPending
<1>24. ASSUME NEW w \in Worker, WorkerStop(w), UNCHANGED tree
      PROVE  OutInv'
  BY <1>24 DEF WorkerStop, TypeOK, ManagerInv, OutInv, TaskPending
<1>25. ASSUME NEW w \in Worker, WorkerLock1(w), UNCHANGED tree
      PROVE  OutInv'
  BY <1>25 DEF WorkerLock1, TypeOK, ManagerInv, OutInv, TaskPending
<1>26. ASSUME NEW w \in Worker, WorkerReadLength(w), UNCHANGED tree
      PROVE  OutInv'
  BY <1>26 DEF WorkerReadLength, TypeOK, ManagerInv, OutInv, TaskPending
<1>27. ASSUME NEW w \in Worker, WorkerReadTask(w), UNCHANGED tree
      PROVE  OutInv'
  BY <1>27 DEF WorkerReadTask, TypeOK, ManagerInv, OutInv, TaskPending
<1>28. ASSUME NEW w \in Worker, WorkerUnlock1(w), UNCHANGED tree
      PROVE  OutInv'
  BY <1>28 DEF WorkerUnlock1, TypeOK, ManagerInv, OutInv, TaskPending
<1>29. ASSUME NEW w \in Worker, WorkerLock2(w), UNCHANGED tree
      PROVE  OutInv'
  BY <1>29 DEF WorkerLock2, TypeOK, ManagerInv, OutInv, TaskPending
<1>30. ASSUME NEW w \in Worker, WorkerOpenDir(w), UNCHANGED tree
      PROVE  OutInv'
  BY <1>30 DEF WorkerOpenDir, TypeOK, ManagerInv, OutInv, TaskPending
<1>31. ASSUME NEW w \in Worker, WorkerExit(w), UNCHANGED tree
      PROVE  OutInv'
  BY <1>31 DEF WorkerExit, OpenFails, TypeOK, ManagerInv, OutInv, TaskPending
<1>32. ASSUME NEW w \in Worker, WorkerReadLast(w), UNCHANGED tree
      PROVE  OutInv'
  <2>1. /\ out'[w] = <<"len", "n">> /\ wpc'[w] = "last" /\ out'[Manager] = out[Manager]
        /\ \A u \in Worker \ {w} : out'[u] = out[u] /\ wpc'[u] = wpc[u]
        /\ stopped' = stopped /\ w \notin stopped /\ mpc' = mpc
    BY <1>32, <1>b DEF WorkerReadLast, Message
  <2>2. OutOf(w)'
    BY <2>1
  <2>3. ASSUME NEW u \in Worker \ {w}
        PROVE  OutOf(u)'
    <3>1. /\ out'[u] = out[u] /\ wpc'[u] = wpc[u]
          /\ u \in stopped' <=> u \in stopped
      BY <2>1
    <3>2. OutOf(u)
      BY <1>a
    <3> QED
      BY <3>1, <3>2
  <2> QED
    BY <2>1, <2>2, <2>3 DEF OutInv, TaskPending
<1>33. ASSUME NEW w \in Worker, WorkerWrite(w), UNCHANGED tree
      PROVE  OutInv'
  <2>1. /\ out'[w] = Tail(out[w]) /\ out'[Manager] = out[Manager]
        /\ \A u \in Worker \ {w} : out'[u] = out[u]
        /\ wpc' = wpc /\ stopped' = stopped /\ w \notin stopped /\ mpc' = mpc
        /\ wpc[w] \in {"read", "last"} /\ out[w] # <<>> /\ out[w] \in Seq(Field)
    BY <1>33, <1>b DEF WorkerWrite
  <2>2. wpc[w] = "last" => Tail(out[w]) \in {<<>>, <<"n">>}
    <3>1. wpc[w] = "last" => out[w] \in {<<"n">>, <<"len", "n">>}
      BY <2>1, <1>a
    <3>2. Tail(<<"n">>) = <<>> /\ Tail(<<"len", "n">>) = <<"n">>
      BY TailShort
    <3> QED
      BY <3>1, <3>2
  <2>3. \A k \in 1 .. Len(Tail(out[w])) :
          k + 1 \in 1 .. Len(out[w]) /\ Tail(out[w])[k] = out[w][k + 1]
    BY <2>1, HeadTailProperties, LenProperties
  <2>4. wpc[w] = "read" => \A k \in 1 .. Len(Tail(out[w])) : Tail(out[w])[k] # "n"
    BY <2>3, <1>a
  <2>5. OutOf(w)' /\ \A u \in Worker \ {w} : OutOf(u)'
    BY <2>1, <2>2, <2>4, <1>a
  <2> QED
    BY <2>1, <2>5 DEF OutInv, TaskPending
<1>34. ASSUME NEW w \in Worker, WorkerUnlock2(w), UNCHANGED tree
      PROVE  OutInv'
  BY <1>34 DEF WorkerUnlock2, TypeOK, ManagerInv, OutInv, TaskPending
<1>35. ASSUME NEW w \in Worker, WorkerWake(w), UNCHANGED tree
      PROVE  OutInv'
  BY <1>35 DEF WorkerWake, TypeOK, ManagerInv, OutInv, TaskPending
<1>36. ASSUME NEW w \in Worker, NEW e \in Entry, WorkerReadText(w, e), UNCHANGED tree
      PROVE  OutInv'
  <2>1. \A k \in 1 .. Len(TextReport(e)) : TextReport(e)[k] # "n"
    <3>1. TextReport(e) \in Seq({"len", "l", "f"})
      BY TextParts
    <3> QED
      BY <3>1, ElementOfSeq
  <2>2. /\ out'[w] = TextReport(e) /\ out'[Manager] = out[Manager]
        /\ wpc[w] = "read" /\ \A u \in Worker \ {w} : out'[u] = out[u]
        /\ UNCHANGED <<wpc, stopped, mpc>> /\ w \notin stopped
    BY <1>36, <1>b DEF WorkerReadText, ReadEntry
  <2>3. OutOf(w)' /\ \A u \in Worker \ {w} : OutOf(u)'
    BY <2>1, <2>2, <1>a
  <2> QED
    BY <2>2, <2>3 DEF OutInv, TaskPending
<1>37. ASSUME NEW w \in Worker, NEW e \in Entry, WorkerReadEndless(w, e), UNCHANGED tree
      PROVE  OutInv'
  BY <1>37 DEF WorkerReadEndless, ReadEntry, TypeOK, ManagerInv, OutInv, TaskPending
<1>38. ASSUME NEW w \in Worker, NEW e \in Entry, WorkerReadDirectory(w, e), UNCHANGED tree
      PROVE  OutInv'
  <2>1. /\ out'[w] = <<"len", "d", "len", e>> /\ out'[Manager] = out[Manager]
        /\ wpc[w] = "read" /\ \A u \in Worker \ {w} : out'[u] = out[u]
        /\ UNCHANGED <<wpc, stopped, mpc>> /\ w \notin stopped
    BY <1>38, <1>b, DirectoryReport DEF WorkerReadDirectory, ReadEntry
  <2>2. e # "n"
    BY DEF Path
  <2>3. OutOf(w)' /\ \A u \in Worker \ {w} : OutOf(u)'
    BY <2>1, <2>2, <1>a
  <2>4. out'[Manager] = out[Manager] /\ mpc' = mpc
    BY <2>1
  <2>5. \A u \in Worker : OutOf(u)'
    BY <2>3
  <2> QED
    BY <2>4, <2>5 DEF OutInv, TaskPending
<1>39. ASSUME NEW w \in Worker, NEW e \in Entry, WorkerReadOther(w, e), UNCHANGED tree
      PROVE  OutInv'
  <2>1. /\ out'[w] = <<>> /\ out'[Manager] = out[Manager]
        /\ wpc[w] = "read" /\ \A u \in Worker \ {w} : out'[u] = out[u]
        /\ UNCHANGED <<wpc, stopped, mpc>> /\ w \notin stopped
    BY <1>39, <1>b DEF WorkerReadOther, ReadEntry
  <2>2. OutOf(w)' /\ \A u \in Worker \ {w} : OutOf(u)'
    BY <2>1, <1>a
  <2> QED
    BY <2>1, <2>2 DEF OutInv, TaskPending
<1> QED
  <2>1. CASE ManagerStep
    BY <2>1, <1>1, <1>2, <1>3, <1>4, <1>5, <1>6, <1>7, <1>8, <1>9, <1>10, <1>11, <1>12,
       <1>13, <1>14, <1>15, <1>16, <1>17, <1>18, <1>19, <1>20
       DEF ManagerStep, ManagerAction
  <2>2. ASSUME NEW w \in Worker, WorkerStep(w)
        PROVE  OutInv'
    BY <2>2, <1>21, <1>22, <1>23, <1>24, <1>25, <1>26, <1>27, <1>28, <1>29, <1>30, <1>31,
       <1>32, <1>33, <1>34, <1>35, <1>36, <1>37, <1>38, <1>39
       DEF WorkerStep, WorkerAction
  <2> QED
    BY <2>1, <2>2 DEF Next


LEMMA FrameStep ==
  ASSUME TypeOK, ManagerInv, LockInv, OutInv, FrameInv, RoundInv, Next
  PROVE  FrameInv'
<1> USE Distinct DEF ManagerGoto, WorkerGoto, Continue, Stop, signals, pipes,
                     managed, worked
<1>a. /\ out \in [Worker \cup {Manager} -> Seq(Field)] /\ wpc \in [Worker -> WPC]
      /\ pipe1 \in Seq({"len"} \cup Path) /\ pipe2 \in Seq(Field)
      /\ \A p \in Worker \cup {Manager} : out[p] \in Seq(Field)
      /\ pipe1 \in Seq(Field)
  BY SeqMonotonic DEF TypeOK, Field
(* What neither writes nor reads.                                          *)
<1>b. ASSUME UNCHANGED <<pipe1, pipe2, out>>, Reader2' = Reader2,
             \A w \in Worker : wpc'[w] = "task" <=> wpc[w] = "task"
      PROVE  FrameInv'
  BY <1>b DEF FrameInv, Reader1
(* What reads a field of pipe2.                                            *)
<1>c. ASSUME mpc \in Reading2, pipe2 # <<>>, pipe2' = Tail(pipe2),
             UNCHANGED <<pipe1, out, wpc>>,
             \A q \in Phase : Moves(mpc, Head(pipe2), q) => Reader2' = q
      PROVE  FrameInv'
  <2>1. Frames(pipe2, mpc, "length") /\ \A w \in Worker : out[w] = <<>>
    BY <1>c, ManagerAlone
  <2>2. PICK q \in Phase : Moves(mpc, Head(pipe2), q) /\ Frames(Tail(pipe2), q, "length")
    BY <1>a, <1>c, <2>1, FramesTail
  <2>3. Frames(pipe2', Reader2', "length")
    BY <1>c, <2>2
  <2> QED
    BY <1>c, <2>1, <2>3 DEF FrameInv, Reader1
(* What fills the out of a worker with a report.                           *)
<1>d. ASSUME NEW w \in Worker, NEW s \in Seq(Field), Frames(s, "length", "length"),
             wpc[w] = "read", out[w] = <<>>, out' = [out EXCEPT ![w] = s],
             \A u \in Worker : wpc'[u] = "task" <=> wpc[u] = "task",
             UNCHANGED <<pipe1, pipe2, mpc>>
      PROVE  FrameInv'
  <2>1. \A u \in Worker : out[u] = <<>>
    BY <1>d DEF LockInv, OutInv
  <2>2. Frames(pipe2, Reader2, "length") /\ Reader2' = Reader2 /\ Reader1' = Reader1
    BY <1>d, <2>1 DEF FrameInv, Reader2, Reader1
  <2>3. Frames(pipe2 \o s, Reader2, "length")
    BY <1>a, <1>d, <2>2, FramesConcat
  <2>4. /\ out'[w] = s /\ \A u \in Worker : u # w => out'[u] = <<>>
        /\ out'[Manager] = out[Manager]
    BY <1>a, <1>d, <2>1
  <2>5. Frames(pipe1' \o out'[Manager], Reader1', "task_length")
    BY <1>d, <2>2, <2>4 DEF FrameInv
  <2>6. (\A u \in Worker : out'[u] = <<>>) => Frames(pipe2', Reader2', "length")
    BY <1>d, <2>2
  <2>7. \A u \in Worker : out'[u] # <<>> => Frames(pipe2' \o out'[u], Reader2', "length")
    BY <1>d, <2>2, <2>3, <2>4
  <2> QED
    BY <2>5, <2>6, <2>7 DEF FrameInv
<1>1. ASSUME ManagerFork, UNCHANGED tree
      PROVE  FrameInv'
  <2>1. /\ UNCHANGED <<pipe1, pipe2, out>> /\ Reader2' = Reader2
        /\ \A w \in Worker : wpc'[w] = "task" <=> wpc[w] = "task"
    BY <1>a, <1>1 DEF ManagerFork, Reader2, ManagerInv
  <2> QED
    BY <1>b, <2>1
<1>2. ASSUME ManagerOpen1, UNCHANGED tree
      PROVE  FrameInv'
  <2>1. /\ UNCHANGED <<pipe1, pipe2, out>> /\ Reader2' = Reader2
        /\ \A w \in Worker : wpc'[w] = "task" <=> wpc[w] = "task"
    BY <1>a, <1>2 DEF ManagerOpen1, Reader2
  <2> QED
    BY <1>b, <2>1
<1>3. ASSUME ManagerOpen2, UNCHANGED tree
      PROVE  FrameInv'
  <2>1. /\ UNCHANGED <<pipe1, pipe2, out>> /\ Reader2' = Reader2
        /\ \A w \in Worker : wpc'[w] = "task" <=> wpc[w] = "task"
    BY <1>a, <1>3 DEF ManagerOpen2, Reader2
  <2> QED
    BY <1>b, <2>1
<1>4. ASSUME ManagerPlan, UNCHANGED tree
      PROVE  FrameInv'
  <2>1. /\ UNCHANGED <<pipe1, pipe2, out>> /\ Reader2' = Reader2
        /\ \A w \in Worker : wpc'[w] = "task" <=> wpc[w] = "task"
    BY <1>a, <1>4 DEF ManagerPlan, Reader2
  <2> QED
    BY <1>b, <2>1
<1>5. ASSUME ManagerLock1, UNCHANGED tree
      PROVE  FrameInv'
  <2>1. /\ UNCHANGED <<pipe1, pipe2, out>> /\ Reader2' = Reader2
        /\ \A w \in Worker : wpc'[w] = "task" <=> wpc[w] = "task"
    BY <1>a, <1>5 DEF ManagerLock1, Reader2
  <2> QED
    BY <1>b, <2>1
<1>6. ASSUME ManagerNextTask, UNCHANGED tree
      PROVE  FrameInv'
  <2>1. Head(queue) \in Path
    BY <1>6, Taken DEF ManagerNextTask, ManagerInv, TypeOK
  <2>2. /\ out[Manager] = <<>> /\ out'[Manager] = Message(Head(queue))
        /\ \A w \in Worker : out'[w] = out[w]
        /\ UNCHANGED <<pipe1, pipe2, wpc, mpc>>
    BY <1>a, <1>6 DEF ManagerNextTask
  <2>3. Frames(pipe1, Reader1, "task_length")
    BY <1>a, <2>2, ConcatEmptySeq DEF FrameInv
  <2>4. Message(Head(queue)) \in Seq(Field)
    BY <2>1, Reported
  <2>5. Frames(pipe1 \o Message(Head(queue)), Reader1, "task_length")
    BY <1>a, <2>1, <2>3, <2>4, TaskFrames, FramesConcat
  <2>6. Reader1' = Reader1 /\ Reader2' = Reader2
    BY <2>2 DEF Reader1, Reader2
  <2> QED
    BY <2>2, <2>5, <2>6 DEF FrameInv
<1>7. ASSUME ManagerWrite, UNCHANGED tree
      PROVE  FrameInv'
  <2>1. /\ out[Manager] # <<>> /\ out'[Manager] = Tail(out[Manager])
        /\ pipe1' = Append(pipe1, Head(out[Manager]))
        /\ \A w \in Worker : out'[w] = out[w]
        /\ UNCHANGED <<pipe2, wpc, mpc>>
    BY <1>a, <1>7 DEF ManagerWrite
  <2>2. pipe1' \o out'[Manager] = pipe1 \o out[Manager]
    BY <1>a, <2>1, MoveHead
  <2>3. Reader1' = Reader1 /\ Reader2' = Reader2
    BY <2>1 DEF Reader1, Reader2
  <2> QED
    BY <2>1, <2>2, <2>3 DEF FrameInv
<1>8. ASSUME ManagerUnlock1, UNCHANGED tree
      PROVE  FrameInv'
  <2>1. /\ UNCHANGED <<pipe1, pipe2, out>> /\ Reader2' = Reader2
        /\ \A w \in Worker : wpc'[w] = "task" <=> wpc[w] = "task"
    BY <1>a, <1>8 DEF ManagerUnlock1, Reader2
  <2> QED
    BY <1>b, <2>1
<1>9. ASSUME ManagerWake, UNCHANGED tree
      PROVE  FrameInv'
  <2>1. /\ UNCHANGED <<pipe1, pipe2, out>> /\ Reader2' = Reader2
        /\ \A w \in Worker : wpc'[w] = "task" <=> wpc[w] = "task"
    BY <1>a, <1>9 DEF ManagerWake, Reader2
  <2> QED
    BY <1>b, <2>1
<1>10. ASSUME ManagerStop, UNCHANGED tree
      PROVE  FrameInv'
  <2>1. /\ UNCHANGED <<pipe1, pipe2, out>> /\ Reader2' = Reader2
        /\ \A w \in Worker : wpc'[w] = "task" <=> wpc[w] = "task"
    BY <1>a, <1>10 DEF ManagerStop, Reader2
  <2> QED
    BY <1>b, <2>1
<1>11. ASSUME ManagerLock2, UNCHANGED tree
      PROVE  FrameInv'
  <2>1. /\ UNCHANGED <<pipe1, pipe2, out>> /\ Reader2' = Reader2
        /\ \A w \in Worker : wpc'[w] = "task" <=> wpc[w] = "task"
    BY <1>a, <1>11 DEF ManagerLock2, Reader2
  <2> QED
    BY <1>b, <2>1
<1>12. ASSUME ManagerReadLength, UNCHANGED tree
      PROVE  FrameInv'
  <2>1. /\ mpc \in Reading2 /\ pipe2 # <<>> /\ pipe2' = Tail(pipe2)
        /\ UNCHANGED <<pipe1, out, wpc>>
    BY <1>12 DEF ManagerReadLength, ManagerRead, Reading2
  <2>2. \A q \in Phase : Moves(mpc, Head(pipe2), q) => Reader2' = q
    BY <1>12 DEF ManagerReadLength, ManagerRead, Moves, Reader2
  <2> QED
    BY <1>c, <2>1, <2>2
<1>13. ASSUME ManagerReadFile, UNCHANGED tree
      PROVE  FrameInv'
  <2>1. /\ mpc \in Reading2 /\ pipe2 # <<>> /\ pipe2' = Tail(pipe2)
        /\ UNCHANGED <<pipe1, out, wpc>>
    BY <1>13 DEF ManagerReadFile, ManagerRead, Reading2
  <2>2. \A q \in Phase : Moves(mpc, Head(pipe2), q) => Reader2' = q
    BY <1>13 DEF ManagerReadFile, ManagerRead, Moves, Reader2
  <2> QED
    BY <1>c, <2>1, <2>2
<1>14. ASSUME ManagerReadLine, UNCHANGED tree
      PROVE  FrameInv'
  <2>1. /\ mpc \in Reading2 /\ pipe2 # <<>> /\ pipe2' = Tail(pipe2)
        /\ UNCHANGED <<pipe1, out, wpc>>
    BY <1>14 DEF ManagerReadLine, ManagerRead, Reading2
  <2>2. \A q \in Phase : Moves(mpc, Head(pipe2), q) => Reader2' = q
    BY <1>14 DEF ManagerReadLine, ManagerRead, Moves, Reader2
  <2> QED
    BY <1>c, <2>1, <2>2
<1>15. ASSUME ManagerReadDirectory, UNCHANGED tree
      PROVE  FrameInv'
  <2>1. /\ mpc \in Reading2 /\ pipe2 # <<>> /\ pipe2' = Tail(pipe2)
        /\ UNCHANGED <<pipe1, out, wpc>>
    BY <1>15 DEF ManagerReadDirectory, ManagerRead, Reading2
  <2>2. \A q \in Phase : Moves(mpc, Head(pipe2), q) => Reader2' = q
    BY <1>15 DEF ManagerReadDirectory, ManagerRead, Moves, Reader2
  <2> QED
    BY <1>c, <2>1, <2>2
<1>16. ASSUME ManagerReadNothing, UNCHANGED tree
      PROVE  FrameInv'
  <2>1. /\ mpc \in Reading2 /\ pipe2 # <<>> /\ pipe2' = Tail(pipe2)
        /\ UNCHANGED <<pipe1, out, wpc>>
    BY <1>16 DEF ManagerReadNothing, ManagerRead, Reading2
  <2>2. \A q \in Phase : Moves(mpc, Head(pipe2), q) => Reader2' = q
    BY <1>16 DEF ManagerReadNothing, ManagerRead, Moves, Reader2
  <2> QED
    BY <1>c, <2>1, <2>2
<1>17. ASSUME ManagerReadDirLength, UNCHANGED tree
      PROVE  FrameInv'
  <2>1. /\ mpc \in Reading2 /\ pipe2 # <<>> /\ pipe2' = Tail(pipe2)
        /\ UNCHANGED <<pipe1, out, wpc>>
    BY <1>17 DEF ManagerReadDirLength, ManagerRead, Reading2
  <2>2. \A q \in Phase : Moves(mpc, Head(pipe2), q) => Reader2' = q
    BY <1>17 DEF ManagerReadDirLength, ManagerRead, Moves, Reader2
  <2> QED
    BY <1>c, <2>1, <2>2
<1>18. ASSUME ManagerReadDir, UNCHANGED tree
      PROVE  FrameInv'
  <2>1. /\ mpc \in Reading2 /\ pipe2 # <<>> /\ pipe2' = Tail(pipe2)
        /\ UNCHANGED <<pipe1, out, wpc>>
    BY <1>18 DEF ManagerReadDir, ManagerRead, Reading2
  <2>2. \A q \in Phase : Moves(mpc, Head(pipe2), q) => Reader2' = q
    BY <1>18 DEF ManagerReadDir, ManagerRead, Moves, Reader2
  <2> QED
    BY <1>c, <2>1, <2>2
<1>19. ASSUME ManagerUnlock2, UNCHANGED tree
      PROVE  FrameInv'
  <2>1. /\ UNCHANGED <<pipe1, pipe2, out>> /\ Reader2' = Reader2
        /\ \A w \in Worker : wpc'[w] = "task" <=> wpc[w] = "task"
    BY <1>a, <1>19 DEF ManagerUnlock2, Reader2
  <2> QED
    BY <1>b, <2>1
<1>20. ASSUME ManagerKill, UNCHANGED tree
      PROVE  FrameInv'
  <2>1. /\ UNCHANGED <<pipe1, pipe2, out>> /\ Reader2' = Reader2
        /\ \A w \in Worker : wpc'[w] = "task" <=> wpc[w] = "task"
    <3>1. \A w \in Worker : wpc[w] # "task"
      BY <1>20 DEF ManagerKill, RoundInv, Idle, Awake, Rounds, OutInv
    <3> QED
      BY <1>a, <1>20, <3>1 DEF ManagerKill, Reader2
  <2> QED
    BY <1>b, <2>1
<1>21. ASSUME NEW w \in Worker, WorkerOpen1(w), UNCHANGED tree
      PROVE  FrameInv'
  <2>1. /\ UNCHANGED <<pipe1, pipe2, out>> /\ Reader2' = Reader2
        /\ \A u \in Worker : wpc'[u] = "task" <=> wpc[u] = "task"
    BY <1>a, <1>21 DEF WorkerOpen1, Reader2
  <2> QED
    BY <1>b, <2>1
<1>22. ASSUME NEW w \in Worker, WorkerOpen2(w), UNCHANGED tree
      PROVE  FrameInv'
  <2>1. /\ UNCHANGED <<pipe1, pipe2, out>> /\ Reader2' = Reader2
        /\ \A u \in Worker : wpc'[u] = "task" <=> wpc[u] = "task"
    BY <1>a, <1>22 DEF WorkerOpen2, Reader2
  <2> QED
    BY <1>b, <2>1
<1>23. ASSUME NEW w \in Worker, WorkerSetup(w), UNCHANGED tree
      PROVE  FrameInv'
  <2>1. /\ UNCHANGED <<pipe1, pipe2, out>> /\ Reader2' = Reader2
        /\ \A u \in Worker : wpc'[u] = "task" <=> wpc[u] = "task"
    BY <1>a, <1>23 DEF WorkerSetup, Reader2
  <2> QED
    BY <1>b, <2>1
<1>24. ASSUME NEW w \in Worker, WorkerStop(w), UNCHANGED tree
      PROVE  FrameInv'
  <2>1. /\ UNCHANGED <<pipe1, pipe2, out>> /\ Reader2' = Reader2
        /\ \A u \in Worker : wpc'[u] = "task" <=> wpc[u] = "task"
    BY <1>a, <1>24 DEF WorkerStop, Reader2
  <2> QED
    BY <1>b, <2>1
<1>25. ASSUME NEW w \in Worker, WorkerLock1(w), UNCHANGED tree
      PROVE  FrameInv'
  <2>1. /\ UNCHANGED <<pipe1, pipe2, out>> /\ Reader2' = Reader2
        /\ \A u \in Worker : wpc'[u] = "task" <=> wpc[u] = "task"
    BY <1>a, <1>25 DEF WorkerLock1, Reader2
  <2> QED
    BY <1>b, <2>1
<1>26. ASSUME NEW w \in Worker, WorkerReadLength(w), UNCHANGED tree
      PROVE  FrameInv'
  <2>1. /\ wpc[w] = "length" /\ wpc' = [wpc EXCEPT ![w] = "task"]
        /\ pipe1 # <<>> /\ pipe1' = Tail(pipe1) /\ UNCHANGED <<out, pipe2, mpc>>
    BY <1>26 DEF WorkerReadLength
  <2>2. /\ out[Manager] = <<>> /\ Frames(pipe1, "task_length", "task_length")
        /\ \A u \in Worker : u # w => wpc[u] \notin {"length", "task"}
    BY <2>1, WorkerAlone
  <2>3. PICK q \in Phase :
          Moves("task_length", Head(pipe1), q) /\ Frames(Tail(pipe1), q, "task_length")
    BY <1>a, <2>1, <2>2, FramesTail
  <2>4. Reader1' = "task" /\ Reader2' = Reader2
    BY <1>a, <2>1, <2>2 DEF Reader1, Reader2
  <2>5. q = "task"
    BY <2>3 DEF Moves
  <2>6. Frames(pipe1', Reader1', "task_length")
    BY <2>1, <2>3, <2>4, <2>5
  <2>7. pipe1' \o out'[Manager] = pipe1'
    BY <1>a, <2>1, <2>2, HeadTailProperties, ConcatEmptySeq
  <2> QED
    BY <2>1, <2>4, <2>6, <2>7 DEF FrameInv
<1>27. ASSUME NEW w \in Worker, WorkerReadTask(w), UNCHANGED tree
      PROVE  FrameInv'
  <2>1. /\ wpc[w] = "task" /\ wpc' = [wpc EXCEPT ![w] = "unlock1"]
        /\ pipe1 # <<>> /\ pipe1' = Tail(pipe1) /\ UNCHANGED <<out, pipe2, mpc>>
    BY <1>27 DEF WorkerReadTask
  <2>2. /\ out[Manager] = <<>> /\ Frames(pipe1, "task", "task_length")
        /\ \A u \in Worker : u # w => wpc[u] \notin {"length", "task"}
    BY <2>1, WorkerAlone
  <2>3. PICK q \in Phase :
          Moves("task", Head(pipe1), q) /\ Frames(Tail(pipe1), q, "task_length")
    BY <1>a, <2>1, <2>2, FramesTail
  <2>4. Reader1' = "task_length" /\ Reader2' = Reader2
    BY <1>a, <2>1, <2>2 DEF Reader1, Reader2
  <2>5. q = "task_length"
    BY <2>3 DEF Moves
  <2>6. Frames(pipe1', Reader1', "task_length")
    BY <2>1, <2>3, <2>4, <2>5
  <2>7. pipe1' \o out'[Manager] = pipe1'
    BY <1>a, <2>1, <2>2, HeadTailProperties, ConcatEmptySeq
  <2> QED
    BY <2>1, <2>4, <2>6, <2>7 DEF FrameInv
<1>28. ASSUME NEW w \in Worker, WorkerUnlock1(w), UNCHANGED tree
      PROVE  FrameInv'
  <2>1. /\ UNCHANGED <<pipe1, pipe2, out>> /\ Reader2' = Reader2
        /\ \A u \in Worker : wpc'[u] = "task" <=> wpc[u] = "task"
    BY <1>a, <1>28 DEF WorkerUnlock1, Reader2
  <2> QED
    BY <1>b, <2>1
<1>29. ASSUME NEW w \in Worker, WorkerLock2(w), UNCHANGED tree
      PROVE  FrameInv'
  <2>1. /\ UNCHANGED <<pipe1, pipe2, out>> /\ Reader2' = Reader2
        /\ \A u \in Worker : wpc'[u] = "task" <=> wpc[u] = "task"
    BY <1>a, <1>29 DEF WorkerLock2, Reader2
  <2> QED
    BY <1>b, <2>1
<1>30. ASSUME NEW w \in Worker, WorkerOpenDir(w), UNCHANGED tree
      PROVE  FrameInv'
  <2>1. /\ UNCHANGED <<pipe1, pipe2, out>> /\ Reader2' = Reader2
        /\ \A u \in Worker : wpc'[u] = "task" <=> wpc[u] = "task"
    BY <1>a, <1>30 DEF WorkerOpenDir, Reader2
  <2> QED
    BY <1>b, <2>1
<1>31. ASSUME NEW w \in Worker, WorkerExit(w), UNCHANGED tree
      PROVE  FrameInv'
  <2>1. /\ UNCHANGED <<pipe1, pipe2, out>> /\ Reader2' = Reader2
        /\ \A u \in Worker : wpc'[u] = "task" <=> wpc[u] = "task"
    BY <1>a, <1>31 DEF WorkerExit, Reader2, OpenFails
  <2> QED
    BY <1>b, <2>1
<1>32. ASSUME NEW w \in Worker, WorkerReadLast(w), UNCHANGED tree
      PROVE  FrameInv'
  <2>1. Message("n") \in Seq(Field) /\ Frames(Message("n"), "length", "length")
    BY Reported, LastFrames
  <2>2. /\ wpc[w] = "read" /\ out[w] = <<>> /\ out' = [out EXCEPT ![w] = Message("n")]
        /\ \A u \in Worker : wpc'[u] = "task" <=> wpc[u] = "task"
        /\ UNCHANGED <<pipe1, pipe2, mpc>>
    BY <1>a, <1>32 DEF WorkerReadLast
  <2> QED
    BY <1>d, <2>1, <2>2
<1>33. ASSUME NEW w \in Worker, WorkerWrite(w), UNCHANGED tree
      PROVE  FrameInv'
  <2>1. /\ wpc[w] \in {"read", "last"} /\ out[w] # <<>> /\ out'[w] = Tail(out[w])
        /\ pipe2' = Append(pipe2, Head(out[w])) /\ out'[Manager] = out[Manager]
        /\ \A u \in Worker : u # w => out'[u] = out[u]
        /\ UNCHANGED <<pipe1, wpc, mpc>>
    BY <1>a, <1>33 DEF WorkerWrite
  <2>2. \A u \in Worker : u # w => out[u] = <<>>
    BY <2>1 DEF LockInv, OutInv
  <2>3. pipe2' \o out'[w] = pipe2 \o out[w]
    BY <1>a, <2>1, MoveHead
  <2>4. Frames(pipe2' \o out'[w], Reader2, "length")
    BY <2>1, <2>3 DEF FrameInv
  <2>5. out'[w] = <<>> => pipe2' \o out'[w] = pipe2'
    <3>1. pipe2' \in Seq(Field)
      BY <1>a, <2>1, HeadTailProperties, AppendProperties
    <3> QED
      BY <3>1, ConcatEmptySeq
  <2>6. Reader1' = Reader1 /\ Reader2' = Reader2
    BY <2>1 DEF Reader1, Reader2
  <2>7. (\A u \in Worker : out'[u] = <<>>) => Frames(pipe2', Reader2', "length")
    BY <2>4, <2>5, <2>6
  <2>8. \A u \in Worker : out'[u] # <<>> => Frames(pipe2' \o out'[u], Reader2', "length")
    BY <2>1, <2>2, <2>4, <2>6
  <2>9. Frames(pipe1' \o out'[Manager], Reader1', "task_length")
    BY <2>1, <2>6 DEF FrameInv
  <2> QED
    BY <2>7, <2>8, <2>9 DEF FrameInv
<1>34. ASSUME NEW w \in Worker, WorkerUnlock2(w), UNCHANGED tree
      PROVE  FrameInv'
  <2>1. /\ UNCHANGED <<pipe1, pipe2, out>> /\ Reader2' = Reader2
        /\ \A u \in Worker : wpc'[u] = "task" <=> wpc[u] = "task"
    BY <1>a, <1>34 DEF WorkerUnlock2, Reader2
  <2> QED
    BY <1>b, <2>1
<1>35. ASSUME NEW w \in Worker, WorkerWake(w), UNCHANGED tree
      PROVE  FrameInv'
  <2>1. /\ UNCHANGED <<pipe1, pipe2, out>> /\ Reader2' = Reader2
        /\ \A u \in Worker : wpc'[u] = "task" <=> wpc[u] = "task"
    BY <1>a, <1>35 DEF WorkerWake, Reader2
  <2> QED
    BY <1>b, <2>1
<1>36. ASSUME NEW w \in Worker, NEW e \in Entry, WorkerReadText(w, e), UNCHANGED tree
      PROVE  FrameInv'
  <2>1. TextReport(e) \in Seq(Field) /\ Frames(TextReport(e), "length", "length")
    BY Reported, TextFrames
  <2>2. /\ wpc[w] = "read" /\ out[w] = <<>> /\ out' = [out EXCEPT ![w] = TextReport(e)]
        /\ \A u \in Worker : wpc'[u] = "task" <=> wpc[u] = "task"
        /\ UNCHANGED <<pipe1, pipe2, mpc>>
    BY <1>a, <1>36 DEF WorkerReadText, ReadEntry
  <2> QED
    BY <1>d, <2>1, <2>2
<1>37. ASSUME NEW w \in Worker, NEW e \in Entry, WorkerReadEndless(w, e), UNCHANGED tree
      PROVE  FrameInv'
  <2>1. /\ UNCHANGED <<pipe1, pipe2, out>> /\ Reader2' = Reader2
        /\ \A u \in Worker : wpc'[u] = "task" <=> wpc[u] = "task"
    BY <1>a, <1>37 DEF WorkerReadEndless, Reader2, ReadEntry
  <2> QED
    BY <1>b, <2>1
<1>38. ASSUME NEW w \in Worker, NEW e \in Entry, WorkerReadDirectory(w, e), UNCHANGED tree
      PROVE  FrameInv'
  <2> DEFINE r == Message("d") \o Message(e)
  <2>1. r \in Seq(Field) /\ Frames(r, "length", "length")
    BY Reported, DirectoryFrames
  <2>2. /\ wpc[w] = "read" /\ out[w] = <<>> /\ out' = [out EXCEPT ![w] = r]
        /\ \A u \in Worker : wpc'[u] = "task" <=> wpc[u] = "task"
        /\ UNCHANGED <<pipe1, pipe2, mpc>>
    BY <1>a, <1>38 DEF WorkerReadDirectory, ReadEntry
  <2> HIDE DEF r
  <2> QED
    BY <1>d, <2>1, <2>2
<1>39. ASSUME NEW w \in Worker, NEW e \in Entry, WorkerReadOther(w, e), UNCHANGED tree
      PROVE  FrameInv'
  <2>1. /\ UNCHANGED <<pipe1, pipe2, out>> /\ Reader2' = Reader2
        /\ \A u \in Worker : wpc'[u] = "task" <=> wpc[u] = "task"
    BY <1>a, <1>39 DEF WorkerReadOther, Reader2, ReadEntry
  <2> QED
    BY <1>b, <2>1
<1> QED
  BY <1>1, <1>2, <1>3, <1>4, <1>5, <1>6, <1>7, <1>8, <1>9, <1>10, <1>11, <1>12, <1>13,
     <1>14, <1>15, <1>16, <1>17, <1>18, <1>19, <1>20, <1>21, <1>22, <1>23, <1>24, <1>25,
     <1>26, <1>27, <1>28, <1>29, <1>30, <1>31, <1>32, <1>33, <1>34, <1>35, <1>36, <1>37,
     <1>38, <1>39
     DEF Next, ManagerStep, ManagerAction, WorkerStep, WorkerAction

-----------------------------------------------------------------------------
LEMMA WorkersFinite ==
  \A S \in SUBSET Worker :
    IsFiniteSet(S) /\ Cardinality(S) \in Nat /\ (Cardinality(S) = 0 <=> S = {})
<1>1. IsFiniteSet(Worker)
  BY FS_Interval, Distinct DEF Worker
<1> QED
  BY <1>1, FS_Subset, FS_CardinalityType, FS_EmptySet

NumbersOK ==
  /\ Cardinality(Busy) \in Nat /\ Cardinality(Reporting) \in Nat
  /\ Cardinality(Unsent) \in Nat /\ Cardinality(Waking) \in Nat
  /\ Cardinality(Awake) \in Nat
  /\ Tasks \in Nat /\ CountIn(pipe2, {"n"}) \in Nat /\ Reports \in Nat
  /\ Idle <=> /\ Cardinality(Busy) = 0 /\ Cardinality(Reporting) = 0
              /\ Cardinality(Waking) = 0 /\ Cardinality(Awake) = 0
  /\ Cardinality(Unsent) <= Cardinality(Reporting)

LEMMA Numbers == TypeOK => NumbersOK
<1> HAVE TypeOK
<1>1. /\ Busy \in SUBSET Worker /\ Reporting \in SUBSET Worker
      /\ Unsent \in SUBSET Worker /\ Waking \in SUBSET Worker /\ Awake \in SUBSET Worker
  BY DEF Busy, Reporting, Unsent, Waking, Awake
<1>2. Tasks \in Nat /\ CountIn(pipe2, {"n"}) \in Nat
  BY CountType DEF TypeOK, Tasks
<1>3. Unsent \subseteq Reporting /\ IsFiniteSet(Reporting)
  BY <1>1, WorkersFinite DEF Unsent, Reporting
<1>4. Cardinality(Unsent) <= Cardinality(Reporting)
  BY <1>3, FS_Subset
<1> QED
  BY <1>1, <1>2, <1>4, WorkersFinite DEF NumbersOK, Idle, Reports

One(b) == IF b THEN 1 ELSE 0

(* A set of workers when a step changes the state of worker w alone.       *)
LEMMA OneMoves ==
  ASSUME NEW S \in SUBSET Worker, NEW T \in SUBSET Worker, NEW w \in Worker,
         \A u \in Worker : u # w => (u \in T <=> u \in S)
  PROVE  Cardinality(T) = Cardinality(S) - One(w \in S) + One(w \in T)
<1>1. IsFiniteSet(S) /\ IsFiniteSet(T)
  BY WorkersFinite
<1>2. S \ {w} = T \ {w}
  OBVIOUS
<1>3. /\ Cardinality(S \ {w}) = Cardinality(S) - One(w \in S)
      /\ Cardinality(T \ {w}) = Cardinality(T) - One(w \in T)
  BY <1>1, FS_RemoveElement, FS_CardinalityType DEF One
<1>4. Cardinality(S) \in Nat /\ Cardinality(T) \in Nat
  BY WorkersFinite
<1> QED
  BY <1>2, <1>3, <1>4 DEF One

LEMMA OneStep ==
  ASSUME TypeOK, NEW w \in Worker,
         \A u \in Worker : u # w =>
           wpc'[u] = wpc[u] /\ out'[u] = out[u] /\ (u \in stopped' <=> u \in stopped)
  PROVE  /\ Cardinality(Busy') = Cardinality(Busy) - One(w \in Busy) + One(w \in Busy')
         /\ Cardinality(Reporting') = Cardinality(Reporting) - One(w \in Reporting)
                                                             + One(w \in Reporting')
         /\ Cardinality(Unsent') = Cardinality(Unsent) - One(w \in Unsent)
                                                       + One(w \in Unsent')
         /\ Cardinality(Waking') = Cardinality(Waking) - One(w \in Waking)
                                                       + One(w \in Waking')
         /\ Cardinality(Awake') = Cardinality(Awake) - One(w \in Awake) + One(w \in Awake')
<1>1. Cardinality(Busy') = Cardinality(Busy) - One(w \in Busy) + One(w \in Busy')
  <2>1. Busy \in SUBSET Worker /\ Busy' \in SUBSET Worker
    BY DEF Busy
  <2>2. \A u \in Worker : u # w => (u \in Busy' <=> u \in Busy)
    BY DEF Busy
  <2> QED
    BY <2>1, <2>2, OneMoves
<1>2. Cardinality(Reporting') = Cardinality(Reporting) - One(w \in Reporting)
                                                       + One(w \in Reporting')
  <2>1. Reporting \in SUBSET Worker /\ Reporting' \in SUBSET Worker
    BY DEF Reporting
  <2>2. \A u \in Worker : u # w => (u \in Reporting' <=> u \in Reporting)
    BY DEF Reporting
  <2> QED
    BY <2>1, <2>2, OneMoves
<1>3. Cardinality(Unsent') = Cardinality(Unsent) - One(w \in Unsent) + One(w \in Unsent')
  <2>1. Unsent \in SUBSET Worker /\ Unsent' \in SUBSET Worker
    BY DEF Unsent
  <2>2. \A u \in Worker : u # w => (u \in Unsent' <=> u \in Unsent)
    BY DEF Unsent
  <2> QED
    BY <2>1, <2>2, OneMoves
<1>4. Cardinality(Waking') = Cardinality(Waking) - One(w \in Waking) + One(w \in Waking')
  <2>1. Waking \in SUBSET Worker /\ Waking' \in SUBSET Worker
    BY DEF Waking
  <2>2. \A u \in Worker : u # w => (u \in Waking' <=> u \in Waking)
    BY DEF Waking
  <2> QED
    BY <2>1, <2>2, OneMoves
<1>5. Cardinality(Awake') = Cardinality(Awake) - One(w \in Awake) + One(w \in Awake')
  <2>1. Awake \in SUBSET Worker /\ Awake' \in SUBSET Worker
    BY DEF Awake
  <2>2. \A u \in Worker : u # w => (u \in Awake' <=> u \in Awake)
    BY DEF Awake
  <2> QED
    BY <2>1, <2>2, OneMoves
<1> QED
  BY <1>1, <1>2, <1>3, <1>4, <1>5

(* A step that changes the state of no worker.                             *)
LEMMA NoneMoves ==
  ASSUME UNCHANGED <<wpc, out>>, \A u \in Worker : u \in stopped' <=> u \in stopped
  PROVE  UNCHANGED <<Busy, Reporting, Unsent, Waking, Awake>>
BY DEF Busy, Reporting, Unsent, Waking, Awake


LEMMA RoundStep ==
  ASSUME TypeOK, ManagerInv, LockInv, OutInv, FrameInv, RoundInv, LostInv, Framed,
         TypeOK', Next
  PROVE  RoundInv' /\ LostInv'
<1> USE Distinct DEF ManagerGoto, WorkerGoto, Continue, Stop, signals, pipes,
                     managed, worked
<1> DEFINE B == Cardinality(Busy)
           R == Cardinality(Reporting)
           U == Cardinality(Unsent)
           K == Cardinality(Waking)
           A == Cardinality(Awake)
           N == CountIn(pipe2, {"n"})
<1>a. /\ B \in Nat /\ R \in Nat /\ U \in Nat /\ K \in Nat /\ A \in Nat
      /\ Tasks \in Nat /\ N \in Nat /\ U <= R /\ Reports = N + U
      /\ Idle <=> B = 0 /\ R = 0 /\ K = 0 /\ A = 0
  BY Numbers DEF NumbersOK, Reports
<1>b. /\ B' \in Nat /\ R' \in Nat /\ U' \in Nat /\ K' \in Nat /\ A' \in Nat
      /\ Tasks' \in Nat /\ N' \in Nat /\ U' <= R' /\ Reports' = N' + U'
      /\ Idle' <=> B' = 0 /\ R' = 0 /\ K' = 0 /\ A' = 0
  <2>1. NumbersOK'
    BY Numbers, PTL
  <2> QED
    BY <2>1 DEF NumbersOK, Reports
<1>c. /\ wpc \in [Worker -> WPC] /\ out \in [Worker \cup {Manager} -> Seq(Field)]
      /\ stopped \subseteq Worker \cup {Manager} /\ lost \in BOOLEAN
      /\ i \in 0 .. Num /\ available \in 0 .. Num /\ i' \in Int
      /\ pipe1 \in Seq({"len"} \cup Path) /\ pipe2 \in Seq(Field)
      /\ "len" \notin Path /\ "n" \notin Path
  <2>1. "len" \notin Path
    BY PfindAssumption
  <2>2. i' \in Int /\ i \in 0 .. Num /\ available \in 0 .. Num
    BY DEF TypeOK
  <2>3. lost \in BOOLEAN /\ stopped \subseteq Worker \cup {Manager}
    BY DEF TypeOK
  <2>4. /\ wpc \in [Worker -> WPC] /\ out \in [Worker \cup {Manager} -> Seq(Field)]
        /\ pipe1 \in Seq({"len"} \cup Path) /\ pipe2 \in Seq(Field)
    BY DEF TypeOK
  <2> QED
    BY <2>1, <2>2, <2>3, <2>4
<1>d. Down \in {0, 1} /\ Down' \in {0, 1}
  BY DEF Down
<1> DEFINE Same == UNCHANGED <<B, R, U, K, A>>
           SameCounts == Tasks' = Tasks /\ N' = N
           SamePlace == /\ UNCHANGED <<mpc, i, available, lost>>
                        /\ out'[Manager] = out[Manager]
                        /\ Manager \in stopped' <=> Manager \in stopped
(* What changes none of the numbers.                                       *)
<1>e. ASSUME Same, SameCounts, SamePlace
      PROVE  RoundInv' /\ LostInv'
  <2>1. Reports' = Reports /\ (Idle' <=> Idle)
    BY <1>a, <1>b, <1>e
  <2>2. Down' = Down /\ Told' = Told /\ ToWake' = ToWake
    BY <1>e, <2>1 DEF Down, Told, ToWake
  <2>3. Resumed' = Resumed
    BY <1>e, <2>2 DEF Resumed
  <2> HIDE DEF SameCounts
  <2> QED
    BY <1>e, <2>1, <2>2, <2>3 DEF RoundInv, LostInv, SameCounts
<1>o. ASSUME NEW w \in Worker,
             \A u \in Worker : u # w =>
               wpc'[u] = wpc[u] /\ out'[u] = out[u] /\ (u \in stopped' <=> u \in stopped)
      PROVE  /\ B' = B - One(w \in Busy) + One(w \in Busy')
             /\ R' = R - One(w \in Reporting) + One(w \in Reporting')
             /\ U' = U - One(w \in Unsent) + One(w \in Unsent')
             /\ K' = K - One(w \in Waking) + One(w \in Waking')
             /\ A' = A - One(w \in Awake) + One(w \in Awake')
  BY <1>o, OneStep
<1>s. UNCHANGED <<Busy, Reporting, Unsent, Waking, Awake>> => Same
  OBVIOUS
<1>f. UNCHANGED pipe1 => Tasks' = Tasks
  BY DEF Tasks
<1>g. UNCHANGED pipe2 => N' = N
  OBVIOUS
<1>t. Reports = N + U /\ Reports' = N' + U' /\ Told = N + U - R - K
      /\ Told' = N' + U' - R' - K'
  BY <1>a, <1>b DEF Told
<1>u. ToWake \in Int /\ Resumed \in Int
  BY <1>c, <1>d DEF ToWake, Resumed
<1>v. ASSUME mpc \in Rounds
      PROVE  /\ Tasks + B + N + U = available /\ A + ToWake <= Tasks
             /\ Resumed <= N + U - R - K
             /\ lost => A + ToWake < Tasks \/ Resumed < N + U - R - K
  <2>1. /\ Tasks + B + Reports = available /\ A + ToWake <= Tasks /\ Resumed <= Told
        /\ lost => A + ToWake < Tasks \/ Resumed < Told
    BY <1>v DEF RoundInv, LostInv
  <2> HIDE DEF B, R, U, K, A, N
  <2> QED
    BY <1>a, <1>t, <2>1
<1>w. ASSUME mpc' \in Rounds, Tasks' + B' + N' + U' = available',
             A' + ToWake' <= Tasks', Resumed' <= N' + U' - R' - K',
             lost' => A' + ToWake' < Tasks' \/ Resumed' < N' + U' - R' - K'
      PROVE  RoundInv' /\ LostInv'
  <2>1. Tasks' + B' + Reports' = available'
    BY <1>a, <1>b, <1>t, <1>w
  <2>2. mpc' \notin Reading2 \cup {"overrun", "write"}
    BY <1>w DEF Rounds, Reading2
  <2> QED
    BY <1>t, <1>w, <2>1, <2>2 DEF RoundInv, LostInv
<1>x. mpc \notin Rounds => B = 0 /\ R = 0 /\ K = 0 /\ A = 0 /\ U = 0 /\ ~ lost
  BY <1>a DEF RoundInv, LostInv
<1>y. ASSUME mpc' \notin Rounds, B' = 0, R' = 0, K' = 0, A' = 0, ~ lost',
             mpc' # "write" => Tasks' = 0,
             mpc' = "write" => Tasks' = i' - (IF out'[Manager] = <<>> THEN 0 ELSE 1),
             mpc' \notin Reading2 \cup {"overrun"} => N' = 0,
             mpc' \in Reading2 \cup {"overrun"} => N' = available' - i'
      PROVE  RoundInv' /\ LostInv'
  <2>1. Idle' /\ U' = 0
    BY <1>b, <1>y
  <2>2. Reports' = N'
    BY <1>b, <2>1
  <2> QED
    BY <1>y, <2>1, <2>2 DEF RoundInv, LostInv, Rounds, Reading2
<1> HIDE DEF B, R, U, K, A, N
(* The manager before the rounds.                                          *)
<1>i. ASSUME UNCHANGED <<Busy, Reporting, Unsent, Waking, Awake>>,
             UNCHANGED <<pipe1, pipe2, lost>>,
             mpc \in {"fork", "open1", "open2", "plan"},
             mpc' \in {"fork", "open1", "open2", "plan", "lock1"}
      PROVE  RoundInv' /\ LostInv'
  <2>1. mpc \notin Rounds \cup Reading2 \cup {"overrun", "write"}
    BY <1>i DEF Rounds, Reading2
  <2>2. mpc' \notin Rounds \cup Reading2 \cup {"overrun", "write"}
    BY <1>i DEF Rounds, Reading2
  <2>3. Tasks = 0 /\ N = 0 /\ ~ lost /\ B = 0 /\ R = 0 /\ K = 0 /\ A = 0
    BY <1>a, <1>x, <2>1 DEF RoundInv
  <2>4. Same /\ SameCounts
    BY <1>f, <1>g, <1>s, <1>i
  <2> QED
    BY <1>i, <1>y, <2>2, <2>3, <2>4
(* The manager reads a field that is not "n", and one that is.             *)
<1>j. ASSUME UNCHANGED <<wpc, out, stopped>>, pipe2 # <<>>, pipe2' = Tail(pipe2),
             Head(pipe2) \in {"len", "f", "l", "d"} \cup Path,
             UNCHANGED <<pipe1, lost, available, i>>, mpc \in Reading2,
             mpc' \in Reading2 \cup {"overrun"}
      PROVE  RoundInv' /\ LostInv'
  <2>1. Same /\ Tasks' = Tasks
    BY <1>f, <1>j, <1>s, NoneMoves
  <2>2. N' = N
    <3>1. N = CountIn(Tail(pipe2), {"n"}) + 0
      BY <1>c, <1>j, CountTail DEF N
    <3>2. CountIn(Tail(pipe2), {"n"}) \in Nat
      BY <1>c, <1>j, HeadTailProperties, CountType
    <3> QED
      BY <1>j, <3>1, <3>2 DEF N
  <2>3. /\ mpc \notin Rounds /\ mpc # "write"
        /\ mpc' \notin Rounds /\ mpc' # "write"
    BY <1>j DEF Rounds, Reading2
  <2>4. N = available - i /\ Tasks = 0 /\ ~ lost /\ B = 0 /\ R = 0 /\ K = 0 /\ A = 0
    BY <1>a, <1>j, <1>x, <2>3 DEF RoundInv
  <2> QED
    BY <1>j, <1>y, <2>1, <2>2, <2>3, <2>4
<1>k. ASSUME UNCHANGED <<wpc, out, stopped>>, pipe2 # <<>>, pipe2' = Tail(pipe2),
             Head(pipe2) = "n", UNCHANGED <<pipe1, lost, available>>, i' = i + 1,
             mpc \in Reading2, mpc' \in Reading2 \cup {"overrun"}
      PROVE  RoundInv' /\ LostInv'
  <2>1. Same /\ Tasks' = Tasks
    BY <1>f, <1>k, <1>s, NoneMoves
  <2>2. N' = N - 1
    <3>1. N = CountIn(Tail(pipe2), {"n"}) + 1
      BY <1>c, <1>k, CountTail DEF N
    <3>2. CountIn(Tail(pipe2), {"n"}) \in Nat
      BY <1>c, <1>k, HeadTailProperties, CountType
    <3> QED
      BY <1>k, <3>1, <3>2 DEF N
  <2>3. /\ mpc \notin Rounds /\ mpc # "write"
        /\ mpc' \notin Rounds /\ mpc' # "write"
    BY <1>k DEF Rounds, Reading2
  <2>4. N = available - i /\ Tasks = 0 /\ ~ lost /\ B = 0 /\ R = 0 /\ K = 0 /\ A = 0
    BY <1>a, <1>k, <1>x, <2>3 DEF RoundInv
  <2>5. N' = available' - i'
    BY <1>c, <1>k, <2>2, <2>4
  <2> QED
    BY <1>k, <1>y, <2>1, <2>3, <2>4, <2>5
(* What moves a worker on in a round.                                      *)
<1>h. ASSUME SamePlace, mpc \in Rounds, Tasks' + B' + N' + U' = Tasks + B + N + U,
             A' - Tasks' = A - Tasks, N' + U' - R' - K' = N + U - R - K
      PROVE  RoundInv' /\ LostInv'
  <2>1. ToWake' = ToWake
    BY <1>h DEF ToWake
  <2>2. Resumed' = Resumed /\ available' = available /\ lost' = lost /\ mpc' = mpc
    BY <1>h DEF Resumed, Down
  <2> HIDE DEF SamePlace
  <2>3. Tasks' + B' + N' + U' = available'
    BY <1>h, <1>v, <2>2
  <2>4. A' + ToWake' <= Tasks'
    <3>1. A' - Tasks' = A - Tasks /\ A + ToWake <= Tasks
      BY <1>h, <1>v
    <3>2. A \in Int /\ A' \in Int /\ Tasks \in Int /\ Tasks' \in Int /\ ToWake \in Int
      BY <1>a, <1>b, <1>u
    <3>3. \A a, b, c, d, x \in Int : b - d = a - c /\ a + x <= c => b + x <= d
      OBVIOUS
    <3>4. A' + ToWake <= Tasks'
      BY <3>1, <3>2, <3>3
    <3> QED
      BY <2>1, <3>4
  <2>5. Resumed' <= N' + U' - R' - K'
    BY <1>a, <1>b, <1>h, <1>u, <1>v, <2>2
  <2>6. lost' => A' + ToWake' < Tasks' \/ Resumed' < N' + U' - R' - K'
    <3>1. lost' => A + ToWake < Tasks \/ Resumed < N + U - R - K
      BY <1>h, <1>v, <2>2
    <3>2. A \in Int /\ A' \in Int /\ Tasks \in Int /\ Tasks' \in Int /\ ToWake \in Int
      BY <1>a, <1>b, <1>u
    <3>3. \A a, b, c, d, x \in Int : b - d = a - c /\ a + x < c => b + x < d
      OBVIOUS
    <3>4. A + ToWake < Tasks => A' + ToWake < Tasks'
      BY <1>h, <3>2, <3>3
    <3>5. Resumed < N + U - R - K => Resumed' < N' + U' - R' - K'
      BY <1>h, <2>2
    <3> QED
      BY <2>1, <3>1, <3>4, <3>5
  <2> QED
    BY <1>h, <1>w, <2>2, <2>3, <2>4, <2>5, <2>6
<1>1. ASSUME ManagerFork, UNCHANGED tree
      PROVE  RoundInv' /\ LostInv'
  <2>1. i + 1 \in Worker /\ wpc[i + 1] \in {"none", "open1"}
    BY <1>1, <1>c DEF ManagerFork, ManagerInv, Worker
  <2>2. UNCHANGED <<Busy, Reporting, Unsent, Waking, Awake>>
    BY <1>c, <1>1, <2>1 DEF ManagerFork, Busy, Reporting, Unsent, Waking, Awake
  <2>3. /\ mpc = "fork" /\ mpc' \in {"fork", "open1"}
        /\ UNCHANGED <<pipe1, pipe2, lost>>
    BY <1>1 DEF ManagerFork
  <2> QED
    BY <1>i, <2>2, <2>3
<1>2. ASSUME ManagerOpen1, UNCHANGED tree
      PROVE  RoundInv' /\ LostInv'
  <2>1. UNCHANGED <<Busy, Reporting, Unsent, Waking, Awake>>
    BY <1>2, NoneMoves DEF ManagerOpen1
  <2>2. mpc = "open1" /\ mpc' = "open2" /\ UNCHANGED <<pipe1, pipe2, lost>>
    BY <1>2 DEF ManagerOpen1
  <2> QED
    BY <1>i, <2>1, <2>2
<1>3. ASSUME ManagerOpen2, UNCHANGED tree
      PROVE  RoundInv' /\ LostInv'
  <2>1. UNCHANGED <<Busy, Reporting, Unsent, Waking, Awake>>
    BY <1>3, NoneMoves DEF ManagerOpen2
  <2>2. mpc = "open2" /\ mpc' = "plan" /\ UNCHANGED <<pipe1, pipe2, lost>>
    BY <1>3 DEF ManagerOpen2
  <2> QED
    BY <1>i, <2>1, <2>2
<1>4. ASSUME ManagerPlan, UNCHANGED tree
      PROVE  RoundInv' /\ LostInv'
  <2>1. UNCHANGED <<Busy, Reporting, Unsent, Waking, Awake>>
    BY <1>4, NoneMoves DEF ManagerPlan
  <2>2. mpc = "plan" /\ mpc' = "lock1" /\ UNCHANGED <<pipe1, pipe2, lost>>
    BY <1>4 DEF ManagerPlan
  <2> QED
    BY <1>i, <2>1, <2>2
<1>5. ASSUME ManagerLock1, UNCHANGED tree
      PROVE  RoundInv' /\ LostInv'
  <2>1. UNCHANGED <<Busy, Reporting, Unsent, Waking, Awake>>
    BY <1>c, <1>5 DEF ManagerLock1, Busy, Reporting, Unsent, Waking, Awake
  <2>2. /\ mpc = "lock1" /\ mpc' = "write" /\ UNCHANGED <<pipe1, pipe2, lost, out, i>>
        /\ i = 0 /\ out[Manager] = <<>>
    BY <1>5 DEF ManagerLock1, ManagerInv, OutInv
  <2>3. Tasks = 0 /\ N = 0 /\ ~ lost
    BY <1>a, <1>x, <2>2 DEF RoundInv, Rounds, Reading2
  <2>4. Same /\ Tasks' = 0 /\ N' = 0
    BY <1>f, <1>g, <1>s, <2>1, <2>2, <2>3
  <2>5. mpc \notin Rounds /\ mpc' \notin Rounds \cup Reading2 \cup {"overrun"}
    BY <2>2 DEF Rounds, Reading2
  <2> QED
    BY <1>x, <1>y, <2>2, <2>3, <2>4, <2>5
<1>6. ASSUME ManagerNextTask, UNCHANGED tree
      PROVE  RoundInv' /\ LostInv'
  <2>1. UNCHANGED <<Busy, Reporting, Unsent, Waking, Awake>>
    BY <1>c, <1>6 DEF ManagerNextTask, Busy, Reporting, Unsent, Waking, Awake
  <2>2. /\ mpc = "write" /\ mpc' = "write" /\ UNCHANGED <<pipe1, pipe2, lost>>
        /\ out[Manager] = <<>> /\ out'[Manager] # <<>> /\ i' = i + 1
    BY <1>c, <1>6 DEF ManagerNextTask, Message
  <2>3. Tasks = i /\ N = 0 /\ ~ lost
    BY <1>a, <1>c, <1>x, <2>2 DEF RoundInv, Rounds, Reading2
  <2>4. Same /\ Tasks' = i' - 1 /\ N' = 0
    BY <1>c, <1>f, <1>g, <1>s, <2>1, <2>2, <2>3
  <2>5. mpc \notin Rounds /\ mpc' \notin Rounds \cup Reading2 \cup {"overrun"}
    BY <2>2 DEF Rounds, Reading2
  <2> QED
    BY <1>x, <1>y, <2>2, <2>3, <2>4, <2>5
<1>7. ASSUME ManagerWrite, UNCHANGED tree
      PROVE  RoundInv' /\ LostInv'
  <2>1. UNCHANGED <<Busy, Reporting, Unsent, Waking, Awake>>
    BY <1>c, <1>7 DEF ManagerWrite, Busy, Reporting, Unsent, Waking, Awake
  <2>2. /\ mpc = "write" /\ mpc' = "write" /\ UNCHANGED <<pipe2, lost, i>>
        /\ out[Manager] # <<>> /\ out'[Manager] = Tail(out[Manager])
        /\ pipe1' = Append(pipe1, Head(out[Manager]))
    BY <1>c, <1>7 DEF ManagerWrite
  <2>3. Tasks = i - 1 /\ N = 0 /\ ~ lost
    BY <1>a, <1>c, <1>x, <2>2 DEF RoundInv, Rounds, Reading2
  <2>4. Same /\ N' = 0
    BY <1>g, <1>s, <2>1, <2>2, <2>3
  <2>5. mpc \notin Rounds /\ mpc' \notin Rounds \cup Reading2 \cup {"overrun"}
    BY <2>2 DEF Rounds, Reading2
  <2>6. PICK p \in Path : out[Manager] \in {<<p>>, <<"len", p>>}
    BY <2>2 DEF OutInv, TaskPending
  <2>7. /\ Tail(<<p>>) = <<>> /\ Tail(<<"len", p>>) = <<p>> /\ <<p>> # <<>>
        /\ Head(<<p>>) = p /\ Head(<<"len", p>>) = "len"
    BY TailShort
  <2>8. /\ CountIn(Append(pipe1, p), Path) = Tasks + 1
        /\ CountIn(Append(pipe1, "len"), Path) = Tasks + 0
    <3>1. p \in {"len"} \cup Path /\ "len" \in {"len"} \cup Path
      OBVIOUS
    <3>2. CountIn(Append(pipe1, p), Path) = Tasks + 1
      BY <1>c, <3>1, CountAppend DEF Tasks
    <3>3. CountIn(Append(pipe1, "len"), Path) = Tasks + 0
      BY <1>c, <3>1, CountAppend DEF Tasks
    <3> QED
      BY <3>2, <3>3
  <2>9. Tasks' = i' - (IF out'[Manager] = <<>> THEN 0 ELSE 1)
    <3>1. CASE out[Manager] = <<p>>
      BY <1>c, <2>2, <2>3, <2>7, <2>8, <3>1 DEF Tasks
    <3>2. CASE out[Manager] = <<"len", p>>
      BY <1>c, <2>2, <2>3, <2>7, <2>8, <3>2 DEF Tasks
    <3> QED
      BY <2>6, <3>1, <3>2
  <2> QED
    BY <1>x, <1>y, <2>2, <2>3, <2>4, <2>5, <2>9
<1>8. ASSUME ManagerUnlock1, UNCHANGED tree
      PROVE  RoundInv' /\ LostInv'
  <2>1. UNCHANGED <<Busy, Reporting, Unsent, Waking, Awake>>
    BY <1>c, <1>8 DEF ManagerUnlock1, Busy, Reporting, Unsent, Waking, Awake
  <2>2. /\ mpc = "write" /\ mpc' = "wake" /\ UNCHANGED <<pipe1, pipe2, lost, available>>
        /\ i = available /\ out[Manager] = <<>> /\ i' = 0
    BY <1>8 DEF ManagerUnlock1
  <2>3. Tasks = available /\ N = 0 /\ ~ lost
    BY <1>a, <1>c, <1>x, <2>2 DEF RoundInv, Rounds, Reading2
  <2>4. /\ B' = 0 /\ R' = 0 /\ U' = 0 /\ K' = 0 /\ A' = 0
        /\ Tasks' = available' /\ N' = 0 /\ available' \in Int
    BY <1>c, <1>f, <1>g, <1>s, <1>x, <2>1, <2>2, <2>3 DEF Rounds
  <2>5. mpc' \in Rounds /\ ToWake' = available' /\ Resumed' = 0
    BY <1>c, <2>2, <2>4 DEF Rounds, ToWake, Resumed
  <2> QED
    BY <1>w, <2>2, <2>3, <2>4, <2>5
<1>9. ASSUME ManagerWake, UNCHANGED tree
      PROVE  RoundInv' /\ LostInv'
  <2>1. /\ mpc = "wake" /\ mpc' = IF i + 1 = available THEN "stop" ELSE "wake"
        /\ stopped' = stopped \ {i + 1} /\ lost' = (lost \/ i + 1 \notin stopped)
        /\ i' = IF i + 1 = available THEN 0 ELSE i + 1
        /\ UNCHANGED <<pipe1, pipe2, wpc, out, available>>
    BY <1>9 DEF ManagerWake
  <2>2. i + 1 \in Worker /\ i < available
    BY <1>c, <2>1 DEF ManagerInv, Worker
  <2>3. /\ i + 1 \in Awake' <=> wpc[i + 1] \in {"lock1", "length", "task"}
        /\ i + 1 \in Awake <=> /\ wpc[i + 1] \in {"lock1", "length", "task"}
                               /\ i + 1 \notin stopped
        /\ i + 1 \in stopped => wpc[i + 1] = "lock1"
    BY <2>1, <2>2 DEF Awake, OutInv
  <2>4. UNCHANGED <<Busy, Reporting, Unsent, Waking>>
    BY <2>1 DEF Busy, Reporting, Unsent, Waking
  <2>5. B' = B /\ R' = R /\ U' = U /\ K' = K
    BY <2>4 DEF B, R, U, K
  <2>6. A' = A - One(i + 1 \in Awake) + One(i + 1 \in Awake')
    BY <1>o, <2>1, <2>2
  <2>7. A' = A + One(i + 1 \in stopped)
    BY <1>a, <2>3, <2>6 DEF One
  <2>8. SameCounts
    BY <1>f, <1>g, <2>1
  <2>9. mpc \in Rounds /\ mpc' \in Rounds /\ Down = 0 /\ Resumed = 0
    BY <2>1 DEF Rounds, Down, ManagerInv, Resumed
  <2>10. ToWake = available - i /\ ToWake' = available - (i + 1)
    BY <1>c, <2>1 DEF ToWake
  <2>11. Resumed' = 0
    BY <1>c, <2>1, <2>9, <2>2 DEF Resumed, Down
  <2>12. /\ Tasks' + B' + N' + U' = available' /\ Resumed' <= N' + U' - R' - K'
    BY <1>v, <2>1, <2>5, <2>8, <2>9, <2>11
  <2>13. CASE i + 1 \in stopped
    <3>1. A' = A + 1
      BY <2>7, <2>13 DEF One
    <3>2. lost' => lost
      BY <2>1, <2>13
    <3>3. A' + ToWake' <= Tasks'
      BY <1>a, <1>c, <1>v, <2>8, <2>9, <2>10, <3>1
    <3>4. lost' => A' + ToWake' < Tasks' \/ Resumed' < N' + U' - R' - K'
      BY <1>a, <1>c, <1>v, <2>5, <2>8, <2>9, <2>10, <2>11, <3>1, <3>2
    <3> QED
      BY <1>w, <2>9, <2>12, <3>3, <3>4
  <2>14. CASE i + 1 \notin stopped
    <3>1. A' = A
      BY <1>a, <2>7, <2>14 DEF One
    <3> QED
      BY <1>a, <1>c, <1>v, <1>w, <2>5, <2>8, <2>9, <2>10, <2>11, <2>12, <3>1
  <2> QED
    BY <2>13, <2>14
<1>10. ASSUME ManagerStop, UNCHANGED tree
      PROVE  RoundInv' /\ LostInv'
  <2>1. /\ mpc = "stop" /\ mpc' = IF i + 1 = available THEN "lock2" ELSE "stop"
        /\ stopped' = stopped \cup {Manager} /\ Manager \notin stopped
        /\ i' = IF i + 1 = available THEN 0 ELSE i + 1
        /\ UNCHANGED <<pipe1, pipe2, wpc, out, available, lost>>
    BY <1>10 DEF ManagerStop
  <2>2. UNCHANGED <<Busy, Reporting, Unsent, Waking, Awake>>
    BY <2>1 DEF Busy, Reporting, Unsent, Waking, Awake
  <2>3. Same /\ SameCounts
    BY <1>f, <1>g, <1>s, <2>1, <2>2
  <2>4. mpc \in Rounds /\ mpc' \in Rounds
    BY <2>1 DEF Rounds
  <2>5. ToWake = 0 /\ ToWake' = 0
    BY <2>1 DEF ToWake
  <2>6. Down = 0 /\ Down' = 1
    BY <2>1 DEF Down
  <2>7. Resumed' = Resumed
    BY <1>c, <2>1, <2>6 DEF Resumed
  <2> QED
    BY <1>v, <1>w, <2>1, <2>3, <2>4, <2>5, <2>7
<1>11. ASSUME ManagerLock2, UNCHANGED tree
      PROVE  RoundInv' /\ LostInv'
  <2>1. /\ mpc = "lock2" /\ mpc' = "length" /\ Manager \notin stopped
        /\ UNCHANGED <<pipe1, pipe2, wpc, out, available, lost, stopped, i>>
    BY <1>11 DEF ManagerLock2
  <2>2. UNCHANGED <<Busy, Reporting, Unsent, Waking, Awake>>
    BY <2>1, NoneMoves
  <2>3. Same /\ SameCounts
    BY <1>f, <1>g, <1>s, <2>1, <2>2
  <2>4. mpc \in Rounds /\ ToWake = 0 /\ Resumed = available /\ i = 0
    BY <1>c, <2>1 DEF Rounds, ToWake, Resumed, Down, ManagerInv
  <2>5. /\ Tasks = 0 /\ B = 0 /\ R = 0 /\ K = 0 /\ A = 0 /\ N + U = available
        /\ U = 0 /\ ~ lost
    BY <1>a, <1>c, <1>v, <2>4
  <2>6. N' = available' - i'
    BY <1>a, <1>c, <2>1, <2>3, <2>4, <2>5
  <2>7. mpc' \notin Rounds /\ mpc' \in Reading2
    BY <2>1 DEF Rounds, Reading2
  <2> QED
    BY <1>y, <2>1, <2>3, <2>5, <2>6, <2>7
<1>12. ASSUME ManagerReadLength, UNCHANGED tree
      PROVE  RoundInv' /\ LostInv'
  <2>1. UNCHANGED <<wpc, out, stopped>>
    BY <1>12 DEF ManagerReadLength, ManagerRead
  <2>2. /\ pipe2 # <<>> /\ pipe2' = Tail(pipe2) /\ Head(pipe2) = "len"
        /\ UNCHANGED <<pipe1, lost, available, i>>
    BY <1>12 DEF ManagerReadLength, ManagerRead, Framed
  <2>3. mpc \in Reading2 /\ mpc' \in Reading2 \cup {"overrun"}
    BY <1>12 DEF ManagerReadLength, ManagerRead, Reading2
  <2> QED
    BY <1>j, <2>1, <2>2, <2>3
<1>13. ASSUME ManagerReadFile, UNCHANGED tree
      PROVE  RoundInv' /\ LostInv'
  <2>1. UNCHANGED <<wpc, out, stopped>>
    BY <1>13 DEF ManagerReadFile, ManagerRead
  <2>2. /\ pipe2 # <<>> /\ pipe2' = Tail(pipe2) /\ Head(pipe2) = "f"
        /\ UNCHANGED <<pipe1, lost, available, i>>
    BY <1>13 DEF ManagerReadFile, ManagerRead
  <2>3. mpc \in Reading2 /\ mpc' \in Reading2 \cup {"overrun"}
    BY <1>13 DEF ManagerReadFile, ManagerRead, Reading2
  <2> QED
    BY <1>j, <2>1, <2>2, <2>3
<1>14. ASSUME ManagerReadLine, UNCHANGED tree
      PROVE  RoundInv' /\ LostInv'
  <2>1. UNCHANGED <<wpc, out, stopped>>
    BY <1>14 DEF ManagerReadLine, ManagerRead
  <2>2. /\ pipe2 # <<>> /\ pipe2' = Tail(pipe2) /\ Head(pipe2) = "l"
        /\ UNCHANGED <<pipe1, lost, available, i>>
    BY <1>14 DEF ManagerReadLine, ManagerRead
  <2>3. mpc \in Reading2 /\ mpc' \in Reading2 \cup {"overrun"}
    BY <1>14 DEF ManagerReadLine, ManagerRead, Reading2
  <2> QED
    BY <1>j, <2>1, <2>2, <2>3
<1>15. ASSUME ManagerReadDirectory, UNCHANGED tree
      PROVE  RoundInv' /\ LostInv'
  <2>1. UNCHANGED <<wpc, out, stopped>>
    BY <1>15 DEF ManagerReadDirectory, ManagerRead
  <2>2. /\ pipe2 # <<>> /\ pipe2' = Tail(pipe2) /\ Head(pipe2) = "d"
        /\ UNCHANGED <<pipe1, lost, available, i>>
    BY <1>15 DEF ManagerReadDirectory, ManagerRead
  <2>3. mpc \in Reading2 /\ mpc' \in Reading2 \cup {"overrun"}
    BY <1>15 DEF ManagerReadDirectory, ManagerRead, Reading2
  <2> QED
    BY <1>j, <2>1, <2>2, <2>3
<1>16. ASSUME ManagerReadNothing, UNCHANGED tree
      PROVE  RoundInv' /\ LostInv'
  <2>1. UNCHANGED <<wpc, out, stopped>>
    BY <1>16 DEF ManagerReadNothing, ManagerRead
  <2>2. /\ pipe2 # <<>> /\ pipe2' = Tail(pipe2) /\ Head(pipe2) = "n"
        /\ UNCHANGED <<pipe1, lost, available>> /\ i' = i + 1
    BY <1>16 DEF ManagerReadNothing, ManagerRead
  <2>3. mpc \in Reading2 /\ mpc' \in Reading2 \cup {"overrun"}
    BY <1>16 DEF ManagerReadNothing, ManagerRead, Reading2
  <2> QED
    BY <1>k, <2>1, <2>2, <2>3
<1>17. ASSUME ManagerReadDirLength, UNCHANGED tree
      PROVE  RoundInv' /\ LostInv'
  <2>1. UNCHANGED <<wpc, out, stopped>>
    BY <1>17 DEF ManagerReadDirLength, ManagerRead
  <2>2. /\ pipe2 # <<>> /\ pipe2' = Tail(pipe2) /\ Head(pipe2) = "len"
        /\ UNCHANGED <<pipe1, lost, available, i>>
    BY <1>17 DEF ManagerReadDirLength, ManagerRead, Framed
  <2>3. mpc \in Reading2 /\ mpc' \in Reading2 \cup {"overrun"}
    BY <1>17 DEF ManagerReadDirLength, ManagerRead, Reading2
  <2> QED
    BY <1>j, <2>1, <2>2, <2>3
<1>18. ASSUME ManagerReadDir, UNCHANGED tree
      PROVE  RoundInv' /\ LostInv'
  <2>1. UNCHANGED <<wpc, out, stopped>>
    BY <1>18 DEF ManagerReadDir, ManagerRead
  <2>2. /\ pipe2 # <<>> /\ pipe2' = Tail(pipe2) /\ Head(pipe2) \in Path
        /\ UNCHANGED <<pipe1, lost, available, i>>
    BY <1>18 DEF ManagerReadDir, ManagerRead, Framed
  <2>3. mpc \in Reading2 /\ mpc' \in Reading2 \cup {"overrun"}
    BY <1>18 DEF ManagerReadDir, ManagerRead, Reading2
  <2> QED
    BY <1>j, <2>1, <2>2, <2>3
<1>19. ASSUME ManagerUnlock2, UNCHANGED tree
      PROVE  RoundInv' /\ LostInv'
  <2>1. UNCHANGED <<Busy, Reporting, Unsent, Waking, Awake>>
    BY <1>19, NoneMoves DEF ManagerUnlock2
  <2>2. /\ mpc = "length" /\ mpc' \in {"kill", "plan"} /\ i = available
        /\ UNCHANGED <<pipe1, pipe2, lost>>
    BY <1>19 DEF ManagerUnlock2
  <2>3. /\ Tasks = 0 /\ N = 0 /\ ~ lost /\ B = 0 /\ R = 0 /\ K = 0 /\ A = 0
    BY <1>a, <1>c, <1>x, <2>2 DEF RoundInv, Rounds, Reading2
  <2>4. Same /\ SameCounts
    BY <1>f, <1>g, <1>s, <2>1, <2>2
  <2>5. mpc' \notin Rounds \cup Reading2 \cup {"overrun", "write"}
    BY <2>2 DEF Rounds, Reading2
  <2> QED
    BY <1>y, <2>2, <2>3, <2>4, <2>5
<1>20. ASSUME ManagerKill, UNCHANGED tree
      PROVE  RoundInv' /\ LostInv'
  <2>1. /\ mpc = "kill" /\ mpc' \in {"kill", "done"} /\ i + 1 \in Worker
        /\ wpc' = [wpc EXCEPT ![i + 1] = "killed"] /\ stopped' = stopped \ {i + 1}
        /\ UNCHANGED <<pipe1, pipe2, lost, out>>
    BY <1>c, <1>20 DEF ManagerKill, ManagerInv, Worker
  <2>2. Idle /\ Tasks = 0 /\ N = 0 /\ ~ lost /\ B = 0 /\ R = 0 /\ K = 0 /\ A = 0
    BY <1>a, <1>x, <2>1 DEF RoundInv, Rounds, Reading2
  <2>3. i + 1 \notin Busy' \cup Reporting' \cup Waking' \cup Awake'
    BY <1>c, <2>1 DEF Busy, Reporting, Waking, Awake
  <2>4. i + 1 \notin Busy \cup Reporting \cup Waking \cup Awake
    BY <2>2 DEF Idle
  <2>5. B' = 0 /\ R' = 0 /\ K' = 0 /\ A' = 0
    <3>1. \A u \in Worker : u # i + 1 =>
            wpc'[u] = wpc[u] /\ out'[u] = out[u] /\ (u \in stopped' <=> u \in stopped)
      BY <1>c, <2>1
    <3>2. /\ B' = B - One(i + 1 \in Busy) + One(i + 1 \in Busy')
          /\ R' = R - One(i + 1 \in Reporting) + One(i + 1 \in Reporting')
          /\ K' = K - One(i + 1 \in Waking) + One(i + 1 \in Waking')
          /\ A' = A - One(i + 1 \in Awake) + One(i + 1 \in Awake')
      BY <1>o, <2>1, <3>1
    <3>3. /\ One(i + 1 \in Busy) = 0 /\ One(i + 1 \in Busy') = 0
          /\ One(i + 1 \in Reporting) = 0 /\ One(i + 1 \in Reporting') = 0
          /\ One(i + 1 \in Waking) = 0 /\ One(i + 1 \in Waking') = 0
          /\ One(i + 1 \in Awake) = 0 /\ One(i + 1 \in Awake') = 0
      BY <2>3, <2>4 DEF One
    <3> QED
      BY <2>2, <3>2, <3>3
  <2>6. SameCounts
    BY <1>f, <1>g, <2>1
  <2>7. mpc' \notin Rounds \cup Reading2 \cup {"overrun", "write"}
    BY <2>1 DEF Rounds, Reading2
  <2> QED
    BY <1>y, <2>1, <2>2, <2>5, <2>6, <2>7
<1>21. ASSUME NEW w \in Worker, WorkerOpen1(w), UNCHANGED tree
      PROVE  RoundInv' /\ LostInv'
  <2>1. UNCHANGED <<Busy, Reporting, Unsent, Waking, Awake>>
    BY <1>c, <1>21 DEF WorkerOpen1, Busy, Reporting, Unsent, Waking, Awake
  <2>2. UNCHANGED <<pipe1, pipe2>> /\ SamePlace
    BY <1>c, <1>21 DEF WorkerOpen1
  <2> QED
    BY <1>e, <1>f, <1>g, <1>s, <2>1, <2>2
<1>22. ASSUME NEW w \in Worker, WorkerOpen2(w), UNCHANGED tree
      PROVE  RoundInv' /\ LostInv'
  <2>1. UNCHANGED <<Busy, Reporting, Unsent, Waking, Awake>>
    BY <1>c, <1>22 DEF WorkerOpen2, Busy, Reporting, Unsent, Waking, Awake
  <2>2. UNCHANGED <<pipe1, pipe2>> /\ SamePlace
    BY <1>c, <1>22 DEF WorkerOpen2
  <2> QED
    BY <1>e, <1>f, <1>g, <1>s, <2>1, <2>2
<1>23. ASSUME NEW w \in Worker, WorkerSetup(w), UNCHANGED tree
      PROVE  RoundInv' /\ LostInv'
  <2>1. UNCHANGED <<Busy, Reporting, Unsent, Waking, Awake>>
    BY <1>c, <1>23 DEF WorkerSetup, Busy, Reporting, Unsent, Waking, Awake
  <2>2. UNCHANGED <<pipe1, pipe2>> /\ SamePlace
    BY <1>c, <1>23 DEF WorkerSetup
  <2> QED
    BY <1>e, <1>f, <1>g, <1>s, <2>1, <2>2
<1>24. ASSUME NEW w \in Worker, WorkerStop(w), UNCHANGED tree
      PROVE  RoundInv' /\ LostInv'
  <2>1. UNCHANGED <<Busy, Reporting, Unsent, Waking, Awake>>
    BY <1>c, <1>24 DEF WorkerStop, Busy, Reporting, Unsent, Waking, Awake
  <2>2. UNCHANGED <<pipe1, pipe2>> /\ SamePlace
    BY <1>c, <1>24 DEF WorkerStop
  <2> QED
    BY <1>e, <1>f, <1>g, <1>s, <2>1, <2>2
<1>25. ASSUME NEW w \in Worker, WorkerLock1(w), UNCHANGED tree
      PROVE  RoundInv' /\ LostInv'
  <2>1. UNCHANGED <<Busy, Reporting, Unsent, Waking, Awake>>
    BY <1>c, <1>25 DEF WorkerLock1, Busy, Reporting, Unsent, Waking, Awake
  <2>2. UNCHANGED <<pipe1, pipe2>> /\ SamePlace
    BY <1>c, <1>25 DEF WorkerLock1
  <2> QED
    BY <1>e, <1>f, <1>g, <1>s, <2>1, <2>2
<1>26. ASSUME NEW w \in Worker, WorkerReadLength(w), UNCHANGED tree
      PROVE  RoundInv' /\ LostInv'
  <2>1. UNCHANGED <<Busy, Reporting, Unsent, Waking, Awake>>
    BY <1>c, <1>26 DEF WorkerReadLength, Busy, Reporting, Unsent, Waking, Awake
  <2>2. UNCHANGED pipe2 /\ SamePlace /\ pipe1 # <<>> /\ pipe1' = Tail(pipe1)
    BY <1>26 DEF WorkerReadLength
  <2>3. Head(pipe1) = "len"
    BY <1>26 DEF WorkerReadLength, Framed
  <2>4. Tasks' = Tasks
    <3>1. Tasks = CountIn(Tail(pipe1), Path) + 0
      BY <1>c, <2>2, <2>3, CountTail DEF Tasks
    <3>2. CountIn(Tail(pipe1), Path) \in Nat
      BY <1>c, <2>2, HeadTailProperties, CountType
    <3> QED
      BY <2>2, <3>1, <3>2 DEF Tasks
  <2> QED
    BY <1>e, <1>g, <1>s, <2>1, <2>2, <2>4
<1>27. ASSUME NEW w \in Worker, WorkerReadTask(w), UNCHANGED tree
      PROVE  RoundInv' /\ LostInv'
  <2>1. /\ wpc[w] = "task" /\ wpc' = [wpc EXCEPT ![w] = "unlock1"] /\ w \notin stopped
        /\ pipe1 # <<>> /\ pipe1' = Tail(pipe1) /\ SamePlace
        /\ UNCHANGED <<out, pipe2, stopped>>
    BY <1>27 DEF WorkerReadTask
  <2>2. B' = B + 1 /\ R' = R /\ U' = U /\ K' = K /\ A' = A - 1
    <3>1. w \notin Busy /\ w \in Busy' /\ w \in Awake /\ w \notin Awake'
      BY <1>c, <2>1 DEF Busy, Reporting, Unsent, Waking, Awake
    <3>2. w \notin Reporting \cup Reporting' \cup Unsent \cup Unsent' \cup Waking \cup Waking'
      BY <1>c, <2>1 DEF Busy, Reporting, Unsent, Waking, Awake
    <3>3. \A u \in Worker : u # w =>
            wpc'[u] = wpc[u] /\ out'[u] = out[u] /\ (u \in stopped' <=> u \in stopped)
      BY <1>c, <2>1
    <3> QED
      BY <1>a, <1>b, <1>o, <3>1, <3>2, <3>3 DEF One
  <2>3. Tasks' = Tasks - 1
    <3>1. Head(pipe1) \in Path
      BY <2>1 DEF Framed
    <3>2. Tasks = CountIn(Tail(pipe1), Path) + 1
      BY <1>c, <2>1, <3>1, CountTail DEF Tasks
    <3>3. CountIn(Tail(pipe1), Path) \in Nat
      BY <1>c, <2>1, HeadTailProperties, CountType
    <3> QED
      BY <2>1, <3>2, <3>3 DEF Tasks
  <2>4. N' = N
    BY <1>g, <2>1
  <2>5. mpc \in Rounds
    BY <1>a, <1>b, <2>2 DEF RoundInv
  <2> QED
    BY <1>h, <2>1, <2>2, <2>3, <2>4, <2>5, <1>a, <1>b
<1>28. ASSUME NEW w \in Worker, WorkerUnlock1(w), UNCHANGED tree
      PROVE  RoundInv' /\ LostInv'
  <2>1. UNCHANGED <<Busy, Reporting, Unsent, Waking, Awake>>
    BY <1>c, <1>28 DEF WorkerUnlock1, Busy, Reporting, Unsent, Waking, Awake
  <2>2. UNCHANGED <<pipe1, pipe2>> /\ SamePlace
    BY <1>c, <1>28 DEF WorkerUnlock1
  <2> QED
    BY <1>e, <1>f, <1>g, <1>s, <2>1, <2>2
<1>29. ASSUME NEW w \in Worker, WorkerLock2(w), UNCHANGED tree
      PROVE  RoundInv' /\ LostInv'
  <2>1. UNCHANGED <<Busy, Reporting, Unsent, Waking, Awake>>
    BY <1>c, <1>29 DEF WorkerLock2, Busy, Reporting, Unsent, Waking, Awake
  <2>2. UNCHANGED <<pipe1, pipe2>> /\ SamePlace
    BY <1>c, <1>29 DEF WorkerLock2
  <2> QED
    BY <1>e, <1>f, <1>g, <1>s, <2>1, <2>2
<1>30. ASSUME NEW w \in Worker, WorkerOpenDir(w), UNCHANGED tree
      PROVE  RoundInv' /\ LostInv'
  <2>1. UNCHANGED <<Busy, Reporting, Unsent, Waking, Awake>>
    BY <1>c, <1>30 DEF WorkerOpenDir, Busy, Reporting, Unsent, Waking, Awake
  <2>2. UNCHANGED <<pipe1, pipe2>> /\ SamePlace
    BY <1>c, <1>30 DEF WorkerOpenDir
  <2> QED
    BY <1>e, <1>f, <1>g, <1>s, <2>1, <2>2
<1>31. ASSUME NEW w \in Worker, WorkerExit(w), UNCHANGED tree
      PROVE  RoundInv' /\ LostInv'
  <2>1. UNCHANGED <<Busy, Reporting, Unsent, Waking, Awake>>
    BY <1>c, <1>31 DEF WorkerExit, OpenFails, Busy, Reporting, Unsent, Waking, Awake
  <2>2. UNCHANGED <<pipe1, pipe2>> /\ SamePlace
    BY <1>c, <1>31 DEF WorkerExit, OpenFails
  <2> QED
    BY <1>e, <1>f, <1>g, <1>s, <2>1, <2>2
<1>32. ASSUME NEW w \in Worker, WorkerReadLast(w), UNCHANGED tree
      PROVE  RoundInv' /\ LostInv'
  <2>1. /\ wpc[w] = "read" /\ wpc' = [wpc EXCEPT ![w] = "last"]
        /\ out' = [out EXCEPT ![w] = Message("n")] /\ SamePlace
        /\ UNCHANGED <<pipe1, pipe2, stopped>>
    BY <1>c, <1>32 DEF WorkerReadLast
  <2>2. Message("n") # <<>>
    BY DEF Message
  <2>3. B' = B - 1 /\ R' = R + 1 /\ U' = U + 1 /\ K' = K /\ A' = A
    <3>1. w \in Busy /\ w \notin Busy' /\ w \in Reporting' /\ w \in Unsent'
      BY <1>c, <2>1, <2>2 DEF Busy, Reporting, Unsent, Waking, Awake
    <3>2. w \notin Reporting \cup Unsent \cup Waking \cup Waking' \cup Awake \cup Awake'
      BY <1>c, <2>1 DEF Busy, Reporting, Unsent, Waking, Awake
    <3>3. \A u \in Worker : u # w =>
            wpc'[u] = wpc[u] /\ out'[u] = out[u] /\ (u \in stopped' <=> u \in stopped)
      BY <1>c, <2>1
    <3> QED
      BY <1>a, <1>b, <1>o, <3>1, <3>2, <3>3 DEF One
  <2>4. SameCounts
    BY <1>f, <1>g, <2>1
  <2>5. mpc \in Rounds
    BY <1>a, <1>b, <2>3 DEF RoundInv
  <2> QED
    BY <1>h, <2>1, <2>3, <2>4, <2>5, <1>a, <1>b
<1>33. ASSUME NEW w \in Worker, WorkerWrite(w), UNCHANGED tree
      PROVE  RoundInv' /\ LostInv'
  <2>1. /\ wpc[w] \in {"read", "last"} /\ out[w] # <<>> /\ SamePlace
        /\ out' = [out EXCEPT ![w] = Tail(out[w])]
        /\ pipe2' = Append(pipe2, Head(out[w])) /\ UNCHANGED <<pipe1, wpc, stopped>>
    BY <1>c, <1>33 DEF WorkerWrite
  <2>2. Head(out[w]) \in Field /\ out[w] \in Seq(Field) /\ Head(out[w]) = out[w][1]
        /\ Len(out[w]) >= 1
    BY <1>c, <2>1, HeadTailProperties, EmptySeq
  <2>3. N' = N + One(Head(out[w]) = "n")
    BY <1>c, <2>1, <2>2, CountAppend DEF One, N
  <2>4. B' = B /\ R' = R /\ K' = K /\ A' = A
        /\ U' = U - One(w \in Unsent) + One(w \in Unsent')
    <3>1. UNCHANGED <<Busy, Reporting, Waking, Awake>>
      BY <1>c, <2>1 DEF Busy, Reporting, Waking, Awake
    <3>2. \A u \in Worker : u # w =>
            wpc'[u] = wpc[u] /\ out'[u] = out[u] /\ (u \in stopped' <=> u \in stopped)
      BY <1>c, <2>1
    <3> QED
      BY <1>o, <3>1, <3>2 DEF B, R, K, A
  <2>5. One(Head(out[w]) = "n") - One(w \in Unsent) + One(w \in Unsent') = 0
    <3>1. CASE wpc[w] = "read"
      BY <3>1, <2>1, <2>2 DEF OutInv, Unsent, One
    <3>2. CASE wpc[w] = "last"
      <4>1. w \in Unsent /\ out[w] \in {<<"n">>, <<"len", "n">>}
        BY <3>2, <2>1 DEF OutInv, Unsent
      <4>2. Tail(<<"n">>) = <<>> /\ Tail(<<"len", "n">>) = <<"n">>
        BY TailShort
      <4>3. w \in Unsent' <=> Tail(out[w]) # <<>>
        BY <1>c, <2>1, <3>2 DEF Unsent
      <4>4. Head(<<"n">>) = "n" /\ Head(<<"len", "n">>) = "len" /\ <<"n">> # <<>>
        OBVIOUS
      <4>5. CASE out[w] = <<"n">>
        BY <4>1, <4>2, <4>3, <4>4, <4>5 DEF One
      <4>6. CASE out[w] = <<"len", "n">>
        BY <4>1, <4>2, <4>3, <4>4, <4>6 DEF One
      <4> QED
        BY <4>1, <4>5, <4>6
    <3> QED
      BY <2>1, <3>1, <3>2
  <2>6. Tasks' = Tasks /\ N' + U' = N + U
    <3>1. One(Head(out[w]) = "n") \in {0, 1} /\ One(w \in Unsent) \in {0, 1}
          /\ One(w \in Unsent') \in {0, 1}
      BY DEF One
    <3>2. \E x, y, z \in {0, 1} : N' = N + x /\ U' = U - y + z /\ x - y + z = 0
      BY <2>3, <2>4, <2>5, <3>1
    <3>3. Tasks' = Tasks
      BY <1>f, <2>1
    <3> HIDE DEF SamePlace
    <3> QED
      BY <1>a, <1>b, <3>2, <3>3
  <2>7. mpc \in Rounds
    <3>1. Busy # {} \/ Reporting # {}
      BY <2>1 DEF Busy, Reporting
    <3> QED
      BY <3>1 DEF RoundInv, Idle
  <2>8. /\ Tasks' + B' + N' + U' = Tasks + B + N + U
        /\ A' - Tasks' = A - Tasks /\ N' + U' - R' - K' = N + U - R - K
    BY <1>a, <1>b, <2>4, <2>6
  <2> QED
    BY <1>h, <2>1, <2>7, <2>8
<1>34. ASSUME NEW w \in Worker, WorkerUnlock2(w), UNCHANGED tree
      PROVE  RoundInv' /\ LostInv'
  <2>1. /\ wpc[w] = "last" /\ wpc' = [wpc EXCEPT ![w] = "wake"] /\ out[w] = <<>>
        /\ SamePlace /\ UNCHANGED <<out, pipe1, pipe2, stopped>>
    BY <1>34 DEF WorkerUnlock2
  <2>2. B' = B /\ R' = R - 1 /\ U' = U /\ K' = K + 1 /\ A' = A
    <3>1. w \in Reporting /\ w \notin Reporting' /\ w \notin Waking /\ w \in Waking'
      BY <1>c, <2>1 DEF Busy, Reporting, Unsent, Waking, Awake
    <3>2. w \notin Busy \cup Busy' \cup Unsent \cup Unsent' \cup Awake \cup Awake'
      BY <1>c, <2>1 DEF Busy, Reporting, Unsent, Waking, Awake
    <3>3. \A u \in Worker : u # w =>
            wpc'[u] = wpc[u] /\ out'[u] = out[u] /\ (u \in stopped' <=> u \in stopped)
      BY <1>c, <2>1
    <3> QED
      BY <1>a, <1>b, <1>o, <3>1, <3>2, <3>3 DEF One
  <2>3. SameCounts
    BY <1>f, <1>g, <2>1
  <2>4. mpc \in Rounds
    BY <1>a, <1>b, <2>2 DEF RoundInv
  <2> QED
    BY <1>h, <2>1, <2>2, <2>3, <2>4, <1>a, <1>b
<1>35. ASSUME NEW w \in Worker, WorkerWake(w), UNCHANGED tree
      PROVE  RoundInv' /\ LostInv'
  <2>1. /\ wpc[w] = "wake" /\ wpc' = [wpc EXCEPT ![w] = "stop"]
        /\ stopped' = stopped \ {Manager} /\ lost' = (lost \/ Manager \notin stopped)
        /\ UNCHANGED <<out, pipe1, pipe2, mpc, i, available>>
    BY <1>35 DEF WorkerWake
  <2>2. B' = B /\ R' = R /\ U' = U /\ K' = K - 1 /\ A' = A
    <3>1. w \in Waking /\ w \notin Waking'
      BY <1>c, <2>1 DEF Busy, Reporting, Unsent, Waking, Awake
    <3>2. w \notin Busy \cup Busy' \cup Reporting \cup Reporting' \cup Unsent \cup Unsent'
                 \cup Awake \cup Awake'
      BY <1>c, <2>1 DEF Busy, Reporting, Unsent, Waking, Awake
    <3>3. \A u \in Worker : u # w =>
            wpc'[u] = wpc[u] /\ out'[u] = out[u] /\ (u \in stopped' <=> u \in stopped)
      BY <1>c, <2>1
    <3> QED
      BY <1>a, <1>b, <1>o, <3>1, <3>2, <3>3 DEF One
  <2>3. SameCounts
    BY <1>f, <1>g, <2>1
  <2>4. mpc \in Rounds
    BY <1>a, <1>b, <2>2 DEF RoundInv
  <2>5. ToWake' = ToWake /\ Down' = 0
    BY <2>1 DEF ToWake, Down
  <2>6. Resumed' = Resumed + Down
    BY <1>c, <1>d, <2>1, <2>5 DEF Resumed, Down, ManagerInv
  <2>7. lost' => lost \/ Down = 0
    BY <2>1 DEF Down
  <2>8. /\ mpc' \in Rounds /\ Tasks' + B' + N' + U' = available'
        /\ A' + ToWake' <= Tasks' /\ Resumed' <= N' + U' - R' - K'
    BY <1>a, <1>b, <1>c, <1>d, <1>u, <1>v, <2>1, <2>2, <2>3, <2>4, <2>5, <2>6
  <2>9. lost' => A' + ToWake' < Tasks' \/ Resumed' < N' + U' - R' - K'
    BY <1>a, <1>b, <1>d, <1>u, <1>v, <2>2, <2>3, <2>4, <2>5, <2>6, <2>7
  <2> QED
    BY <1>w, <2>8, <2>9
<1>36. ASSUME NEW w \in Worker, NEW e \in Entry, WorkerReadText(w, e), UNCHANGED tree
      PROVE  RoundInv' /\ LostInv'
  <2>1. UNCHANGED <<Busy, Reporting, Unsent, Waking, Awake>>
    BY <1>c, <1>36 DEF WorkerReadText, ReadEntry, Busy, Reporting, Unsent, Waking, Awake
  <2>2. UNCHANGED <<pipe1, pipe2>> /\ SamePlace
    BY <1>c, <1>36 DEF WorkerReadText, ReadEntry
  <2> QED
    BY <1>e, <1>f, <1>g, <1>s, <2>1, <2>2
<1>37. ASSUME NEW w \in Worker, NEW e \in Entry, WorkerReadEndless(w, e), UNCHANGED tree
      PROVE  RoundInv' /\ LostInv'
  <2>1. UNCHANGED <<Busy, Reporting, Unsent, Waking, Awake>>
    BY <1>c, <1>37 DEF WorkerReadEndless, ReadEntry, Busy, Reporting, Unsent, Waking, Awake
  <2>2. UNCHANGED <<pipe1, pipe2>> /\ SamePlace
    BY <1>c, <1>37 DEF WorkerReadEndless, ReadEntry
  <2> QED
    BY <1>e, <1>f, <1>g, <1>s, <2>1, <2>2
<1>38. ASSUME NEW w \in Worker, NEW e \in Entry, WorkerReadDirectory(w, e), UNCHANGED tree
      PROVE  RoundInv' /\ LostInv'
  <2>1. UNCHANGED <<Busy, Reporting, Unsent, Waking, Awake>>
    BY <1>c, <1>38 DEF WorkerReadDirectory, ReadEntry, Busy, Reporting, Unsent, Waking,
       Awake
  <2>2. UNCHANGED <<pipe1, pipe2>> /\ SamePlace
    BY <1>c, <1>38 DEF WorkerReadDirectory, ReadEntry
  <2> QED
    BY <1>e, <1>f, <1>g, <1>s, <2>1, <2>2
<1>39. ASSUME NEW w \in Worker, NEW e \in Entry, WorkerReadOther(w, e), UNCHANGED tree
      PROVE  RoundInv' /\ LostInv'
  <2>1. UNCHANGED <<Busy, Reporting, Unsent, Waking, Awake>>
    BY <1>c, <1>39 DEF WorkerReadOther, ReadEntry, Busy, Reporting, Unsent, Waking, Awake
  <2>2. UNCHANGED <<pipe1, pipe2>> /\ SamePlace
    BY <1>c, <1>39 DEF WorkerReadOther, ReadEntry
  <2> QED
    BY <1>e, <1>f, <1>g, <1>s, <2>1, <2>2
<1> QED
  <2>1. CASE ManagerStep
    BY <2>1, <1>1, <1>2, <1>3, <1>4, <1>5, <1>6, <1>7, <1>8, <1>9, <1>10, <1>11, <1>12,
       <1>13, <1>14, <1>15, <1>16, <1>17, <1>18, <1>19, <1>20
       DEF ManagerStep, ManagerAction
  <2>2. ASSUME NEW w \in Worker, WorkerStep(w)
        PROVE  RoundInv' /\ LostInv'
    BY <2>2, <1>21, <1>22, <1>23, <1>24, <1>25, <1>26, <1>27, <1>28, <1>29, <1>30, <1>31,
       <1>32, <1>33, <1>34, <1>35, <1>36, <1>37, <1>38, <1>39
       DEF WorkerStep, WorkerAction
  <2> QED
    BY <2>1, <2>2 DEF Next

(***************************************************************************)
(* What the invariant says of the two readers.                             *)
(***************************************************************************)
LEMMA ReadersNow ==
  ASSUME TypeOK, ManagerInv, LockInv, OutInv, FrameInv, RoundInv
  PROVE  ReadersFindData
<1>a. NumbersOK
  BY Numbers
<1>1. ASSUME NEW w \in Worker, wpc[w] \in {"length", "task"}
      PROVE  pipe1 # <<>>
  <2>1. w \in Awake
    BY <1>1 DEF OutInv, Awake
  <2>2. mpc \in Rounds
    BY <2>1 DEF RoundInv, Idle
  <2>3. Cardinality(Awake) \in Nat \ {0}
    BY <1>a, <2>1, WorkersFinite DEF NumbersOK, Awake
  <2>4. ToWake \in Nat
    BY DEF ToWake, ManagerInv, TypeOK
  <2>5. Tasks \in Nat /\ Cardinality(Awake) + ToWake <= Tasks
    BY <1>a, <2>2 DEF NumbersOK, RoundInv
  <2>6. Tasks # 0
    BY <2>3, <2>4, <2>5
  <2> QED
    BY <2>6, CountEmpty DEF Tasks
<1>2. ASSUME mpc \in {"option", "dir_length", "dir"}
      PROVE  pipe2 # <<>>
  <2>1. Frames(pipe2, mpc, "length")
    BY <1>2, ManagerAlone DEF Reading2
  <2> QED
    BY <1>2, <2>1, FramesEmpty
<1>3. ASSUME mpc = "length", i < available
      PROVE  pipe2 # <<>>
  <2>1. Reports = available - i /\ Idle
    BY <1>3 DEF RoundInv, Rounds, Reading2
  <2>2. Cardinality(Unsent) = 0
    BY <1>a, <2>1 DEF NumbersOK
  <2>3. CountIn(pipe2, {"n"}) # 0
    BY <1>3, <1>a, <2>1, <2>2 DEF NumbersOK, Reports, TypeOK
  <2> QED
    BY <2>3, CountEmpty
<1> QED
  BY <1>1, <1>2, <1>3 DEF ReadersFindData

-----------------------------------------------------------------------------
LEMMA InvInit == Init => IInv
<1> SUFFICES ASSUME Init PROVE IInv
  OBVIOUS
<1> USE DEF Init
<1>1. TypeOK
  <2>1. /\ <<>> \in Seq({"len"} \cup Path) /\ <<>> \in Seq(Field)
        /\ <<Root>> \in Seq(Path) /\ Len(<<>>) = 0
    BY DEF Path
  <2>2. /\ tree \in Trees /\ mpc \in MPC /\ wpc \in [Worker -> WPC]
        /\ stopped \subseteq Worker \cup {Manager}
        /\ {lock1, lock2} \subseteq Worker \cup {Manager, NULL} /\ lost \in BOOLEAN
    BY DEF MPC, WPC
  <2>3. pipe1 \in Seq({"len"} \cup Path) /\ Len(pipe1) <= Capacity
    BY <2>1, Distinct
  <2>4. pipe2 \in Seq(Field) /\ Len(pipe2) <= Capacity
    BY <2>1, Distinct
  <2>5. queue \in Seq(Path) /\ out \in [Worker \cup {Manager} -> Seq(Field)]
    BY <2>1
  <2>6. /\ available \in 0 .. Num /\ i \in 0 .. Num /\ ind \in Nat
        /\ {file_count, line_count, dir_count} \subseteq Nat
    BY Distinct
  <2>7. /\ task \in [Worker -> Path \cup {NULL}] /\ remaining \in [Worker -> SUBSET Entry]
        /\ fds \in [Worker -> 0 .. FdLimit] /\ seen \subseteq Entry
    BY Distinct
  <2> HIDE DEF Init
  <2> QED
    BY <2>2, <2>3, <2>4, <2>5, <2>6, <2>7 DEF TypeOK
<1>2. ManagerInv
  BY Distinct DEF ManagerInv, Reading2
<1>3. LockInv
  BY Distinct DEF LockInv, Reading2
<1>4. OutInv
  BY Distinct DEF OutInv, TaskPending
<1>5. FrameInv
  <2>1. pipe1 \o out[Manager] = <<>> /\ Reader1 = "task_length" /\ Reader2 = "length"
    BY Distinct DEF Reader1, Reader2
  <2>2. \A w \in Worker : out[w] = <<>>
    OBVIOUS
  <2>3. Frames(<<>>, "task_length", "task_length") /\ Frames(<<>>, "length", "length")
    BY FramesEmpty DEF Phase, Reading2
  <2> QED
    BY <2>1, <2>2, <2>3 DEF FrameInv
<1>6. RoundInv /\ LostInv
  <2>1. Idle /\ Unsent = {}
    BY DEF Idle, Busy, Reporting, Waking, Awake, Unsent
  <2>2. Tasks = 0 /\ CountIn(pipe2, {"n"}) = 0 /\ Cardinality(Unsent) = 0
    BY <2>1, CountEmpty, FS_EmptySet DEF Tasks
  <2>3. Reports = 0
    BY <2>2 DEF Reports
  <2> QED
    BY <2>1, <2>2, <2>3 DEF RoundInv, LostInv, Rounds, Reading2
<1> QED
  BY <1>1, <1>2, <1>3, <1>4, <1>5, <1>6 DEF IInv

LEMMA InvStutter ==
  ASSUME IInv, UNCHANGED vars
  PROVE  IInv'
<1> USE DEF vars, pipes, managed, worked
<1>1. TypeOK' /\ ManagerInv' /\ LockInv' /\ OutInv'
  BY DEF IInv, TypeOK, ManagerInv, LockInv, OutInv, TaskPending
<1>2. FrameInv'
  BY DEF IInv, FrameInv, Reader1, Reader2
<1>3. /\ UNCHANGED <<Busy, Reporting, Unsent, Waking, Awake, Tasks, mpc, i, available>>
      /\ UNCHANGED <<lost, stopped, out>> /\ (Idle' <=> Idle)
  BY DEF Busy, Reporting, Unsent, Waking, Awake, Tasks, Idle
<1>4. UNCHANGED <<Reports, Down, ToWake>>
  BY <1>3 DEF Reports, Down, ToWake
<1>5. UNCHANGED <<Resumed, Told>>
  BY <1>3, <1>4 DEF Resumed, Told
<1>6. RoundInv' /\ LostInv'
  BY <1>3, <1>4, <1>5 DEF IInv, RoundInv, LostInv
<1> QED
  BY <1>1, <1>2, <1>6 DEF IInv

LEMMA InvStep == IInv /\ [Next]_vars => IInv'
<1>1. CASE UNCHANGED vars
  BY <1>1, InvStutter
<1>2. ASSUME IInv, Next
      PROVE  IInv'
  <2>1. Framed
    BY <1>2, FramedNow DEF IInv
  <2>2. TypeOK'
    BY <1>2, <2>1, TypeStep DEF IInv
  <2>3. ManagerInv' /\ LockInv' /\ OutInv' /\ FrameInv'
    BY <1>2, ControlStep, OutStep, FrameStep DEF IInv
  <2>4. RoundInv' /\ LostInv'
    BY <1>2, <2>1, <2>2, RoundStep DEF IInv
  <2> QED
    BY <2>2, <2>3, <2>4 DEF IInv
<1> QED
  BY <1>1, <1>2

(***************************************************************************)
(* The invariant of both protocols, pipe1 with its tasks and pipe2 with    *)
(* its reports, holds in every state, for any number of workers, any       *)
(* capacity of the pipes and any file systems.                             *)
(***************************************************************************)
THEOREM Invariance == Spec => []IInv
<1>1. Init => IInv
  BY InvInit
<1>2. IInv /\ [Next]_vars => IInv'
  BY InvStep
<1> QED
  BY <1>1, <1>2, PTL DEF Spec

(* The variables keep their types: no counter of the manager leaves its    *)
(* range, and the paths in pipe1, in the queue and in the workers' tasks   *)
(* are paths (pfind.c:150-230).                                            *)
THEOREM PfindTypeCorrect == Spec => []TypeOK
<1>1. IInv => TypeOK
  BY DEF IInv
<1> QED
  BY <1>1, Invariance, PTL

(* The fields of one message are never mixed with those of another: the    *)
(* flock of pipe1 and that of pipe2 are held long enough.                  *)
THEOREM MessagesFramed == Spec => []Framed
<1>1. IInv => Framed
  BY FramedNow DEF IInv
<1> QED
  BY <1>1, Invariance, PTL

(* Nobody reads from a pipe that stays empty, although SIGCONTs can be     *)
(* lost: a worker that waits for its task finds it in pipe1, and the       *)
(* manager that collects the reports finds each of them in pipe2.          *)
THEOREM ReadersServed == Spec => []ReadersFindData
<1>1. IInv => ReadersFindData
  BY ReadersNow DEF IInv
<1> QED
  BY <1>1, Invariance, PTL

(* After a lost SIGCONT the summary is never printed: the manager is in    *)
(* the round in which it was lost for ever.                                *)
THEOREM LostSignalNeverRecovered == Spec => []LostSignalIsFatal
<1>1. IInv => LostSignalIsFatal
  BY DEF IInv, LostInv, LostSignalIsFatal, Rounds
<1> QED
  BY <1>1, Invariance, PTL

-----------------------------------------------------------------------------
(***************************************************************************)
(* The second part: what pfind's search finds.  Every directory is one     *)
(* task, and the summary is right.  The fields on their way to the manager *)
(* are one sequence, Stream: those in pipe2, and those the worker that     *)
(* holds its lock has still to write.  The invariant has four parts:       *)
(*   TaskInv   the directory and the entries to come of each worker        *)
(*   SeenInv   a directory is waiting or being searched at most once, only *)
(*             if it was discovered; and if it is neither, it was searched *)
(*   CountInv  what is counted and what is in Stream is what was seen      *)
(*   EndInv    what a finished report ends with                            *)
(* A step is first reduced to what it does to the places of a directory    *)
(* (FlowKinds) and to Stream and the counters (StreamKinds).               *)
(***************************************************************************)
(***************************************************************************)
(* Which directories are waiting to be searched, are searched, or have     *)
(* been.                                                                   *)
(***************************************************************************)
Ready == {"unlock1", "lock2", "open"}
Started == {"read", "last", "spin", "exited"}

TaskInv ==
  \A w \in Worker :
    /\ task[w] \in Path <=> wpc[w] \in Ready \cup Started
    /\ wpc[w] = "read" =>
         /\ task[w] \in Dir
         /\ remaining[w] = tree.listing[task[w]] \ seen
    /\ wpc[w] = "last" => task[w] \in Dir /\ tree.listing[task[w]] \subseteq seen

(* The fields on their way to the manager: those in pipe2, and those the   *)
(* worker that holds its lock has still to write.                          *)
Writing ==
  IF \E w \in Worker : out[w] # <<>> THEN out[CHOOSE w \in Worker : out[w] # <<>>]
  ELSE <<>>
Stream == pipe2 \o Writing

(* How often a directory is waiting for a worker to open it, and how often *)
(* it is in the hands of one that has tried to.                            *)
ReadyFor(p) == {w \in Worker : task[w] = p /\ wpc[w] \in Ready}
StartedOn(p) == {w \in Worker : task[w] = p /\ wpc[w] \in Started}
Waiting(p) ==
  CountIn(queue, {p}) + CountIn(out[Manager], {p}) + CountIn(pipe1, {p})
    + CountIn(Stream, {p}) + Cardinality(ReadyFor(p))
Present(p) == Waiting(p) + Cardinality(StartedOn(p))

Searched(p) == p \in Dir /\ tree.listing[p] \subseteq seen
Discovered == {Root} \cup (seen \cap TreatedAsDirectory)

SeenInv ==
  /\ \A p \in Path : Present(p) <= 1
  /\ \A p \in Path : Present(p) # 0 => p \in Discovered
  /\ \A p \in Path : Waiting(p) # 0 => tree.listing[p] \cap seen = {}
  /\ seen \subseteq Found
  /\ \A x \in seen : \E d \in seen \cup {Root} : x \in tree.listing[d]
  /\ \A d \in Discovered : Present(d) = 0 => Searched(d)

(***************************************************************************)
(* What has been counted, and what the manager has still to read.          *)
(***************************************************************************)
Counted ==
  /\ dir_count + CountIn(Stream, Path) = Cardinality(seen \cap TreatedAsDirectory)
  /\ file_count + CountIn(Stream, {"f"})
       = Cardinality(seen \cap Text \cap tree.has_keyword)
  /\ line_count + CountIn(Stream, {"l"}) = Cardinality(HitLines(seen \cap Text))

CountInv == (\A w \in Worker : wpc[w] # "spin") => Counted

(* The last field of a finished report is its "n"; and the manager ends    *)
(* the workers with its queue empty.                                       *)
EndInv ==
  /\ (\A w \in Worker : wpc[w] \notin {"read", "spin", "exited"}) =>
       Stream = <<>> \/ Stream[Len(Stream)] = "n"
  /\ mpc \in {"kill", "done"} => queue = <<>>

SearchInv == TaskInv /\ SeenInv /\ CountInv /\ EndInv

-----------------------------------------------------------------------------
(***************************************************************************)
(* The stream of the reports: what a step can do to it.                    *)
(***************************************************************************)
LEMMA OneWriter ==
  ASSUME LockInv, OutInv, NEW w \in Worker, wpc[w] \in {"read", "last"}
  PROVE  \A u \in Worker : u # w => out[u] = <<>>
<1>1. lock2 = w
  BY DEF LockInv
<1>2. \A u \in Worker : u # w => wpc[u] \notin {"read", "last"}
  BY <1>1 DEF LockInv
<1> QED
  BY <1>2 DEF OutInv

LEMMA WritingIs ==
  ASSUME NEW w \in Worker, \A u \in Worker : u # w => out[u] = <<>>
  PROVE  Writing = out[w]
<1>1. CASE out[w] = <<>>
  BY <1>1 DEF Writing
<1>2. CASE out[w] # <<>>
  <2>1. (CHOOSE u \in Worker : out[u] # <<>>) = w
    BY <1>2
  <2> QED
    BY <1>2, <2>1 DEF Writing
<1> QED
  BY <1>1, <1>2

LEMMA WritingNone == (\A w \in Worker : out[w] = <<>>) => Writing = <<>>
BY DEF Writing

LEMMA StreamType ==
  TypeOK => Writing \in Seq(Field) /\ Stream \in Seq(Field)
<1> SUFFICES ASSUME TypeOK
             PROVE  Writing \in Seq(Field) /\ Stream \in Seq(Field)
  OBVIOUS
<1>1. \A w \in Worker : out[w] \in Seq(Field)
  BY DEF TypeOK
<1>2. CASE \E w \in Worker : out[w] # <<>>
  <2>1. (CHOOSE w \in Worker : out[w] # <<>>) \in Worker
    BY <1>2
  <2>2. Writing \in Seq(Field)
    BY <1>1, <1>2, <2>1 DEF Writing
  <2> QED
    BY <2>2 DEF Stream, TypeOK
<1>3. CASE \A w \in Worker : out[w] = <<>>
  <2>1. Writing = <<>>
    BY <1>3 DEF Writing
  <2>2. Writing \in Seq(Field)
    BY <2>1
  <2> QED
    BY <2>2 DEF Stream, TypeOK
<1> QED
  BY <1>2, <1>3

LEMMA StreamIsPipe ==
  ASSUME TypeOK, \A w \in Worker : out[w] = <<>>
  PROVE  Stream = pipe2
BY WritingNone, ConcatEmptySeq DEF Stream, TypeOK

LEMMA StreamSame ==
  ASSUME TypeOK, LockInv, OutInv, pipe2' = pipe2, \A w \in Worker : out'[w] = out[w]
  PROVE  Stream' = Stream
<1>1. CASE \A w \in Worker : out[w] = <<>>
  <2>1. Writing = <<>> /\ Writing' = <<>>
    BY <1>1 DEF Writing
  <2> QED
    BY <2>1 DEF Stream
<1>2. ASSUME NEW w \in Worker, out[w] # <<>>
      PROVE  Stream' = Stream
  <2>1. \A u \in Worker : u # w => out[u] = <<>>
    BY <1>2, OneWriter DEF OutInv
  <2>2. Writing = out[w]
    BY <2>1, WritingIs
  <2>3. Writing' = out'[w]
    <3>1. (CHOOSE u \in Worker : out'[u] # <<>>) = w
      BY <1>2, <2>1
    <3> QED
      BY <1>2, <3>1 DEF Writing
  <2> QED
    BY <2>2, <2>3 DEF Stream
<1> QED
  BY <1>1, <1>2

(* The manager reads a field.                                              *)
LEMMA StreamRead ==
  ASSUME TypeOK, TypeOK', LockInv, OutInv, FrameInv, mpc \in Reading2,
         \A w \in Worker : out'[w] = out[w], pipe2' = Tail(pipe2)
  PROVE  Stream = pipe2 /\ Stream' = Tail(pipe2)
<1>1. \A w \in Worker : out[w] = <<>>
  BY ManagerAlone
<1>2. Stream = pipe2
  BY <1>1, StreamIsPipe
<1>3. Writing' = <<>>
  BY <1>1 DEF Writing
<1>4. Stream' = pipe2'
  BY <1>3, ConcatEmptySeq DEF Stream, TypeOK
<1> QED
  BY <1>2, <1>4

(* A worker prepares a report.                                             *)
LEMMA StreamReport ==
  ASSUME TypeOK, LockInv, OutInv, NEW w \in Worker, wpc[w] = "read", out[w] = <<>>,
         NEW r, out' = [out EXCEPT ![w] = r], pipe2' = pipe2
  PROVE  Stream = pipe2 /\ Stream' = Stream \o r
<1>1. \A u \in Worker : out[u] = <<>>
  BY OneWriter
<1>2. Stream = pipe2
  BY <1>1, StreamIsPipe
<1>3. out'[w] = r /\ \A u \in Worker : u # w => out'[u] = <<>>
  BY <1>1 DEF TypeOK
<1>4. Writing' = r
  <2>1. CASE r = <<>>
    BY <1>3, <2>1 DEF Writing
  <2>2. CASE r # <<>>
    <3>1. (CHOOSE u \in Worker : out'[u] # <<>>) = w
      BY <1>3, <2>2
    <3> QED
      BY <1>3, <2>2, <3>1 DEF Writing
  <2> QED
    BY <2>1, <2>2
<1> QED
  BY <1>2, <1>4 DEF Stream

(* A worker writes a field of its report to pipe2.                         *)
LEMMA StreamWrite ==
  ASSUME TypeOK, LockInv, OutInv, NEW w \in Worker, WorkerWrite(w)
  PROVE  Stream' = Stream
<1>1. /\ \A u \in Worker : u # w => out[u] = <<>>
      /\ out[w] # <<>> /\ out[w] \in Seq(Field) /\ pipe2 \in Seq(Field)
      /\ out' = [out EXCEPT ![w] = Tail(@)] /\ pipe2' = Append(pipe2, Head(out[w]))
  BY OneWriter DEF WorkerWrite, TypeOK
<1>2. Writing = out[w]
  BY <1>1, WritingIs
<1>3. out'[w] = Tail(out[w]) /\ \A u \in Worker : u # w => out'[u] = <<>>
  BY <1>1 DEF TypeOK
<1>4. Writing' = Tail(out[w])
  <2>1. CASE Tail(out[w]) = <<>>
    BY <1>3, <2>1 DEF Writing
  <2>2. CASE Tail(out[w]) # <<>>
    <3>1. (CHOOSE u \in Worker : out'[u] # <<>>) = w
      BY <1>3, <2>2
    <3> QED
      BY <1>3, <2>2, <3>1 DEF Writing
  <2> QED
    BY <2>1, <2>2
<1> QED
  BY <1>1, <1>2, <1>4, MoveHead DEF Stream

-----------------------------------------------------------------------------
(***************************************************************************)
(* What one process leaves alone.                                          *)
(***************************************************************************)
LEMMA ManagerKeeps ==
  ASSUME TypeOK, ManagerStep
  PROVE  /\ UNCHANGED <<tree, task, remaining, seen>>
         /\ \A w \in Worker : out'[w] = out[w]
         /\ wpc' = wpc \/ ManagerFork \/ ManagerKill
<1> USE DEF ManagerGoto, signals, pipes, managed, worked, ManagerRead
<1>1. UNCHANGED tree /\ ManagerAction
  BY DEF ManagerStep
<1>2. UNCHANGED <<task, remaining, seen>>
  BY <1>1 DEF ManagerAction, ManagerFork, ManagerOpen1, ManagerOpen2, ManagerPlan,
     ManagerLock1, ManagerNextTask, ManagerWrite, ManagerUnlock1, ManagerWake, ManagerStop,
     ManagerLock2, ManagerReadLength, ManagerReadFile, ManagerReadLine,
     ManagerReadDirectory, ManagerReadNothing, ManagerReadDirLength, ManagerReadDir,
     ManagerUnlock2, ManagerKill
<1>3. wpc' = wpc \/ ManagerFork \/ ManagerKill
  BY <1>1 DEF ManagerAction, ManagerOpen1, ManagerOpen2, ManagerPlan,
     ManagerLock1, ManagerNextTask, ManagerWrite, ManagerUnlock1, ManagerWake, ManagerStop,
     ManagerLock2, ManagerReadLength, ManagerReadFile, ManagerReadLine,
     ManagerReadDirectory, ManagerReadNothing, ManagerReadDirLength, ManagerReadDir,
     ManagerUnlock2
<1>4. out' = out \/ \E s : out' = [out EXCEPT ![Manager] = s]
  BY <1>1 DEF ManagerAction, ManagerFork, ManagerOpen1, ManagerOpen2, ManagerPlan,
     ManagerLock1, ManagerNextTask, ManagerWrite, ManagerUnlock1, ManagerWake, ManagerStop,
     ManagerLock2, ManagerReadLength, ManagerReadFile, ManagerReadLine,
     ManagerReadDirectory, ManagerReadNothing, ManagerReadDirLength, ManagerReadDir,
     ManagerUnlock2, ManagerKill
<1>5. \A w \in Worker : out'[w] = out[w]
  BY <1>4, Distinct DEF TypeOK
<1> QED
  BY <1>1, <1>2, <1>3, <1>5

LEMMA WorkerKeeps ==
  ASSUME TypeOK, NEW w \in Worker, WorkerStep(w)
  PROVE  /\ UNCHANGED <<tree, mpc, queue, file_count, line_count, dir_count>>
         /\ out'[Manager] = out[Manager]
         /\ \A u \in Worker : u # w =>
              wpc'[u] = wpc[u] /\ task'[u] = task[u] /\ remaining'[u] = remaining[u]
<1> USE DEF WorkerGoto, signals, pipes, managed, worked, ReadEntry
<1>1. UNCHANGED tree /\ WorkerAction(w)
  BY DEF WorkerStep
<1>2. UNCHANGED <<mpc, queue, file_count, line_count, dir_count>>
  BY <1>1 DEF WorkerAction, WorkerOpen1, WorkerOpen2, WorkerSetup, WorkerStop, WorkerLock1,
     WorkerReadLength, WorkerReadTask, WorkerUnlock1, WorkerLock2, WorkerOpenDir,
     WorkerExit, WorkerReadText, WorkerReadEndless, WorkerReadDirectory, WorkerReadOther,
     WorkerReadLast, WorkerWrite, WorkerUnlock2, WorkerWake
<1>3. out' = out \/ \E s : out' = [out EXCEPT ![w] = s]
  BY <1>1 DEF WorkerAction, WorkerOpen1, WorkerOpen2, WorkerSetup, WorkerStop, WorkerLock1,
     WorkerReadLength, WorkerReadTask, WorkerUnlock1, WorkerLock2, WorkerOpenDir,
     WorkerExit, WorkerReadText, WorkerReadEndless, WorkerReadDirectory, WorkerReadOther,
     WorkerReadLast, WorkerWrite, WorkerUnlock2, WorkerWake
<1>4. wpc' = wpc \/ \E s : wpc' = [wpc EXCEPT ![w] = s]
  BY <1>1 DEF WorkerAction, WorkerOpen1, WorkerOpen2, WorkerSetup, WorkerStop, WorkerLock1,
     WorkerReadLength, WorkerReadTask, WorkerUnlock1, WorkerLock2, WorkerOpenDir,
     WorkerExit, WorkerReadText, WorkerReadEndless, WorkerReadDirectory, WorkerReadOther,
     WorkerReadLast, WorkerWrite, WorkerUnlock2, WorkerWake
<1>5. task' = task \/ \E s : task' = [task EXCEPT ![w] = s]
  BY <1>1 DEF WorkerAction, WorkerOpen1, WorkerOpen2, WorkerSetup, WorkerStop, WorkerLock1,
     WorkerReadLength, WorkerReadTask, WorkerUnlock1, WorkerLock2, WorkerOpenDir,
     WorkerExit, WorkerReadText, WorkerReadEndless, WorkerReadDirectory, WorkerReadOther,
     WorkerReadLast, WorkerWrite, WorkerUnlock2, WorkerWake
<1>6. remaining' = remaining \/ \E s : remaining' = [remaining EXCEPT ![w] = s]
  BY <1>1 DEF WorkerAction, WorkerOpen1, WorkerOpen2, WorkerSetup, WorkerStop, WorkerLock1,
     WorkerReadLength, WorkerReadTask, WorkerUnlock1, WorkerLock2, WorkerOpenDir,
     WorkerExit, WorkerReadText, WorkerReadEndless, WorkerReadDirectory, WorkerReadOther,
     WorkerReadLast, WorkerWrite, WorkerUnlock2, WorkerWake
<1>7. \A u \in Worker : u # w =>
        wpc'[u] = wpc[u] /\ task'[u] = task[u] /\ remaining'[u] = remaining[u]
  BY <1>4, <1>5, <1>6 DEF TypeOK
<1>8. out'[Manager] = out[Manager]
  BY <1>3, Distinct DEF TypeOK
<1> QED
  BY <1>1, <1>2, <1>7, <1>8

(* The worker w is the only one that reads a directory or reports.         *)
LEMMA OneReader ==
  ASSUME LockInv, NEW w \in Worker, wpc[w] \in {"read", "last"}
  PROVE  \A u \in Worker : u # w => wpc[u] \notin {"open", "read", "last", "spin"}
BY DEF LockInv

-----------------------------------------------------------------------------
(***************************************************************************)
(* The workers and their directories.                                      *)
(***************************************************************************)
TaskOf(u) ==
  /\ task[u] \in Path <=> wpc[u] \in Ready \cup Started
  /\ wpc[u] = "read" =>
       /\ task[u] \in Dir
       /\ remaining[u] = tree.listing[task[u]] \ seen
  /\ wpc[u] = "last" => task[u] \in Dir /\ tree.listing[task[u]] \subseteq seen

LEMMA WaitingType ==
  ASSUME TypeOK, NEW p
  PROVE  /\ CountIn(queue, {p}) \in Nat /\ CountIn(out[Manager], {p}) \in Nat
         /\ CountIn(pipe1, {p}) \in Nat /\ CountIn(Stream, {p}) \in Nat
         /\ Cardinality(ReadyFor(p)) \in Nat /\ Cardinality(StartedOn(p)) \in Nat
         /\ Waiting(p) \in Nat /\ Present(p) \in Nat
         /\ Cardinality(ReadyFor(p)) <= Waiting(p) /\ Waiting(p) <= Present(p)
<1>1. CountIn(queue, {p}) \in Nat
  BY CountType DEF TypeOK
<1>2. CountIn(out[Manager], {p}) \in Nat
  BY CountType DEF TypeOK
<1>3. CountIn(pipe1, {p}) \in Nat
  BY CountType DEF TypeOK
<1>4. CountIn(Stream, {p}) \in Nat
  BY CountType, StreamType
<1>5. Cardinality(ReadyFor(p)) \in Nat /\ Cardinality(StartedOn(p)) \in Nat
  <2>1. ReadyFor(p) \in SUBSET Worker /\ StartedOn(p) \in SUBSET Worker
    BY DEF ReadyFor, StartedOn
  <2> QED
    BY <2>1, WorkersFinite
<1> QED
  BY <1>1, <1>2, <1>3, <1>4, <1>5 DEF Waiting, Present

(* Who has a task is counted.                                              *)
LEMMA AtWork ==
  ASSUME TypeOK, NEW w \in Worker
  PROVE  /\ wpc[w] \in Ready => Waiting(task[w]) # 0 /\ Present(task[w]) # 0
         /\ wpc[w] \in Started =>
              Cardinality(StartedOn(task[w])) >= 1 /\ Present(task[w]) # 0
<1>1. ReadyFor(task[w]) \in SUBSET Worker /\ StartedOn(task[w]) \in SUBSET Worker
  BY DEF ReadyFor, StartedOn
<1>2. ASSUME wpc[w] \in Ready
      PROVE  Cardinality(ReadyFor(task[w])) # 0
  <2>1. w \in ReadyFor(task[w])
    BY <1>2 DEF ReadyFor
  <2> QED
    BY <1>1, <2>1, WorkersFinite
<1>3. ASSUME wpc[w] \in Started
      PROVE  Cardinality(StartedOn(task[w])) # 0
  <2>1. w \in StartedOn(task[w])
    BY <1>3 DEF StartedOn
  <2> QED
    BY <1>1, <2>1, WorkersFinite
<1>4. /\ Cardinality(ReadyFor(task[w])) \in Nat /\ Cardinality(StartedOn(task[w])) \in Nat
      /\ Waiting(task[w]) \in Nat /\ Cardinality(ReadyFor(task[w])) <= Waiting(task[w])
      /\ Present(task[w]) = Waiting(task[w]) + Cardinality(StartedOn(task[w]))
  BY WaitingType DEF Present
<1> QED
  BY <1>2, <1>3, <1>4

LEMMA TaskStep ==
  ASSUME TypeOK, ManagerInv, LockInv, RoundInv, TaskInv, SeenInv, Framed, Next
  PROVE  TaskInv'
<1> USE DEF Ready, Started
<1>a. \A u \in Worker : TaskOf(u)
  BY DEF TaskInv, TaskOf
<1>b. /\ wpc \in [Worker -> WPC] /\ task \in [Worker -> Path \cup {NULL}]
      /\ remaining \in [Worker -> SUBSET Entry] /\ NULL \notin Path
  BY Distinct DEF TypeOK
<1>c. ASSUME UNCHANGED tree, NEW u \in Worker, wpc'[u] = wpc[u], task'[u] = task[u],
             remaining'[u] = remaining[u],
             seen' = seen \/ (wpc[u] # "read" /\ seen \subseteq seen')
      PROVE  TaskOf(u)'
  <2>1. TaskOf(u)
    BY <1>a
  <2> QED
    BY <1>c, <2>1 DEF TaskOf, Dir
<1>1. CASE ManagerStep
  <2>1. UNCHANGED <<tree, task, remaining, seen>> /\ (wpc' = wpc \/ ManagerFork \/ ManagerKill)
    BY <1>1, ManagerKeeps
  <2>2. ASSUME NEW u \in Worker
        PROVE  TaskOf(u)'
    <3>1. CASE wpc'[u] = wpc[u]
      BY <1>c, <2>1, <3>1
    <3>2. CASE wpc'[u] # wpc[u]
      <4>1. wpc[u] \notin Ready \cup Started /\ wpc'[u] \notin Ready \cup Started
        <5>1. CASE ManagerFork
          BY <1>b, <3>2, <5>1 DEF ManagerFork, ManagerInv
        <5>2. CASE ManagerKill
          <6>1. Idle
            BY <5>2 DEF ManagerKill, RoundInv, Rounds
          <6>2. wpc[u] \notin Ready \cup Started
            BY <6>1 DEF Idle, Busy, Reporting
          <6> QED
            BY <1>b, <3>2, <5>2, <6>2 DEF ManagerKill
        <5> QED
          BY <2>1, <3>2, <5>1, <5>2
      <4>2. TaskOf(u)
        BY <1>a
      <4> QED
        BY <2>1, <4>1, <4>2 DEF TaskOf
    <3> QED
      BY <3>1, <3>2
  <2> QED
    BY <2>2 DEF TaskInv, TaskOf
<1>2. ASSUME NEW w \in Worker, WorkerStep(w), TaskOf(w)',
             seen' = seen \/ (wpc[w] = "read" /\ seen \subseteq seen')
      PROVE  TaskInv'
  <2>1. /\ UNCHANGED tree
        /\ \A u \in Worker : u # w =>
             wpc'[u] = wpc[u] /\ task'[u] = task[u] /\ remaining'[u] = remaining[u]
    BY <1>2, WorkerKeeps
  <2>2. \A u \in Worker : u # w => (seen' = seen \/ (wpc[u] # "read" /\ seen \subseteq seen'))
    BY <1>2, OneReader
  <2>3. \A u \in Worker : u # w => TaskOf(u)'
    BY <1>c, <2>1, <2>2
  <2> QED
    BY <1>2, <2>3 DEF TaskInv, TaskOf
<1>3. ASSUME NEW w \in Worker, WorkerStep(w), UNCHANGED <<task, remaining, seen>>,
             NEW from, NEW to, wpc[w] = from, wpc' = [wpc EXCEPT ![w] = to],
             from \in Ready \cup Started <=> to \in Ready \cup Started,
             to \notin {"read", "last"}
      PROVE  TaskInv'
  <2>1. wpc'[w] = to /\ TaskOf(w)
    BY <1>a, <1>b, <1>3
  <2>2. TaskOf(w)'
    BY <1>3, <2>1 DEF TaskOf
  <2> QED
    BY <1>2, <1>3, <2>2
<1>4. ASSUME NEW w \in Worker, WorkerStep(w),
             \/ WorkerOpen1(w) \/ WorkerOpen2(w) \/ WorkerSetup(w) \/ WorkerStop(w)
             \/ WorkerLock1(w) \/ WorkerReadLength(w) \/ WorkerWake(w)
      PROVE  TaskInv'
  <2>1. UNCHANGED <<task, remaining, seen>>
    BY <1>4 DEF WorkerOpen1, WorkerOpen2, WorkerSetup, WorkerStop, WorkerLock1,
       WorkerReadLength, WorkerWake, WorkerGoto, pipes, managed, worked
  <2>2. PICK to \in {"open2", "setup", "stop", "lock1", "length", "task"} :
          wpc' = [wpc EXCEPT ![w] = to]
    BY <1>4 DEF WorkerOpen1, WorkerOpen2, WorkerSetup, WorkerStop, WorkerLock1,
       WorkerReadLength, WorkerWake, WorkerGoto
  <2>3. wpc[w] \in {"open1", "open2", "setup", "stop", "lock1", "length", "wake"}
    BY <1>4 DEF WorkerOpen1, WorkerOpen2, WorkerSetup, WorkerStop, WorkerLock1,
       WorkerReadLength, WorkerWake, WorkerGoto
  <2> QED
    BY <1>3, <1>4, <2>1, <2>2, <2>3
<1>5. ASSUME NEW w \in Worker, WorkerStep(w),
             WorkerUnlock1(w) \/ WorkerLock2(w) \/ WorkerExit(w)
      PROVE  TaskInv'
  <2>1. UNCHANGED <<task, remaining, seen>>
    BY <1>5 DEF WorkerUnlock1, WorkerLock2, WorkerExit, WorkerGoto, pipes, managed, worked
  <2>2. PICK to \in {"lock2", "open", "exited"} : wpc' = [wpc EXCEPT ![w] = to]
    BY <1>5 DEF WorkerUnlock1, WorkerLock2, WorkerExit, WorkerGoto
  <2>3. wpc[w] \in {"unlock1", "lock2", "open", "read"}
    BY <1>5 DEF WorkerUnlock1, WorkerLock2, WorkerExit, OpenFails, WorkerGoto
  <2> QED
    BY <1>3, <1>5, <2>1, <2>2, <2>3
<1>6. ASSUME NEW w \in Worker, WorkerStep(w), WorkerReadTask(w)
      PROVE  TaskInv'
  <2>1. /\ wpc'[w] = "unlock1" /\ task'[w] = Head(pipe1) /\ wpc[w] = "task" /\ pipe1 # <<>>
        /\ seen' = seen
    BY <1>b, <1>6 DEF WorkerReadTask, WorkerGoto
  <2>2. Head(pipe1) \in Path
    BY <2>1 DEF Framed
  <2>3. TaskOf(w)'
    BY <2>1, <2>2 DEF TaskOf
  <2> QED
    BY <1>2, <1>6, <2>1, <2>3
<1>7. ASSUME NEW w \in Worker, WorkerStep(w), WorkerOpenDir(w)
      PROVE  TaskInv'
  <2>1. /\ wpc'[w] = "read" /\ wpc[w] = "open" /\ UNCHANGED <<task, seen, tree>>
        /\ task[w] \in Dir /\ remaining'[w] = tree.listing[task[w]]
    BY <1>b, <1>7 DEF WorkerOpenDir, WorkerGoto, WorkerStep
  <2>2. task[w] \in Path
    BY <1>a, <2>1 DEF TaskOf
  <2>3. tree.listing[task[w]] \cap seen = {}
    BY <2>1, <2>2, AtWork DEF SeenInv
  <2>4. TaskOf(w)'
    BY <2>1, <2>2, <2>3 DEF TaskOf, Dir
  <2> QED
    BY <1>2, <1>7, <2>1, <2>4
<1>8. ASSUME NEW w \in Worker, WorkerStep(w), NEW e \in Entry,
             NEW to \in {"read", "spin"}, NEW report, ReadEntry(w, e, to, report)
      PROVE  TaskInv'
  <2>1. /\ wpc'[w] = to /\ wpc[w] = "read" /\ UNCHANGED <<task, tree>>
        /\ remaining'[w] = remaining[w] \ {e} /\ seen' = seen \cup {e}
    BY <1>b, <1>8 DEF ReadEntry, WorkerGoto, WorkerStep
  <2>2. TaskOf(w)
    BY <1>a
  <2>3. TaskOf(w)'
    BY <2>1, <2>2 DEF TaskOf, Dir
  <2> QED
    BY <1>2, <1>8, <2>1, <2>3
<1>9. ASSUME NEW w \in Worker, WorkerStep(w), WorkerReadLast(w)
      PROVE  TaskInv'
  <2>1. /\ wpc'[w] = "last" /\ wpc[w] = "read" /\ UNCHANGED <<task, tree, seen>>
        /\ remaining[w] = {}
    BY <1>b, <1>9 DEF WorkerReadLast, WorkerGoto, worked, WorkerStep
  <2>2. TaskOf(w)
    BY <1>a
  <2>3. TaskOf(w)'
    BY <2>1, <2>2 DEF TaskOf, Dir
  <2> QED
    BY <1>2, <1>9, <2>1, <2>3
<1>10. ASSUME NEW w \in Worker, WorkerStep(w), WorkerWrite(w)
      PROVE  TaskInv'
  <2>1. UNCHANGED <<wpc, task, remaining, seen, tree>>
    BY <1>10 DEF WorkerWrite, worked, WorkerStep
  <2>2. TaskOf(w)'
    BY <1>c, <2>1
  <2> QED
    BY <1>2, <1>10, <2>1, <2>2
<1>11. ASSUME NEW w \in Worker, WorkerStep(w), WorkerUnlock2(w)
      PROVE  TaskInv'
  <2>1. wpc'[w] = "wake" /\ task'[w] = NULL /\ UNCHANGED seen
    BY <1>b, <1>11 DEF WorkerUnlock2, WorkerGoto
  <2>2. TaskOf(w)'
    BY <1>b, <2>1 DEF TaskOf
  <2> QED
    BY <1>2, <1>11, <2>1, <2>2
<1>12. ASSUME NEW w \in Worker, WorkerStep(w)
       PROVE  TaskInv'
  <2>1. WorkerAction(w)
    BY <1>12 DEF WorkerStep
  <2> QED
    BY <1>4, <1>5, <1>6, <1>7, <1>8, <1>9, <1>10, <1>11, <1>12, <2>1
       DEF WorkerAction, WorkerReadText, WorkerReadEndless, WorkerReadDirectory,
           WorkerReadOther
<1> QED
  BY <1>1, <1>12 DEF Next

-----------------------------------------------------------------------------
(***************************************************************************)
(* How many fields of each kind a report has.                              *)
(***************************************************************************)
LEMMA FieldNames ==
  /\ "len" \notin Path /\ "f" \notin Path /\ "l" \notin Path /\ "d" \notin Path
  /\ "n" \notin Path
BY PfindAssumption

LEMMA CountMessage ==
  ASSUME NEW x, NEW V, "len" \notin V
  PROVE  CountIn(Message(x), V) = One(x \in V)
<1> DEFINE S == {"len", x}
<1>1. /\ <<>> \in Seq(S) /\ <<"len">> \in Seq(S) /\ Message(x) \in Seq(S)
      /\ <<"len">> = Append(<<>>, "len") /\ Message(x) = Append(<<"len">>, x)
      /\ "len" \in S /\ x \in S
  BY DEF Message
<1>2. CountIn(<<"len">>, V) = 0
  <2> HIDE DEF S
  <2>1. CountIn(Append(<<>>, "len"), V) = CountIn(<<>>, V) + (IF "len" \in V THEN 1 ELSE 0)
    BY <1>1, CountAppend
  <2> QED
    BY <1>1, <2>1, CountEmpty
<1>3. CountIn(Message(x), V) = CountIn(<<"len">>, V) + (IF x \in V THEN 1 ELSE 0)
  <2> HIDE DEF S
  <2> QED
    BY <1>1, CountAppend
<1> QED
  BY <1>2, <1>3 DEF One

LEMMA MessageFields ==
  /\ \A x \in Field : Message(x) \in Seq(Field)
  /\ {"len", "f", "l", "d", "n"} \cup Entry \subseteq Field
BY DEF Message, Field, Path

LEMMA DirectoryCounts ==
  ASSUME NEW e \in Entry
  PROVE  LET r == Message("d") \o Message(e)
         IN  /\ CountIn(r, Path) = 1 /\ CountIn(r, {"f"}) = 0 /\ CountIn(r, {"l"}) = 0
             /\ \A p \in Path : CountIn(r, {p}) = One(p = e)
<1>1. Message("d") \in Seq(Field) /\ Message(e) \in Seq(Field)
  BY MessageFields
<1>2. \A V : "len" \notin V =>
        CountIn(Message("d") \o Message(e), V) = One("d" \in V) + One(e \in V)
  BY <1>1, CountConcat, CountMessage
<1>3. e \in Path
  BY DEF Path
<1>4. CountIn(Message("d") \o Message(e), Path) = 1
  BY <1>2, <1>3, FieldNames DEF One
<1>5. CountIn(Message("d") \o Message(e), {"f"}) = 0
  BY <1>2, <1>3, FieldNames DEF One
<1>6. CountIn(Message("d") \o Message(e), {"l"}) = 0
  BY <1>2, <1>3, FieldNames DEF One
<1>7. ASSUME NEW p \in Path
      PROVE  CountIn(Message("d") \o Message(e), {p}) = One(p = e)
  BY <1>2, FieldNames DEF One
<1> QED
  BY <1>4, <1>5, <1>6, <1>7

LEMMA LastCounts ==
  /\ CountIn(Message("n"), Path) = 0 /\ CountIn(Message("n"), {"f"}) = 0
  /\ CountIn(Message("n"), {"l"}) = 0
  /\ \A p \in Path : CountIn(Message("n"), {p}) = 0
BY CountMessage, FieldNames DEF One

(* A "len" and an "l" for each of the h lines found.                       *)
LEMMA LineCounts ==
  ASSUME NEW h \in Nat
  PROVE  LET s == [k \in 1 .. 2 * h |-> IF k % 2 = 1 THEN "len" ELSE "l"]
         IN  s \in Seq({"len", "l"}) /\ CountIn(s, {"l"}) = h
<1> DEFINE s == [k \in 1 .. 2 * h |-> IF k % 2 = 1 THEN "len" ELSE "l"]
           g == [k \in 1 .. h |-> 2 * k]
<1>1. s \in Seq({"len", "l"}) /\ Len(s) = 2 * h /\ DOMAIN s = 1 .. 2 * h
  <2>1. \A k \in 1 .. 2 * h : s[k] \in {"len", "l"}
    OBVIOUS
  <2>2. 2 * h \in Nat
    OBVIOUS
  <2> QED
    BY <2>1, <2>2
<1>2. \A k \in 1 .. 2 * h : s[k] = "l" <=> k % 2 # 1
  OBVIOUS
<1> HIDE DEF s
<1>3. Positions(s, {"l"}) = {k \in 1 .. 2 * h : k % 2 # 1}
  BY <1>1, <1>2 DEF Positions
<1>4. g \in [1 .. h -> Positions(s, {"l"})]
  <2>1. \A k \in 1 .. h : 2 * k \in 1 .. 2 * h /\ (2 * k) % 2 # 1
    OBVIOUS
  <2> QED
    BY <1>3, <2>1
<1>5. \A n \in Positions(s, {"l"}) : \E k \in 1 .. h : g[k] = n
  <2> SUFFICES ASSUME NEW n \in Positions(s, {"l"})
               PROVE  \E k \in 1 .. h : g[k] = n
    OBVIOUS
  <2>1. n \in 1 .. 2 * h /\ n % 2 # 1
    BY <1>3
  <2>2. n \div 2 \in 1 .. h /\ 2 * (n \div 2) = n
    BY <2>1
  <2> QED
    BY <2>2
<1>6. \A k, l \in 1 .. h : g[k] = g[l] => k = l
  OBVIOUS
<1>7. g \in Bijection(1 .. h, Positions(s, {"l"}))
  BY <1>4, <1>5, <1>6 DEF Bijection, Injection, Surjection, IsInjective
<1>8. Cardinality(Positions(s, {"l"})) = h
  BY <1>7, FS_CountingElements DEF ExistsBijection
<1> QED
  BY <1>1, <1>8 DEF CountIn, s

LEMMA TextCounts ==
  ASSUME TypeOK, NEW e \in Entry
  PROVE  LET r == TextReport(e)
         IN  /\ CountIn(r, Path) = 0 /\ CountIn(r, {"f"}) = One(e \in tree.has_keyword)
             /\ CountIn(r, {"l"}) = tree.hits[e]
             /\ \A p \in Path : CountIn(r, {p}) = 0
<1> DEFINE s == [k \in 1 .. 2 * tree.hits[e] |-> IF k % 2 = 1 THEN "len" ELSE "l"]
           t == IF e \in tree.has_keyword THEN Message("f") ELSE <<>>
           F == {"len", "l", "f"}
<1>1. /\ tree.hits[e] \in Nat /\ s \in Seq(F) /\ t \in Seq(F)
      /\ TextReport(e) = s \o t /\ TextReport(e) \in Seq(F)
  BY TextParts
<1>2. CountIn(s, {"l"}) = tree.hits[e] /\ s \in Seq({"len", "l"})
  BY <1>1, LineCounts
<1>3. CountIn(s, {"f"}) = 0
  <2>1. \A k \in 1 .. Len(s) : s[k] \in {"len", "l"}
    BY <1>2, ElementOfSeq
  <2> HIDE DEF s
  <2> QED
    BY <1>1, <2>1, CountZero
<1>4. CountIn(t, {"l"}) = 0 /\ CountIn(t, {"f"}) = One(e \in tree.has_keyword)
  BY CountMessage, CountEmpty DEF One
<1>5. \A V : CountIn(TextReport(e), V) = CountIn(s, V) + CountIn(t, V)
  <2> HIDE DEF s, t
  <2> QED
    BY <1>1, CountConcat
<1>6. CountIn(TextReport(e), {"l"}) = tree.hits[e]
      /\ CountIn(TextReport(e), {"f"}) = One(e \in tree.has_keyword)
  <2> HIDE DEF s, t
  <2> QED
    BY <1>1, <1>2, <1>3, <1>4, <1>5 DEF One
<1>7. ASSUME NEW V, V \subseteq Path
      PROVE  CountIn(TextReport(e), V) = 0
  <2>1. \A k \in 1 .. Len(TextReport(e)) : TextReport(e)[k] \in F
    BY <1>1, ElementOfSeq
  <2>2. \A k \in 1 .. Len(TextReport(e)) : TextReport(e)[k] \notin V
    BY <1>7, <2>1, FieldNames
  <2> QED
    BY <1>1, <2>2, CountZero
<1> QED
  BY <1>6, <1>7

-----------------------------------------------------------------------------
(***************************************************************************)
(* A directory travels as one task: what a step does to the places it is   *)
(* in.                                                                     *)
(***************************************************************************)
Kept == \A p \in Path : Waiting(p)' <= Waiting(p) /\ Present(p)' = Present(p)

FlowKinds ==
  \/ seen' = seen /\ Kept
  \/ \E w \in Worker, e \in Entry \ TreatedAsDirectory :
       /\ wpc[w] = "read" /\ e \in remaining[w] /\ seen' = seen \cup {e}
       /\ Kept
  \/ \E w \in Worker, e \in TreatedAsDirectory :
       /\ wpc[w] = "read" /\ e \in remaining[w] /\ seen' = seen \cup {e}
       /\ \A p \in Path : /\ Waiting(p)' = Waiting(p) + One(p = e)
                          /\ Present(p)' = Present(p) + One(p = e)
  \/ \E w \in Worker :
       /\ wpc[w] = "last" /\ seen' = seen
       /\ \A p \in Path : /\ Waiting(p)' = Waiting(p)
                          /\ Present(p)' = Present(p) - One(p = task[w])

LEMMA WorkMoves ==
  ASSUME NEW w \in Worker, NEW p,
         \A u \in Worker : u # w => wpc'[u] = wpc[u] /\ task'[u] = task[u]
  PROVE  /\ Cardinality(ReadyFor(p)') = Cardinality(ReadyFor(p)) - One(w \in ReadyFor(p))
                                          + One(w \in ReadyFor(p)')
         /\ Cardinality(StartedOn(p)') = Cardinality(StartedOn(p)) - One(w \in StartedOn(p))
                                           + One(w \in StartedOn(p)')
<1>1. /\ ReadyFor(p) \in SUBSET Worker /\ ReadyFor(p)' \in SUBSET Worker
      /\ StartedOn(p) \in SUBSET Worker /\ StartedOn(p)' \in SUBSET Worker
  BY DEF ReadyFor, StartedOn
<1>2. \A u \in Worker : u # w => (u \in ReadyFor(p)' <=> u \in ReadyFor(p))
  BY DEF ReadyFor
<1>3. \A u \in Worker : u # w => (u \in StartedOn(p)' <=> u \in StartedOn(p))
  BY DEF StartedOn
<1> QED
  BY <1>1, <1>2, <1>3, OneMoves

(* The five kinds of places a directory can be in.                         *)
InQueue(p) == CountIn(queue, {p})
InOut(p) == CountIn(out[Manager], {p})
InPipe1(p) == CountIn(pipe1, {p})
InStream(p) == CountIn(Stream, {p})
NumReady(p) == Cardinality(ReadyFor(p))
NumStarted(p) == Cardinality(StartedOn(p))

SumsOK ==
  \A p \in Path :
    /\ InQueue(p) \in Nat /\ InOut(p) \in Nat /\ InPipe1(p) \in Nat
    /\ InStream(p) \in Nat /\ NumReady(p) \in Nat /\ NumStarted(p) \in Nat
    /\ Waiting(p) = InQueue(p) + InOut(p) + InPipe1(p) + InStream(p) + NumReady(p)
    /\ Present(p) = Waiting(p) + NumStarted(p)

LEMMA Sums == TypeOK => SumsOK
BY WaitingType DEF SumsOK, Waiting, Present, InQueue, InOut, InPipe1, InStream, NumReady,
                   NumStarted

LEMMA FlowStep ==
  ASSUME TypeOK, TypeOK', ManagerInv, LockInv, OutInv, FrameInv, RoundInv, Framed,
         TaskInv, Next
  PROVE  FlowKinds
<1> USE DEF ManagerGoto, WorkerGoto, signals, pipes, managed, worked
<1>a. SumsOK /\ SumsOK'
  <2>1. SumsOK'
    BY Sums, PTL
  <2> QED
    BY <2>1, Sums
<1>b. /\ queue \in Seq(Path) /\ pipe1 \in Seq({"len"} \cup Path) /\ pipe2 \in Seq(Field)
      /\ out \in [Worker \cup {Manager} -> Seq(Field)] /\ wpc \in [Worker -> WPC]
      /\ task \in [Worker -> Path \cup {NULL}] /\ Stream \in Seq(Field)
      /\ Manager \notin Worker /\ NULL \notin Path
  BY StreamType, Distinct DEF TypeOK
(* The seven kinds of places, when five of them stay as they are.          *)
<1>c. ASSUME NEW p \in Path,
             InQueue(p)' + InOut(p)' + InPipe1(p)' + InStream(p)' + NumReady(p)'
               <= InQueue(p) + InOut(p) + InPipe1(p) + InStream(p) + NumReady(p),
             InQueue(p)' + InOut(p)' + InPipe1(p)' + InStream(p)' + NumReady(p)'
                 + NumStarted(p)'
               = InQueue(p) + InOut(p) + InPipe1(p) + InStream(p) + NumReady(p)
                   + NumStarted(p)
      PROVE  Waiting(p)' <= Waiting(p) /\ Present(p)' = Present(p)
  <2>1. /\ Waiting(p) = InQueue(p) + InOut(p) + InPipe1(p) + InStream(p) + NumReady(p)
        /\ Present(p) = Waiting(p) + NumStarted(p)
    BY <1>a DEF SumsOK
  <2>2. /\ Waiting(p)' = InQueue(p)' + InOut(p)' + InPipe1(p)' + InStream(p)' + NumReady(p)'
        /\ Present(p)' = Waiting(p)' + NumStarted(p)'
    BY <1>a DEF SumsOK
  <2> QED
    BY <1>c, <2>1, <2>2
(* A step of the manager.                                                  *)
<1>d. ASSUME ManagerStep
      PROVE  /\ seen' = seen
             /\ \A p \in Path : NumReady(p)' = NumReady(p) /\ NumStarted(p)' = NumStarted(p)
  <2>1. UNCHANGED task /\ (wpc' = wpc \/ ManagerFork \/ ManagerKill)
    BY <1>d, ManagerKeeps
  <2>2. \A u \in Worker : /\ wpc'[u] \in Ready <=> wpc[u] \in Ready
                          /\ wpc'[u] \in Started <=> wpc[u] \in Started
    <3>1. CASE ManagerFork
      BY <1>b, <3>1 DEF ManagerFork, ManagerInv, Ready, Started
    <3>2. CASE ManagerKill
      <4>1. Idle
        BY <3>2 DEF ManagerKill, RoundInv, Rounds
      <4>2. \A u \in Worker : wpc[u] \notin Ready \cup Started
        BY <4>1 DEF Idle, Busy, Reporting, Ready, Started
      <4> QED
        BY <1>b, <3>2, <4>2 DEF ManagerKill, Ready, Started
    <3> QED
      BY <2>1, <3>1, <3>2
  <2>3. \A p \in Path : ReadyFor(p)' = ReadyFor(p) /\ StartedOn(p)' = StartedOn(p)
    BY <2>1, <2>2 DEF ReadyFor, StartedOn
  <2> QED
    BY <1>d, <2>3, ManagerKeeps DEF NumReady, NumStarted
(* A step that moves no path.                                              *)
<1>e. ASSUME UNCHANGED <<queue, pipe1, pipe2, out>>
      PROVE  \A p \in Path : /\ InQueue(p)' = InQueue(p) /\ InOut(p)' = InOut(p)
                             /\ InPipe1(p)' = InPipe1(p) /\ InStream(p)' = InStream(p)
  <2>1. Stream' = Stream
    BY <1>e, StreamSame
  <2> QED
    BY <1>e, <2>1 DEF InQueue, InOut, InPipe1, InStream
<1>1. ASSUME ManagerStep, UNCHANGED <<queue, pipe1, pipe2, out>>
      PROVE  FlowKinds
  <2>1. Kept
    BY <1>1, <1>a, <1>c, <1>d, <1>e DEF Kept, SumsOK
  <2> QED
    BY <1>1, <1>d, <2>1 DEF FlowKinds
(* The manager takes a task from the queue.                                *)
<1>2. ASSUME ManagerStep, ManagerNextTask
      PROVE  FlowKinds
  <2>1. /\ out[Manager] = <<>> /\ out'[Manager] = Message(Head(queue))
        /\ queue # <<>> /\ queue' = Tail(queue) /\ UNCHANGED <<pipe1, pipe2>>
        /\ \A w \in Worker : out'[w] = out[w]
    BY <1>2, <1>b, ManagerKeeps DEF ManagerNextTask, ManagerInv, TypeOK
  <2>2. Stream' = Stream
    BY <2>1, StreamSame
  <2>3. ASSUME NEW p \in Path
        PROVE  Waiting(p)' <= Waiting(p) /\ Present(p)' = Present(p)
    <3>1. InQueue(p) = InQueue(p)' + One(Head(queue) = p)
      BY <1>b, <2>1, CountTail DEF InQueue, One
    <3>2. InOut(p) = 0 /\ InOut(p)' = One(Head(queue) = p)
      BY <2>1, CountEmpty, CountMessage, FieldNames DEF InOut, One
    <3>3. InPipe1(p)' = InPipe1(p) /\ InStream(p)' = InStream(p)
      BY <2>1, <2>2 DEF InPipe1, InStream
    <3>4. NumReady(p)' = NumReady(p) /\ NumStarted(p)' = NumStarted(p)
      BY <1>2, <1>d
    <3> QED
      BY <1>a, <1>c, <3>1, <3>2, <3>3, <3>4 DEF SumsOK, One
  <2> QED
    BY <1>2, <1>d, <2>3 DEF FlowKinds, Kept
(* The manager writes a field of the task to pipe1.                        *)
<1>3. ASSUME ManagerStep, ManagerWrite
      PROVE  FlowKinds
  <2>1. /\ out[Manager] # <<>> /\ out'[Manager] = Tail(out[Manager])
        /\ pipe1' = Append(pipe1, Head(out[Manager])) /\ UNCHANGED <<queue, pipe2>>
        /\ \A w \in Worker : out'[w] = out[w]
    BY <1>3, <1>b, ManagerKeeps DEF ManagerWrite
  <2>2. Stream' = Stream
    BY <2>1, StreamSame
  <2>3. out[Manager] \in Seq({"len"} \cup Path) /\ Head(out[Manager]) \in {"len"} \cup Path
    <3>1. PICK p \in Path : out[Manager] \in {<<p>>, <<"len", p>>}
      BY <2>1 DEF OutInv, TaskPending
    <3>2. CASE out[Manager] = <<p>>
      BY <3>2
    <3>3. CASE out[Manager] = <<"len", p>>
      BY <3>3
    <3> QED
      BY <3>1, <3>2, <3>3
  <2>4. ASSUME NEW p \in Path
        PROVE  Waiting(p)' <= Waiting(p) /\ Present(p)' = Present(p)
    <3>1. InPipe1(p)' = InPipe1(p) + One(Head(out[Manager]) = p)
      BY <1>b, <2>1, <2>3, CountAppend DEF InPipe1, One
    <3>2. InOut(p) = InOut(p)' + One(Head(out[Manager]) = p)
      BY <2>1, <2>3, CountTail DEF InOut, One
    <3>3. InQueue(p)' = InQueue(p) /\ InStream(p)' = InStream(p)
      BY <2>1, <2>2 DEF InQueue, InStream
    <3>4. NumReady(p)' = NumReady(p) /\ NumStarted(p)' = NumStarted(p)
      BY <1>3, <1>d
    <3> QED
      BY <1>a, <1>c, <3>1, <3>2, <3>3, <3>4 DEF SumsOK, One
  <2> QED
    BY <1>3, <1>d, <2>4 DEF FlowKinds, Kept
(* The manager reads a field that is no path.                              *)
<1>4. ASSUME ManagerStep, ManagerRead, mpc \in Reading2, Head(pipe2) \notin Path,
             UNCHANGED queue
      PROVE  FlowKinds
  <2>1. /\ pipe2 # <<>> /\ pipe2' = Tail(pipe2) /\ UNCHANGED <<pipe1, out>>
    BY <1>4 DEF ManagerRead
  <2>2. Stream = pipe2 /\ Stream' = Tail(pipe2)
    BY <1>4, <2>1, StreamRead
  <2>3. ASSUME NEW p \in Path
        PROVE  Waiting(p)' <= Waiting(p) /\ Present(p)' = Present(p)
    <3>1. InStream(p) = InStream(p)' + 0
      BY <1>4, <1>b, <2>1, <2>2, CountTail DEF InStream
    <3>2. InPipe1(p)' = InPipe1(p) /\ InQueue(p)' = InQueue(p) /\ InOut(p)' = InOut(p)
      BY <1>4, <2>1 DEF InPipe1, InQueue, InOut
    <3>3. NumReady(p)' = NumReady(p) /\ NumStarted(p)' = NumStarted(p)
      BY <1>4, <1>d
    <3> QED
      BY <1>a, <1>c, <3>1, <3>2, <3>3 DEF SumsOK
  <2> QED
    BY <1>4, <1>d, <2>3 DEF FlowKinds, Kept
(* The manager reads a path and puts it into the queue.                    *)
<1>5. ASSUME ManagerStep, ManagerReadDir
      PROVE  FlowKinds
  <2>1. /\ pipe2 # <<>> /\ pipe2' = Tail(pipe2) /\ UNCHANGED <<pipe1, out>>
        /\ queue' = Append(queue, Head(pipe2)) /\ mpc = "dir"
    BY <1>5 DEF ManagerReadDir, ManagerRead
  <2>2. Stream = pipe2 /\ Stream' = Tail(pipe2)
    BY <2>1, StreamRead DEF Reading2
  <2>3. Head(pipe2) \in Path
    BY <2>1 DEF Framed
  <2>4. ASSUME NEW p \in Path
        PROVE  Waiting(p)' <= Waiting(p) /\ Present(p)' = Present(p)
    <3>1. InStream(p) = InStream(p)' + One(Head(pipe2) = p)
      BY <1>b, <2>1, <2>2, CountTail DEF InStream, One
    <3>2. InQueue(p)' = InQueue(p) + One(Head(pipe2) = p)
      BY <1>b, <2>1, <2>3, CountAppend DEF InQueue, One
    <3>3. InPipe1(p)' = InPipe1(p) /\ InOut(p)' = InOut(p)
      BY <2>1 DEF InPipe1, InOut
    <3>4. NumReady(p)' = NumReady(p) /\ NumStarted(p)' = NumStarted(p)
      BY <1>5, <1>d
    <3> QED
      BY <1>a, <1>c, <3>1, <3>2, <3>3, <3>4 DEF SumsOK, One
  <2> QED
    BY <1>5, <1>d, <2>4 DEF FlowKinds, Kept
<1>6. ASSUME ManagerStep
      PROVE  FlowKinds
  <2>1. ManagerAction
    BY <1>6 DEF ManagerStep
  <2>2. CASE \/ ManagerFork \/ ManagerOpen1 \/ ManagerOpen2 \/ ManagerPlan \/ ManagerLock1
             \/ ManagerUnlock1 \/ ManagerWake \/ ManagerStop \/ ManagerLock2 \/ ManagerUnlock2
             \/ ManagerKill
    <3>1. UNCHANGED <<queue, pipe1, pipe2, out>>
      BY <2>2 DEF ManagerFork, ManagerOpen1, ManagerOpen2, ManagerPlan, ManagerLock1,
         ManagerUnlock1, ManagerWake, ManagerStop, ManagerLock2, ManagerUnlock2, ManagerKill
    <3> QED
      BY <1>1, <1>6, <3>1
  <2>3. CASE \/ ManagerReadLength \/ ManagerReadFile \/ ManagerReadLine
             \/ ManagerReadDirectory \/ ManagerReadNothing \/ ManagerReadDirLength
    <3>1. /\ ManagerRead /\ mpc \in Reading2 /\ UNCHANGED queue
          /\ mpc \in {"length", "dir_length"} \/ Head(pipe2) \in {"f", "l", "d", "n"}
      BY <2>3 DEF ManagerReadLength, ManagerReadFile, ManagerReadLine,
         ManagerReadDirectory, ManagerReadNothing, ManagerReadDirLength, Reading2
    <3>2. Head(pipe2) \in {"len", "f", "l", "d", "n"}
      BY <3>1 DEF Framed, ManagerRead
    <3> QED
      BY <1>4, <1>6, <3>1, <3>2, FieldNames
  <2> QED
    BY <1>2, <1>3, <1>5, <1>6, <2>1, <2>2, <2>3 DEF ManagerAction
(* A step of a worker.                                                     *)
<1>f. ASSUME NEW w \in Worker, WorkerStep(w), NEW p \in Path
      PROVE  /\ InQueue(p)' = InQueue(p) /\ InOut(p)' = InOut(p)
             /\ NumReady(p)' = NumReady(p) - One(w \in ReadyFor(p)) + One(w \in ReadyFor(p)')
             /\ NumStarted(p)' = NumStarted(p) - One(w \in StartedOn(p))
                                  + One(w \in StartedOn(p)')
  <2>1. /\ queue' = queue /\ out'[Manager] = out[Manager]
        /\ \A u \in Worker : u # w => wpc'[u] = wpc[u] /\ task'[u] = task[u]
    BY <1>f, WorkerKeeps
  <2> QED
    BY <2>1, WorkMoves DEF InQueue, InOut, NumReady, NumStarted
(* The worker keeps its directory, or has none.                            *)
<1>g. ASSUME NEW w \in Worker, WorkerStep(w), UNCHANGED task,
             wpc'[w] \in Ready => wpc[w] \in Ready,
             wpc'[w] \in Ready \cup Started <=> wpc[w] \in Ready \cup Started,
             NEW p \in Path
      PROVE  /\ NumReady(p)' <= NumReady(p)
             /\ NumReady(p)' + NumStarted(p)' = NumReady(p) + NumStarted(p)
  <2>1. Ready \cap Started = {}
    BY DEF Ready, Started
  <2>2. CASE task[w] # p
    <3>1. /\ w \notin ReadyFor(p) /\ w \notin ReadyFor(p)'
          /\ w \notin StartedOn(p) /\ w \notin StartedOn(p)'
      BY <1>g, <2>2 DEF ReadyFor, StartedOn
    <3> QED
      BY <1>a, <1>f, <1>g, <3>1 DEF One, SumsOK
  <2>3. CASE task[w] = p
    <3>1. /\ w \in ReadyFor(p) <=> wpc[w] \in Ready
          /\ w \in ReadyFor(p)' <=> wpc'[w] \in Ready
          /\ w \in StartedOn(p) <=> wpc[w] \in Started
          /\ w \in StartedOn(p)' <=> wpc'[w] \in Started
      BY <1>g, <2>3 DEF ReadyFor, StartedOn
    <3> QED
      BY <1>a, <1>f, <1>g, <2>1, <3>1 DEF One, SumsOK
  <2> QED
    BY <2>2, <2>3
<1>h. ASSUME NEW w \in Worker, WorkerStep(w), UNCHANGED <<task, pipe1, seen>>,
             Stream' = Stream,
             wpc'[w] \in Ready => wpc[w] \in Ready,
             wpc'[w] \in Ready \cup Started <=> wpc[w] \in Ready \cup Started
      PROVE  FlowKinds
  <2>1. ASSUME NEW p \in Path
        PROVE  Waiting(p)' <= Waiting(p) /\ Present(p)' = Present(p)
    <3>1. InPipe1(p)' = InPipe1(p) /\ InStream(p)' = InStream(p)
      BY <1>h DEF InPipe1, InStream
    <3>2. InQueue(p)' = InQueue(p) /\ InOut(p)' = InOut(p)
      BY <1>h, <1>f
    <3>3. /\ NumReady(p)' <= NumReady(p)
          /\ NumReady(p)' + NumStarted(p)' = NumReady(p) + NumStarted(p)
      BY <1>h, <1>g
    <3> QED
      BY <1>a, <1>c, <3>1, <3>2, <3>3 DEF SumsOK
  <2> QED
    BY <1>h, <2>1 DEF FlowKinds, Kept
<1>7. ASSUME NEW w \in Worker, WorkerStep(w),
             \/ WorkerOpen1(w) \/ WorkerOpen2(w) \/ WorkerSetup(w) \/ WorkerStop(w)
             \/ WorkerLock1(w) \/ WorkerUnlock1(w) \/ WorkerLock2(w) \/ WorkerWake(w)
             \/ WorkerOpenDir(w) \/ WorkerExit(w)
      PROVE  FlowKinds
  <2>1. UNCHANGED <<task, pipe1, pipe2, out, seen>>
    BY <1>7 DEF WorkerOpen1, WorkerOpen2, WorkerSetup, WorkerStop, WorkerLock1, WorkerUnlock1,
       WorkerLock2, WorkerWake, WorkerOpenDir, WorkerExit
  <2>2. Stream' = Stream
    BY <2>1, StreamSame
  <2>3. CASE \/ WorkerOpen1(w) \/ WorkerOpen2(w) \/ WorkerSetup(w) \/ WorkerStop(w)
             \/ WorkerLock1(w) \/ WorkerUnlock1(w) \/ WorkerLock2(w) \/ WorkerWake(w)
    <3>1. /\ wpc'[w] \in Ready <=> wpc[w] \in Ready
          /\ wpc'[w] \in Started <=> wpc[w] \in Started
      BY <1>b, <2>3 DEF WorkerOpen1, WorkerOpen2, WorkerSetup, WorkerStop, WorkerLock1,
         WorkerUnlock1, WorkerLock2, WorkerWake, Ready, Started
    <3> QED
      BY <1>7, <1>h, <2>1, <2>2, <3>1
  <2>4. CASE WorkerOpenDir(w) \/ WorkerExit(w)
    <3>1. /\ wpc[w] \in Ready \cup Started /\ wpc'[w] \in Started
          /\ wpc'[w] \notin Ready
      BY <1>b, <2>4 DEF WorkerOpenDir, WorkerExit, OpenFails, Ready, Started
    <3> QED
      BY <1>7, <1>h, <2>1, <2>2, <3>1
  <2> QED
    BY <1>7, <2>3, <2>4
<1>8. ASSUME NEW w \in Worker, WorkerStep(w), WorkerWrite(w)
      PROVE  FlowKinds
  <2>1. UNCHANGED <<task, pipe1, seen, wpc>>
    BY <1>8 DEF WorkerWrite
  <2>2. Stream' = Stream
    BY <1>8, StreamWrite
  <2> QED
    BY <1>8, <1>h, <2>1, <2>2
<1>9. ASSUME NEW w \in Worker, WorkerStep(w), WorkerReadLength(w)
      PROVE  FlowKinds
  <2>1. /\ pipe1 # <<>> /\ pipe1' = Tail(pipe1) /\ UNCHANGED <<task, pipe2, out, seen>>
        /\ wpc[w] = "length" /\ wpc'[w] = "task"
    BY <1>b, <1>9 DEF WorkerReadLength
  <2>2. Stream' = Stream
    BY <2>1, StreamSame
  <2>3. Head(pipe1) = "len"
    BY <2>1 DEF Framed
  <2>4. wpc[w] \notin Ready \cup Started /\ wpc'[w] \notin Ready \cup Started
    BY <2>1 DEF Ready, Started
  <2>5. ASSUME NEW p \in Path
        PROVE  Waiting(p)' <= Waiting(p) /\ Present(p)' = Present(p)
    <3>1. InPipe1(p) = InPipe1(p)' + 0
      BY <1>b, <2>1, <2>3, CountTail, FieldNames DEF InPipe1
    <3>2. InQueue(p)' = InQueue(p) /\ InOut(p)' = InOut(p)
      BY <1>9, <1>f
    <3>3. InStream(p)' = InStream(p)
      BY <2>2 DEF InStream
    <3>4. /\ NumReady(p)' <= NumReady(p)
          /\ NumReady(p)' + NumStarted(p)' = NumReady(p) + NumStarted(p)
      BY <1>9, <1>g, <2>1, <2>4
    <3> QED
      BY <1>a, <1>c, <3>1, <3>2, <3>3, <3>4 DEF SumsOK
  <2> QED
    BY <2>1, <2>5 DEF FlowKinds, Kept
<1>10. ASSUME NEW w \in Worker, WorkerStep(w), WorkerReadTask(w)
       PROVE  FlowKinds
  <2>1. /\ pipe1 # <<>> /\ pipe1' = Tail(pipe1) /\ UNCHANGED <<pipe2, out, seen>>
        /\ wpc[w] = "task" /\ wpc'[w] = "unlock1" /\ task'[w] = Head(pipe1)
    BY <1>b, <1>10 DEF WorkerReadTask
  <2>2. Stream' = Stream
    BY <2>1, StreamSame
  <2>3. wpc[w] \notin Ready \cup Started /\ wpc'[w] \in Ready /\ wpc'[w] \notin Started
    BY <2>1 DEF Ready, Started
  <2>4. ASSUME NEW p \in Path
        PROVE  Waiting(p)' <= Waiting(p) /\ Present(p)' = Present(p)
    <3>1. InPipe1(p) = InPipe1(p)' + One(Head(pipe1) = p)
      BY <1>b, <2>1, CountTail DEF InPipe1, One
    <3>2. InQueue(p)' = InQueue(p) /\ InOut(p)' = InOut(p)
      BY <1>10, <1>f
    <3>3. InStream(p)' = InStream(p)
      BY <2>2 DEF InStream
    <3>4. /\ w \notin ReadyFor(p) /\ w \notin StartedOn(p) /\ w \notin StartedOn(p)'
          /\ w \in ReadyFor(p)' <=> Head(pipe1) = p
      BY <2>1, <2>3 DEF ReadyFor, StartedOn
    <3>5. NumReady(p)' = NumReady(p) + One(Head(pipe1) = p) /\ NumStarted(p)' = NumStarted(p)
      BY <1>10, <1>a, <1>f, <3>4 DEF One, SumsOK
    <3> QED
      BY <1>a, <1>c, <3>1, <3>2, <3>3, <3>5 DEF SumsOK, One
  <2> QED
    BY <2>1, <2>4 DEF FlowKinds, Kept
(* The worker prepares a report.                                           *)
<1>i. ASSUME NEW w \in Worker, WorkerStep(w), wpc[w] = "read", out[w] = <<>>,
             wpc'[w] \in Started, UNCHANGED <<task, pipe1, pipe2>>, NEW r \in Seq(Field),
             out' = [out EXCEPT ![w] = r], NEW p \in Path
      PROVE  /\ Waiting(p)' = Waiting(p) + CountIn(r, {p})
             /\ Present(p)' = Present(p) + CountIn(r, {p})
  <2>1. Stream' = Stream \o r
    BY <1>i, StreamReport
  <2>2. InStream(p)' = InStream(p) + CountIn(r, {p})
    BY <1>b, <1>i, <2>1, CountConcat DEF InStream
  <2>3. InPipe1(p)' = InPipe1(p) /\ InQueue(p)' = InQueue(p) /\ InOut(p)' = InOut(p)
    BY <1>i, <1>f DEF InPipe1
  <2>4. wpc[w] \in Started /\ wpc[w] \notin Ready /\ wpc'[w] \notin Ready
    BY <1>i DEF Ready, Started
  <2>5. /\ w \in StartedOn(p) <=> w \in StartedOn(p)'
        /\ w \notin ReadyFor(p) /\ w \notin ReadyFor(p)'
    BY <1>i, <2>4 DEF ReadyFor, StartedOn
  <2>6. NumReady(p) \in Nat /\ NumStarted(p) \in Nat
    BY <1>a DEF SumsOK
  <2>7. One(w \in ReadyFor(p)) = 0 /\ One(w \in ReadyFor(p)') = 0
    BY <2>5 DEF One
  <2>8. One(w \in StartedOn(p)) = One(w \in StartedOn(p)')
        /\ One(w \in StartedOn(p)) \in Nat
    BY <2>5 DEF One
  <2>9. /\ NumReady(p)' = NumReady(p) - One(w \in ReadyFor(p)) + One(w \in ReadyFor(p)')
        /\ NumStarted(p)' = NumStarted(p) - One(w \in StartedOn(p))
                              + One(w \in StartedOn(p)')
    BY <1>f, <1>i
  <2>10. NumReady(p)' = NumReady(p) /\ NumStarted(p)' = NumStarted(p)
    BY <2>6, <2>7, <2>8, <2>9
  <2>11. CountIn(r, {p}) \in Nat
    BY <1>i, CountType
  <2>12. /\ InQueue(p) \in Nat /\ InOut(p) \in Nat /\ InPipe1(p) \in Nat
         /\ InStream(p) \in Nat
         /\ Waiting(p) = InQueue(p) + InOut(p) + InPipe1(p) + InStream(p) + NumReady(p)
         /\ Present(p) = Waiting(p) + NumStarted(p)
    BY <1>a DEF SumsOK
  <2>13. /\ Waiting(p)' = InQueue(p)' + InOut(p)' + InPipe1(p)' + InStream(p)' + NumReady(p)'
         /\ Present(p)' = Waiting(p)' + NumStarted(p)'
    BY <1>a DEF SumsOK
  <2> QED
    BY <2>2, <2>3, <2>6, <2>10, <2>11, <2>12, <2>13
(* The report of an entry that is no directory holds no path.              *)
<1>j. ASSUME NEW w \in Worker, WorkerStep(w), wpc[w] = "read", out[w] = <<>>,
             wpc'[w] \in Started, UNCHANGED <<task, pipe1, pipe2>>, NEW r \in Seq(Field),
             out' = [out EXCEPT ![w] = r], \A p \in Path : CountIn(r, {p}) = 0
      PROVE  Kept
  <2>1. ASSUME NEW p \in Path
        PROVE  Waiting(p)' <= Waiting(p) /\ Present(p)' = Present(p)
    <3>1. /\ Waiting(p)' = Waiting(p) + CountIn(r, {p})
          /\ Present(p)' = Present(p) + CountIn(r, {p})
      BY <1>i, <1>j
    <3>2. Waiting(p) \in Nat /\ Present(p) \in Nat
      BY WaitingType
    <3>3. CountIn(r, {p}) = 0
      BY <1>j
    <3> QED
      BY <3>1, <3>2, <3>3
  <2> QED
    BY <2>1 DEF Kept
<1>11. ASSUME NEW w \in Worker, WorkerStep(w), NEW e \in Entry,
              WorkerReadText(w, e) \/ WorkerReadEndless(w, e) \/ WorkerReadOther(w, e)
       PROVE  FlowKinds
  <2>1. /\ wpc[w] = "read" /\ out[w] = <<>> /\ wpc'[w] \in Started
        /\ UNCHANGED <<task, pipe1, pipe2>> /\ seen' = seen \cup {e} /\ e \in remaining[w]
    BY <1>b, <1>11 DEF WorkerReadText, WorkerReadEndless, WorkerReadOther, ReadEntry, Started
  <2>2. e \notin TreatedAsDirectory
    BY <1>11 DEF WorkerReadText, WorkerReadEndless, WorkerReadOther, Text, TreatedAsDirectory
  <2>3. PICK r \in {<<>>, TextReport(e)} : out' = [out EXCEPT ![w] = r]
    BY <1>11 DEF WorkerReadText, WorkerReadEndless, WorkerReadOther, ReadEntry
  <2>4. r \in Seq(Field)
    <3>1. <<>> \in Seq(Field)
      OBVIOUS
    <3>2. TextReport(e) \in Seq(Field)
      BY <1>11, Reported
    <3> QED
      BY <2>3, <3>1, <3>2
  <2>5. \A p \in Path : CountIn(r, {p}) = 0
    BY <2>3, CountEmpty, TextCounts
  <2>6. Kept
    BY <1>11, <1>j, <2>1, <2>3, <2>4, <2>5
  <2> QED
    BY <2>1, <2>2, <2>6 DEF FlowKinds
<1>12. ASSUME NEW w \in Worker, WorkerStep(w), NEW e \in Entry, WorkerReadDirectory(w, e)
       PROVE  FlowKinds
  <2>1. /\ wpc[w] = "read" /\ out[w] = <<>> /\ wpc'[w] \in Started
        /\ UNCHANGED <<task, pipe1, pipe2>> /\ seen' = seen \cup {e} /\ e \in remaining[w]
        /\ out' = [out EXCEPT ![w] = Message("d") \o Message(e)] /\ e \in TreatedAsDirectory
    BY <1>b, <1>12 DEF WorkerReadDirectory, ReadEntry, Started
  <2>2. Message("d") \o Message(e) \in Seq(Field)
    BY Reported
  <2>3. \A p \in Path : CountIn(Message("d") \o Message(e), {p}) = One(p = e)
    BY DirectoryCounts
  <2>4. \A p \in Path : /\ Waiting(p)' = Waiting(p) + One(p = e)
                        /\ Present(p)' = Present(p) + One(p = e)
    BY <1>12, <1>i, <2>1, <2>2, <2>3
  <2> QED
    BY <2>1, <2>4 DEF FlowKinds
<1>13. ASSUME NEW w \in Worker, WorkerStep(w), WorkerReadLast(w)
       PROVE  FlowKinds
  <2>1. /\ wpc[w] = "read" /\ out[w] = <<>> /\ wpc'[w] \in Started
        /\ UNCHANGED <<task, pipe1, pipe2, seen>> /\ out' = [out EXCEPT ![w] = Message("n")]
    BY <1>b, <1>13 DEF WorkerReadLast, Started
  <2>2. Message("n") \in Seq(Field)
    BY Reported
  <2>3. Kept
    BY <1>13, <1>j, <2>1, <2>2, LastCounts
  <2> QED
    BY <2>1, <2>3 DEF FlowKinds
(* The worker is done with its directory.                                  *)
<1>14. ASSUME NEW w \in Worker, WorkerStep(w), WorkerUnlock2(w)
       PROVE  FlowKinds
  <2>1. /\ wpc[w] = "last" /\ wpc'[w] = "wake" /\ task'[w] = NULL
        /\ UNCHANGED <<pipe1, pipe2, out, seen>>
    BY <1>b, <1>14 DEF WorkerUnlock2
  <2>2. Stream' = Stream
    BY <2>1, StreamSame
  <2>3. ASSUME NEW p \in Path
        PROVE  Waiting(p)' = Waiting(p) /\ Present(p)' = Present(p) - One(p = task[w])
    <3>1. InPipe1(p)' = InPipe1(p) /\ InStream(p)' = InStream(p)
      BY <2>1, <2>2 DEF InPipe1, InStream
    <3>2. InQueue(p)' = InQueue(p) /\ InOut(p)' = InOut(p)
      BY <1>14, <1>f
    <3>3. /\ w \notin ReadyFor(p) /\ w \notin ReadyFor(p)' /\ w \notin StartedOn(p)'
          /\ w \in StartedOn(p) <=> p = task[w]
      BY <2>1 DEF ReadyFor, StartedOn, Ready, Started
    <3>4. NumReady(p)' = NumReady(p) /\ NumStarted(p)' = NumStarted(p) - One(p = task[w])
      BY <1>14, <1>a, <1>f, <3>3 DEF One, SumsOK
    <3> QED
      BY <1>a, <3>1, <3>2, <3>4 DEF SumsOK, One
  <2> QED
    BY <2>1, <2>3 DEF FlowKinds
<1>15. ASSUME NEW w \in Worker, WorkerStep(w)
       PROVE  FlowKinds
  <2>1. WorkerAction(w)
    BY <1>15 DEF WorkerStep
  <2> QED
    BY <1>7, <1>8, <1>9, <1>10, <1>11, <1>12, <1>13, <1>14, <1>15, <2>1 DEF WorkerAction
<1> QED
  BY <1>6, <1>15 DEF Next

-----------------------------------------------------------------------------
(***************************************************************************)
(* No directory is discovered twice, and none is left unsearched.          *)
(***************************************************************************)
LEMMA ListingType ==
  TypeOK => /\ \A p \in Path : tree.listing[p] \subseteq Entry
            /\ \A d, e \in Path : \A x :
                 x \in tree.listing[d] /\ x \in tree.listing[e] => d = e
BY TreeType DEF Tree, Hierarchy

LEMMA WaitingTypes ==
  TypeOK => \A p \in Path : Waiting(p) \in Nat /\ Present(p) \in Nat
BY WaitingType

(* The entry a worker reads is new, and its directory is the worker's.     *)
LEMMA NewEntry ==
  ASSUME TypeOK, TaskInv, SeenInv, NEW w \in Worker, wpc[w] = "read",
         NEW e \in remaining[w]
  PROVE  /\ e \in Entry /\ e \in Path /\ e # Root /\ e \notin seen /\ e \in Found
         /\ task[w] \in seen \cup {Root} /\ e \in tree.listing[task[w]]
         /\ \A p \in Path : Waiting(p) # 0 => e \notin tree.listing[p]
         /\ Present(e) = 0
         /\ tree.listing[e] \cap (seen \cup {e}) = {}
<1>1. /\ task[w] \in Path /\ task[w] \in Dir /\ e \in tree.listing[task[w]]
      /\ e \notin seen /\ e \in Entry /\ e \in Path /\ e # Root
  <2>1. task[w] \in Path
    BY DEF TaskInv, Started
  <2>2. remaining[w] = tree.listing[task[w]] \ seen /\ task[w] \in Dir
    BY DEF TaskInv
  <2>3. e \in Entry
    BY DEF TypeOK
  <2> QED
    BY <2>1, <2>2, <2>3, PfindAssumption DEF Path
<1>2. Cardinality(StartedOn(task[w])) >= 1 /\ Present(task[w]) # 0
  BY AtWork DEF Started
<1>3. task[w] \in Discovered
  BY <1>1, <1>2 DEF SeenInv
<1>4. task[w] \in seen \cup {Root} /\ task[w] \in Searchable
  BY <1>1, <1>3 DEF Discovered, Searchable
<1>5. e \in Found
  <2> SUFFICES ASSUME NEW S \in SUBSET Path, Root \in S, Closed(S)
               PROVE  e \in S
    BY <1>1 DEF Found
  <2>1. task[w] \in S
    BY <1>4 DEF SeenInv, Found
  <2> QED
    BY <1>1, <1>4, <2>1 DEF Closed
<1>6. ASSUME NEW p \in Path, Waiting(p) # 0
      PROVE  e \notin tree.listing[p]
  <2> SUFFICES ASSUME e \in tree.listing[p]
               PROVE  FALSE
    OBVIOUS
  <2>1. p = task[w]
    BY <1>1, ListingType
  <2>2. Waiting(p) \in Nat /\ Cardinality(StartedOn(p)) \in Nat
    BY WaitingType
  <2>3. Present(p) = Waiting(p) + Cardinality(StartedOn(p)) /\ Present(p) <= 1
    BY DEF Present, SeenInv
  <2> QED
    BY <1>2, <1>6, <2>1, <2>2, <2>3
<1>7. Present(e) = 0
  <2>1. e \notin Discovered
    BY <1>1 DEF Discovered
  <2> QED
    BY <1>1, <2>1 DEF SeenInv
<1>8. ASSUME NEW x \in tree.listing[e], x \in seen \cup {e}
      PROVE  FALSE
  <2>1. CASE x = e
    <3>1. task[w] = e
      BY <1>1, <1>8, <2>1, ListingType
    <3> QED
      BY <1>2, <1>7, <3>1
  <2>2. CASE x \in seen
    <3>1. PICK d \in seen \cup {Root} : x \in tree.listing[d]
      BY <2>2 DEF SeenInv
    <3>2. d \in Path
      BY DEF TypeOK, Path
    <3>3. d = e
      BY <1>1, <1>8, <3>1, <3>2, ListingType
    <3> QED
      BY <1>1, <3>3
  <2> QED
    BY <1>8, <2>1, <2>2
<1> QED
  BY <1>1, <1>4, <1>5, <1>6, <1>7, <1>8

LEMMA SeenStep ==
  ASSUME TypeOK, TypeOK', TaskInv, SeenInv, tree' = tree, FlowKinds
  PROVE  SeenInv'
<1> DEFINE Old(p) == /\ Waiting(p) \in Nat /\ Present(p) \in Nat
                     /\ Waiting(p)' \in Nat /\ Present(p)' \in Nat
<1>a. \A p \in Path : Old(p)
  <2>1. \A p \in Path : Waiting(p) \in Nat /\ Present(p) \in Nat
    BY WaitingType
  <2>2. (\A p \in Path : Waiting(p) \in Nat /\ Present(p) \in Nat)'
    BY WaitingTypes, PTL
  <2> QED
    BY <2>1, <2>2
<1>b. /\ Dir' = Dir /\ TreatedAsDirectory' = TreatedAsDirectory /\ Found' = Found
      /\ \A S : Closed(S)' <=> Closed(S)
  BY DEF Dir, TreatedAsDirectory, Found, Closed, Searchable
<1>1. CASE seen' = seen /\ Kept
  <2>1. Discovered' = Discovered /\ \A p \in Path : Searched(p)' <=> Searched(p)
    BY <1>1, <1>b DEF Discovered, Searched
  <2>2. \A p \in Path : /\ Present(p)' = Present(p)
                        /\ Waiting(p)' # 0 => Waiting(p) # 0
    BY <1>1, <1>a DEF Kept
  <2>3. Discovered \subseteq Path
    BY DEF Discovered, TypeOK, Path
  <2> QED
    BY <1>1, <1>b, <2>1, <2>2, <2>3 DEF SeenInv
<1>2. ASSUME NEW w \in Worker, NEW e \in remaining[w], wpc[w] = "read",
             seen' = seen \cup {e},
             \/ e \notin TreatedAsDirectory /\ Kept
             \/ /\ e \in TreatedAsDirectory
                /\ \A p \in Path : /\ Waiting(p)' = Waiting(p) + One(p = e)
                                   /\ Present(p)' = Present(p) + One(p = e)
      PROVE  SeenInv'
  <2>1. /\ e \in Entry /\ e \in Path /\ e # Root /\ e \notin seen /\ e \in Found
        /\ task[w] \in seen \cup {Root} /\ e \in tree.listing[task[w]]
        /\ \A p \in Path : Waiting(p) # 0 => e \notin tree.listing[p]
        /\ Present(e) = 0
        /\ tree.listing[e] \cap (seen \cup {e}) = {}
    BY <1>2, NewEntry
  <2>2. ASSUME NEW p \in Path, p # e \/ e \notin TreatedAsDirectory
        PROVE  Present(p)' = Present(p) /\ Waiting(p)' <= Waiting(p)
    BY <1>2, <1>a, <2>2 DEF Kept, One
  <2>3. ASSUME e \in TreatedAsDirectory
        PROVE  Present(e)' = 1
    BY <1>2, <2>1, <2>3 DEF One
  <2>4. \A p \in Path : Present(p)' <= 1
    <3>1. \A p \in Path : Present(p) <= 1
      BY DEF SeenInv
    <3> QED
      BY <2>2, <2>3, <3>1
  <2>5. \A p \in Path : Present(p)' # 0 => p \in Discovered'
    <3>1. Discovered \subseteq Discovered' /\ (e \in TreatedAsDirectory => e \in Discovered')
      BY <1>2, <1>b DEF Discovered
    <3>2. \A p \in Path : Present(p) # 0 => p \in Discovered
      BY DEF SeenInv
    <3> QED
      BY <2>2, <3>1, <3>2
  <2>6. ASSUME NEW p \in Path, Waiting(p)' # 0
        PROVE  tree.listing[p] \cap seen' = {}
    <3>1. CASE p = e /\ e \in TreatedAsDirectory
      BY <1>2, <2>1, <3>1
    <3>2. CASE ~(p = e /\ e \in TreatedAsDirectory)
      <4>1. Waiting(p) # 0
        BY <1>a, <2>2, <2>6, <3>2
      <4>2. tree.listing[p] \cap seen = {} /\ e \notin tree.listing[p]
        BY <2>1, <4>1 DEF SeenInv
      <4> QED
        BY <1>2, <4>2
    <3> QED
      BY <3>1, <3>2
  <2>7. seen' \subseteq Found'
    BY <1>2, <1>b, <2>1 DEF SeenInv
  <2>8. \A x \in seen' : \E d \in seen' \cup {Root} : x \in tree.listing[d]
    BY <1>2, <2>1 DEF SeenInv
  <2>9. ASSUME NEW d \in Discovered', Present(d)' = 0
        PROVE  Searched(d)'
    <3>1. d \in Path
      BY <1>2, <2>1 DEF Discovered, Path, TypeOK
    <3>2. d # e \/ e \notin TreatedAsDirectory
      BY <2>3, <2>9
    <3>3. d \in Discovered
      BY <1>2, <1>b, <2>9, <3>2 DEF Discovered
    <3>4. Present(d) = 0
      BY <2>2, <2>9, <3>1, <3>2
    <3>5. Searched(d)
      BY <3>3, <3>4 DEF SeenInv
    <3> QED
      BY <1>2, <1>b, <3>5 DEF Searched
  <2> QED
    BY <2>4, <2>5, <2>6, <2>7, <2>8, <2>9 DEF SeenInv
<1>3. ASSUME NEW w \in Worker, wpc[w] = "last", seen' = seen,
             \A p \in Path : /\ Waiting(p)' = Waiting(p)
                             /\ Present(p)' = Present(p) - One(p = task[w])
      PROVE  SeenInv'
  <2>1. /\ task[w] \in Path /\ task[w] \in Dir /\ tree.listing[task[w]] \subseteq seen
        /\ Present(task[w]) # 0
    BY <1>3, AtWork DEF TaskInv, Started
  <2>2. Discovered' = Discovered /\ Discovered \subseteq Path
        /\ \A p \in Path : Searched(p)' <=> Searched(p)
    BY <1>3, <1>b DEF Discovered, Searched, TypeOK, Path
  <2>3. \A p \in Path : /\ Present(p)' <= Present(p)
                        /\ Present(p)' # 0 => Present(p) # 0
                        /\ Present(p)' = 0 => Present(p) = 0 \/ p = task[w]
    <3> SUFFICES ASSUME NEW p \in Path
                 PROVE  /\ Present(p)' <= Present(p)
                        /\ Present(p)' # 0 => Present(p) # 0
                        /\ Present(p)' = 0 => Present(p) = 0 \/ p = task[w]
      OBVIOUS
    <3>1. Present(p)' = Present(p) - One(p = task[w]) /\ Old(p)
      BY <1>3, <1>a
    <3> QED
      BY <2>1, <3>1 DEF One
  <2>4. Searched(task[w])
    BY <2>1 DEF Searched
  <2>5. \A p \in Path : Present(p)' <= 1
    <3>1. \A p \in Path : Present(p) <= 1
      BY DEF SeenInv
    <3> QED
      BY <1>a, <2>3, <3>1
  <2>6. \A d \in Discovered' : Present(d)' = 0 => Searched(d)'
    BY <2>2, <2>3, <2>4 DEF SeenInv
  <2> QED
    BY <1>3, <1>b, <2>2, <2>3, <2>5, <2>6 DEF SeenInv
<1> QED
  BY <1>1, <1>2, <1>3 DEF FlowKinds

-----------------------------------------------------------------------------
(***************************************************************************)
(* What is counted, and what the manager has still to read, are what the   *)
(* workers have seen.                                                      *)
(***************************************************************************)
LEMMA ProductSize ==
  ASSUME NEW e, NEW h \in Nat
  PROVE  IsFiniteSet({e} \X (1 .. h)) /\ Cardinality({e} \X (1 .. h)) = h
<1> DEFINE g == [k \in 1 .. h |-> <<e, k>>]
<1>1. g \in Bijection(1 .. h, {e} \X (1 .. h))
  <2>1. g \in [1 .. h -> {e} \X (1 .. h)]
    OBVIOUS
  <2>2. \A k, l \in 1 .. h : g[k] = g[l] => k = l
    OBVIOUS
  <2>3. \A x \in {e} \X (1 .. h) : \E k \in 1 .. h : g[k] = x
    OBVIOUS
  <2> QED
    BY <2>1, <2>2, <2>3 DEF Bijection, Injection, Surjection, IsInjective
<1>2. ExistsBijection(1 .. h, {e} \X (1 .. h))
  BY <1>1 DEF ExistsBijection
<1>3. IsFiniteSet(1 .. h) /\ Cardinality(1 .. h) = h
  BY FS_Interval
<1> QED
  BY <1>2, <1>3, FS_Bijection

LEMMA HitLinesGrow ==
  ASSUME TypeOK, NEW S \in SUBSET Entry, NEW e \in Entry \ S
  PROVE  /\ IsFiniteSet(HitLines(S)) /\ Cardinality(HitLines(S)) \in Nat
         /\ Cardinality(HitLines(S \cup {e})) = Cardinality(HitLines(S)) + tree.hits[e]
<1>1. \A x \in Entry : tree.hits[x] \in Nat
  BY TreeType DEF Tree
<1> DEFINE B(x) == {x} \X (1 .. tree.hits[x])
           F == {B(x) : x \in S}
           g == [x \in S |-> B(x)]
<1>2. \A x \in Entry : IsFiniteSet(B(x)) /\ Cardinality(B(x)) = tree.hits[x]
  BY <1>1, ProductSize
<1>3. IsFiniteSet(S)
  BY PfindAssumption, FS_Subset
<1>4. IsFiniteSet(F)
  <2>1. g \in Surjection(S, F)
    <3> HIDE DEF B
    <3> QED
      BY DEF Surjection
  <2> QED
    BY <1>3, <2>1, FS_Surjection
<1>5. IsFiniteSet(UNION F)
  <2>1. \A T \in F : IsFiniteSet(T)
    <3> HIDE DEF B
    <3> QED
      BY <1>2
  <2> HIDE DEF F
  <2> QED
    BY <1>4, <2>1, FS_UNION
<1>6. HitLines(S) = UNION F
  BY DEF HitLines
<1>7. HitLines(S \cup {e}) = HitLines(S) \cup B(e)
  BY DEF HitLines
<1>8. HitLines(S) \cap B(e) = {}
  BY DEF HitLines
<1>9. IsFiniteSet(B(e)) /\ Cardinality(B(e)) = tree.hits[e] /\ tree.hits[e] \in Nat
  BY <1>1, <1>2
<1> HIDE DEF B, F
<1>10. IsFiniteSet(HitLines(S)) /\ Cardinality(HitLines(S)) \in Nat
  BY <1>5, <1>6, FS_CardinalityType
<1>11. Cardinality(HitLines(S) \cup B(e))
         = Cardinality(HitLines(S)) + Cardinality(B(e)) - Cardinality(HitLines(S) \cap B(e))
  BY <1>9, <1>10, FS_Union
<1>12. Cardinality(HitLines(S) \cap B(e)) = 0
  BY <1>8, FS_EmptySet
<1>13. Cardinality(HitLines(S \cup {e})) = Cardinality(HitLines(S) \cup B(e))
  BY <1>7
<1>14. Cardinality(HitLines(S) \cup B(e)) = Cardinality(HitLines(S)) + tree.hits[e]
  BY <1>9, <1>10, <1>11, <1>12
<1> QED
  BY <1>10, <1>13, <1>14

LEMMA SeenGrows ==
  ASSUME NEW S \in SUBSET Entry, NEW e \in Entry \ S, NEW X
  PROVE  /\ Cardinality(S \cap X) \in Nat
         /\ Cardinality((S \cup {e}) \cap X) = Cardinality(S \cap X) + One(e \in X)
<1>1. S \cap X \in SUBSET Entry /\ e \notin S \cap X
  OBVIOUS
<1>2. IsFiniteSet(S \cap X) /\ Cardinality(S \cap X) \in Nat
  BY <1>1, PfindAssumption, FS_Subset, FS_CardinalityType
<1>3. Cardinality((S \cap X) \cup {e}) = Cardinality(S \cap X) + 1
  BY <1>1, <1>2, FS_AddElement
<1>4. (S \cup {e}) \cap X = IF e \in X THEN (S \cap X) \cup {e} ELSE S \cap X
  OBVIOUS
<1> QED
  BY <1>2, <1>3, <1>4 DEF One

(* What a step does to the fields on their way and to the counters.        *)
counters == <<file_count, line_count, dir_count>>
Quiet == \A w \in Worker : wpc[w] \notin {"read", "spin", "exited"}
NoSpin == \A w \in Worker : wpc[w] # "spin"

EntryReport(e, r) ==
  /\ CountIn(r, Path) = One(e \in TreatedAsDirectory)
  /\ CountIn(r, {"f"}) = One(e \in Text \cap tree.has_keyword)
  /\ CountIn(r, {"l"}) = IF e \in Text THEN tree.hits[e] ELSE 0

StreamKinds ==
  \/ Stream' = Stream /\ seen' = seen /\ UNCHANGED counters /\ (Quiet' => Quiet)
  \/ /\ Stream # <<>> /\ Stream' = Tail(Stream) /\ seen' = seen /\ (Quiet' => Quiet)
     /\ dir_count' = dir_count + One(Head(Stream) \in Path)
     /\ file_count' = file_count + One(Head(Stream) = "f")
     /\ line_count' = line_count + One(Head(Stream) = "l")
  \/ \E e \in Entry \ seen, r \in Seq(Field) :
       /\ Stream' = Stream \o r /\ seen' = seen \cup {e} /\ UNCHANGED counters
       /\ NoSpin' => EntryReport(e, r)
       /\ ~ Quiet'
  \/ Stream' = Stream \o Message("n") /\ seen' = seen /\ UNCHANGED counters

LEMMA StreamStep ==
  ASSUME TypeOK, TypeOK', ManagerInv, LockInv, OutInv, FrameInv, RoundInv, Framed,
         TaskInv, Next
  PROVE  StreamKinds /\ (NoSpin' => NoSpin)
<1> USE DEF ManagerGoto, WorkerGoto, signals, pipes, managed, worked, counters
<1>a. /\ wpc \in [Worker -> WPC] /\ pipe2 \in Seq(Field)
      /\ out \in [Worker \cup {Manager} -> Seq(Field)]
      /\ {file_count, line_count, dir_count} \subseteq Nat
      /\ Manager \notin Worker /\ NULL \notin Path
  BY Distinct DEF TypeOK
(* The manager.                                                            *)
<1>b. ASSUME ManagerStep
      PROVE  (Quiet' => Quiet) /\ (NoSpin' => NoSpin)
  <2>1. wpc' = wpc \/ ManagerFork \/ ManagerKill
    BY <1>b, ManagerKeeps
  <2>2. CASE wpc' = wpc
    BY <2>2 DEF Quiet, NoSpin
  <2>3. CASE ManagerFork
    BY <2>3 DEF ManagerFork, ManagerInv, Quiet, NoSpin
  <2>4. CASE ManagerKill
    <3>1. Idle
      BY <2>4 DEF ManagerKill, RoundInv, Rounds
    <3> QED
      BY <3>1 DEF Idle, Busy, Quiet, NoSpin
  <2> QED
    BY <2>1, <2>2, <2>3, <2>4
<1>1. ASSUME ManagerStep, UNCHANGED <<pipe2, counters>>
      PROVE  StreamKinds
  <2>1. Stream' = Stream /\ seen' = seen
    BY <1>1, ManagerKeeps, StreamSame
  <2> QED
    BY <1>1, <1>b, <2>1 DEF StreamKinds
<1>2. ASSUME ManagerStep, ManagerRead, mpc \in Reading2,
             /\ dir_count' = dir_count + One(Head(pipe2) \in Path)
             /\ file_count' = file_count + One(Head(pipe2) = "f")
             /\ line_count' = line_count + One(Head(pipe2) = "l")
      PROVE  StreamKinds
  <2>1. /\ pipe2 # <<>> /\ pipe2' = Tail(pipe2) /\ seen' = seen
        /\ \A w \in Worker : out'[w] = out[w]
    BY <1>2, ManagerKeeps DEF ManagerRead
  <2>2. Stream = pipe2 /\ Stream' = Tail(pipe2)
    BY <1>2, <2>1, StreamRead
  <2> QED
    BY <1>2, <1>b, <2>1, <2>2 DEF StreamKinds
<1>3. ASSUME ManagerStep
      PROVE  StreamKinds
  <2>1. ManagerAction
    BY <1>3 DEF ManagerStep
  <2>2. CASE \/ ManagerFork \/ ManagerOpen1 \/ ManagerOpen2 \/ ManagerPlan \/ ManagerLock1
             \/ ManagerNextTask \/ ManagerWrite
             \/ ManagerUnlock1 \/ ManagerWake \/ ManagerStop \/ ManagerLock2 \/ ManagerUnlock2
             \/ ManagerKill
    <3>1. UNCHANGED <<pipe2, counters>>
      BY <2>2 DEF ManagerFork, ManagerOpen1, ManagerOpen2, ManagerPlan, ManagerLock1,
         ManagerNextTask, ManagerWrite, ManagerUnlock1, ManagerWake, ManagerStop, ManagerLock2,
         ManagerUnlock2, ManagerKill
    <3> QED
      BY <1>1, <1>3, <3>1
  <2>3. CASE ManagerReadLength \/ ManagerReadDirLength
    <3>1. ManagerRead /\ mpc \in {"length", "dir_length"} /\ UNCHANGED counters
      BY <2>3 DEF ManagerReadLength, ManagerReadDirLength
    <3>2. Head(pipe2) = "len"
      BY <3>1 DEF Framed, ManagerRead
    <3>3. One(Head(pipe2) \in Path) = 0 /\ One(Head(pipe2) = "f") = 0
          /\ One(Head(pipe2) = "l") = 0
      BY <3>2, FieldNames DEF One
    <3> QED
      BY <1>2, <1>3, <1>a, <3>1, <3>3 DEF Reading2
  <2>4. CASE ManagerReadDirectory \/ ManagerReadNothing
    <3>1. /\ ManagerRead /\ mpc = "option" /\ UNCHANGED counters
          /\ Head(pipe2) \in {"d", "n"}
      BY <2>4 DEF ManagerReadDirectory, ManagerReadNothing
    <3>2. One(Head(pipe2) \in Path) = 0 /\ One(Head(pipe2) = "f") = 0
          /\ One(Head(pipe2) = "l") = 0
      BY <3>1, FieldNames DEF One
    <3> QED
      BY <1>2, <1>3, <1>a, <3>1, <3>2 DEF Reading2
  <2>5. CASE ManagerReadFile
    <3>1. /\ ManagerRead /\ mpc = "option" /\ UNCHANGED <<dir_count, line_count>>
          /\ Head(pipe2) = "f" /\ file_count' = file_count + 1
      BY <2>5 DEF ManagerReadFile
    <3>2. One(Head(pipe2) \in Path) = 0 /\ One(Head(pipe2) = "f") = 1
          /\ One(Head(pipe2) = "l") = 0
      BY <3>1, FieldNames DEF One
    <3> QED
      BY <1>2, <1>3, <1>a, <3>1, <3>2 DEF Reading2
  <2>6. CASE ManagerReadLine
    <3>1. /\ ManagerRead /\ mpc = "option" /\ UNCHANGED <<dir_count, file_count>>
          /\ Head(pipe2) = "l" /\ line_count' = line_count + 1
      BY <2>6 DEF ManagerReadLine
    <3>2. One(Head(pipe2) \in Path) = 0 /\ One(Head(pipe2) = "f") = 0
          /\ One(Head(pipe2) = "l") = 1
      BY <3>1, FieldNames DEF One
    <3> QED
      BY <1>2, <1>3, <1>a, <3>1, <3>2 DEF Reading2
  <2>7. CASE ManagerReadDir
    <3>1. /\ ManagerRead /\ mpc = "dir" /\ UNCHANGED <<line_count, file_count>>
          /\ dir_count' = dir_count + 1
      BY <2>7 DEF ManagerReadDir
    <3>2. Head(pipe2) \in Path
      BY <3>1 DEF Framed, ManagerRead
    <3>3. One(Head(pipe2) \in Path) = 1 /\ One(Head(pipe2) = "f") = 0
          /\ One(Head(pipe2) = "l") = 0
      BY <3>2, FieldNames DEF One
    <3> QED
      BY <1>2, <1>3, <1>a, <3>1, <3>3 DEF Reading2
  <2> QED
    BY <2>1, <2>2, <2>3, <2>4, <2>5, <2>6, <2>7 DEF ManagerAction
(* A worker.                                                               *)
<1>c. ASSUME NEW w \in Worker, WorkerStep(w)
      PROVE  /\ UNCHANGED counters
             /\ (wpc[w] = "spin" => wpc'[w] = "spin") => (NoSpin' => NoSpin)
             /\ (wpc[w] \in {"read", "spin", "exited"}
                  => wpc'[w] \in {"read", "spin", "exited"}) => (Quiet' => Quiet)
  BY <1>c, WorkerKeeps DEF Quiet, NoSpin
<1>4. ASSUME NEW w \in Worker, WorkerStep(w),
             \/ WorkerOpen1(w) \/ WorkerOpen2(w) \/ WorkerSetup(w) \/ WorkerStop(w)
             \/ WorkerLock1(w) \/ WorkerReadLength(w) \/ WorkerReadTask(w)
             \/ WorkerUnlock1(w) \/ WorkerLock2(w) \/ WorkerOpenDir(w)
             \/ WorkerUnlock2(w) \/ WorkerWake(w)
      PROVE  StreamKinds /\ (NoSpin' => NoSpin)
  <2>1. /\ UNCHANGED <<pipe2, out, seen>> /\ wpc[w] \notin {"read", "spin", "exited"}
    BY <1>4 DEF WorkerOpen1, WorkerOpen2, WorkerSetup, WorkerStop, WorkerLock1,
       WorkerReadLength, WorkerReadTask, WorkerUnlock1, WorkerLock2, WorkerOpenDir,
       WorkerUnlock2, WorkerWake
  <2>2. Stream' = Stream
    BY <2>1, StreamSame
  <2> QED
    BY <1>4, <1>c, <2>1, <2>2 DEF StreamKinds
<1>5. ASSUME NEW w \in Worker, WorkerStep(w), WorkerExit(w)
      PROVE  StreamKinds /\ (NoSpin' => NoSpin)
  <2>1. /\ UNCHANGED <<pipe2, out, seen>> /\ wpc[w] \in {"open", "read"}
        /\ wpc'[w] = "exited"
    BY <1>5, <1>a DEF WorkerExit, OpenFails
  <2>2. Stream' = Stream
    BY <2>1, StreamSame
  <2> QED
    BY <1>5, <1>c, <2>1, <2>2 DEF StreamKinds
<1>6. ASSUME NEW w \in Worker, WorkerStep(w), WorkerWrite(w)
      PROVE  StreamKinds /\ (NoSpin' => NoSpin)
  <2>1. UNCHANGED <<seen, wpc>>
    BY <1>6 DEF WorkerWrite
  <2>2. Stream' = Stream
    BY <1>6, StreamWrite
  <2> QED
    BY <1>6, <1>c, <2>1, <2>2 DEF StreamKinds
<1>7. ASSUME NEW w \in Worker, WorkerStep(w), WorkerReadLast(w)
      PROVE  StreamKinds /\ (NoSpin' => NoSpin)
  <2>1. /\ UNCHANGED <<seen, pipe2>> /\ wpc[w] = "read" /\ out[w] = <<>>
        /\ out' = [out EXCEPT ![w] = Message("n")]
    BY <1>7 DEF WorkerReadLast
  <2>2. Stream' = Stream \o Message("n")
    BY <2>1, StreamReport
  <2> QED
    BY <1>7, <1>c, <2>1, <2>2 DEF StreamKinds
<1>8. ASSUME NEW w \in Worker, WorkerStep(w), NEW e \in Entry, NEW to, NEW r \in Seq(Field),
             ReadEntry(w, e, to, r), to \in {"read", "spin"},
             to = "read" => EntryReport(e, r)
      PROVE  StreamKinds /\ (NoSpin' => NoSpin)
  <2>1. /\ UNCHANGED pipe2 /\ wpc[w] = "read" /\ wpc'[w] = to /\ out[w] = <<>>
        /\ out' = [out EXCEPT ![w] = r] /\ seen' = seen \cup {e} /\ e \in remaining[w]
    BY <1>8, <1>a DEF ReadEntry
  <2>2. e \notin seen
    BY <2>1 DEF TaskInv
  <2>3. Stream' = Stream \o r
    BY <2>1, StreamReport
  <2>4. ~ Quiet' /\ (NoSpin' => to = "read")
    BY <1>8, <2>1 DEF Quiet, NoSpin
  <2> QED
    BY <1>8, <1>c, <2>1, <2>2, <2>3, <2>4 DEF StreamKinds
<1>9. ASSUME NEW w \in Worker, WorkerStep(w), NEW e \in Entry,
             \/ WorkerReadText(w, e) \/ WorkerReadEndless(w, e)
             \/ WorkerReadDirectory(w, e) \/ WorkerReadOther(w, e)
      PROVE  StreamKinds /\ (NoSpin' => NoSpin)
  <2>1. <<>> \in Seq(Field) /\ TextReport(e) \in Seq(Field)
        /\ Message("d") \o Message(e) \in Seq(Field)
    BY <1>9, Reported
  <2>2. e \in Text => e \notin TreatedAsDirectory
    BY DEF Text, TreatedAsDirectory
  <2>3. CASE WorkerReadText(w, e)
    <3>1. e \in Text /\ ReadEntry(w, e, "read", TextReport(e))
      BY <2>3 DEF WorkerReadText
    <3>2. EntryReport(e, TextReport(e))
      BY <1>9, <2>2, <3>1, TextCounts DEF EntryReport, One
    <3> QED
      BY <1>8, <1>9, <2>1, <3>1, <3>2
  <2>4. CASE WorkerReadEndless(w, e)
    <3>1. ReadEntry(w, e, "spin", <<>>)
      BY <2>4 DEF WorkerReadEndless
    <3> QED
      BY <1>8, <1>9, <2>1, <3>1
  <2>5. CASE WorkerReadDirectory(w, e)
    <3>1. e \in TreatedAsDirectory /\ ReadEntry(w, e, "read", Message("d") \o Message(e))
      BY <2>5 DEF WorkerReadDirectory
    <3>2. EntryReport(e, Message("d") \o Message(e))
      BY <1>9, <2>2, <3>1, DirectoryCounts DEF EntryReport, One
    <3> QED
      BY <1>8, <1>9, <2>1, <3>1, <3>2
  <2>6. CASE WorkerReadOther(w, e)
    <3>1. ReadEntry(w, e, "read", <<>>) /\ tree.says[e] = {}
      BY <2>6 DEF WorkerReadOther
    <3>2. e \notin Text /\ e \notin TreatedAsDirectory
      BY <3>1 DEF Text, TreatedAsDirectory
    <3>3. EntryReport(e, <<>>)
      BY <3>2, CountEmpty DEF EntryReport, One
    <3> QED
      BY <1>8, <1>9, <2>1, <3>1, <3>3
  <2> QED
    BY <1>9, <2>3, <2>4, <2>5, <2>6
<1>10. ASSUME NEW w \in Worker, WorkerStep(w)
       PROVE  StreamKinds /\ (NoSpin' => NoSpin)
  <2>1. WorkerAction(w)
    BY <1>10 DEF WorkerStep
  <2> QED
    BY <1>4, <1>5, <1>6, <1>7, <1>9, <1>10, <2>1 DEF WorkerAction
<1> QED
  BY <1>3, <1>b, <1>10 DEF Next

LEMMA CountStep ==
  ASSUME TypeOK, TypeOK', CountInv, StreamKinds, NoSpin' => NoSpin, tree' = tree
  PROVE  CountInv'
<1> SUFFICES ASSUME NoSpin'
             PROVE  Counted'
  BY DEF CountInv, NoSpin
<1> USE DEF counters
<1>1. Counted /\ NoSpin
  BY DEF CountInv, NoSpin
<1>2. /\ TreatedAsDirectory' = TreatedAsDirectory /\ Text' = Text
      /\ tree.has_keyword' = tree.has_keyword
      /\ \A S : HitLines(S)' = HitLines(S)
  BY DEF TreatedAsDirectory, Text, HitLines
<1>3. /\ file_count \in Nat /\ line_count \in Nat /\ dir_count \in Nat
      /\ seen \in SUBSET Entry /\ Stream \in Seq(Field)
  BY StreamType DEF TypeOK
<1>4. \A V : CountIn(Stream, V) \in Nat
  BY <1>3, CountType
(* Each of the three sums, while nothing is seen.                          *)
<1>5. ASSUME seen' = seen,
             /\ dir_count' + CountIn(Stream, Path)' = dir_count + CountIn(Stream, Path)
             /\ file_count' + CountIn(Stream, {"f"})' = file_count + CountIn(Stream, {"f"})
             /\ line_count' + CountIn(Stream, {"l"})' = line_count + CountIn(Stream, {"l"})
      PROVE  Counted'
  <2>1. HitLines(seen \cap Text)' = HitLines(seen \cap Text)
    BY <1>2, <1>5 DEF HitLines
  <2> QED
    BY <1>1, <1>2, <1>5, <2>1 DEF Counted
<1>6. CASE Stream' = Stream /\ seen' = seen /\ UNCHANGED counters
  BY <1>5, <1>6
<1>7. CASE /\ Stream # <<>> /\ Stream' = Tail(Stream) /\ seen' = seen
           /\ dir_count' = dir_count + One(Head(Stream) \in Path)
           /\ file_count' = file_count + One(Head(Stream) = "f")
           /\ line_count' = line_count + One(Head(Stream) = "l")
  <2>1. \A V : CountIn(Stream, V) = CountIn(Stream, V)' + One(Head(Stream) \in V)
    BY <1>3, <1>7, CountTail DEF One
  <2>2. \A V : CountIn(Stream, V)' \in Nat
    <3>1. Tail(Stream) \in Seq(Field)
      BY <1>3, <1>7
    <3> QED
      BY <1>7, <3>1, CountType
  <2>3. dir_count' + CountIn(Stream, Path)' = dir_count + CountIn(Stream, Path)
    BY <1>3, <1>7, <2>1, <2>2 DEF One
  <2>4. file_count' + CountIn(Stream, {"f"})' = file_count + CountIn(Stream, {"f"})
    BY <1>3, <1>7, <2>1, <2>2 DEF One
  <2>5. line_count' + CountIn(Stream, {"l"})' = line_count + CountIn(Stream, {"l"})
    BY <1>3, <1>7, <2>1, <2>2 DEF One
  <2> QED
    BY <1>5, <1>7, <2>3, <2>4, <2>5
<1>8. CASE Stream' = Stream \o Message("n") /\ seen' = seen /\ UNCHANGED counters
  <2>1. \A V : CountIn(Stream, V)' = CountIn(Stream, V) + CountIn(Message("n"), V)
    BY <1>3, <1>8, MessageFields, CountConcat
  <2>2. /\ CountIn(Stream, Path)' = CountIn(Stream, Path)
        /\ CountIn(Stream, {"f"})' = CountIn(Stream, {"f"})
        /\ CountIn(Stream, {"l"})' = CountIn(Stream, {"l"})
    BY <1>4, <2>1, LastCounts
  <2> QED
    BY <1>5, <1>8, <2>2
<1>9. ASSUME NEW e \in Entry \ seen, NEW r \in Seq(Field), Stream' = Stream \o r,
             seen' = seen \cup {e}, UNCHANGED counters, EntryReport(e, r)
      PROVE  Counted'
  <2>1. \A V : CountIn(Stream, V)' = CountIn(Stream, V) + CountIn(r, V)
    BY <1>3, <1>9, CountConcat
  <2>2. dir_count' + CountIn(Stream, Path)'
          = Cardinality(seen \cap TreatedAsDirectory) + One(e \in TreatedAsDirectory)
    BY <1>1, <1>3, <1>4, <1>9, <2>1 DEF Counted, EntryReport, One
  <2>3. file_count' + CountIn(Stream, {"f"})'
          = Cardinality(seen \cap (Text \cap tree.has_keyword))
              + One(e \in Text \cap tree.has_keyword)
    <3>1. seen \cap (Text \cap tree.has_keyword) = seen \cap Text \cap tree.has_keyword
      OBVIOUS
    <3>2. file_count + CountIn(Stream, {"f"})
            = Cardinality(seen \cap (Text \cap tree.has_keyword))
      BY <1>1, <3>1 DEF Counted
    <3>3. CountIn(Stream, {"f"})'
            = CountIn(Stream, {"f"}) + One(e \in Text \cap tree.has_keyword)
      BY <1>9, <2>1 DEF EntryReport
    <3> QED
      BY <1>3, <1>4, <1>9, <3>2, <3>3 DEF One
  <2>4. line_count' + CountIn(Stream, {"l"})'
          = Cardinality(HitLines(seen \cap Text)) + (IF e \in Text THEN tree.hits[e] ELSE 0)
    <3>1. tree.hits[e] \in Nat
      BY <1>9, TreeType DEF Tree
    <3>2. line_count + CountIn(Stream, {"l"}) = Cardinality(HitLines(seen \cap Text))
      BY <1>1 DEF Counted
    <3>3. CountIn(Stream, {"l"})'
            = CountIn(Stream, {"l"}) + (IF e \in Text THEN tree.hits[e] ELSE 0)
      BY <1>9, <2>1 DEF EntryReport
    <3> QED
      BY <1>3, <1>4, <1>9, <3>1, <3>2, <3>3
  <2>5. Cardinality(seen' \cap TreatedAsDirectory)
          = Cardinality(seen \cap TreatedAsDirectory) + One(e \in TreatedAsDirectory)
    BY <1>3, <1>9, SeenGrows
  <2>6. Cardinality(seen' \cap Text \cap tree.has_keyword)
          = Cardinality(seen \cap (Text \cap tree.has_keyword))
              + One(e \in Text \cap tree.has_keyword)
    <3>1. Cardinality((seen \cup {e}) \cap (Text \cap tree.has_keyword))
            = Cardinality(seen \cap (Text \cap tree.has_keyword))
                + One(e \in Text \cap tree.has_keyword)
      BY <1>3, <1>9, SeenGrows
    <3>2. seen' \cap Text \cap tree.has_keyword
            = (seen \cup {e}) \cap (Text \cap tree.has_keyword)
      BY <1>9
    <3> QED
      BY <3>1, <3>2
  <2>7. Cardinality(HitLines(seen' \cap Text))
          = Cardinality(HitLines(seen \cap Text)) + (IF e \in Text THEN tree.hits[e] ELSE 0)
    <3>1. seen \cap Text \in SUBSET Entry /\ e \in Entry \ (seen \cap Text)
      BY <1>3, <1>9
    <3>2. /\ Cardinality(HitLines(seen \cap Text)) \in Nat
          /\ Cardinality(HitLines((seen \cap Text) \cup {e}))
               = Cardinality(HitLines(seen \cap Text)) + tree.hits[e]
      BY <3>1, HitLinesGrow
    <3>3. CASE e \in Text
      <4>1. seen' \cap Text = (seen \cap Text) \cup {e}
        BY <1>9, <3>3
      <4> QED
        BY <3>2, <3>3, <4>1
    <3>4. CASE e \notin Text
      <4>1. seen' \cap Text = seen \cap Text
        BY <1>9, <3>4
      <4>2. Cardinality(HitLines(seen' \cap Text)) = Cardinality(HitLines(seen \cap Text))
        BY <4>1
      <4>3. Cardinality(HitLines(seen \cap Text)) + 0
              = Cardinality(HitLines(seen \cap Text))
        BY <3>2
      <4> QED
        BY <3>4, <4>2, <4>3
    <3> QED
      BY <3>3, <3>4
  <2>8. /\ (seen \cap TreatedAsDirectory)' = seen' \cap TreatedAsDirectory
        /\ (seen \cap Text \cap tree.has_keyword)' = seen' \cap Text \cap tree.has_keyword
        /\ HitLines(seen \cap Text)' = HitLines(seen' \cap Text)
    BY <1>2 DEF HitLines
  <2> QED
    BY <2>2, <2>3, <2>4, <2>5, <2>6, <2>7, <2>8 DEF Counted
<1> QED
  BY <1>6, <1>7, <1>8, <1>9 DEF StreamKinds

-----------------------------------------------------------------------------
(***************************************************************************)
(* The manager ends the workers with its queue and the pipes empty.        *)
(***************************************************************************)
LEMMA EndStep ==
  ASSUME TypeOK, EndInv, StreamKinds, Next
  PROVE  EndInv'
<1> DEFINE Ended(s) == s = <<>> \/ s[Len(s)] = "n"
<1>1. Stream \in Seq(Field)
  BY StreamType
<1>2. ASSUME Quiet'
      PROVE  Ended(Stream')
  <2>1. Quiet => Ended(Stream)
    BY DEF EndInv, Quiet
  <2>2. CASE Stream' = Stream /\ (Quiet' => Quiet)
    BY <1>2, <2>1, <2>2
  <2>3. CASE Stream # <<>> /\ Stream' = Tail(Stream) /\ (Quiet' => Quiet)
    <3>1. /\ Len(Stream) \in Nat \ {0} /\ Len(Tail(Stream)) = Len(Stream) - 1
          /\ \A k \in 1 .. Len(Tail(Stream)) : Tail(Stream)[k] = Stream[k + 1]
      BY <1>1, <2>3, HeadTailProperties, EmptySeq
    <3>2. Tail(Stream) \in Seq(Field)
      BY <1>1, <2>3
    <3>3. CASE Len(Tail(Stream)) = 0
      BY <2>3, <3>2, <3>3, EmptySeq
    <3>4. CASE Len(Tail(Stream)) # 0
      <4>1. Tail(Stream)[Len(Tail(Stream))] = Stream[Len(Stream)]
        BY <3>1, <3>4
      <4>2. Stream[Len(Stream)] = "n"
        BY <1>2, <2>1, <2>3
      <4> QED
        BY <2>3, <4>1, <4>2
    <3> QED
      BY <3>3, <3>4
  <2>4. CASE Stream' = Stream \o Message("n")
    <3>1. /\ Message("n") \in Seq(Field) /\ Len(Message("n")) = 2 /\ Message("n")[2] = "n"
      BY MessageFields DEF Message, Field
    <3>2. /\ Len(Stream \o Message("n")) = Len(Stream) + 2
          /\ (Stream \o Message("n"))[Len(Stream) + 2] = "n"
      <4> HIDE DEF Message
      <4>1. /\ Len(Stream) \in Nat
            /\ Len(Stream \o Message("n")) = Len(Stream) + Len(Message("n"))
            /\ \A k \in 1 .. Len(Stream) + Len(Message("n")) :
                 (Stream \o Message("n"))[k]
                   = IF k <= Len(Stream) THEN Stream[k] ELSE Message("n")[k - Len(Stream)]
        BY <1>1, <3>1, ConcatProperties, LenProperties
      <4> QED
        BY <3>1, <4>1
    <3> QED
      BY <2>4, <3>2
  <2> QED
    BY <1>2, <2>2, <2>3, <2>4 DEF StreamKinds
<1>3. ASSUME mpc' \in {"kill", "done"}
      PROVE  queue' = <<>>
  <2> USE DEF ManagerGoto, WorkerGoto, signals, pipes, managed, worked
  <2>1. CASE ManagerStep
    <3>1. ManagerAction
      BY <2>1 DEF ManagerStep
    <3>2. CASE ManagerUnlock2
      BY <1>3, <3>2 DEF ManagerUnlock2
    <3>3. CASE ManagerKill
      BY <3>3 DEF ManagerKill, EndInv
    <3>4. CASE ~ ManagerUnlock2 /\ ~ ManagerKill
      <4>1. mpc' \notin {"kill", "done"}
        BY <3>1, <3>4 DEF ManagerAction, ManagerFork, ManagerOpen1, ManagerOpen2,
           ManagerPlan, ManagerLock1, ManagerNextTask, ManagerWrite, ManagerUnlock1,
           ManagerWake, ManagerStop, ManagerLock2, ManagerReadLength, ManagerReadFile,
           ManagerReadLine, ManagerReadDirectory, ManagerReadNothing, ManagerReadDirLength,
           ManagerReadDir
      <4> QED
        BY <1>3, <4>1
    <3> QED
      BY <3>2, <3>3, <3>4
  <2>2. ASSUME NEW w \in Worker, WorkerStep(w)
        PROVE  queue' = <<>>
    BY <1>3, <2>2, WorkerKeeps DEF EndInv
  <2> QED
    BY <2>1, <2>2 DEF Next
<1> QED
  BY <1>2, <1>3 DEF EndInv, Quiet

-----------------------------------------------------------------------------
LEMMA SearchInit == Init => SearchInv
<1> SUFFICES ASSUME Init PROVE SearchInv
  OBVIOUS
<1>1. TypeOK
  BY InvInit DEF IInv
<1>2. /\ tree \in Trees /\ queue = <<Root>> /\ pipe1 = <<>> /\ pipe2 = <<>> /\ seen = {}
      /\ \A w \in Worker : wpc[w] = "none" /\ task[w] = NULL /\ out[w] = <<>>
      /\ out[Manager] = <<>> /\ mpc = "fork"
      /\ file_count = 0 /\ line_count = 0 /\ dir_count = 0
  BY DEF Init
<1>3. Stream = <<>>
  <2>1. Stream = pipe2
    BY <1>1, <1>2, StreamIsPipe
  <2> QED
    BY <1>2, <2>1
<1>4. TaskInv
  BY <1>2, Distinct DEF TaskInv, Ready, Started
<1>5. ASSUME NEW p \in Path
      PROVE  Waiting(p) = One(p = Root) /\ Present(p) = One(p = Root)
  <2>1. ReadyFor(p) = {} /\ StartedOn(p) = {}
    BY <1>2 DEF ReadyFor, StartedOn, Ready, Started
  <2>2. Cardinality(ReadyFor(p)) = 0 /\ Cardinality(StartedOn(p)) = 0
    BY <2>1, FS_EmptySet
  <2>3. CountIn(queue, {p}) = One(p = Root)
    <3>1. <<>> \in Seq(Path) /\ Root \in Path /\ queue = Append(<<>>, Root)
      BY <1>2 DEF Path
    <3>2. CountIn(Append(<<>>, Root), {p})
            = CountIn(<<>>, {p}) + (IF Root \in {p} THEN 1 ELSE 0)
      BY <3>1, CountAppend
    <3> QED
      BY <3>1, <3>2, CountEmpty DEF One
  <2>4. CountIn(out[Manager], {p}) = 0 /\ CountIn(pipe1, {p}) = 0 /\ CountIn(Stream, {p}) = 0
    BY <1>2, <1>3, CountEmpty
  <2> QED
    BY <2>2, <2>3, <2>4 DEF Waiting, Present, One
<1>6. SeenInv
  <2>1. \A p \in Path : Present(p) <= 1 /\ (Present(p) # 0 => p = Root)
    BY <1>5 DEF One
  <2>2. Discovered = {Root} /\ Root \in Path
    BY <1>2 DEF Discovered, Path
  <2>3. Present(Root) # 0
    BY <1>5, <2>2 DEF One
  <2> QED
    BY <1>2, <2>1, <2>2, <2>3 DEF SeenInv
<1>7. Counted
  <2>1. /\ CountIn(Stream, Path) = 0 /\ CountIn(Stream, {"f"}) = 0
        /\ CountIn(Stream, {"l"}) = 0
    BY <1>3, CountEmpty
  <2>2. /\ seen \cap TreatedAsDirectory = {} /\ seen \cap Text \cap tree.has_keyword = {}
        /\ HitLines(seen \cap Text) = {}
    BY <1>2 DEF HitLines
  <2>3. Cardinality({}) = 0
    BY FS_EmptySet
  <2>4. /\ Cardinality(seen \cap TreatedAsDirectory) = 0
        /\ Cardinality(seen \cap Text \cap tree.has_keyword) = 0
        /\ Cardinality(HitLines(seen \cap Text)) = 0
    BY <2>2, <2>3
  <2> QED
    BY <1>2, <2>1, <2>4 DEF Counted
<1>8. EndInv
  BY <1>2, <1>3 DEF EndInv
<1> QED
  BY <1>4, <1>6, <1>7, <1>8 DEF SearchInv, CountInv

LEMMA SearchStutter ==
  ASSUME TypeOK, TypeOK', SearchInv, UNCHANGED vars
  PROVE  SearchInv'
<1> USE DEF vars, pipes, managed, worked
<1>1. /\ UNCHANGED <<tree, seen, wpc, task, remaining, mpc, queue, Stream>>
      /\ UNCHANGED <<dir_count, line_count, file_count>>
  BY DEF Stream, Writing
<1>2. Kept
  <2>1. ASSUME NEW p \in Path
        PROVE  Waiting(p)' <= Waiting(p) /\ Present(p)' = Present(p)
    <3>1. Waiting(p)' = Waiting(p) /\ Present(p)' = Present(p)
      BY <1>1 DEF Waiting, Present, ReadyFor, StartedOn
    <3>2. Waiting(p) \in Nat
      BY WaitingType
    <3> QED
      BY <3>1, <3>2
  <2> QED
    BY <2>1 DEF Kept
<1> HIDE DEF vars, pipes, managed, worked
<1>3. TaskInv'
  BY <1>1 DEF SearchInv, TaskInv, Dir
<1>4. SeenInv'
  BY <1>1, <1>2, SeenStep DEF SearchInv, FlowKinds
<1>5. CountInv'
  <2>1. StreamKinds /\ (NoSpin' => NoSpin)
    BY <1>1 DEF StreamKinds, Quiet, NoSpin, counters
  <2> QED
    BY <1>1, <2>1, CountStep DEF SearchInv
<1>6. EndInv'
  BY <1>1 DEF SearchInv, EndInv
<1> QED
  BY <1>3, <1>4, <1>5, <1>6 DEF SearchInv

LEMMA SearchStep == IInv /\ IInv' /\ SearchInv /\ [Next]_vars => SearchInv'
<1> SUFFICES ASSUME IInv, IInv', SearchInv, [Next]_vars
             PROVE  SearchInv'
  OBVIOUS
<1>1. /\ TypeOK /\ ManagerInv /\ LockInv /\ OutInv /\ FrameInv /\ RoundInv
      /\ TypeOK' /\ TaskInv /\ SeenInv /\ CountInv /\ EndInv /\ Framed
  BY FramedNow DEF IInv, SearchInv
<1>2. CASE UNCHANGED vars
  BY <1>1, <1>2, SearchStutter
<1>3. CASE Next
  <2>1. tree' = tree
    BY <1>3 DEF Next, ManagerStep, WorkerStep
  <2>2. TaskInv'
    BY <1>1, <1>3, TaskStep
  <2>3. SeenInv'
    <3>1. FlowKinds
      BY <1>1, <1>3, FlowStep
    <3> QED
      BY <1>1, <2>1, <3>1, SeenStep
  <2>4. StreamKinds /\ (NoSpin' => NoSpin)
    BY <1>1, <1>3, StreamStep
  <2>5. CountInv'
    BY <1>1, <2>1, <2>4, CountStep
  <2>6. EndInv'
    BY <1>1, <1>3, <2>4, EndStep
  <2> QED
    BY <2>2, <2>3, <2>5, <2>6 DEF SearchInv
<1> QED
  BY <1>2, <1>3

(***************************************************************************)
(* The invariant of the search: where each directory is, what has been     *)
(* seen, and what has been counted, for any file systems, any number of    *)
(* workers and any capacity of the pipes.                                  *)
(***************************************************************************)
THEOREM SearchInvariance == Spec => [](IInv /\ SearchInv)
<1>1. Init => SearchInv
  BY SearchInit
<1>2. IInv /\ IInv' /\ SearchInv /\ [Next]_vars => SearchInv'
  BY SearchStep
<1> QED
  BY <1>1, <1>2, Invariance, PTL DEF Spec

-----------------------------------------------------------------------------
LEMMA CountTwo ==
  ASSUME NEW S, NEW s \in Seq(S), NEW p, NEW k \in 1 .. Len(s), s[k] = p
  PROVE  /\ CountIn(s, {p}) >= 1
         /\ CountIn(s, {p}) <= 1 => \A l \in 1 .. Len(s) : s[l] = p => l = k
<1>1. IsFiniteSet(Positions(s, {p})) /\ CountIn(s, {p}) \in Nat
  BY CountType
<1>2. k \in Positions(s, {p})
  BY DEF Positions
<1>3. CountIn(s, {p}) # 0
  BY CountZero
<1>4. ASSUME CountIn(s, {p}) = 1
      PROVE  \A l \in 1 .. Len(s) : s[l] = p => l = k
  <2>1. PICK x : Positions(s, {p}) = {x}
    BY <1>1, <1>4, FS_Singleton DEF CountIn
  <2>2. \A l \in 1 .. Len(s) : s[l] = p => l \in Positions(s, {p})
    BY DEF Positions
  <2> QED
    BY <1>2, <2>1, <2>2
<1> QED
  BY <1>1, <1>3, <1>4

LEMMA OneWorker ==
  ASSUME TypeOK, NEW p, Cardinality(ReadyFor(p)) + Cardinality(StartedOn(p)) <= 1,
         NEW w \in ReadyFor(p) \cup StartedOn(p)
  PROVE  /\ Cardinality(ReadyFor(p)) + Cardinality(StartedOn(p)) >= 1
         /\ \A u \in ReadyFor(p) \cup StartedOn(p) : u = w
<1> DEFINE R == ReadyFor(p)
           T == StartedOn(p)
<1>1. R \in SUBSET Worker /\ T \in SUBSET Worker
  BY DEF ReadyFor, StartedOn
<1>2. IsFiniteSet(R) /\ IsFiniteSet(T) /\ Cardinality(R) \in Nat /\ Cardinality(T) \in Nat
  BY <1>1, WorkersFinite
<1>3. R \cap T = {}
  BY DEF ReadyFor, StartedOn, Ready, Started
<1> HIDE DEF R, T
<1>4. IsFiniteSet(R \cup T) /\ Cardinality(R \cup T) = Cardinality(R) + Cardinality(T)
  <2>1. Cardinality(R \cap T) = 0
    BY <1>3, FS_EmptySet
  <2>2. /\ IsFiniteSet(R \cup T)
        /\ Cardinality(R \cup T) = Cardinality(R) + Cardinality(T) - Cardinality(R \cap T)
    BY <1>2, FS_Union
  <2> QED
    BY <1>2, <2>1, <2>2
<1>5. w \in R \cup T /\ Cardinality(R) + Cardinality(T) <= 1
  BY DEF R, T
<1>6. Cardinality(R \cup T) # 0
  BY <1>4, <1>5, FS_EmptySet
<1>7. Cardinality(R \cup T) = 1
  BY <1>2, <1>4, <1>5, <1>6
<1>8. PICK x : R \cup T = {x}
  BY <1>4, <1>7, FS_Singleton
<1>9. Cardinality(R) + Cardinality(T) >= 1 /\ \A u \in R \cup T : u = w
  BY <1>4, <1>5, <1>7, <1>8
<1> QED
  BY <1>9 DEF R, T

(* The position in the stream of a field that is in pipe2 or that a worker *)
(* has still to write.                                                     *)
LEMMA InTheStream ==
  ASSUME TypeOK, LockInv, OutInv, NEW p, NEW w \in Worker, NEW k \in 1 .. Len(out[w]),
         out[w][k] = p
  PROVE  /\ Len(pipe2) + k \in 1 .. Len(Stream) /\ Stream[Len(pipe2) + k] = p
         /\ \A u \in Worker : out[u] # <<>> => u = w
<1>1. /\ out[w] \in Seq(Field) /\ pipe2 \in Seq(Field)
  BY DEF TypeOK
<1>2. out[w] # <<>>
  OBVIOUS
<1>3. \A u \in Worker : u # w => out[u] = <<>>
  BY <1>2, OneWriter DEF OutInv
<1>4. Stream = pipe2 \o out[w]
  BY <1>3, WritingIs DEF Stream
<1>5. /\ Len(pipe2 \o out[w]) = Len(pipe2) + Len(out[w])
      /\ Len(pipe2) \in Nat /\ Len(out[w]) \in Nat
      /\ \A n \in 1 .. Len(pipe2) + Len(out[w]) :
           (pipe2 \o out[w])[n] = IF n <= Len(pipe2) THEN pipe2[n] ELSE out[w][n - Len(pipe2)]
  BY <1>1, ConcatProperties, LenProperties
<1> QED
  BY <1>3, <1>4, <1>5

LEMMA InPipe2 ==
  ASSUME TypeOK, NEW k \in 1 .. Len(pipe2)
  PROVE  k \in 1 .. Len(Stream) /\ Stream[k] = pipe2[k]
<1>1. pipe2 \in Seq(Field) /\ Writing \in Seq(Field)
  BY StreamType DEF TypeOK
<1>2. /\ Len(pipe2 \o Writing) = Len(pipe2) + Len(Writing)
      /\ Len(pipe2) \in Nat /\ Len(Writing) \in Nat
      /\ \A n \in 1 .. Len(pipe2) + Len(Writing) :
           (pipe2 \o Writing)[n]
             = IF n <= Len(pipe2) THEN pipe2[n] ELSE Writing[n - Len(pipe2)]
  BY <1>1, ConcatProperties, LenProperties
<1> QED
  BY <1>2 DEF Stream

LEMMA OnePlace == IInv /\ SearchInv => OneTaskPerDirectory
<1> SUFFICES ASSUME IInv, SearchInv, NEW p \in Path
             PROVE  \A x, y \in Places(p) : x = y
  BY DEF OneTaskPerDirectory
<1> DEFINE O(w) == Fields("out", w, out[w], p)
           Q == Fields("queue", Manager, queue, p)
           F == Fields("pipe1", Manager, pipe1, p)
           G == Fields("pipe2", Manager, pipe2, p)
           M == O(Manager)
           S == G \cup UNION {O(w) : w \in Worker}
           T == {<<"task", w, 1>> : w \in {w \in Worker : task[w] = p}}
           nQ == CountIn(queue, {p})
           nF == CountIn(pipe1, {p})
           nM == CountIn(out[Manager], {p})
           nS == CountIn(Stream, {p})
           nT == Cardinality(ReadyFor(p)) + Cardinality(StartedOn(p))
<1>1. Places(p) = Q \cup F \cup M \cup S \cup T
  <2>1. \A x : x \in Places(p) <=>
          \/ x \in Q \/ x \in F \/ x \in G \/ x \in T
          \/ \E u \in Worker \cup {Manager} : x \in O(u)
    BY DEF Places
  <2>2. \A x : x \in S <=> x \in G \/ \E w \in Worker : x \in O(w)
    OBVIOUS
  <2>3. \A x : x \in M <=> x \in O(Manager)
    OBVIOUS
  <2> HIDE DEF Q, F, G, T, M, S, O
  <2>4. \A x : x \in Places(p) <=> x \in Q \cup F \cup M \cup S \cup T
    BY <2>1, <2>2, <2>3
  <2> QED
    BY <2>4
<1>2. /\ nQ \in Nat /\ nF \in Nat /\ nM \in Nat /\ nS \in Nat /\ nT \in Nat
      /\ nQ + nM + nF + nS + nT <= 1
  <2>1. /\ nQ \in Nat /\ nF \in Nat /\ nM \in Nat /\ nS \in Nat
        /\ Cardinality(ReadyFor(p)) \in Nat /\ Cardinality(StartedOn(p)) \in Nat
    BY WaitingType DEF IInv
  <2>2. Present(p) <= 1
    BY DEF SearchInv, SeenInv
  <2>3. Present(p) = nQ + nM + nF + nS + Cardinality(ReadyFor(p)) + Cardinality(StartedOn(p))
    BY DEF Present, Waiting
  <2> HIDE DEF nQ, nF, nM, nS
  <2> QED
    BY <2>1, <2>2, <2>3
<1>3. /\ queue \in Seq(Path) /\ pipe1 \in Seq({"len"} \cup Path) /\ out[Manager] \in Seq(Field)
      /\ Stream \in Seq(Field)
  BY StreamType DEF IInv, TypeOK
<1>4. /\ Q # {} => nQ >= 1
      /\ \A x, y \in Q : x = y
  <2>1. nQ <= 1
    <3> HIDE DEF nQ, nF, nM, nS, nT
    <3> QED
      BY <1>2
  <2>2. ASSUME NEW k \in 1 .. Len(queue), queue[k] = p
        PROVE  nQ >= 1 /\ \A l \in 1 .. Len(queue) : queue[l] = p => l = k
    BY <1>3, <2>1, <2>2, CountTwo
  <2> HIDE DEF nQ
  <2> QED
    BY <2>2 DEF Fields
<1>5. /\ F # {} => nF >= 1
      /\ \A x, y \in F : x = y
  <2>1. nF <= 1
    <3> HIDE DEF nQ, nF, nM, nS, nT
    <3> QED
      BY <1>2
  <2>2. ASSUME NEW k \in 1 .. Len(pipe1), pipe1[k] = p
        PROVE  nF >= 1 /\ \A l \in 1 .. Len(pipe1) : pipe1[l] = p => l = k
    BY <1>3, <2>1, <2>2, CountTwo
  <2> HIDE DEF nF
  <2> QED
    BY <2>2 DEF Fields
<1>6. /\ M # {} => nM >= 1
      /\ \A x, y \in M : x = y
  <2>1. nM <= 1
    <3> HIDE DEF nQ, nF, nM, nS, nT
    <3> QED
      BY <1>2
  <2>2. ASSUME NEW k \in 1 .. Len(out[Manager]), out[Manager][k] = p
        PROVE  nM >= 1 /\ \A l \in 1 .. Len(out[Manager]) : out[Manager][l] = p => l = k
    BY <1>3, <2>1, <2>2, CountTwo
  <2> HIDE DEF nM
  <2> QED
    BY <2>2 DEF Fields
<1>7. /\ S # {} => nS >= 1
      /\ \A x, y \in S : x = y
  <2>1. nS <= 1
    <3> HIDE DEF nQ, nF, nM, nS, nT
    <3> QED
      BY <1>2
  <2> DEFINE At(x, n) ==
               /\ n \in 1 .. Len(Stream) /\ Stream[n] = p
               /\ \/ n <= Len(pipe2) /\ x = <<"pipe2", Manager, n>>
                  \/ \E w \in Worker :
                       /\ n > Len(pipe2) /\ x = <<"out", w, n - Len(pipe2)>>
                       /\ out[w] # <<>> /\ \A u \in Worker : out[u] # <<>> => u = w
  <2>2. ASSUME NEW x \in S
        PROVE  \E n : At(x, n)
    <3>1. Len(pipe2) \in Nat
      BY DEF IInv, TypeOK
    <3>2. CASE x \in G
      <4>1. PICK k \in 1 .. Len(pipe2) : pipe2[k] = p /\ x = <<"pipe2", Manager, k>>
        BY <3>2 DEF Fields
      <4>2. k \in 1 .. Len(Stream) /\ Stream[k] = p
        BY <4>1, InPipe2 DEF IInv
      <4> QED
        BY <3>1, <4>1, <4>2
    <3>3. CASE x \in UNION {O(w) : w \in Worker}
      <4>1. PICK w \in Worker : x \in O(w)
        BY <3>3
      <4>2. PICK k \in 1 .. Len(out[w]) : out[w][k] = p /\ x = <<"out", w, k>>
        BY <4>1 DEF Fields
      <4>3. /\ Len(pipe2) + k \in 1 .. Len(Stream) /\ Stream[Len(pipe2) + k] = p
            /\ \A u \in Worker : out[u] # <<>> => u = w
        BY <4>2, InTheStream DEF IInv
      <4>4. out[w] # <<>>
        BY <4>2
      <4>5. (Len(pipe2) + k) - Len(pipe2) = k /\ Len(pipe2) + k > Len(pipe2)
        BY <3>1, <4>2
      <4>6. At(x, Len(pipe2) + k)
        BY <4>2, <4>3, <4>4, <4>5
      <4> QED
        BY <4>6
    <3> QED
      BY <3>2, <3>3
  <2>3. ASSUME NEW x \in S, NEW y \in S
        PROVE  nS >= 1 /\ x = y
    <3>1. PICK n : At(x, n)
      BY <2>2
    <3>2. PICK l : At(y, l)
      BY <2>2
    <3>3. nS >= 1 /\ n = l
      BY <1>3, <2>1, <3>1, <3>2, CountTwo
    <3>4. n \in Nat /\ Len(pipe2) \in Nat
      BY <3>1 DEF IInv, TypeOK
    <3>5. CASE n <= Len(pipe2)
      BY <3>1, <3>2, <3>3, <3>4, <3>5
    <3>6. CASE n > Len(pipe2)
      <4>1. PICK w \in Worker : x = <<"out", w, n - Len(pipe2)>> /\ out[w] # <<>>
        BY <3>1, <3>4, <3>6
      <4>2. PICK u \in Worker : /\ y = <<"out", u, n - Len(pipe2)>>
                                /\ \A v \in Worker : out[v] # <<>> => v = u
        BY <3>2, <3>3, <3>4, <3>6
      <4>3. w = u
        BY <4>1, <4>2
      <4> QED
        BY <3>3, <4>1, <4>2, <4>3
    <3> QED
      BY <3>3, <3>4, <3>5, <3>6
  <2> QED
    BY <2>3
<1>8. /\ T # {} => nT >= 1
      /\ \A x, y \in T : x = y
  <2>1. nT <= 1
    <3> HIDE DEF nQ, nF, nM, nS, nT
    <3> QED
      BY <1>2
  <2>2. \A w \in Worker : task[w] = p => w \in ReadyFor(p) \cup StartedOn(p)
    BY DEF SearchInv, TaskInv, ReadyFor, StartedOn
  <2>3. ASSUME NEW w \in Worker, task[w] = p
        PROVE  nT >= 1 /\ \A u \in Worker : task[u] = p => u = w
    BY <2>1, <2>2, <2>3, OneWorker DEF IInv
  <2> QED
    BY <2>3
<1> HIDE DEF Q, F, M, S, T, nQ, nF, nM, nS, nT
<1>9. \/ F = {} /\ M = {} /\ S = {} /\ T = {}
      \/ Q = {} /\ M = {} /\ S = {} /\ T = {}
      \/ Q = {} /\ F = {} /\ S = {} /\ T = {}
      \/ Q = {} /\ F = {} /\ M = {} /\ T = {}
      \/ Q = {} /\ F = {} /\ M = {} /\ S = {}
  BY <1>2, <1>4, <1>5, <1>6, <1>7, <1>8
<1> QED
  BY <1>1, <1>4, <1>5, <1>6, <1>7, <1>8, <1>9

(* A directory is in one place at a time, from the report that names it to *)
(* the end of its search: the manager never hands it out twice, and no two *)
(* workers search it (pfind.c:150-230).                                    *)
THEOREM OneTaskEach == Spec => []OneTaskPerDirectory
<1>1. IInv /\ SearchInv => OneTaskPerDirectory
  BY OnePlace
<1> QED
  BY <1>1, SearchInvariance, PTL

-----------------------------------------------------------------------------
LEMMA NoTaskNoField ==
  ASSUME NEW S, NEW s \in Seq(S), CountIn(s, Path) = 0,
         Frames(s, "task_length", "task_length")
  PROVE  s = <<>>
<1> SUFFICES ASSUME s # <<>>
             PROVE  FALSE
  OBVIOUS
<1>1. PICK q \in Phase : Moves("task_length", Head(s), q) /\ Frames(Tail(s), q, "task_length")
  BY FramesTail
<1>2. q = "task"
  BY <1>1 DEF Moves
<1>3. Tail(s) \in Seq(S)
  OBVIOUS
<1>4. Tail(s) # <<>>
  <2>1. ~ Frames(<<>>, "task", "task_length")
    BY FramesEmpty
  <2> QED
    BY <1>1, <1>2, <2>1
<1>5. PICK z \in Phase : Moves("task", Head(Tail(s)), z)
  BY <1>1, <1>2, <1>3, <1>4, FramesTail
<1>6. Head(Tail(s)) \in Path
  BY <1>5 DEF Moves
<1>7. 2 \in 1 .. Len(s) /\ s[2] = Head(Tail(s))
  BY <1>3, <1>4
<1>8. s[2] \notin Path
  BY <1>7, CountZero
<1> QED
  BY <1>6, <1>7, <1>8

(* What is left when the manager is done.                                  *)
LEMMA AllDone ==
  ASSUME IInv, SearchInv, mpc = "done"
  PROVE  /\ pipe1 = <<>> /\ pipe2 = <<>> /\ Stream = <<>> /\ NoSpin
         /\ \A p \in Path : Present(p) = 0
<1> USE DEF IInv, SearchInv
<1>1. Idle /\ Tasks = 0 /\ Reports = 0
  BY DEF RoundInv, Rounds, Reading2
<1>2. \A w \in Worker : wpc[w] \notin {"length", "task", "unlock1", "lock2", "open", "read",
                                       "last", "spin", "exited"}
  BY <1>1 DEF Idle, Busy, Reporting, Awake, OutInv
<1>3. /\ out[Manager] = <<>> /\ queue = <<>>
      /\ \A w \in Worker : out[w] = <<>>
  BY <1>2 DEF OutInv, EndInv
<1>4. /\ pipe1 \in Seq({"len"} \cup Path) /\ pipe2 \in Seq(Field)
  BY DEF TypeOK
<1>5. pipe1 = <<>>
  <2>1. Reader1 = "task_length"
    BY <1>2 DEF Reader1
  <2>2. pipe1 \o out[Manager] = pipe1
    BY <1>3, <1>4, ConcatEmptySeq
  <2>3. Frames(pipe1, "task_length", "task_length")
    BY <2>1, <2>2 DEF FrameInv
  <2> QED
    BY <1>1, <1>4, <2>3, NoTaskNoField DEF Tasks
<1>6. Stream = pipe2
  BY <1>3, StreamIsPipe
<1>7. pipe2 = <<>>
  <2>1. CountIn(pipe2, {"n"}) = 0
    <3>1. CountIn(pipe2, {"n"}) \in Nat
      BY <1>4, CountType
    <3>2. Cardinality(Unsent) \in Nat
      <4>1. Unsent \in SUBSET Worker
        BY DEF Unsent
      <4> QED
        BY <4>1, WorkersFinite
    <3> QED
      BY <1>1, <3>1, <3>2 DEF Reports
  <2>2. \A k \in 1 .. Len(pipe2) : pipe2[k] # "n"
    BY <1>4, <2>1, CountZero
  <2>3. pipe2 = <<>> \/ pipe2[Len(pipe2)] = "n"
    BY <1>2, <1>6 DEF EndInv
  <2> QED
    BY <1>4, <2>2, <2>3
<1>8. ASSUME NEW p \in Path
      PROVE  Present(p) = 0
  <2>1. ReadyFor(p) = {} /\ StartedOn(p) = {}
    BY <1>2 DEF ReadyFor, StartedOn, Ready, Started
  <2>2. Cardinality(ReadyFor(p)) = 0 /\ Cardinality(StartedOn(p)) = 0
    BY <2>1, FS_EmptySet
  <2>3. /\ CountIn(queue, {p}) = 0 /\ CountIn(out[Manager], {p}) = 0
        /\ CountIn(pipe1, {p}) = 0 /\ CountIn(Stream, {p}) = 0
    BY <1>3, <1>5, <1>6, <1>7, CountEmpty
  <2> QED
    BY <2>2, <2>3 DEF Waiting, Present
<1> QED
  BY <1>2, <1>5, <1>6, <1>7, <1>8 DEF NoSpin

(* Everything the search can reach has been seen, and nothing else has.    *)
LEMMA AllFound ==
  ASSUME TypeOK, SeenInv, \A p \in Path : Present(p) = 0
  PROVE  seen = Found
<1>1. seen \subseteq Entry /\ Root \notin Entry /\ Entry \subseteq Path /\ Root \in Path
  BY PfindAssumption DEF TypeOK, Path
<1>2. \A d \in Discovered : tree.listing[d] \subseteq seen
  BY <1>1 DEF SeenInv, Discovered, Searched
<1>3. ({Root} \cup seen) \cap Searchable \subseteq Discovered
  BY <1>1 DEF Searchable, Discovered
<1>4. Closed({Root} \cup seen)
  BY <1>2, <1>3 DEF Closed
<1>5. {Root} \cup seen \in SUBSET Path
  BY <1>1
<1>6. Found \subseteq {Root} \cup seen /\ Found \subseteq Entry
  BY <1>4, <1>5 DEF Found
<1> QED
  BY <1>1, <1>6 DEF SeenInv

LEMMA CountsNow == IInv /\ SearchInv => SummaryCounts
<1> SUFFICES ASSUME IInv, SearchInv, mpc = "done"
             PROVE  /\ dir_count = Cardinality(Found \cap TreatedAsDirectory)
                    /\ line_count = Cardinality(HitLines(Found \cap Text))
                    /\ file_count = Cardinality(Found \cap Text \cap tree.has_keyword)
                    /\ pipe1 = <<>> /\ pipe2 = <<>>
  <2>1. ({Root} \cup (Found \cap TreatedAsDirectory)) \ {Root} = Found \cap TreatedAsDirectory
    BY PfindAssumption DEF Found
  <2> QED
    BY <2>1 DEF SummaryCounts
<1>1. /\ pipe1 = <<>> /\ pipe2 = <<>> /\ Stream = <<>> /\ NoSpin
      /\ \A p \in Path : Present(p) = 0
  BY AllDone
<1>2. seen = Found
  BY <1>1, AllFound DEF IInv, SearchInv
<1>3. Counted
  BY <1>1 DEF SearchInv, CountInv, NoSpin
<1>4. /\ CountIn(Stream, Path) = 0 /\ CountIn(Stream, {"f"}) = 0
      /\ CountIn(Stream, {"l"}) = 0
  BY <1>1, CountEmpty
<1>5. file_count \in Nat /\ line_count \in Nat /\ dir_count \in Nat
  BY DEF IInv, TypeOK
<1>6. /\ dir_count = Cardinality(seen \cap TreatedAsDirectory)
      /\ file_count = Cardinality(seen \cap Text \cap tree.has_keyword)
      /\ line_count = Cardinality(HitLines(seen \cap Text))
  BY <1>3, <1>4, <1>5 DEF Counted
<1> QED
  BY <1>1, <1>2, <1>6

(* Whatever the order in which the workers ran, and whichever of them      *)
(* failed, a manager that reaches the end (pfind.c:232-240) has counted,   *)
(* in what the search can reach, each directory but the root, each text    *)
(* file that holds a keyword and each line found, once.  It prints the     *)
(* first two as the explored directories and files, which are more.        *)
THEOREM SummaryIs == Spec => []SummaryCounts
<1>1. IInv /\ SearchInv => SummaryCounts
  BY CountsNow
<1> QED
  BY <1>1, SearchInvariance, PTL
=============================================================================
