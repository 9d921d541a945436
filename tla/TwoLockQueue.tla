---------------------------- MODULE TwoLockQueue ----------------------------
(***************************************************************************)
(* The thread-safe task queue of tfind (OS/HW4/queue.h): a linked list     *)
(* with a dummy node in front, a lock for each end, and a count of the     *)
(* stored nodes.  One action is one access to memory that another thread   *)
(* may also access; what a thread does to its own fresh node or to its     *)
(* locals belongs to the access before or after it.                        *)
(*                                                                         *)
(* The program is built without optimisation (OS/HW4/makefile), so that    *)
(* "count++" and "count--" are a load and a store: two actions.  Pointers  *)
(* are aligned words, read and written whole.                              *)
(***************************************************************************)
EXTENDS Integers, Sequences, FiniteSets

CONSTANTS Thread,   (* the threads that use the queue                      *)
          Node,     (* the memory blocks malloc can return                 *)
          Data,     (* the values stored: pointers to directory paths      *)
          NULL      (* the null pointer; also "no thread" and "no value"   *)

ASSUME NullAssumption == NULL \notin Thread \cup Node \cup Data

VARIABLES
  next, data,            (* the fields of every node                       *)
  allocated,             (* the nodes malloc returned and nobody freed     *)
  head, tail, count,     (* the fields of the queue_t                      *)
  head_lock, tail_lock,  (* the thread that holds each mutex, or NULL      *)
  pc,                    (* where each thread is in Enqueue or Dequeue     *)
  temp, new_head,        (* the node pointers local to the two functions   *)
  reg,                   (* the register that holds a loaded count         *)
  val,                   (* Enqueue's parameter, Dequeue's result          *)
  chain                  (* history: the nodes linked and not yet passed   *)
                         (* by head, in the order they were linked         *)

heap == <<next, data, allocated>>
locks == <<head_lock, tail_lock>>
locals == <<temp, new_head, reg, val>>
vars == <<heap, head, tail, count, locks, pc, locals, chain>>

EnqPC == {"e_lock", "e_link", "e_swing", "e_load", "e_store", "e_unlock"}
DeqPC == {"d_lock", "d_read", "d_empty", "d_take", "d_load", "d_store",
          "d_unlock", "d_free"}
PC == {"idle"} \cup EnqPC \cup DeqPC

Last(s) == s[Len(s)]

-----------------------------------------------------------------------------
(* Queue_Init, run once before any other thread exists.                    *)
Init ==
  \E dummy \in Node :
    /\ next = [n \in Node |-> NULL]
    /\ data = [n \in Node |-> NULL]
    /\ allocated = {dummy}
    /\ head = dummy
    /\ tail = dummy
    /\ count = 0
    /\ head_lock = NULL
    /\ tail_lock = NULL
    /\ pc = [t \in Thread |-> "idle"]
    /\ temp = [t \in Thread |-> NULL]
    /\ new_head = [t \in Thread |-> NULL]
    /\ reg = [t \in Thread |-> 0]
    /\ val = [t \in Thread |-> NULL]
    /\ chain = <<dummy>>

IsEmpty == count = 0

Goto(t, from, to) ==
  /\ pc[t] = from
  /\ pc' = [pc EXCEPT ![t] = to]

-----------------------------------------------------------------------------
(* What plausible mistakes in Enqueue and Dequeue would do: the variants   *)
(* of the actions below on which the properties must fail.                 *)
BeyondEnqSwing(t) ==      \* tail = temp->next
  /\ Goto(t, "e_swing", "e_load")
  /\ tail' = next[temp[t]]
  /\ temp' = [temp EXCEPT ![t] = NULL]
  /\ UNCHANGED <<heap, head, count, locks, new_head, reg, val, chain>>

UnlockedEnqLock(t) ==     \* no pthread_mutex_lock(&q->tail_lock)
  /\ Goto(t, "e_lock", "e_link")
  /\ tail_lock' = t
  /\ UNCHANGED <<heap, head, tail, count, head_lock, locals, chain>>

UnlockedDeqLock(t) ==     \* no pthread_mutex_lock(&q->head_lock)
  /\ Goto(t, "d_lock", "d_read")
  /\ head_lock' = t
  /\ UNCHANGED <<heap, head, tail, count, tail_lock, locals, chain>>

OldDummyDeqTake(t) ==     \* data = temp->data
  /\ Goto(t, "d_take", "d_load")
  /\ val' = [val EXCEPT ![t] = data[temp[t]]]
  /\ head' = new_head[t]
  /\ chain' = Tail(chain)
  /\ new_head' = [new_head EXCEPT ![t] = NULL]
  /\ UNCHANGED <<heap, tail, count, locks, temp, reg>>

NewDummyDeqFree(t) ==     \* free(q->head)
  /\ Goto(t, "d_free", "idle")
  /\ allocated' = allocated \ {head}
  /\ temp' = [temp EXCEPT ![t] = NULL]
  /\ UNCHANGED <<next, data, head, tail, count, locks, new_head, reg, val,
                 chain>>

NoDeqFree(t) ==           \* no free(temp)
  /\ Goto(t, "d_free", "idle")
  /\ temp' = [temp EXCEPT ![t] = NULL]
  /\ UNCHANGED <<heap, head, tail, count, locks, new_head, reg, val, chain>>

-----------------------------------------------------------------------------
(* Enqueue(q, data).  malloc may return any block that is not in use, a    *)
(* block freed by Dequeue included.  The node is filled in before it is    *)
(* shared.                                                                 *)
EnqCall(t, d) ==
  /\ Goto(t, "idle", "e_lock")
  /\ \E n \in Node \ allocated :
       /\ allocated' = allocated \cup {n}
       /\ data' = [data EXCEPT ![n] = d]
       /\ next' = [next EXCEPT ![n] = NULL]
       /\ temp' = [temp EXCEPT ![t] = n]
  /\ val' = [val EXCEPT ![t] = d]
  /\ UNCHANGED <<head, tail, count, locks, new_head, reg, chain>>

EnqLock(t) ==
  /\ Goto(t, "e_lock", "e_link")
  /\ tail_lock = NULL
  /\ tail_lock' = t
  /\ UNCHANGED <<heap, head, tail, count, head_lock, locals, chain>>

EnqLink(t) ==
  /\ Goto(t, "e_link", "e_swing")
  /\ next' = [next EXCEPT ![tail] = temp[t]]
  /\ chain' = Append(chain, temp[t])
  /\ UNCHANGED <<data, allocated, head, tail, count, locks, locals>>

EnqSwing(t) ==
  /\ Goto(t, "e_swing", "e_load")
  /\ tail' = temp[t]
  /\ temp' = [temp EXCEPT ![t] = NULL]
  /\ UNCHANGED <<heap, head, count, locks, new_head, reg, val, chain>>

EnqLoadCount(t) ==
  /\ Goto(t, "e_load", "e_store")
  /\ reg' = [reg EXCEPT ![t] = count]
  /\ UNCHANGED <<heap, head, tail, count, locks, temp, new_head, val, chain>>

EnqStoreCount(t) ==
  /\ Goto(t, "e_store", "e_unlock")
  /\ count' = reg[t] + 1
  /\ reg' = [reg EXCEPT ![t] = 0]
  /\ UNCHANGED <<heap, head, tail, locks, temp, new_head, val, chain>>

EnqUnlock(t) ==
  /\ Goto(t, "e_unlock", "idle")
  /\ tail_lock' = NULL
  /\ val' = [val EXCEPT ![t] = NULL]
  /\ UNCHANGED <<heap, head, tail, count, head_lock, temp, new_head, reg,
                 chain>>

-----------------------------------------------------------------------------
(* Dequeue(q).                                                             *)
DeqCall(t) ==
  /\ Goto(t, "idle", "d_lock")
  /\ val' = [val EXCEPT ![t] = NULL]
  /\ UNCHANGED <<heap, head, tail, count, locks, temp, new_head, reg, chain>>

DeqLock(t) ==
  /\ Goto(t, "d_lock", "d_read")
  /\ head_lock = NULL
  /\ head_lock' = t
  /\ UNCHANGED <<heap, head, tail, count, tail_lock, locals, chain>>

(* head is written under head_lock only; head->next is read while an       *)
(* Enqueue may be writing it, which is the one unsynchronised access to    *)
(* the list.                                                               *)
DeqRead(t) ==
  /\ Goto(t, "d_read", IF next[head] = NULL THEN "d_empty" ELSE "d_take")
  /\ temp' = [temp EXCEPT ![t] = IF next[head] = NULL THEN NULL ELSE head]
  /\ new_head' = [new_head EXCEPT ![t] = next[head]]
  /\ UNCHANGED <<heap, head, tail, count, locks, reg, val, chain>>

DeqEmpty(t) ==
  /\ Goto(t, "d_empty", "idle")
  /\ head_lock' = NULL
  /\ UNCHANGED <<heap, head, tail, count, tail_lock, locals, chain>>

DeqTake(t) ==
  /\ Goto(t, "d_take", "d_load")
  /\ val' = [val EXCEPT ![t] = data[new_head[t]]]
  /\ head' = new_head[t]
  /\ chain' = Tail(chain)
  /\ new_head' = [new_head EXCEPT ![t] = NULL]
  /\ UNCHANGED <<heap, tail, count, locks, temp, reg>>

DeqLoadCount(t) ==
  /\ Goto(t, "d_load", "d_store")
  /\ reg' = [reg EXCEPT ![t] = count]
  /\ UNCHANGED <<heap, head, tail, count, locks, temp, new_head, val, chain>>

DeqStoreCount(t) ==
  /\ Goto(t, "d_store", "d_unlock")
  /\ count' = reg[t] - 1
  /\ reg' = [reg EXCEPT ![t] = 0]
  /\ UNCHANGED <<heap, head, tail, locks, temp, new_head, val, chain>>

DeqUnlock(t) ==
  /\ Goto(t, "d_unlock", "d_free")
  /\ head_lock' = NULL
  /\ UNCHANGED <<heap, head, tail, count, tail_lock, locals, chain>>

DeqFree(t) ==
  /\ Goto(t, "d_free", "idle")
  /\ allocated' = allocated \ {temp[t]}
  /\ temp' = [temp EXCEPT ![t] = NULL]
  /\ UNCHANGED <<next, data, head, tail, count, locks, new_head, reg, val,
                 chain>>

-----------------------------------------------------------------------------
(* What a thread does inside a call it has begun.                          *)
EnqStep(t) ==
  \/ EnqLock(t) \/ EnqLink(t) \/ EnqSwing(t)
  \/ EnqLoadCount(t) \/ EnqStoreCount(t) \/ EnqUnlock(t)

DeqStep(t) ==
  \/ DeqLock(t) \/ DeqRead(t) \/ DeqEmpty(t) \/ DeqTake(t)
  \/ DeqLoadCount(t) \/ DeqStoreCount(t) \/ DeqUnlock(t) \/ DeqFree(t)

Next ==
  \E t \in Thread :
    \/ \E d \in Data : EnqCall(t, d)
    \/ DeqCall(t)
    \/ EnqStep(t)
    \/ DeqStep(t)

Spec == Init /\ [][Next]_vars
-----------------------------------------------------------------------------
(* The correctness properties.                                             *)

TypeOK ==
  /\ next \in [Node -> Node \cup {NULL}]
  /\ data \in [Node -> Data \cup {NULL}]
  /\ allocated \subseteq Node
  /\ head \in Node
  /\ tail \in Node
  /\ count \in Int
  /\ head_lock \in Thread \cup {NULL}
  /\ tail_lock \in Thread \cup {NULL}
  /\ pc \in [Thread -> PC]
  /\ temp \in [Thread -> Node \cup {NULL}]
  /\ new_head \in [Thread -> Node \cup {NULL}]
  /\ reg \in [Thread -> Int]
  /\ val \in [Thread -> Data \cup {NULL}]
  /\ chain \in Seq(Node)

(* No thread reads, writes or frees a node that is already freed, although *)
(* Dequeue frees the old dummy after it gave head_lock up and although     *)
(* tail may still point to that freed node while an Enqueue is between     *)
(* linking its node and moving tail (queue.h:43-44, 62-63).                *)
NoDanglingAccess ==
  \A t \in Thread :
    /\ pc[t] = "e_link" => tail \in allocated
    /\ pc[t] = "d_read" => head \in allocated
    /\ pc[t] = "d_take" => new_head[t] \in allocated
    /\ pc[t] = "d_free" => temp[t] \in allocated

(* The node that belongs to a thread's call alone: the one Enqueue has not *)
(* linked yet, or the one Dequeue has taken out and not freed yet.         *)
PrivatePC == {"e_lock", "e_link", "d_load", "d_store", "d_unlock", "d_free"}
Owns(t, n) == pc[t] \in PrivatePC /\ temp[t] = n

Linked(n) == \E i \in 1 .. Len(chain) : chain[i] = n

(* Every block malloc returned is in the list or belongs to one call: no   *)
(* node is leaked, and none is reachable by two owners, so that no         *)
(* interleaving of Enqueue and Dequeue frees a node twice.                 *)
NodeOwnership ==
  /\ \A n \in Node :
       n \in allocated <=> Linked(n) \/ \E t \in Thread : Owns(t, n)
  /\ \A n \in Node, t \in Thread : Owns(t, n) => ~Linked(n)
  /\ \A n \in Node, t, u \in Thread : Owns(t, n) /\ Owns(u, n) => t = u

(* The heap holds one NULL-terminated list without repetition, from head   *)
(* to the node linked last, and tail lags behind its end only while an     *)
(* Enqueue is between its two writes (queue.h:43-44): no node another      *)
(* Enqueue linked is ever cut off.                                         *)
ListShape ==
  /\ chain # <<>>
  /\ head = chain[1]
  /\ \A i \in 1 .. Len(chain) - 1 : next[chain[i]] = chain[i + 1]
  /\ next[Last(chain)] = NULL
  /\ \A i, j \in 1 .. Len(chain) : chain[i] = chain[j] => i = j
  /\ (\A t \in Thread : pc[t] # "e_swing") => tail = Last(chain)

(* Each mutex is held by exactly the thread inside its critical section.   *)
HeadSection == {"d_read", "d_empty", "d_take", "d_load", "d_store", "d_unlock"}
TailSection == {"e_link", "e_swing", "e_load", "e_store", "e_unlock"}

LockInv ==
  \A t \in Thread :
    /\ pc[t] \in HeadSection <=> head_lock = t
    /\ pc[t] \in TailSection <=> tail_lock = t

(* What the locals of a call hold between two of its accesses.             *)
LocalsInv ==
  \A t \in Thread :
    /\ pc[t] \in EnqPC => val[t] \in Data
    /\ pc[t] \in PrivatePC => temp[t] \in Node
    /\ pc[t] \in {"e_lock", "e_link"} =>
         next[temp[t]] = NULL /\ data[temp[t]] = val[t]
    /\ pc[t] = "e_swing" => temp[t] = Last(chain)
    /\ pc[t] \in {"d_lock", "d_read", "d_empty", "d_take"} => val[t] = NULL
    /\ pc[t] = "d_take" =>
         /\ temp[t] = head
         /\ Len(chain) > 1
         /\ new_head[t] = chain[2]

(* The inductive invariant: none of its conjuncts is inductive alone.      *)
IInv == TypeOK /\ LockInv /\ LocalsInv /\ NodeOwnership /\ ListShape

(* The abstract queue: the data of the nodes behind the dummy.  Enqueue    *)
(* takes effect when it links its node, Dequeue when it moves head, or,    *)
(* on an empty queue, when it reads the NULL next pointer of the dummy.    *)
items == [i \in 1 .. Len(chain) - 1 |-> data[chain[i + 1]]]

PhaseOf(c) ==
  CASE c = "idle" -> "idle"
    [] c \in {"e_lock", "e_link"} -> "enqueue"
    [] c \in {"e_swing", "e_load", "e_store", "e_unlock"} -> "enqueued"
    [] c \in {"d_lock", "d_read", "d_take"} -> "dequeue"
    [] OTHER -> "dequeued"

phase == [t \in Thread |-> PhaseOf(pc[t])]

Fifo == INSTANCE FifoQueue

(* The linked list with two locks implements an atomic first-in first-out  *)
(* queue: what Dequeue returns is what Enqueue stored, once and in order.  *)
FifoSpec == Fifo!Spec
=============================================================================
