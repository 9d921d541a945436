----------------------------- MODULE FifoQueue -----------------------------
(***************************************************************************)
(* What a queue shared by several threads promises (OS/HW4/queue.h): each  *)
(* call of Enqueue and Dequeue takes effect at one instant between the     *)
(* call and the return, on a first-in first-out sequence.  This is the     *)
(* abstract specification that TwoLockQueue implements; it has no nodes,   *)
(* no locks and no count.                                                  *)
(***************************************************************************)
EXTENDS Sequences

CONSTANTS Thread,   (* the threads that use the queue                      *)
          Data,     (* the values stored: pointers to directory paths      *)
          NULL      (* what Dequeue returns when it finds the queue empty  *)

VARIABLES items,    (* the values in the queue, oldest first               *)
          phase,    (* where each thread is in its current call            *)
          val       (* the value each thread is storing, or got            *)

vars == <<items, phase, val>>

Phase == {"idle", "enqueue", "dequeue", "enqueued", "dequeued"}

Init ==
  /\ items = <<>>
  /\ phase = [t \in Thread |-> "idle"]
  /\ val = [t \in Thread |-> NULL]

Move(t, from, to) ==
  /\ phase[t] = from
  /\ phase' = [phase EXCEPT ![t] = to]

CallEnqueue(t, d) ==
  /\ Move(t, "idle", "enqueue")
  /\ val' = [val EXCEPT ![t] = d]
  /\ UNCHANGED items

CallDequeue(t) ==
  /\ Move(t, "idle", "dequeue")
  /\ val' = [val EXCEPT ![t] = NULL]
  /\ UNCHANGED items

Enqueue(t) ==
  /\ Move(t, "enqueue", "enqueued")
  /\ items' = Append(items, val[t])
  /\ UNCHANGED val

Dequeue(t) ==
  /\ Move(t, "dequeue", "dequeued")
  /\ items # <<>>
  /\ val' = [val EXCEPT ![t] = Head(items)]
  /\ items' = Tail(items)

DequeueEmpty(t) ==
  /\ Move(t, "dequeue", "dequeued")
  /\ items = <<>>
  /\ UNCHANGED <<items, val>>

ReturnEnqueue(t) ==
  /\ Move(t, "enqueued", "idle")
  /\ val' = [val EXCEPT ![t] = NULL]
  /\ UNCHANGED items

ReturnDequeue(t) ==
  /\ Move(t, "dequeued", "idle")
  /\ UNCHANGED <<items, val>>

Step(t) ==
  \/ \E d \in Data : CallEnqueue(t, d)
  \/ CallDequeue(t)
  \/ Enqueue(t)
  \/ Dequeue(t)
  \/ DequeueEmpty(t)
  \/ ReturnEnqueue(t)
  \/ ReturnDequeue(t)

Next == \E t \in Thread : Step(t)

Spec == Init /\ [][Next]_vars
=============================================================================
