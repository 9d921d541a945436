----------------------------- MODULE Allocator -----------------------------
(***************************************************************************)
(* What an allocator promises its client: the blocks the client owns never *)
(* overlap and lie in mapped memory; only the client gives a block back,   *)
(* and a reallocated block does not overlap the one it is copied from.     *)
(* Rmalloc implements this.                                                *)
(***************************************************************************)
EXTENDS Integers

CONSTANT Size        (* the sizes the client asks for *)

VARIABLES
  owned,             (* the bytes the client owns, by the block's address  *)
  mapped             (* the bytes that are mapped                          *)

vars == <<owned, mapped>>

Owned == UNION {owned[a] : a \in DOMAIN owned}

(* owned, without the blocks of A, and with the s bytes at a               *)
Without(A) == [a \in DOMAIN owned \ A |-> owned[a]]
With(f, a, s) ==
  [x \in DOMAIN f \cup {a} |-> IF x = a THEN a .. a + s - 1 ELSE f[x]]

Init ==
  /\ owned = [a \in {} |-> {}]
  /\ mapped = {}

(* The new block is new memory; more may be mapped for it.                 *)
IsNew(a, s) ==
  /\ a .. a + s - 1 \subseteq mapped'
  /\ (a .. a + s - 1) \cap Owned = {}
  /\ mapped \subseteq mapped'

Alloc(a, s) ==
  /\ IsNew(a, s)
  /\ owned' = With(owned, a, s)

Free(a) ==
  /\ a \in DOMAIN owned
  /\ owned' = Without({a})
  /\ UNCHANGED mapped

Realloc(a, b, s) ==
  /\ a \in DOMAIN owned
  /\ IsNew(b, s)
  /\ owned' = With(Without({a}), b, s)

Shrink ==
  /\ mapped' \subseteq mapped
  /\ Owned \subseteq mapped'
  /\ UNCHANGED owned

(* The program ends, and its memory is gone.                               *)
Exit ==
  /\ owned' = Without(DOMAIN owned)
  /\ mapped' = {}

(* The new block is one of owned'.                                         *)
Next ==
  \/ \E a \in DOMAIN owned', s \in Size : Alloc(a, s)
  \/ \E a \in DOMAIN owned : Free(a)
  \/ \E a \in DOMAIN owned, b \in DOMAIN owned', s \in Size : Realloc(a, b, s)
  \/ Shrink
  \/ Exit

Spec == Init /\ [][Next]_vars
=============================================================================
