------------------------------ MODULE PagePool ------------------------------
(***************************************************************************)
(* What alloc_page and free_page (kernel/mem.c) come to for their callers, *)
(* however they are interleaved: each call moves one page between a pool   *)
(* and the caller, at one instant.  An empty pool answers 0; a caller who  *)
(* takes that for a page and gives it back breaks the pool, and so does    *)
(* one whose pages were there when it looked, and are gone.  PageAlloc is  *)
(* shown to implement this.                                                *)
(***************************************************************************)
CONSTANTS Thread, UserPages

VARIABLES
  free,    \* the pages in the pool
  taken,   \* the pages of each thread
  zero,    \* the threads that have taken 0 for a page
  broken

vars == <<free, taken, zero, broken>>

Init ==
  /\ free = UserPages
  /\ taken = [t \in Thread |-> {}]
  /\ zero = {}
  /\ broken = FALSE

Take(t) ==
  \E p \in free :
    /\ free' = free \ {p}
    /\ taken' = [taken EXCEPT ![t] = @ \cup {p}]
    /\ UNCHANGED <<zero, broken>>

Give(t) ==
  \E p \in taken[t] :
    /\ free' = free \cup {p}
    /\ taken' = [taken EXCEPT ![t] = @ \ {p}]
    /\ UNCHANGED <<zero, broken>>

Refuse(t) ==
  /\ free = {}
  /\ zero' = zero \cup {t}
  /\ UNCHANGED <<free, taken, broken>>

Break(t) == (free = {} \/ t \in zero) /\ broken'

Next == ~broken /\ \E t \in Thread : Take(t) \/ Give(t) \/ Refuse(t) \/ Break(t)

Spec == Init /\ [][Next]_vars

=============================================================================
