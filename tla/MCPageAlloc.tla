---------------------------- MODULE MCPageAlloc ----------------------------
(* PageAlloc on a small memory. *)
EXTENDS PageAlloc, TLC

Either == {TRUE, FALSE}
Lists == {Free}

Symmetry == Permutations(Thread)
=============================================================================
