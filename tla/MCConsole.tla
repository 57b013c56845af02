----------------------------- MODULE MCConsole -----------------------------
(* Console with interchangeable threads. *)
EXTENDS Console, TLC

Symmetry == Permutations(Thread)

=============================================================================
