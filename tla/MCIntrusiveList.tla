-------------------------- MODULE MCIntrusiveList --------------------------
(* IntrusiveList and its client that removes, on small sets. *)
EXTENDS ListRemove

Either == {TRUE, FALSE}
Kept   == {TRUE}

QueueOps == {"append", "pop"}
DequeOps == {"append", "push", "pop"}

=============================================================================
