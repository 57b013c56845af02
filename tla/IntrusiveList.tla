--------------------------- MODULE IntrusiveList ---------------------------
(***************************************************************************)
(* Lists of one struct type (include/kernel/list.h) and a client that      *)
(* keeps to the discipline the page allocator follows: a node is added     *)
(* only while no list owns it, and a list is popped only when its size     *)
(* says that it holds something.  Calls are whole: each list's spin lock   *)
(* is free whenever an operation starts.                                   *)
(***************************************************************************)
EXTENDS ListOps

CONSTANT Ops  \* the operations the client calls

ASSUME OpsAssumption == Ops \subseteq {"append", "push", "pop"}

VARIABLE popped  \* what the last pop returned

vars == <<head, tail, size, next, prev, container, popped>>

TypeOK == ListTypeOK /\ popped \in Ref

----------------------------------------------------------------------------
\* mem_init clears the array of nodes; the words at address zero are code.
Init ==
  /\ initialize_lists
  /\ next = [r \in Ref |-> IF r \in Node THEN Null ELSE Junk]
  /\ prev = [r \in Ref |-> IF r \in Node THEN Null ELSE Junk]
  /\ container = [r \in Ref |-> IF r \in Node THEN Null ELSE Junk]
  /\ popped = Null

Append_(l, n) ==
  /\ "append" \in Ops
  /\ container[n] = Null
  /\ append_list(l, n)
  /\ UNCHANGED popped

Push(l, n) ==
  /\ "push" \in Ops
  /\ container[n] = Null
  /\ push_list(l, n)
  /\ UNCHANGED popped

\* MUTANT: the result is read after the head has moved.
Pop_new_head(l) ==
  /\ "pop" \in Ops
  /\ size[l] > 0
  /\ pop_list(l)
  /\ popped' = head'[l]

Pop(l) ==
  /\ "pop" \in Ops
  /\ size[l] > 0
  /\ pop_list(l)
  /\ popped' = head[l]

Next ==
  \E l \in List :
    \/ \E n \in Node : Append_(l, n) \/ Push(l, n)
    \/ Pop(l)

Spec == Init /\ [][Next]_vars

----------------------------------------------------------------------------
(* Properties. *)

\* Every list in memory spells out one sequence of distinct nodes, the very
\* nodes it owns, and its size counts them: no operation loses a node, links
\* it twice or leaves head, tail, next and container disagreeing.
ListInv == \A l \in List : \E q \in [1..size[l] -> Node] : Represents(l, q)

\* The lists behave as list.h:15-26 documents: first in, first out for append,
\* last in, first out for push, and pop returns what it takes away.
Q == INSTANCE Queue WITH queue <- [l \in List |-> Contents(l)],
                         popped <- popped
Implements == Q!Spec

=============================================================================
