----------------------------- MODULE ListRemove -----------------------------
(* IntrusiveList with a client that also takes elements out of the middle.  *)
EXTENDS IntrusiveList

Remove(l, n) ==
  /\ remove_list(l, n)
  /\ UNCHANGED popped

RemoveNext == Next \/ \E l \in List, n \in Node : Remove(l, n)

RemoveSpec == Init /\ [][RemoveNext]_vars

\* list.h:35: remove "removes the given element from the list": what is left is
\* the list without it.
RemoveKeepsLists == ListInv

=============================================================================
