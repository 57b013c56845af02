------------------------------- MODULE Queue -------------------------------
(***************************************************************************)
(* What include/kernel/list.h (lines 15-26) promises its users: append     *)
(* adds at the back, push adds at the front, pop takes the first element   *)
(* away and hands it out.  IntrusiveList is shown to implement this.       *)
(***************************************************************************)
EXTENDS Sequences

CONSTANTS
  Node, List,
  Null    \* no element has been handed out yet

VARIABLES
  queue,  \* the elements of each list, first to last
  popped  \* what the last pop returned

vars == <<queue, popped>>

Queued == UNION {{queue[l][i] : i \in DOMAIN queue[l]} : l \in List}

Init ==
  /\ queue = [l \in List |-> <<>>]
  /\ popped = Null

Append_(l, n) ==
  /\ n \notin Queued
  /\ queue' = [queue EXCEPT ![l] = Append(@, n)]
  /\ UNCHANGED popped

Push(l, n) ==
  /\ n \notin Queued
  /\ queue' = [queue EXCEPT ![l] = <<n>> \o @]
  /\ UNCHANGED popped

Pop(l) ==
  /\ queue[l] # <<>>
  /\ popped' = Head(queue[l])
  /\ queue' = [queue EXCEPT ![l] = Tail(@)]

Next ==
  \E l \in List :
    \/ \E n \in Node : Append_(l, n) \/ Push(l, n)
    \/ Pop(l)

Spec == Init /\ [][Next]_vars

=============================================================================
