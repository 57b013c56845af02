------------------------------ MODULE ListOps ------------------------------
(***************************************************************************)
(* The operations of the intrusive doubly linked list that                 *)
(* include/kernel/list.h generates for every struct type (IMPLEMENT_LIST). *)
(* A list keeps head, tail and size; each node carries ONE pair of links   *)
(* and one container pointer, whatever the number of lists of its type.    *)
(*                                                                         *)
(* Address zero is ordinary memory on this machine (the exception vectors  *)
(* live there), so the code's accesses through a NULL head or tail do not  *)
(* trap: Null is a cell of the link functions like any node.  Its initial  *)
(* contents, and those of memory nobody has written, are Junk.             *)
(*                                                                         *)
(* Each operation is what the code does between spin_lock and spin_unlock; *)
(* the locks are modelled where they are contended (Process, PageAlloc).   *)
(***************************************************************************)
EXTENDS Naturals, Sequences, FiniteSets

CONSTANTS
  Node,       \* the structs that carry the links
  List,       \* the lists of that struct type
  Null,       \* (void *)0
  Junk,       \* a word that is neither NULL nor the address of a node
  MaxWord,    \* the largest uint32_t
  TailResets  \* may the build keep (TRUE) or delete (FALSE) pop's tail reset

ASSUME ListAssumption ==
  /\ Null \notin Node /\ Junk \notin Node /\ Null # Junk
  /\ Null \notin List /\ Junk \notin List
  /\ MaxWord \in Nat \ {0}
  /\ TailResets \subseteq BOOLEAN /\ TailResets # {}

VARIABLES
  head, tail, size,     \* fields of each list
  next, prev, container \* link fields of each node

listVars == <<head, tail, size, next, prev, container>>

Ref   == Node \cup {Null, Junk}
Owner == List \cup {Null, Junk}

ListTypeOK ==
  /\ head \in [List -> Ref]
  /\ tail \in [List -> Ref]
  /\ size \in [List -> 0..MaxWord]
  /\ next \in [Ref -> Ref]
  /\ prev \in [Ref -> Ref]
  /\ container \in [Ref -> Owner]

----------------------------------------------------------------------------
\* INITIALIZE_LIST on every list.
initialize_lists ==
  /\ head = [l \in List |-> Null]
  /\ tail = [l \in List |-> Null]
  /\ size = [l \in List |-> 0]

\* uint32_t arithmetic on the size field.
Inc(x) == IF x = MaxWord THEN 0 ELSE x + 1
Dec(x) == IF x = 0 THEN MaxWord ELSE x - 1

\* append, first half: the node goes behind the old tail, which may be NULL.
append_links(l, n) ==
  /\ next' = [next EXCEPT ![tail[l]] = n, ![n] = Null]
  /\ prev' = [prev EXCEPT ![n] = tail[l]]
  /\ tail' = [tail EXCEPT ![l] = n]

\* append, second half: the count, the head of an empty list, the owner.
append_count(l, n) ==
  /\ size' = [size EXCEPT ![l] = Inc(@)]
  /\ head' = [head EXCEPT ![l] = IF @ = Null THEN n ELSE @]
  /\ container' = [container EXCEPT ![n] = l]

append_list(l, n) == append_links(l, n) /\ append_count(l, n)

\* The same stores where the caller can be preempted after the first one:
\* nothing but the old tail points at the node yet.
append_behind(l, n) ==
  /\ next' = [next EXCEPT ![tail[l]] = n]
  /\ UNCHANGED <<head, tail, size, prev, container>>

append_rest(l, n) ==
  /\ prev' = [prev EXCEPT ![n] = tail[l]]
  /\ tail' = [tail EXCEPT ![l] = n]
  /\ next' = [next EXCEPT ![n] = Null]
  /\ append_count(l, n)

\* MUTANT: the tail of an empty list is not set.
push_list_no_tail(l, n) ==
  /\ next' = [next EXCEPT ![n] = head[l]]
  /\ prev' = [prev EXCEPT ![n] = Null]
  /\ head' = [head EXCEPT ![l] = n]
  /\ size' = [size EXCEPT ![l] = Inc(@)]
  /\ container' = [container EXCEPT ![n] = l]
  /\ UNCHANGED tail

\* push leaves the old head's prev field alone.
push_list(l, n) ==
  /\ next' = [next EXCEPT ![n] = head[l]]
  /\ prev' = [prev EXCEPT ![n] = Null]
  /\ head' = [head EXCEPT ![l] = n]
  /\ size' = [size EXCEPT ![l] = Inc(@)]
  /\ tail' = [tail EXCEPT ![l] = IF @ = Null THEN n ELSE @]
  /\ container' = [container EXCEPT ![n] = l]

\* The code stores through the new head before it tests it against NULL, which
\* is undefined when the list drains: a build may keep the test (the tail is
\* reset) or delete it as dead (the tail keeps pointing at the popped node,
\* as in the checked-in buildLin image).
pop_tail(l) ==
  \E reset \in TailResets :
    tail' = IF reset /\ next[head[l]] = Null THEN [tail EXCEPT ![l] = Null]
                                              ELSE tail

\* pop: the caller receives head[l].  Nothing guards an empty list.
pop_list(l) ==
  /\ head' = [head EXCEPT ![l] = next[head[l]]]
  /\ prev' = [prev EXCEPT ![next[head[l]]] = Null]
  /\ size' = [size EXCEPT ![l] = Dec(@)]
  /\ pop_tail(l)
  /\ container' = [container EXCEPT ![head[l]] = Null]
  /\ UNCHANGED next

\* remove: the links of the NODE are overwritten, not those of its neighbours,
\* and the second test already reads the new prev.  The size is not touched.
remove_member(l, n) ==
  LET p == IF prev[n] = Null THEN Null ELSE next[n] IN
  /\ prev' = [prev EXCEPT ![n] = p]
  /\ head' = IF prev[n] = Null THEN [head EXCEPT ![l] = next[n]] ELSE head
  /\ tail' = IF next[n] = Null THEN [tail EXCEPT ![l] = p] ELSE tail
  /\ next' = IF next[n] = Null THEN next ELSE [next EXCEPT ![n] = p]

remove_list(l, n) ==
  /\ \/ container[n] = l /\ remove_member(l, n)
     \/ container[n] # l /\ UNCHANGED <<head, tail, next, prev>>
  /\ container' = [container EXCEPT ![n] = Null]
  /\ UNCHANGED size

----------------------------------------------------------------------------
(* What the structures in memory say. *)

\* q is the documented contents of l: its nodes in order, each owned by l and
\* linked to the one behind it, between a head and a tail that name the ends.
Represents(l, q) ==
  /\ size[l] = Len(q)
  /\ \A i, j \in 1..Len(q) : q[i] = q[j] => i = j
  /\ \A i \in 1..Len(q) : container[q[i]] = l
  /\ \A i \in 1..Len(q) - 1 : next[q[i]] = q[i + 1]
  /\ \A n \in Node : container[n] = l => \E i \in 1..Len(q) : q[i] = n
  /\ IF q = <<>> THEN head[l] = Null
     ELSE /\ head[l] = q[1]
          /\ tail[l] = q[Len(q)]
          /\ next[q[Len(q)]] = Null

Contents(l) == CHOOSE q \in [1..size[l] -> Node] : Represents(l, q)

\* The nodes met by following next from the head of l.
Linked(l) ==
  LET reach[i \in Nat] ==
        IF i = 0 THEN {head[l]} \cap Node
        ELSE LET met == reach[i - 1] IN met \cup ({next[n] : n \in met} \cap Node)
  IN  reach[Cardinality(Node)]

=============================================================================
