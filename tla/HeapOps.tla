------------------------------ MODULE HeapOps ------------------------------
(***************************************************************************)
(* kmalloc and kfree of kernel/mem.c: a chain of segments, each a header   *)
(* followed by its space.  Addresses count from the start of the heap.  A  *)
(* pointer is named by the header in front of it: the pointer a + 1 of the *)
(* code, a being of type heap_segment_t, is the pointer a here.            *)
(*                                                                         *)
(* sizeof(heap_segment_t) and the alignment are both 16 bytes in the code  *)
(* and both Header here.                                                   *)
(***************************************************************************)
EXTENDS Integers

CONSTANTS
  Header,    \* sizeof(heap_segment_t)
  HeapSize,  \* KERNEL_HEAP_SIZE
  Word,      \* 2^32: uint32_t arithmetic is modulo Word
  Nil        \* NULL in a link of the chain

ASSUME HeapAssumption ==
  /\ Header \in Nat \ {0} /\ HeapSize \in Nat /\ HeapSize > Header
  /\ Word \in Nat /\ HeapSize < Word \div 2
  /\ Nil \notin Int

VARIABLES
  hnext, hprev,               \* next and prev of the header at an address
  is_allocated, segment_size

heapVars == <<hnext, hprev, is_allocated, segment_size>>

Addr == 0..HeapSize - 1

HeapTypeOK ==
  /\ hnext \in [Addr -> Addr \cup {Nil}]
  /\ hprev \in [Addr -> Addr \cup {Nil}]
  /\ is_allocated \in [Addr -> BOOLEAN]
  /\ segment_size \in [Addr -> 0..Word - 1]

----------------------------------------------------------------------------
\* One free segment, the whole heap.
heap_init ==
  /\ hnext = [a \in Addr |-> Nil]
  /\ hprev = [a \in Addr |-> Nil]
  /\ is_allocated = [a \in Addr |-> FALSE]
  /\ segment_size = [a \in Addr |-> IF a = 0 THEN HeapSize ELSE 0]

\* The segments a walk from heap_segment_list_head meets.
Segments ==
  LET reach[i \in Nat] ==
        IF i = 0 THEN {0}
        ELSE UNION {{a} \cup ({hnext[a]} \ {Nil}) : a \in reach[i - 1]}
  IN  reach[HeapSize]

\* MUTANT: the header is not added.
needed_no_header(bytes) ==
  LET over == bytes % Header
  IN  (bytes + (IF over = 0 THEN 0 ELSE Header - over)) % Word

\* The space a request takes, header included, as uint32_t.
needed(bytes) ==
  LET total == (bytes + Header) % Word
      over  == total % Header
  IN  (total + (IF over = 0 THEN 0 ELSE Header - over)) % Word

MaxInt == Word \div 2 - 1

\* diff is an int: the uint32_t difference read as a signed number.
diff(a, n) ==
  LET d == (segment_size[a] - n) % Word IN IF d > MaxInt THEN d - Word ELSE d

candidates(n) ==
  {a \in Segments : ~is_allocated[a] /\ diff(a, n) >= 0 /\ diff(a, n) < MaxInt}

\* The closest in size, the first of equals: one address, or none.
best(n) ==
  LET found == candidates(n) IN
  Addr \cap {b \in found : \A a \in found : \/ diff(b, n) < diff(a, n)
                                            \/ diff(b, n) = diff(a, n) /\ b <= a}

\* MUTANT: the comparison is the wrong way round.
splits_small(b, n) == diff(b, n) < 2 * Header

\* Is what would be left over worth a segment?
splits(b, n) == diff(b, n) > 2 * Header

\* MUTANT: the segment that is split keeps its size.
split_keeps_size(b, n) ==
  LET rest == b + n IN
  /\ hnext' = [hnext EXCEPT ![b] = rest, ![rest] = hnext[b]]
  /\ hprev' = [hprev EXCEPT ![rest] = b]
  /\ is_allocated' = [is_allocated EXCEPT ![rest] = FALSE]
  /\ segment_size' = [segment_size EXCEPT ![rest] = (segment_size[b] - n) % Word]

\* What is left of a large segment becomes a free one behind it (whose
\* successor does not learn of its new predecessor).
split(b, n) ==
  LET rest == b + n IN
  /\ hnext' = [hnext EXCEPT ![b] = rest, ![rest] = hnext[b]]
  /\ hprev' = [hprev EXCEPT ![rest] = b]
  /\ is_allocated' = [is_allocated EXCEPT ![rest] = FALSE]
  /\ segment_size' = [segment_size EXCEPT ![b] = n,
                                          ![rest] = (segment_size[b] - n) % Word]

\* MUTANT: the segment is handed out and not marked.
mark_forgets(b) == b \in Addr /\ UNCHANGED heapVars

\* MUTANT: the next header is sought by the segment's size, not by its link.
kmalloc_result_by_size(b) == b + segment_size[b]

\* The end of kmalloc.  What it returns is best->next + 1, the space behind
\* the NEXT header.
mark(b) ==
  /\ is_allocated' = [is_allocated EXCEPT ![b] = TRUE]
  /\ UNCHANGED <<hnext, hprev, segment_size>>
kmalloc_result(b) == hnext[b]

\* kfree, first: the header in front of the pointer is marked free.
release(seg) ==
  /\ is_allocated' = [is_allocated EXCEPT ![seg] = FALSE]
  /\ UNCHANGED <<hnext, hprev, segment_size>>

free_on_left(seg)  == hprev[seg] # Nil /\ ~is_allocated[hprev[seg]]
free_on_right(seg) == hnext[seg] # Nil /\ ~is_allocated[hnext[seg]]

\* One turn of the first loop; a store through a NULL next hits a vector.
merge_left(seg) ==
  LET p == hprev[seg]
      s == hnext[seg]
  IN  /\ hnext' = [hnext EXCEPT ![p] = s]
      /\ hprev' = IF s = Nil THEN hprev ELSE [hprev EXCEPT ![s] = p]
      /\ segment_size' = [segment_size EXCEPT ![p] = (@ + segment_size[seg]) % Word]
      /\ UNCHANGED is_allocated

\* MUTANT: the sum of the sizes does not wrap around.
merge_right_no_wrap(seg) ==
  LET s == hnext[hnext[seg]]
  IN  /\ hprev' = [hprev EXCEPT ![s] = seg]
      /\ hnext' = [hnext EXCEPT ![seg] = s]
      /\ segment_size' = [segment_size EXCEPT ![seg] = @ + segment_size[s]]
      /\ UNCHANGED is_allocated

\* One turn of the second loop when there is a segment behind the next one:
\* it is that segment's size which is added.
merge_right(seg) ==
  LET s == hnext[hnext[seg]]
  IN  /\ hprev' = [hprev EXCEPT ![s] = seg]
      /\ hnext' = [hnext EXCEPT ![seg] = s]
      /\ segment_size' = [segment_size EXCEPT ![seg] = (@ + segment_size[s]) % Word]
      /\ UNCHANGED is_allocated

=============================================================================
