--------------------------- MODULE ListOpsProofs ---------------------------
(***************************************************************************)
(* Facts about the list operations that the proofs of every module with a  *)
(* list use: they keep the fields in their types, on whatever words; and   *)
(* they move the sequence that a list represents.                          *)
(***************************************************************************)
EXTENDS ListOps, SequenceTheorems, FiniteSetTheorems, WellFoundedInduction, TLAPS

LEMMA WordTypes ==
  /\ Null \in Ref /\ Null \in Owner /\ Node \subseteq Ref /\ List \subseteq Owner
  /\ \A x \in 0..MaxWord : Inc(x) \in 0..MaxWord /\ Dec(x) \in 0..MaxWord
BY ListAssumption DEF Ref, Owner, Inc, Dec

LEMMA AppendType ==
  ASSUME ListTypeOK, NEW l \in List, NEW n \in Ref, append_list(l, n)
  PROVE  ListTypeOK'
BY WordTypes DEF ListTypeOK, append_list, append_links, append_count

LEMMA AppendLinksType ==
  ASSUME ListTypeOK, NEW l \in List, NEW n \in Ref, append_links(l, n),
         UNCHANGED <<head, size, container>>
  PROVE  ListTypeOK'
BY WordTypes DEF ListTypeOK, append_links

LEMMA AppendCountType ==
  ASSUME ListTypeOK, NEW l \in List, NEW n \in Ref, append_count(l, n),
         UNCHANGED <<tail, next, prev>>
  PROVE  ListTypeOK'
BY WordTypes DEF ListTypeOK, append_count

LEMMA AppendBehindType ==
  ASSUME ListTypeOK, NEW l \in List, NEW n \in Ref, append_behind(l, n)
  PROVE  ListTypeOK'
BY WordTypes DEF ListTypeOK, append_behind

LEMMA AppendRestType ==
  ASSUME ListTypeOK, NEW l \in List, NEW n \in Ref, append_rest(l, n)
  PROVE  ListTypeOK'
BY WordTypes DEF ListTypeOK, append_rest, append_count

LEMMA PushType ==
  ASSUME ListTypeOK, NEW l \in List, NEW n \in Ref, push_list(l, n)
  PROVE  ListTypeOK'
BY WordTypes DEF ListTypeOK, push_list

LEMMA PopType ==
  ASSUME ListTypeOK, NEW l \in List, pop_list(l)
  PROVE  ListTypeOK'
<1>1. tail' \in [List -> Ref]
  BY WordTypes DEF ListTypeOK, pop_list, pop_tail
<1> QED
  BY <1>1, WordTypes DEF ListTypeOK, pop_list

LEMMA RemoveType ==
  ASSUME ListTypeOK, NEW l \in List, NEW n \in Ref, remove_list(l, n)
  PROVE  ListTypeOK'
<1>1. CASE remove_member(l, n)
  BY <1>1, WordTypes DEF ListTypeOK, remove_list, remove_member
<1>2. CASE UNCHANGED <<head, tail, next, prev>>
  BY <1>2, WordTypes DEF ListTypeOK, remove_list
<1> QED
  BY <1>1, <1>2 DEF remove_list

----------------------------------------------------------------------------
\* There are no more nodes than size can count.
CountFits == IsFiniteSet(Node) /\ Cardinality(Node) <= MaxWord

(* One representation determines one sequence. *)

\* A sequence of distinct nodes is no longer than there are nodes.
LEMMA DistinctBound ==
  ASSUME IsFiniteSet(Node), NEW q \in Seq(Node),
         \A i, j \in 1..Len(q) : q[i] = q[j] => i = j
  PROVE  Len(q) <= Cardinality(Node)
<1>1. q \in Injection(1..Len(q), Node)
  BY DEF Injection, IsInjective
<1>2. Cardinality(1..Len(q)) <= Cardinality(Node)
  BY <1>1, FS_Injection
<1>3. Len(q) \in Nat
  BY LenProperties
<1>4. Cardinality(1..Len(q)) = IF 1 > Len(q) THEN 0 ELSE Len(q) - 1 + 1
  <2>1. 1 \in Int /\ Len(q) \in Int
    BY <1>3
  <2> QED
    BY <2>1, FS_Interval, Zenon
<1> DEFINE N == Cardinality(1..Len(q))
<1>5. N = IF 1 > Len(q) THEN 0 ELSE Len(q) - 1 + 1
  BY <1>4
<1>6. N <= Cardinality(Node)
  BY <1>2
<1> HIDE DEF N
<1> QED
  BY <1>3, <1>5, <1>6

\* A set of numbers that is not empty has a least element.
LEMMA Least ==
  ASSUME NEW T \in SUBSET Nat, T # {}
  PROVE  \E x \in T : \A y \in T : ~ (y < x)
<1>1. PICK x \in T : \A y \in T : <<y, x>> \notin OpToRel(<, Nat)
  BY WFMin, NatLessThanWellFounded, Zenon
<1> QED
  BY <1>1, Zenon DEF OpToRel

\* Two sequences a list represents have the same first element and the same
\* links, hence agree everywhere: the least disagreement would follow an
\* agreement.
LEMMA Unique ==
  ASSUME NEW l \in List, NEW q \in Seq(Node), NEW r \in Seq(Node),
         Represents(l, q), Represents(l, r)
  PROVE  q = r
<1> DEFINE Bad == {i \in 1..Len(q) : q[i] # r[i]}
<1>1. Len(q) = Len(r) /\ Len(q) \in Nat
  BY LenProperties DEF Represents
<1>2. ASSUME Bad # {} PROVE FALSE
  <2>1. PICK i \in Bad : \A j \in Bad : ~ (j < i)
    <3>1. Bad \subseteq Nat
      OBVIOUS
    <3> QED
      BY <1>2, <3>1, Least, Zenon
  <2>2. CASE i = 1
    <3>1. q # <<>> /\ r # <<>>
      BY <1>1
    <3>2. q[1] = head[l] /\ r[1] = head[l]
      BY <3>1 DEF Represents
    <3> QED
      BY <2>2, <3>2
  <2>3. CASE i # 1
    <3>1. i - 1 \in 1..Len(q) - 1 /\ i - 1 \in 1..Len(r) - 1 /\ i - 1 \notin Bad
      BY <1>1, <2>1, <2>3
    <3>2. q[i - 1] = r[i - 1]
      BY <3>1, <1>1
    <3>3. next[q[i - 1]] = q[i - 1 + 1] /\ next[r[i - 1]] = r[i - 1 + 1]
      BY <3>1 DEF Represents
    <3>4. i - 1 + 1 = i
      BY <2>1, <1>1
    <3> QED
      BY <3>2, <3>3, <3>4
  <2> QED
    BY <2>2, <2>3
<1> QED
  BY <1>1, <1>2, SeqEqual

----------------------------------------------------------------------------
(* What append and pop do to the sequence of their list. *)

\* append adds the node at the back.
LEMMA AppendAdds ==
  ASSUME CountFits, ListTypeOK, NEW l \in List, NEW n \in Node, container[n] = Null,
         append_list(l, n), NEW q \in Seq(Node), Represents(l, q)
  PROVE  Represents(l, Append(q, n))'
<1> USE ListAssumption
<1>0. PICK r : r = Append(q, n)
  OBVIOUS
<1>1. /\ Len(q) \in Nat /\ \A i \in 1..Len(q) : q[i] \in Node
      /\ r \in Seq(Node) /\ Len(r) = Len(q) + 1
      /\ \A i \in 1..Len(q) : r[i] = q[i]
      /\ r[Len(q) + 1] = n
  BY <1>0, LenProperties, ElementOfSeq, AppendProperties
<1>2. \A i \in 1..Len(q) : container[q[i]] = l /\ q[i] # n
  BY DEF Represents
<1>3. \A i, j \in 1..Len(r) : r[i] = r[j] => i = j
  <2>1. \A i, j \in 1..Len(q) : q[i] = q[j] => i = j
    BY DEF Represents
  <2> QED
    BY <1>1, <1>2, <2>1
<1>4. size'[l] = Len(r)
  <2>1. Len(r) <= MaxWord
    <3>1. IsFiniteSet(Node) /\ Cardinality(Node) \in Nat
      BY FS_CardinalityType DEF CountFits
    <3>2. Len(r) <= Cardinality(Node)
      BY <1>1, <1>3, <3>1, DistinctBound, Zenon
    <3> QED
      BY <1>1, <3>1, <3>2 DEF CountFits
  <2> QED
    BY <1>1, <2>1
    DEF ListTypeOK, append_list, append_count, Inc, Represents
<1>5. container' = [container EXCEPT ![n] = l] /\ container \in [Ref -> Owner]
  BY DEF append_list, append_count, ListTypeOK
<1>6. Node \subseteq Ref /\ Null \in Ref
  BY DEF Ref
<1>7. /\ \A i \in 1..Len(r) : container'[r[i]] = l
      /\ \A m \in Node : container'[m] = l => \E i \in 1..Len(r) : r[i] = m
  <2>1. \A m \in Node : container'[m] = IF m = n THEN l ELSE container[m]
    BY <1>5, <1>6
  <2>2. \A i \in 1..Len(r) : container'[r[i]] = l
    BY <1>1, <1>2, <2>1
  <2>3. Len(r) \in 1..Len(r) /\ \A i \in 1..Len(q) : i \in 1..Len(r)
    BY <1>1
  <2>4. ASSUME NEW m \in Node, container'[m] = l, m # n
        PROVE  \E i \in 1..Len(r) : r[i] = m
    <3>1. PICK i \in 1..Len(q) : q[i] = m
      BY <2>1, <2>4 DEF Represents
    <3> QED
      BY <1>1, <2>3, <3>1
  <2> QED
    BY <1>1, <2>2, <2>3, <2>4
<1>8. /\ next' = [next EXCEPT ![tail[l]] = n, ![n] = Null]
      /\ next \in [Ref -> Ref] /\ tail[l] \in Ref
  BY DEF append_list, append_links, ListTypeOK
<1>9. tail'[l] = n /\ next'[n] = Null
  BY <1>6, <1>8 DEF append_list, append_links, ListTypeOK
<1>10. \A i \in 1..Len(r) - 1 : next'[r[i]] = r[i + 1]
  <2> SUFFICES ASSUME NEW i \in 1..Len(q) PROVE next'[q[i]] = r[i + 1]
    BY <1>1
  <2>1. q[i] \in Ref /\ q[i] # n /\ Len(q) \in 1..Len(q)
    BY <1>1, <1>2, <1>6
  <2>2. q # <<>>
    BY <1>1
  <2>3. tail[l] = q[Len(q)]
    BY <2>2 DEF Represents
  <2>4. CASE i = Len(q)
    BY <1>1, <1>8, <2>1, <2>3, <2>4
  <2>5. CASE i # Len(q)
    <3>1. i \in 1..Len(q) - 1 /\ i + 1 \in 1..Len(q)
      BY <1>1, <2>5
    <3>2. q[i] # q[Len(q)]
      BY <2>1, <2>5 DEF Represents
    <3>3. next'[q[i]] = next[q[i]]
      BY <1>8, <2>1, <2>3, <3>2
    <3> QED
      BY <1>1, <3>1, <3>3 DEF Represents
  <2> QED
    BY <2>4, <2>5
<1>11. head'[l] = r[1]
  <2>1. head'[l] = IF head[l] = Null THEN n ELSE head[l]
    BY DEF append_list, append_count, ListTypeOK
  <2>2. CASE q = <<>>
    BY <1>1, <2>1, <2>2 DEF Represents
  <2>3. CASE q # <<>>
    BY <1>1, <2>1, <2>3 DEF Represents
  <2> QED
    BY <2>2, <2>3
<1>12. r # <<>>
  BY <1>1
<1> QED
  BY <1>0, <1>1, <1>3, <1>4, <1>7, <1>9, <1>10, <1>11, <1>12 DEF Represents

\* pop takes the first node away, and the caller receives it.
LEMMA PopTakes ==
  ASSUME ListTypeOK, NEW l \in List, pop_list(l), size[l] > 0,
         NEW q \in Seq(Node), Represents(l, q)
  PROVE  q # <<>> /\ head[l] = q[1] /\ Represents(l, Tail(q))'
<1> USE ListAssumption
<1>0. PICK r : r = Tail(q)
  OBVIOUS
<1>1. q # <<>> /\ Len(q) \in Nat /\ Len(q) > 0
  BY LenProperties, EmptySeq DEF Represents
<1>2. /\ \A i \in 1..Len(q) : q[i] \in Node
      /\ r \in Seq(Node) /\ Len(r) = Len(q) - 1
      /\ \A i \in 1..Len(r) : r[i] = q[i + 1] /\ i + 1 \in 1..Len(q)
  BY <1>0, <1>1, ElementOfSeq, HeadTailProperties
<1>3. /\ head[l] = q[1] /\ tail[l] = q[Len(q)] /\ next[q[Len(q)]] = Null
      /\ \A i \in 1..Len(q) - 1 : next[q[i]] = q[i + 1]
      /\ \A i, j \in 1..Len(q) : q[i] = q[j] => i = j
      /\ \A i \in 1..Len(q) : container[q[i]] = l
      /\ 1 \in 1..Len(q) /\ q[1] \in Node
  BY <1>1, <1>2 DEF Represents
<1>4. \A i, j \in 1..Len(r) : r[i] = r[j] => i = j
  <2> SUFFICES ASSUME NEW i \in 1..Len(r), NEW j \in 1..Len(r), r[i] = r[j]
               PROVE  i = j
    OBVIOUS
  <2>1. i + 1 = j + 1
    BY <1>2, <1>3
  <2> QED
    BY <2>1, <1>1, <1>2
<1>5. size'[l] = Len(r)
  BY <1>1, <1>2 DEF ListTypeOK, pop_list, Dec, Represents
<1>6. \A m \in Node : container'[m] = IF m = q[1] THEN Null ELSE container[m]
  BY <1>3 DEF pop_list, ListTypeOK, Ref
<1>7. /\ \A i \in 1..Len(r) : container'[r[i]] = l
      /\ \A m \in Node : container'[m] = l => \E i \in 1..Len(r) : r[i] = m
  <2>1. ASSUME NEW i \in 1..Len(r) PROVE container'[r[i]] = l
    <3>1. i + 1 \in 1..Len(q) /\ i + 1 # 1 /\ r[i] = q[i + 1]
      BY <1>1, <1>2
    <3>2. r[i] # q[1] /\ r[i] \in Node /\ container[r[i]] = l
      BY <1>2, <1>3, <3>1
    <3> QED
      BY <1>6, <3>2
  <2>2. ASSUME NEW m \in Node, container'[m] = l
        PROVE  \E i \in 1..Len(r) : r[i] = m
    <3>1. container[m] = l /\ m # q[1]
      BY <1>6, <2>2
    <3>2. PICK i \in 1..Len(q) : q[i] = m
      BY <3>1 DEF Represents
    <3>3. i - 1 \in 1..Len(r) /\ i - 1 + 1 = i
      BY <1>1, <1>2, <3>1, <3>2
    <3> QED
      BY <1>2, <3>2, <3>3
  <2> QED
    BY <2>1, <2>2
<1>8. \A i \in 1..Len(r) - 1 : next'[r[i]] = r[i + 1]
  <2> SUFFICES ASSUME NEW i \in 1..Len(r) - 1 PROVE next'[r[i]] = r[i + 1]
    OBVIOUS
  <2>1. /\ i \in 1..Len(r) /\ i + 1 \in 1..Len(r) /\ i + 1 \in 1..Len(q) - 1
    BY <1>1, <1>2
  <2>2. r[i] = q[i + 1] /\ r[i + 1] = q[i + 1 + 1]
    BY <1>2, <2>1
  <2> QED
    BY <1>3, <2>1, <2>2 DEF pop_list
<1>9. head'[l] = next[q[1]] /\ next' = next
  BY <1>3 DEF pop_list, ListTypeOK
<1>10. CASE r = <<>>
  <2>1. Len(q) = 1 /\ Len(r) = 0
    BY <1>1, <1>2, <1>10
  <2>2. head'[l] = Null
    BY <1>3, <1>9, <2>1
  <2>3. Represents(l, r)'
    BY <1>4, <1>5, <1>7, <1>8, <1>10, <2>1, <2>2 DEF Represents
  <2> QED
    BY <1>0, <1>1, <1>3, <2>3
<1>11. CASE r # <<>>
  <2>1. /\ Len(r) \in 1..Len(r) /\ 1 \in 1..Len(q) - 1 /\ Len(r) + 1 = Len(q)
        /\ 1 \in 1..Len(r)
    BY <1>1, <1>2, <1>11, EmptySeq
  <2>2. r[1] = q[2] /\ r[Len(r)] = q[Len(q)] /\ q[2] \in Node
    BY <1>2, <2>1
  <2>3. head'[l] = r[1] /\ next[head[l]] # Null
    BY <1>3, <1>9, <2>1, <2>2
  <2>4. tail'[l] = tail[l]
    BY <2>3 DEF pop_list, pop_tail
  <2>5. Represents(l, r)'
    BY <1>3, <1>4, <1>5, <1>7, <1>8, <1>9, <1>11, <2>2, <2>3, <2>4
    DEF Represents
  <2> QED
    BY <1>0, <1>1, <1>3, <2>5
<1> QED
  BY <1>10, <1>11

----------------------------------------------------------------------------
(* Linked, the nodes met from the head, by induction along the links. *)

\* One more step along the links from each of the nodes of S.
onward(S) == S \cup ({next[n] : n \in S} \cap Node)

\* The walk is the sequence of sets its definition describes: there is one, the
\* nodes at the end of a path of so many links.
LEMMA LinkedWalk ==
  ASSUME NEW l \in List
  PROVE  \E r : /\ Linked(l) = r[Cardinality(Node)] /\ r[0] = {head[l]} \cap Node
                /\ \A i \in Nat \ {0} : r[i] = onward(r[i - 1])
<1> DEFINE path(k, n) == \E p \in [0..k -> Node] :
                           /\ p[0] = head[l] /\ p[k] = n
                           /\ \A j \in 1..k : next[p[j - 1]] = p[j]
           met(i) == {n \in Node : \E k \in 0..i : path(k, n)}
<1>1. met(0) = {head[l]} \cap Node
  <2>1. ASSUME head[l] \in Node PROVE path(0, head[l])
    <3> DEFINE p == [j \in 0..0 |-> head[l]]
    <3>1. p \in [0..0 -> Node] /\ p[0] = head[l] /\ \A j \in 1..0 : next[p[j - 1]] = p[j]
      BY <2>1
    <3> QED
      BY <3>1
  <2>2. \A n : path(0, n) => n = head[l]
    OBVIOUS
  <2>3. 0..0 = {0}
    OBVIOUS
  <2> QED
    BY <2>1, <2>2, <2>3
<1>2. ASSUME NEW i \in Nat \ {0} PROVE met(i) = onward(met(i - 1))
  <2>1. ASSUME NEW n \in met(i) PROVE n \in onward(met(i - 1))
    <3>1. PICK k \in 0..i : path(k, n)
      BY <2>1
    <3>2. CASE k <= i - 1
      <4>1. k \in 0..i - 1
        BY <3>2
      <4>2. n \in met(i - 1)
        BY <2>1, <3>1, <4>1
      <4> HIDE DEF met
      <4> QED
        BY <4>2 DEF onward
    <3>3. CASE k = i
      <4>1. PICK p \in [0..i -> Node] : /\ p[0] = head[l] /\ p[i] = n
                                        /\ \A j \in 1..i : next[p[j - 1]] = p[j]
        BY <3>1, <3>3
      <4> DEFINE q == [j \in 0..i - 1 |-> p[j]]
      <4>2. q \in [0..i - 1 -> Node] /\ q[0] = head[l] /\ q[i - 1] = p[i - 1]
        BY <4>1
      <4>3. \A j \in 1..i - 1 : next[q[j - 1]] = q[j]
        BY <4>1
      <4>4. path(i - 1, p[i - 1])
        BY <4>2, <4>3
      <4>5. p[i - 1] \in met(i - 1)
        <5>1. p[i - 1] \in Node /\ i - 1 \in 0..i - 1
          BY <4>1
        <5> HIDE DEF path
        <5> QED
          BY <4>4, <5>1
      <4>6. next[p[i - 1]] = n /\ n \in Node
        BY <4>1
      <4> HIDE DEF met
      <4> QED
        BY <4>5, <4>6 DEF onward
    <3> QED
      BY <3>2, <3>3
  <2>2. ASSUME NEW n \in met(i - 1) PROVE n \in met(i)
    <3>1. PICK k \in 0..i - 1 : path(k, n)
      BY <2>2
    <3>2. k \in 0..i
      OBVIOUS
    <3> HIDE DEF path
    <3> QED
      BY <2>2, <3>1, <3>2
  <2>3. ASSUME NEW n \in met(i - 1), next[n] \in Node PROVE next[n] \in met(i)
    <3>1. PICK k \in 0..i - 1 : path(k, n)
      BY <2>3
    <3>2. PICK p \in [0..k -> Node] : /\ p[0] = head[l] /\ p[k] = n
                                      /\ \A j \in 1..k : next[p[j - 1]] = p[j]
      BY <3>1
    <3> DEFINE q == [j \in 0..k + 1 |-> IF j = k + 1 THEN next[n] ELSE p[j]]
    <3>3. q \in [0..k + 1 -> Node] /\ q[0] = head[l] /\ q[k + 1] = next[n]
      BY <2>3, <3>2
    <3>4. ASSUME NEW j \in 1..k + 1 PROVE next[q[j - 1]] = q[j]
      <4>1. CASE j = k + 1
        <5>1. j - 1 \in 0..k + 1 /\ j - 1 # k + 1 /\ j - 1 = k
          BY <4>1
        <5> QED
          BY <3>2, <4>1, <5>1
      <4>2. CASE j # k + 1
        <5>1. j \in 1..k /\ j - 1 \in 0..k + 1 /\ j - 1 # k + 1 /\ j \in 0..k + 1
          BY <4>2
        <5> QED
          BY <3>2, <4>2, <5>1
      <4> QED
        BY <4>1, <4>2
    <3>5. path(k + 1, next[n])
      BY <3>3, <3>4
    <3>6. k + 1 \in 0..i
      OBVIOUS
    <3> QED
      BY <2>3, <3>5, <3>6
  <2> HIDE DEF met
  <2> QED
    BY <2>1, <2>2, <2>3 DEF onward
<1> HIDE DEF met
<1> DEFINE rec(f) == [i \in Nat |-> IF i = 0 THEN {head[l]} \cap Node ELSE onward(f[i - 1])]
           reach == CHOOSE f : f = rec(f)
<1>3. \E f : f = rec(f)
  <2> DEFINE f == [i \in Nat |-> met(i)]
  <2>1. ASSUME NEW i \in Nat PROVE f[i] = rec(f)[i]
    <3>1. CASE i = 0
      BY <1>1, <3>1
    <3>2. CASE i # 0
      <4>1. i - 1 \in Nat /\ i \in Nat \ {0}
        BY <3>2
      <4>2. f[i - 1] = met(i - 1) /\ f[i] = met(i)
        BY <4>1
      <4>3. f[i] = onward(f[i - 1])
        BY <1>2, <4>1, <4>2
      <4> HIDE DEF f
      <4> QED
        BY <3>2, <4>3
    <3> QED
      BY <3>1, <3>2
  <2>2. f = rec(f)
    BY <2>1
  <2> QED
    BY <2>2
<1>4. reach = rec(reach)
  BY <1>3
<1>5. Linked(l) = reach[Cardinality(Node)]
  BY DEF Linked, onward
<1>6. reach[0] = {head[l]} \cap Node /\ \A i \in Nat \ {0} : reach[i] = onward(reach[i - 1])
  <2> HIDE DEF reach
  <2> QED
    BY <1>4
<1> HIDE DEF reach
<1> QED
  BY <1>5, <1>6

\* The walk stays in every set of nodes that has the head, if that is a node, and
\* is closed under the links to nodes.
LEMMA LinkedStays ==
  ASSUME IsFiniteSet(Node), NEW l \in List, NEW C \in SUBSET Node,
         head[l] \in Node => head[l] \in C,
         \A n \in C : next[n] \in Node => next[n] \in C
  PROVE  Linked(l) \subseteq C
<1>0. Cardinality(Node) \in Nat
  BY FS_CardinalityType
<1>1. PICK r : /\ Linked(l) = r[Cardinality(Node)] /\ r[0] = {head[l]} \cap Node
               /\ \A i \in Nat \ {0} : r[i] = onward(r[i - 1])
  BY LinkedWalk
<1>2. ASSUME NEW i \in Nat \ {0}, r[i - 1] \subseteq C PROVE r[i] \subseteq C
  BY <1>1, <1>2 DEF onward
<1>3. \A i \in Nat : r[i] \subseteq C
  <2> DEFINE Bad == {i \in Nat : ~(r[i] \subseteq C)}
  <2> SUFFICES ASSUME Bad # {} PROVE FALSE
    OBVIOUS
  <2>1. PICK i \in Bad : \A j \in Bad : ~ (j < i)
    BY Least, Zenon
  <2>2. i \in Nat \ {0} /\ i - 1 \in Nat /\ i - 1 \notin Bad
    BY <1>1, <2>1
  <2> QED
    BY <1>2, <2>1, <2>2
<1> QED
  BY <1>0, <1>1, <1>3

\* Following the links of a list that represents q meets the nodes of q, which
\* are the nodes that the list owns: the links' first i steps meet q[1]..q[i+1].
LEMMA LinkedIs ==
  ASSUME IsFiniteSet(Node), NEW l \in List, NEW q \in Seq(Node), Represents(l, q)
  PROVE  /\ Linked(l) = {q[j] : j \in 1..Len(q)}
         /\ Linked(l) = {n \in Node : container[n] = l}
<1> USE ListAssumption
<1> DEFINE met(i) == {q[j] : j \in {k \in 1..Len(q) : k <= i + 1}}
           N == Cardinality(Node)
<1>1. /\ Len(q) \in Nat /\ \A j \in 1..Len(q) : q[j] \in Node
      /\ \A j \in 1..Len(q) : container[q[j]] = l
      /\ \A j \in 1..Len(q) - 1 : next[q[j]] = q[j + 1]
      /\ q # <<>> => head[l] = q[1] /\ next[q[Len(q)]] = Null
      /\ q = <<>> => head[l] = Null
      /\ \A n \in Node : container[n] = l => \E j \in 1..Len(q) : q[j] = n
  BY LenProperties, ElementOfSeq DEF Represents
<1>2. N \in Nat /\ Len(q) <= N
  BY FS_CardinalityType, DistinctBound DEF Represents
<1>3. met(0) = {head[l]} \cap Node
  <2>1. CASE q = <<>>
    BY <1>1, <2>1
  <2>2. CASE q # <<>>
    <3>1. 1 \in 1..Len(q)
      BY <1>1, <2>2, EmptySeq
    <3>2. {k \in 1..Len(q) : k <= 0 + 1} = {1}
      BY <1>1, <3>1
    <3> QED
      BY <1>1, <2>2, <3>1, <3>2
  <2> QED
    BY <2>1, <2>2
<1>4. ASSUME NEW i \in Nat \ {0} PROVE met(i) = onward(met(i - 1))
  <2>1. ASSUME NEW n \in met(i) PROVE n \in onward(met(i - 1))
    <3>1. PICK j \in 1..Len(q) : n = q[j] /\ j <= i + 1
      BY <2>1
    <3>2. CASE j <= i
      <4>1. j <= i - 1 + 1
        BY <1>1, <3>2
      <4> QED
        BY <3>1, <4>1 DEF onward
    <3>3. CASE j = i + 1
      <4>1. i \in 1..Len(q) - 1 /\ i \in 1..Len(q) /\ i <= i - 1 + 1
        BY <1>1, <3>1, <3>3
      <4>2. q[i] \in met(i - 1) /\ next[q[i]] = n
        BY <1>1, <3>1, <3>3, <4>1
      <4>3. n \in Node
        BY <1>1, <3>1
      <4> HIDE DEF met
      <4> QED
        BY <4>2, <4>3 DEF onward
    <3>4. j <= i \/ j = i + 1
      BY <1>1, <3>1
    <3> QED
      BY <3>2, <3>3, <3>4
  <2>2. ASSUME NEW n \in met(i - 1) PROVE n \in met(i)
    BY <1>1, <2>2
  <2>3. ASSUME NEW m \in met(i - 1), next[m] \in Node PROVE next[m] \in met(i)
    <3>1. PICK j \in 1..Len(q) : m = q[j] /\ j <= i - 1 + 1
      BY <2>3
    <3>2. CASE j = Len(q)
      BY <1>1, <2>3, <3>1, <3>2
    <3>3. CASE j # Len(q)
      <4>1. j \in 1..Len(q) - 1 /\ j + 1 \in 1..Len(q) /\ j + 1 <= i + 1
        BY <1>1, <3>1, <3>3
      <4> QED
        BY <1>1, <3>1, <4>1
    <3> QED
      BY <3>2, <3>3
  <2> HIDE DEF met
  <2> QED
    BY <2>1, <2>2, <2>3 DEF onward
<1> HIDE DEF met
<1>5. PICK reach : /\ Linked(l) = reach[N] /\ reach[0] = {head[l]} \cap Node
                   /\ \A i \in Nat \ {0} : reach[i] = onward(reach[i - 1])
  BY LinkedWalk
<1>8. ASSUME NEW i \in Nat \ {0}, reach[i - 1] = met(i - 1) PROVE reach[i] = met(i)
  BY <1>4, <1>5, <1>8
<1>9. reach[0] = met(0)
  BY <1>3, <1>5
<1>10. \A i \in Nat : reach[i] = met(i)
  <2> DEFINE Bad == {i \in Nat : reach[i] # met(i)}
  <2> SUFFICES ASSUME Bad # {} PROVE FALSE
    OBVIOUS
  <2>1. PICK i \in Bad : \A j \in Bad : ~ (j < i)
    BY Least, Zenon
  <2>2. i \in Nat \ {0} /\ i - 1 \in Nat /\ i - 1 \notin Bad
    BY <1>9, <2>1
  <2> QED
    BY <1>8, <2>1, <2>2
<1>11. met(N) = {q[j] : j \in 1..Len(q)}
  <2>1. {k \in 1..Len(q) : k <= N + 1} = 1..Len(q)
    BY <1>1, <1>2
  <2> QED
    BY <2>1 DEF met
<1> QED
  BY <1>1, <1>2, <1>5, <1>10, <1>11

=============================================================================
