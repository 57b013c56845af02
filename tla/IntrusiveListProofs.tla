------------------------ MODULE IntrusiveListProofs ------------------------
(***************************************************************************)
(* Proofs about IntrusiveList for any sets of nodes and lists.             *)
(*                                                                         *)
(* The lists keep their promise (ListInv) provided the build keeps pop's   *)
(* tail reset, or there is a single list that is never pushed to: exactly  *)
(* the page allocator's use.                                               *)
(***************************************************************************)
EXTENDS IntrusiveList, ListOpsProofs

\* The clients and builds for which the list works.
SoundUse ==
  /\ CountFits
  /\ TailResets = {TRUE} \/ ("push" \notin Ops /\ \A l, m \in List : l = m)

\* With the reset kept, an empty list has no tail.
TailInv == TailResets = {TRUE} => \A l \in List : size[l] = 0 => tail[l] = Null

ListIInv == TypeOK /\ ListInv /\ TailInv

----------------------------------------------------------------------------
LEMMA TypeStep == TypeOK /\ [Next]_vars => TypeOK'
<1> SUFFICES ASSUME TypeOK, [Next]_vars PROVE TypeOK'
  OBVIOUS
<1> USE DEF TypeOK
<1>1. ASSUME NEW l \in List, NEW n \in Node, Append_(l, n) PROVE TypeOK'
  BY <1>1, AppendType, WordTypes DEF Append_
<1>2. ASSUME NEW l \in List, NEW n \in Node, Push(l, n) PROVE TypeOK'
  BY <1>2, PushType, WordTypes DEF Push
<1>3. ASSUME NEW l \in List, Pop(l) PROVE TypeOK'
  BY <1>3, PopType DEF Pop, ListTypeOK
<1>4. CASE UNCHANGED vars
  BY <1>4 DEF vars, ListTypeOK
<1> QED
  BY <1>1, <1>2, <1>3, <1>4 DEF Next

\* The operations stay within the types of the fields whatever the client does.
THEOREM TypeCorrect == Spec => []TypeOK
<1>1. Init => TypeOK
  BY ListAssumption DEF Init, initialize_lists, TypeOK, ListTypeOK, Ref, Owner
<1> QED
  BY <1>1, TypeStep, PTL DEF Spec

----------------------------------------------------------------------------
(* What each operation does to the sequence of its list. *)

\* append leaves the other lists as they were: the old tail it links from is
\* a node of its own list or, when that list is empty, NULL.
LEMMA AppendSpares ==
  ASSUME SoundUse, TypeOK, TailInv, NEW l \in List, NEW n \in Node,
         container[n] = Null, append_list(l, n),
         NEW q \in Seq(Node), Represents(l, q),
         NEW m \in List, m # l, NEW r \in Seq(Node), Represents(m, r)
  PROVE  Represents(m, r)'
<1> USE ListAssumption
<1>1. Len(r) \in Nat /\ \A i \in 1..Len(r) : r[i] \in Node /\ container[r[i]] = m
  BY LenProperties, ElementOfSeq DEF Represents
<1>2. tail[l] = Null \/ (tail[l] \in Node /\ container[tail[l]] = l)
  <2>1. CASE q = <<>>
    BY <2>1 DEF Represents, TailInv, SoundUse
  <2>2. CASE q # <<>>
    <3>1. Len(q) \in 1..Len(q)
      BY <2>2, EmptySeq
    <3> QED
      BY <2>2, <3>1, ElementOfSeq DEF Represents
  <2> QED
    BY <2>1, <2>2
<1>3. \A i \in 1..Len(r) : r[i] # n /\ r[i] # tail[l]
  BY <1>1, <1>2
<1>4. /\ next' = [next EXCEPT ![tail[l]] = n, ![n] = Null]
      /\ next \in [Ref -> Ref] /\ container \in [Ref -> Owner]
      /\ container' = [container EXCEPT ![n] = l] /\ Node \subseteq Ref
  BY DEF append_list, append_links, append_count, TypeOK, ListTypeOK, Ref
<1>5. \A i \in 1..Len(r) : next'[r[i]] = next[r[i]] /\ container'[r[i]] = m
  BY <1>1, <1>3, <1>4
<1>6. \A k \in Node : container'[k] = m => container[k] = m
  BY <1>4
<1>7. head'[m] = head[m] /\ tail'[m] = tail[m] /\ size'[m] = size[m]
  BY DEF append_list, append_links, append_count, TypeOK, ListTypeOK
<1>8. r # <<>> => Len(r) \in 1..Len(r)
  BY EmptySeq
<1>9. \A i \in 1..Len(r) - 1 : next'[r[i]] = r[i + 1]
  BY <1>1, <1>5 DEF Represents
<1>10. r # <<>> => next'[r[Len(r)]] = Null
  BY <1>5, <1>8 DEF Represents
<1> QED
  BY <1>1, <1>5, <1>6, <1>7, <1>9, <1>10 DEF Represents

\* push adds the node at the front; the tail of an empty list must be NULL.
LEMMA PushAdds ==
  ASSUME SoundUse, TypeOK, TailInv, TailResets = {TRUE},
         NEW l \in List, NEW n \in Node, container[n] = Null,
         push_list(l, n), NEW q \in Seq(Node), Represents(l, q)
  PROVE  Represents(l, <<n>> \o q)'
<1> USE ListAssumption
<1>0. PICK r : r = <<n>> \o q
  OBVIOUS
<1>1. /\ Len(q) \in Nat /\ \A i \in 1..Len(q) : q[i] \in Node
      /\ r \in Seq(Node) /\ Len(r) = Len(q) + 1
      /\ r[1] = n
      /\ \A i \in 2..Len(r) : r[i] = q[i - 1] /\ i - 1 \in 1..Len(q)
  <2>1. <<n>> \in Seq(Node) /\ Len(<<n>>) = 1 /\ <<n>>[1] = n
    OBVIOUS
  <2>2. Len(q) \in Nat /\ \A i \in 1..Len(q) : q[i] \in Node
    BY LenProperties, ElementOfSeq
  <2>3. /\ <<n>> \o q \in Seq(Node) /\ Len(<<n>> \o q) = 1 + Len(q)
        /\ \A i \in 1..1 + Len(q) :
             (<<n>> \o q)[i] = IF i <= 1 THEN <<n>>[i] ELSE q[i - 1]
    BY <2>1, ConcatProperties
  <2> QED
    BY <1>0, <2>1, <2>2, <2>3
<1>2. \A i \in 1..Len(q) : container[q[i]] = l /\ q[i] # n
  BY DEF Represents
<1>3. \A i, j \in 1..Len(r) : r[i] = r[j] => i = j
  <2>1. \A i, j \in 1..Len(q) : q[i] = q[j] => i = j
    BY DEF Represents
  <2> SUFFICES ASSUME NEW i \in 1..Len(r), NEW j \in 1..Len(r), r[i] = r[j]
               PROVE  i = j
    OBVIOUS
  <2>2. CASE i = 1 \/ j = 1
    BY <1>1, <1>2, <2>2
  <2>3. CASE i # 1 /\ j # 1
    <3>1. i \in 2..Len(r) /\ j \in 2..Len(r)
      BY <1>1, <2>3
    <3>2. i - 1 \in 1..Len(q) /\ j - 1 \in 1..Len(q) /\ q[i - 1] = q[j - 1]
      BY <1>1, <3>1
    <3>3. i - 1 = j - 1
      BY <2>1, <3>2
    <3> QED
      BY <3>1, <3>3
  <2> QED
    BY <2>2, <2>3
<1>4. size'[l] = Len(r)
  <2>1. IsFiniteSet(Node) /\ Cardinality(Node) \in Nat
    BY FS_CardinalityType DEF SoundUse, CountFits
  <2>2. Len(r) <= Cardinality(Node)
    BY <1>1, <1>3, <2>1, DistinctBound, Zenon
  <2>3. Len(r) <= MaxWord
    BY <1>1, <2>1, <2>2 DEF SoundUse, CountFits
  <2> QED
    BY <1>1, <2>3 DEF TypeOK, ListTypeOK, push_list, Inc, Represents
<1>5. \A m \in Node : container'[m] = IF m = n THEN l ELSE container[m]
  BY DEF push_list, TypeOK, ListTypeOK, Ref
<1>6. /\ \A i \in 1..Len(r) : container'[r[i]] = l
      /\ \A m \in Node : container'[m] = l => \E i \in 1..Len(r) : r[i] = m
  <2>1. \A i \in 1..Len(r) : container'[r[i]] = l
    <3> SUFFICES ASSUME NEW i \in 1..Len(r) PROVE container'[r[i]] = l
      OBVIOUS
    <3>1. CASE i = 1
      BY <1>1, <1>5, <3>1
    <3>2. CASE i # 1
      <4>1. i \in 2..Len(r)
        BY <1>1, <3>2
      <4> QED
        BY <1>1, <1>2, <1>5, <4>1
    <3> QED
      BY <3>1, <3>2
  <2>2. ASSUME NEW m \in Node, container'[m] = l, m # n
        PROVE  \E i \in 1..Len(r) : r[i] = m
    <3>1. PICK i \in 1..Len(q) : q[i] = m
      BY <1>5, <2>2 DEF Represents
    <3>2. i + 1 \in 2..Len(r) /\ i + 1 - 1 = i /\ i + 1 \in 1..Len(r)
      BY <1>1
    <3>3. r[i + 1] = m
      BY <1>1, <3>1, <3>2
    <3> QED
      BY <3>2, <3>3
  <2>3. 1 \in 1..Len(r)
    BY <1>1
  <2> QED
    BY <1>1, <2>1, <2>2, <2>3
<1>7. \A m \in Node : next'[m] = IF m = n THEN head[l] ELSE next[m]
  BY DEF push_list, TypeOK, ListTypeOK, Ref
<1>8. \A i \in 1..Len(r) - 1 : next'[r[i]] = r[i + 1]
  <2> SUFFICES ASSUME NEW i \in 1..Len(r) - 1 PROVE next'[r[i]] = r[i + 1]
    OBVIOUS
  <2>1. CASE i = 1
    <3>1. q # <<>> /\ 2 \in 2..Len(r)
      BY <1>1, <2>1
    <3>2. head[l] = q[1]
      BY <3>1 DEF Represents
    <3> QED
      BY <1>1, <1>7, <2>1, <3>1, <3>2
  <2>2. CASE i # 1
    <3>1. /\ i \in 2..Len(r) /\ i + 1 \in 2..Len(r) /\ i - 1 \in 1..Len(q) - 1
          /\ i - 1 + 1 = i /\ i + 1 - 1 = i
      BY <1>1, <2>2
    <3>2. r[i] = q[i - 1] /\ r[i + 1] = q[i] /\ q[i - 1] \in Node /\ q[i - 1] # n
      BY <1>1, <1>2, <3>1
    <3>3. next[q[i - 1]] = q[i]
      BY <3>1 DEF Represents
    <3> QED
      BY <1>7, <3>2, <3>3
  <2> QED
    BY <2>1, <2>2
<1>9. head'[l] = n /\ tail'[l] = IF tail[l] = Null THEN n ELSE tail[l]
  BY DEF push_list, TypeOK, ListTypeOK
<1>10. tail'[l] = r[Len(r)] /\ next'[r[Len(r)]] = Null
  <2>1. CASE q = <<>>
    <3>1. tail[l] = Null /\ head[l] = Null /\ Len(r) = 1
      BY <1>1, <2>1 DEF TailInv, Represents
    <3> QED
      BY <1>1, <1>7, <1>9, <3>1
  <2>2. CASE q # <<>>
    <3>1. Len(q) \in 1..Len(q) /\ Len(r) \in 2..Len(r) /\ Len(r) - 1 = Len(q)
      BY <1>1, <2>2, EmptySeq
    <3>2. tail[l] = q[Len(q)] /\ next[q[Len(q)]] = Null
      BY <2>2 DEF Represents
    <3> QED
      BY <1>1, <1>2, <1>7, <1>9, <3>1, <3>2
  <2> QED
    BY <2>1, <2>2
<1>11. r # <<>>
  BY <1>1
<1>12. Represents(l, r)'
  BY <1>1, <1>3, <1>4, <1>6, <1>8, <1>9, <1>10, <1>11 DEF Represents
<1> QED
  BY <1>0, <1>12

\* push leaves the other lists as they were.
LEMMA PushSpares ==
  ASSUME TypeOK, NEW l \in List, NEW n \in Node, container[n] = Null,
         push_list(l, n),
         NEW m \in List, m # l, NEW r \in Seq(Node), Represents(m, r)
  PROVE  Represents(m, r)'
<1> USE ListAssumption
<1>1. Len(r) \in Nat /\ \A i \in 1..Len(r) : r[i] \in Node /\ container[r[i]] = m
  BY LenProperties, ElementOfSeq DEF Represents
<1>2. \A i \in 1..Len(r) : r[i] # n
  BY <1>1
<1>3. /\ next' = [next EXCEPT ![n] = head[l]]
      /\ next \in [Ref -> Ref] /\ container \in [Ref -> Owner]
      /\ container' = [container EXCEPT ![n] = l] /\ Node \subseteq Ref
  BY DEF push_list, TypeOK, ListTypeOK, Ref
<1>4. \A i \in 1..Len(r) : next'[r[i]] = next[r[i]] /\ container'[r[i]] = m
  BY <1>1, <1>2, <1>3
<1>5. \A k \in Node : container'[k] = m => container[k] = m
  BY <1>3
<1>6. head'[m] = head[m] /\ tail'[m] = tail[m] /\ size'[m] = size[m]
  BY DEF push_list, TypeOK, ListTypeOK
<1>7. r # <<>> => Len(r) \in 1..Len(r)
  BY EmptySeq
<1> QED
  BY <1>1, <1>4, <1>5, <1>6, <1>7 DEF Represents

\* pop leaves the other lists as they were.
LEMMA PopSpares ==
  ASSUME TypeOK, NEW l \in List, pop_list(l), size[l] > 0,
         NEW q \in Seq(Node), Represents(l, q),
         NEW m \in List, m # l, NEW r \in Seq(Node), Represents(m, r)
  PROVE  Represents(m, r)'
<1> USE ListAssumption
<1>1. Len(r) \in Nat /\ \A i \in 1..Len(r) : r[i] \in Node /\ container[r[i]] = m
  BY LenProperties, ElementOfSeq DEF Represents
<1>2. Len(q) \in Nat /\ Len(q) > 0 /\ q # <<>> /\ q[1] \in Node
  BY LenProperties, EmptySeq, ElementOfSeq DEF Represents
<1>3. head[l] \in Node /\ container[head[l]] = l
  BY <1>2 DEF Represents
<1>4. \A k \in Node : container'[k] = IF k = head[l] THEN Null ELSE container[k]
  BY <1>3 DEF pop_list, TypeOK, ListTypeOK, Ref
<1>5. /\ \A i \in 1..Len(r) : container'[r[i]] = m
      /\ \A k \in Node : container'[k] = m => container[k] = m
  BY <1>1, <1>3, <1>4
<1>6. head'[m] = head[m] /\ tail'[m] = tail[m] /\ size'[m] = size[m] /\ next' = next
  BY DEF pop_list, pop_tail, TypeOK, ListTypeOK
<1> QED
  BY <1>1, <1>5, <1>6 DEF Represents

----------------------------------------------------------------------------
(* The lists as the sequences they represent. *)

\* The sequence a list represents is the one Contents names.
LEMMA ContentsIs ==
  \A l \in List : \A q \in Seq(Node) : Represents(l, q) => Contents(l) = q
<1> SUFFICES ASSUME NEW l \in List, NEW q \in Seq(Node), Represents(l, q)
             PROVE  Contents(l) = q
  OBVIOUS
<1>1. q \in [1..size[l] -> Node] /\ size[l] = Len(q) /\ Len(q) \in Nat
  BY LenProperties DEF Represents
<1>2. Contents(l) \in [1..size[l] -> Node] /\ Represents(l, Contents(l))
  BY <1>1 DEF Contents
<1>3. Contents(l) \in Seq(Node)
  BY <1>1, <1>2
<1> QED
  BY <1>2, <1>3, Unique

LEMMA ContentsRepresent ==
  TypeOK /\ ListInv =>
    \A l \in List : Contents(l) \in Seq(Node) /\ Represents(l, Contents(l))
<1> SUFFICES ASSUME TypeOK, ListInv, NEW l \in List
             PROVE  Contents(l) \in Seq(Node) /\ Represents(l, Contents(l))
  OBVIOUS
<1>1. Contents(l) \in [1..size[l] -> Node] /\ Represents(l, Contents(l))
  BY DEF Contents, ListInv
<1>2. size[l] \in Nat
  BY ListAssumption DEF TypeOK, ListTypeOK
<1> QED
  BY <1>1, <1>2

\* Lists that represent the sequences f satisfy ListInv and have contents f.
LEMMA RepresentsAll ==
  ASSUME NEW f \in [List -> Seq(Node)], \A l \in List : Represents(l, f[l])'
  PROVE  ListInv' /\ \A l \in List : Contents(l)' = f[l]
<1>1. ASSUME NEW l \in List
      PROVE  f[l] \in [1..size'[l] -> Node] /\ Represents(l, f[l])'
  <2>1. f[l] \in Seq(Node)
    OBVIOUS
  <2>2. size'[l] = Len(f[l])
    BY DEF Represents
  <2> QED
    BY <2>1, <2>2, LenProperties
<1>2. (\A l \in List : \A q \in Seq(Node) : Represents(l, q) => Contents(l) = q)'
  BY ContentsIs, PTL
<1>3. \A l \in List : \A q \in Seq(Node) : Represents(l, q)' => Contents(l)' = q
  BY <1>2
<1> QED
  BY <1>1, <1>3 DEF ListInv

\* Every list is empty to begin with.
LEMMA InitContents == Init => ListIInv /\ \A l \in List : Contents(l) = <<>>
<1> SUFFICES ASSUME Init PROVE ListIInv /\ \A l \in List : Contents(l) = <<>>
  OBVIOUS
<1>1. TypeOK
  BY ListAssumption DEF Init, initialize_lists, TypeOK, ListTypeOK, Ref, Owner
<1>2. ASSUME NEW l \in List PROVE <<>> \in Seq(Node) /\ Represents(l, <<>>)
  BY ListAssumption DEF Init, initialize_lists, Represents, Ref
<1>3. \A l \in List : size[l] = 0 /\ <<>> \in [1..size[l] -> Node]
  BY DEF Init, initialize_lists
<1>4. \A l \in List : Contents(l) = <<>>
  BY <1>2, ContentsIs
<1> QED
  BY <1>1, <1>2, <1>3, <1>4
  DEF ListIInv, ListInv, TailInv, Init, initialize_lists

(* The contents after each operation. *)

LEMMA AppendContents ==
  ASSUME SoundUse, ListIInv, NEW l \in List, NEW n \in Node, Append_(l, n)
  PROVE  /\ ListInv'
         /\ \A m \in List : Contents(m)' =
              IF m = l THEN Append(Contents(l), n) ELSE Contents(m)
<1>0. PICK c : c = [m \in List |-> Contents(m)]
  OBVIOUS
<1> DEFINE f == [m \in List |-> IF m = l THEN Append(c[l], n) ELSE c[m]]
<1>1. \A m \in List : c[m] = Contents(m) /\ c[m] \in Seq(Node)
                      /\ Represents(m, c[m])
  BY <1>0, ContentsRepresent DEF ListIInv
<1>2. container[n] = Null /\ append_list(l, n)
  BY DEF Append_
<1>3. Represents(l, Append(c[l], n))' /\ Append(c[l], n) \in Seq(Node)
  BY <1>1, <1>2, AppendAdds, AppendProperties DEF ListIInv, TypeOK, SoundUse
<1>4. \A m \in List : m # l => Represents(m, c[m])'
  BY <1>1, <1>2, AppendSpares DEF ListIInv
<1>5. f \in [List -> Seq(Node)]
  BY <1>1, <1>3
<1>6. \A m \in List : Represents(m, f[m])'
  BY <1>3, <1>4
<1> HIDE DEF f
<1>7. ListInv' /\ \A m \in List : Contents(m)' = f[m]
  BY <1>5, <1>6, RepresentsAll
<1> QED
  BY <1>1, <1>7 DEF f

LEMMA PushContents ==
  ASSUME SoundUse, ListIInv, NEW l \in List, NEW n \in Node, Push(l, n)
  PROVE  /\ ListInv'
         /\ \A m \in List : Contents(m)' =
              IF m = l THEN <<n>> \o Contents(l) ELSE Contents(m)
<1>0. PICK c : c = [m \in List |-> Contents(m)]
  OBVIOUS
<1> DEFINE f == [m \in List |-> IF m = l THEN <<n>> \o c[l] ELSE c[m]]
<1>1. \A m \in List : c[m] = Contents(m) /\ c[m] \in Seq(Node)
                      /\ Represents(m, c[m])
  BY <1>0, ContentsRepresent DEF ListIInv
<1>2. container[n] = Null /\ push_list(l, n) /\ TailResets = {TRUE}
  BY DEF Push, SoundUse
<1>3. Represents(l, <<n>> \o c[l])' /\ <<n>> \o c[l] \in Seq(Node)
  <2>1. <<n>> \in Seq(Node)
    OBVIOUS
  <2> QED
    BY <1>1, <1>2, <2>1, PushAdds, ConcatProperties DEF ListIInv
<1>4. \A m \in List : m # l => Represents(m, c[m])'
  BY <1>1, <1>2, PushSpares DEF ListIInv
<1>5. f \in [List -> Seq(Node)]
  BY <1>1, <1>3
<1>6. \A m \in List : Represents(m, f[m])'
  BY <1>3, <1>4
<1> HIDE DEF f
<1>7. ListInv' /\ \A m \in List : Contents(m)' = f[m]
  BY <1>5, <1>6, RepresentsAll
<1> QED
  BY <1>1, <1>7 DEF f

LEMMA PopContents ==
  ASSUME SoundUse, ListIInv, NEW l \in List, Pop(l)
  PROVE  /\ ListInv'
         /\ \A m \in List : Contents(m)' =
              IF m = l THEN Tail(Contents(l)) ELSE Contents(m)
<1>0. PICK c : c = [m \in List |-> Contents(m)]
  OBVIOUS
<1> DEFINE f == [m \in List |-> IF m = l THEN Tail(c[l]) ELSE c[m]]
<1>1. \A m \in List : c[m] = Contents(m) /\ c[m] \in Seq(Node)
                      /\ Represents(m, c[m])
  BY <1>0, ContentsRepresent DEF ListIInv
<1>2. size[l] > 0 /\ pop_list(l)
  BY DEF Pop
<1>3. c[l] # <<>> /\ Represents(l, Tail(c[l]))' /\ Tail(c[l]) \in Seq(Node)
  BY <1>1, <1>2, PopTakes, HeadTailProperties DEF ListIInv, TypeOK
<1>4. \A m \in List : m # l => Represents(m, c[m])'
  BY <1>1, <1>2, PopSpares DEF ListIInv
<1>5. f \in [List -> Seq(Node)]
  BY <1>1, <1>3
<1>6. \A m \in List : Represents(m, f[m])'
  BY <1>3, <1>4
<1> HIDE DEF f
<1>7. ListInv' /\ \A m \in List : Contents(m)' = f[m]
  BY <1>5, <1>6, RepresentsAll
<1> QED
  BY <1>1, <1>7 DEF f

----------------------------------------------------------------------------
(* The theorems. *)

LEMMA TailStep == SoundUse /\ ListIInv /\ [Next]_vars /\ ListInv' => TailInv'
<1> SUFFICES ASSUME SoundUse, ListIInv, [Next]_vars, ListInv',
                    TailResets = {TRUE}, NEW m \in List, size'[m] = 0
             PROVE  tail'[m] = Null
  BY DEF TailInv
<1> USE ListAssumption DEF ListIInv, TypeOK, ListTypeOK
<1>1. head'[m] = Null
  BY EmptySeq DEF ListInv, Represents
<1>2. \A x \in 0..MaxWord : Inc(x) = 0 => x = MaxWord
  BY DEF Inc
<1>3. CASE UNCHANGED vars
  BY <1>3 DEF vars, TailInv
<1>4. ASSUME NEW l \in List, NEW n \in Node, Append_(l, n) PROVE tail'[m] = Null
  <2>1. CASE m = l
    <3>1. head'[l] = IF head[l] = Null THEN n ELSE head[l]
      BY <1>4 DEF Append_, append_list, append_count
    <3> QED
      BY <1>1, <2>1, <3>1
  <2>2. CASE m # l
    BY <1>4, <2>2 DEF Append_, append_list, append_links, append_count, TailInv
  <2> QED
    BY <2>1, <2>2
<1>5. ASSUME NEW l \in List, NEW n \in Node, Push(l, n) PROVE tail'[m] = Null
  <2>1. CASE m = l
    BY <1>1, <1>5, <2>1 DEF Push, push_list
  <2>2. CASE m # l
    BY <1>5, <2>2 DEF Push, push_list, TailInv
  <2> QED
    BY <2>1, <2>2
<1>6. ASSUME NEW l \in List, Pop(l) PROVE tail'[m] = Null
  <2>1. CASE m = l
    BY <1>1, <1>6, <2>1 DEF Pop, pop_list, pop_tail
  <2>2. CASE m # l
    BY <1>6, <2>2 DEF Pop, pop_list, pop_tail, TailInv
  <2> QED
    BY <2>1, <2>2
<1> QED
  BY <1>3, <1>4, <1>5, <1>6 DEF Next

LEMMA ListStep == SoundUse /\ ListIInv /\ [Next]_vars => ListIInv'
<1> SUFFICES ASSUME SoundUse, ListIInv, [Next]_vars PROVE ListIInv'
  OBVIOUS
<1>1. ListInv'
  <2>1. CASE UNCHANGED vars
    BY <2>1 DEF vars, ListIInv, ListInv, Represents
  <2> QED
    BY <2>1, AppendContents, PushContents, PopContents DEF Next
<1> QED
  BY <1>1, TypeStep, TailStep DEF ListIInv

\* For the clients and builds of SoundUse the lists are never corrupted.
THEOREM ListsHold == ASSUME SoundUse PROVE Spec => []ListInv
<1>1. Init => ListIInv
  BY InitContents
<1>2. ListIInv /\ [Next]_vars => ListIInv'
  BY SoundUse, ListStep
<1>3. ListIInv => ListInv
  BY DEF ListIInv
<1> QED
  BY <1>1, <1>2, <1>3, PTL DEF Spec

\* For the clients and builds of SoundUse the lists are the queues list.h
\* documents: the sequence in memory moves as Queue says, and pop returns what
\* Queue hands out.
THEOREM ListsImplementQueue == ASSUME SoundUse PROVE Spec => Implements
<1> DEFINE queue == [l \in List |-> Contents(l)]
<1>1. Init => Q!Init
  BY InitContents DEF Q!Init, Init
<1>2. ListIInv /\ [Next]_vars => [Q!Next]_(Q!vars)
  <2> SUFFICES ASSUME ListIInv, [Next]_vars PROVE [Q!Next]_(Q!vars)
    OBVIOUS
  <2> USE SoundUse
  <2>1. \A m \in List : /\ Contents(m) \in Seq(Node)
                        /\ Represents(m, Contents(m))
    BY ContentsRepresent DEF ListIInv
  <2>2. ASSUME NEW n \in Node, container[n] = Null PROVE n \notin Q!Queued
    BY <2>1, <2>2, LenProperties, ListAssumption DEF Q!Queued, Represents
  <2>3. ASSUME NEW l \in List, NEW n \in Node, Append_(l, n)
        PROVE  Q!Append_(l, n)
    <3>1. n \notin Q!Queued /\ popped' = popped
      BY <2>2, <2>3 DEF Append_
    <3>2. queue' = [queue EXCEPT ![l] = Append(@, n)]
      BY <2>3, AppendContents
    <3> QED
      BY <3>1, <3>2 DEF Q!Append_
  <2>4. ASSUME NEW l \in List, NEW n \in Node, Push(l, n) PROVE Q!Push(l, n)
    <3>1. n \notin Q!Queued /\ popped' = popped
      BY <2>2, <2>4 DEF Push
    <3>2. queue' = [queue EXCEPT ![l] = <<n>> \o @]
      BY <2>4, PushContents
    <3> QED
      BY <3>1, <3>2 DEF Q!Push
  <2>5. ASSUME NEW l \in List, Pop(l) PROVE Q!Pop(l)
    <3>1. Contents(l) # <<>> /\ popped' = Head(Contents(l))
      <4>1. size[l] > 0 /\ pop_list(l) /\ popped' = head[l]
        BY <2>5 DEF Pop
      <4>2. Contents(l) # <<>> /\ head[l] = Contents(l)[1]
        <5>1. PICK q : q = Contents(l)
          OBVIOUS
        <5>2. q # <<>> /\ head[l] = q[1]
          BY <2>1, <4>1, <5>1, PopTakes DEF ListIInv, TypeOK
        <5> QED
          BY <5>1, <5>2
      <4> QED
        BY <2>1, <4>1, <4>2
    <3>2. queue' = [queue EXCEPT ![l] = Tail(@)]
      BY <2>5, PopContents
    <3> QED
      BY <3>1, <3>2 DEF Q!Pop
  <2>6. CASE UNCHANGED vars
    BY <2>6 DEF vars, Q!vars, Contents, Represents
  <2> QED
    BY <2>3, <2>4, <2>5, <2>6 DEF Next, Q!Next
<1>3. Init => ListIInv
  BY InitContents
<1>4. ListIInv /\ [Next]_vars => ListIInv'
  BY SoundUse, ListStep
<1> QED
  BY <1>1, <1>2, <1>3, <1>4, PTL DEF Spec, Implements, Q!Spec

=============================================================================
