----------------------------- MODULE HeapProofs -----------------------------
(***************************************************************************)
(* Proofs about Heap for any heap size, any requests and any number of     *)
(* calls: links stay in the heap and sizes in a word for every client, and *)
(* for a client that keeps to what the kernel does while it boots the      *)
(* segments tile the heap and the blocks are its own.                      *)
(***************************************************************************)
EXTENDS Heap, WellFoundedInduction, TLAPS

----------------------------------------------------------------------------
(* Arithmetic of uint32_t. *)

LEMMA InWord ==
  ASSUME NEW x \in Nat, x < Word
  PROVE  x % Word = x
<1>1. Word \in Nat \ {0}
  BY HeapAssumption
<1> QED
  BY <1>1

LEMMA WordType ==
  /\ Word \in Nat \ {0} /\ 2 * HeapSize < Word /\ MaxInt \in Nat /\ HeapSize <= MaxInt
  /\ 2 * MaxInt < Word
<1>1. Word \in Nat /\ HeapSize \in Nat /\ HeapSize < Word \div 2
  BY HeapAssumption
<1>2. Word \div 2 \in Nat /\ 2 * (Word \div 2) <= Word
  BY <1>1
<1> DEFINE w == Word \div 2
<1> HIDE DEF w
<1>3. w \in Nat /\ 2 * w <= Word /\ HeapSize < w
  BY <1>1, <1>2 DEF w
<1>4. MaxInt = w - 1
  BY DEF MaxInt, w
<1> QED
  BY <1>1, <1>3, <1>4

\* A remainder, for any divisor.
LEMMA Remainder ==
  ASSUME NEW x \in Int, NEW n \in Nat \ {0}
  PROVE  x % n \in 0..n - 1
OBVIOUS

\* A negative number wraps around to just below the word's end.
LEMMA BelowWord ==
  ASSUME NEW x \in Int, -Word <= x, x < 0
  PROVE  x % Word = x + Word
<1>0. Word \in Nat \ {0}
  BY WordType
<1> DEFINE q == x \div Word
           r == x % Word
<1>1. q \in Int /\ r \in 0..Word - 1 /\ x = Word * q + r
  BY <1>0
<1> HIDE DEF q, r
<1>2. CASE q = -1
  BY <1>0, <1>1, <1>2 DEF r
<1>3. CASE q >= 0
  <2>1. Word * q >= 0
    BY <1>0, <1>1, <1>3
  <2> QED
    BY <1>0, <1>1, <2>1
<1>4. CASE q <= -2
  <2>1. Word * q <= -2 * Word
    BY <1>0, <1>1, <1>4
  <2> QED
    BY <1>0, <1>1, <2>1
<1> QED
  BY <1>1, <1>2, <1>3, <1>4

\* The space for a request holds the header and the request.
LEMMA NeededHolds ==
  ASSUME NEW bytes \in Requests
  PROVE  needed(bytes) \in Nat /\ needed(bytes) < Word /\ needed(bytes) >= bytes + Header
<1>1. /\ Word \in Nat \ {0} /\ Header \in Nat \ {0}
      /\ bytes \in Nat /\ bytes + 2 * Header <= Word
  BY WordType, HeapAssumption, ClientAssumption
<1> DEFINE total == bytes + Header
           over == total % Header
<1>2. total \in Nat /\ total < Word /\ over \in 0..Header - 1
  BY <1>1, Remainder
<1>3. total % Word = total
  BY <1>2, InWord
<1>4. needed(bytes) = (total + (IF over = 0 THEN 0 ELSE Header - over)) % Word
  BY <1>3 DEF needed
<1> HIDE DEF over
<1> DEFINE up == total + (IF over = 0 THEN 0 ELSE Header - over)
<1>5. up \in Nat /\ up < Word /\ up >= total
  BY <1>1, <1>2
<1>6. up % Word = up
  BY <1>5, InWord
<1> QED
  BY <1>4, <1>5, <1>6

\* A signed difference that is no smaller than the request is the difference.
LEMMA DiffIs ==
  ASSUME NEW s \in 0..HeapSize, NEW n \in Nat, n < Word, n > 0,
         NEW a, segment_size[a] = s, diff(a, n) >= n
  PROVE  s - n >= n /\ diff(a, n) = s - n /\ (s - n) % Word = s - n
<1>1. Word \in Nat \ {0} /\ 2 * HeapSize < Word /\ MaxInt \in Nat /\ HeapSize <= MaxInt
      /\ 2 * MaxInt < Word /\ HeapSize \in Nat
  BY WordType, HeapAssumption
<1> DEFINE d == (s - n) % Word
<1>2. d \in 0..Word - 1
  BY <1>1, Remainder
<1>3. diff(a, n) = IF d > MaxInt THEN d - Word ELSE d
  BY DEF diff
<1>4. CASE n <= s
  <2>1. d = s - n
    BY <1>1, <1>4, InWord
  <2> HIDE DEF d
  <2> QED
    BY <1>1, <1>3, <1>4, <2>1 DEF d
<1>5. CASE n > s
  <2>1. d = s - n + Word
    <3>1. s - n \in Int /\ -Word <= s - n /\ s - n < 0
      BY <1>1, <1>5
    <3> QED
      BY <3>1, BelowWord
  <2> HIDE DEF d
  <2>2. diff(a, n) <= MaxInt
    BY <1>1, <1>2, <1>3
  <2>3. n <= MaxInt
    BY <1>1, <1>2, <1>3, <2>2
  <2>4. d > MaxInt
    BY <1>1, <1>5, <2>1, <2>3
  <2>5. diff(a, n) < 0 /\ diff(a, n) \in Int
    BY <1>1, <1>2, <1>3, <2>4
  <2>6. diff(a, n) >= n
    OBVIOUS
  <2> HIDE DEF d
  <2> QED
    BY <2>5, <2>6
<1> QED
  BY <1>1, <1>4, <1>5

----------------------------------------------------------------------------
(* The walk along the chain. *)

\* Every set of natural numbers that is not empty has a least element.
LEMMA LeastNat ==
  ASSUME NEW T \in SUBSET Nat, T # {}
  PROVE  \E x \in T : \A y \in T : ~ (y < x)
<1>1. PICK x \in T : \A y \in T : <<y, x>> \notin OpToRel(<, Nat)
  BY WFMin, NatLessThanWellFounded, Zenon
<1> QED
  BY <1>1, Zenon DEF OpToRel

\* One more step of the walk from each of the segments of S.
onward(S) == UNION {{a} \cup ({hnext[a]} \ {Nil}) : a \in S}

\* The walk is the sequence of sets its definition describes: there is one.
LEMMA WalkIs ==
  ASSUME HeapTypeOK
  PROVE  \E r : /\ Segments = r[HeapSize] /\ r[0] = {0}
               /\ \A i \in Nat \ {0} : r[i] = onward(r[i - 1])
<1>0. /\ HeapSize \in Nat /\ 0 \in Addr /\ \A a \in Addr : hnext[a] \in Addr \cup {Nil}
      /\ Nil \notin Addr
  BY HeapAssumption DEF HeapTypeOK, Addr
<1> DEFINE path(k, a) == \E p \in [0..k -> Addr] :
                           /\ p[0] = 0 /\ p[k] = a
                           /\ \A j \in 1..k : hnext[p[j - 1]] = p[j]
           met(i) == {a \in Addr : \E k \in 0..i : path(k, a)}
<1>1. met(0) = {0}
  <2>1. path(0, 0)
    <3> DEFINE p == [j \in 0..0 |-> 0]
    <3>1. p \in [0..0 -> Addr] /\ p[0] = 0 /\ \A j \in 1..0 : hnext[p[j - 1]] = p[j]
      BY <1>0
    <3> QED
      BY <3>1
  <2>2. \A a : path(0, a) => a = 0
    OBVIOUS
  <2>3. 0..0 = {0}
    OBVIOUS
  <2> QED
    BY <1>0, <2>1, <2>2, <2>3
<1>2. ASSUME NEW i \in Nat \ {0} PROVE met(i) = onward(met(i - 1))
  <2>1. ASSUME NEW a \in met(i) PROVE a \in onward(met(i - 1))
    <3>1. PICK k \in 0..i : path(k, a)
      BY <2>1
    <3>2. CASE k <= i - 1
      <4>1. k \in 0..i - 1
        BY <3>2
      <4>2. a \in met(i - 1)
        BY <2>1, <3>1, <4>1
      <4> HIDE DEF met
      <4> QED
        BY <4>2 DEF onward
    <3>3. CASE k = i
      <4>1. PICK p \in [0..i -> Addr] : /\ p[0] = 0 /\ p[i] = a
                                        /\ \A j \in 1..i : hnext[p[j - 1]] = p[j]
        BY <3>1, <3>3
      <4> DEFINE q == [j \in 0..i - 1 |-> p[j]]
      <4>2. q \in [0..i - 1 -> Addr] /\ q[0] = 0 /\ q[i - 1] = p[i - 1]
        BY <4>1
      <4>3. \A j \in 1..i - 1 : hnext[q[j - 1]] = q[j]
        BY <4>1
      <4>4. path(i - 1, p[i - 1])
        BY <4>2, <4>3
      <4>5. p[i - 1] \in met(i - 1)
        BY <4>1, <4>4
      <4>6. hnext[p[i - 1]] = a /\ a # Nil
        BY <1>0, <4>1
      <4> HIDE DEF met
      <4> QED
        BY <4>5, <4>6 DEF onward
    <3> QED
      BY <3>2, <3>3
  <2>2. ASSUME NEW a \in met(i - 1) PROVE a \in met(i)
    BY <2>2
  <2>3. ASSUME NEW a \in met(i - 1), hnext[a] # Nil PROVE hnext[a] \in met(i)
    <3>1. PICK k \in 0..i - 1 : path(k, a)
      BY <2>3
    <3>2. PICK p \in [0..k -> Addr] : /\ p[0] = 0 /\ p[k] = a
                                      /\ \A j \in 1..k : hnext[p[j - 1]] = p[j]
      BY <3>1
    <3> DEFINE q == [j \in 0..k + 1 |-> IF j = k + 1 THEN hnext[a] ELSE p[j]]
    <3>3. hnext[a] \in Addr
      BY <1>0, <2>3
    <3>4. q \in [0..k + 1 -> Addr] /\ q[0] = 0 /\ q[k + 1] = hnext[a]
      BY <3>2, <3>3
    <3>5. ASSUME NEW j \in 1..k + 1 PROVE hnext[q[j - 1]] = q[j]
      <4>1. CASE j = k + 1
        <5>1. j - 1 \in 0..k + 1 /\ j - 1 # k + 1 /\ j - 1 = k
          BY <4>1
        <5> QED
          BY <3>2, <4>1, <5>1
      <4>2. CASE j # k + 1
        <5>1. j \in 1..k /\ j - 1 \in 0..k + 1 /\ j - 1 # k + 1 /\ j \in 0..k + 1
          BY <4>2
        <5> QED
          BY <3>2, <4>2, <5>1
      <4> QED
        BY <4>1, <4>2
    <3>6. path(k + 1, hnext[a])
      BY <3>4, <3>5
    <3>7. k + 1 \in 0..i
      OBVIOUS
    <3> QED
      BY <3>3, <3>6, <3>7
  <2> HIDE DEF met
  <2> QED
    BY <2>1, <2>2, <2>3 DEF onward
<1> HIDE DEF met
<1> DEFINE rec(f) == [i \in Nat |-> IF i = 0 THEN {0} ELSE onward(f[i - 1])]
           reach == CHOOSE f : f = rec(f)
<1>3. \E f : f = rec(f)
  <2> DEFINE f == [i \in Nat |-> met(i)]
  <2>1. ASSUME NEW i \in Nat PROVE f[i] = rec(f)[i]
    <3>1. CASE i = 0
      BY <1>1, <3>1
    <3>2. CASE i # 0
      <4>1. i - 1 \in Nat /\ i \in Nat \ {0}
        BY <3>2
      <4>2. f[i - 1] = met(i - 1) /\ f[i] = met(i)
        BY <4>1
      <4>3. f[i] = onward(f[i - 1])
        BY <1>2, <4>1, <4>2
      <4> HIDE DEF f
      <4> QED
        BY <3>2, <4>3
    <3> QED
      BY <3>1, <3>2
  <2>2. f = rec(f)
    BY <2>1
  <2> QED
    BY <2>2
<1>4. reach = rec(reach)
  BY <1>3
<1>5. Segments = reach[HeapSize]
  BY DEF Segments, onward
<1>6. reach[0] = {0} /\ \A i \in Nat \ {0} : reach[i] = onward(reach[i - 1])
  <2> HIDE DEF reach
  <2> QED
    BY <1>4
<1> HIDE DEF reach
<1> QED
  BY <1>5, <1>6

\* The segments that the walk from the head meets lie in every set of headers
\* that has the head and is closed under next.
LEMMA WalkStays ==
  ASSUME HeapTypeOK, NEW C \in SUBSET Addr, 0 \in C,
         \A a \in C : hnext[a] # Nil => hnext[a] \in C
  PROVE  Segments \subseteq C
<1>0. HeapSize \in Nat
  BY HeapAssumption
<1>1. PICK r : /\ Segments = r[HeapSize] /\ r[0] = {0}
               /\ \A i \in Nat \ {0} : r[i] = onward(r[i - 1])
  BY WalkIs
<1>2. ASSUME NEW i \in Nat \ {0}, r[i - 1] \subseteq C PROVE r[i] \subseteq C
  BY <1>1, <1>2 DEF onward
<1>3. \A i \in Nat : r[i] \subseteq C
  <2> DEFINE Bad == {i \in Nat : ~(r[i] \subseteq C)}
  <2> SUFFICES ASSUME Bad # {} PROVE FALSE
    OBVIOUS
  <2>1. PICK i \in Bad : \A j \in Bad : ~ (j < i)
    BY LeastNat, Zenon
  <2>2. i \in Nat \ {0} /\ i - 1 \in Nat /\ i - 1 \notin Bad
    BY <1>1, <2>1
  <2> QED
    BY <1>2, <2>1, <2>2
<1> QED
  BY <1>0, <1>1, <1>3

\* The walk meets the first segment and the two behind it.
LEMMA WalkMeets ==
  ASSUME HeapTypeOK, NEW a \in Addr, NEW b \in Addr \cup {Nil}, HeapSize >= 2,
         hnext[0] = a, hnext[a] = b
  PROVE  {0, a} \subseteq Segments /\ (b # Nil => b \in Segments)
<1>0. HeapSize \in Nat /\ Nil \notin Addr
  BY HeapAssumption DEF Addr
<1>1. PICK r : /\ Segments = r[HeapSize] /\ r[0] = {0}
               /\ \A i \in Nat \ {0} : r[i] = onward(r[i - 1])
  BY WalkIs
<1>2. \A i \in Nat : r[i] \subseteq r[i + 1]
  <2>1. \A i \in Nat : i + 1 \in Nat \ {0} /\ i + 1 - 1 = i
    OBVIOUS
  <2>2. \A i \in Nat : r[i + 1] = onward(r[i])
    BY <1>1, <2>1
  <2> QED
    BY <2>2 DEF onward
<1>3. {0, a} \subseteq r[1] /\ {0, a} \subseteq r[2] /\ (b # Nil => b \in r[2])
  <2>1. r[1] = onward(r[0]) /\ r[2] = onward(r[1])
    BY <1>1
  <2>2. {0, a} \subseteq r[1]
    BY <1>0, <1>1, <2>1 DEF onward
  <2> QED
    BY <1>0, <2>1, <2>2 DEF onward
<1>4. \A i \in Nat : i >= 2 => r[2] \subseteq r[i]
  <2> DEFINE Bad == {i \in Nat : i >= 2 /\ ~(r[2] \subseteq r[i])}
  <2> SUFFICES ASSUME Bad # {} PROVE FALSE
    OBVIOUS
  <2>1. PICK i \in Bad : \A j \in Bad : ~ (j < i)
    BY LeastNat, Zenon
  <2>2. i \in Nat /\ i > 2 /\ i - 1 \in Nat /\ i - 1 >= 2 /\ i - 1 \notin Bad /\ i - 1 + 1 = i
    BY <2>1
  <2>3. r[2] \subseteq r[i - 1] /\ r[i - 1] \subseteq r[i - 1 + 1]
    BY <1>2, <2>2
  <2> QED
    BY <2>1, <2>2, <2>3
<1> QED
  BY <1>0, <1>1, <1>3, <1>4

----------------------------------------------------------------------------
(* Types. *)

\* What kmalloc and kfree have in hand between their steps.
HeapIInv ==
  /\ TypeOK
  /\ pc \in {"split", "mark", "left", "right"} => seg \in Addr
  /\ pc \in {"split", "mark"} => req \in Requests /\ calls < MaxCalls

LEMMA InitTypes == Init => HeapIInv
<1> SUFFICES ASSUME Init PROVE HeapIInv
  OBVIOUS
<1>1. HeapTypeOK
  <2>1. /\ Word \in Nat \ {0} /\ 2 * HeapSize < Word /\ HeapSize \in Nat
    BY WordType, HeapAssumption
  <2>2. HeapSize \in 0..Word - 1 /\ 0 \in 0..Word - 1
    BY <2>1
  <2> QED
    BY <2>2 DEF Init, heap_init, HeapTypeOK
<1>2. /\ boot \in Clients /\ DOMAIN blocks = {} /\ calls \in 0..MaxCalls /\ req = 0
      /\ seg = Nil /\ pc = "idle"
  BY ClientAssumption DEF Init
<1> QED
  BY <1>1, <1>2 DEF HeapIInv, TypeOK

\* A sum of words is a word.
LEMMA SumType ==
  ASSUME NEW x \in 0..Word - 1, NEW y \in 0..Word - 1
  PROVE  (x + y) % Word \in 0..Word - 1
<1>1. Word \in Nat \ {0} /\ x + y \in Int
  BY WordType
<1> QED
  BY <1>1, Remainder

LEMMA TypeStep == HeapIInv /\ [Next]_vars => HeapIInv'
<1> SUFFICES ASSUME HeapIInv, [Next]_vars PROVE HeapIInv'
  OBVIOUS
<1>0. TypeOK /\ HeapTypeOK /\ calls \in Nat
  BY DEF HeapIInv, TypeOK
<1> USE DEF HeapIInv, TypeOK
<1>1. CASE UNCHANGED vars
  BY <1>1 DEF vars, heapVars, HeapTypeOK
<1>2. ASSUME NEW bytes \in Requests, KmallocScan(bytes) PROVE HeapIInv'
  <2>1. PICK b \in best(needed(bytes)) :
          seg' = b /\ pc' = IF splits(b, needed(bytes)) THEN "split" ELSE "mark"
    BY <1>2 DEF KmallocScan
  <2>2. seg' \in Addr /\ pc' \in {"split", "mark"}
    BY <2>1 DEF best
  <2> QED
    BY <1>0, <1>2, <2>2, ClientAssumption DEF KmallocScan, heapVars, HeapTypeOK
<1>3. ASSUME NEW bytes \in Requests, KmallocFails(bytes) PROVE HeapIInv'
  <2>1. calls' \in 0..MaxCalls /\ \A i \in 1..calls : i \in 1..calls'
    BY <1>0, <1>3, ClientAssumption DEF KmallocFails
  <2> QED
    BY <1>0, <1>3, <2>1 DEF KmallocFails, heapVars, HeapTypeOK
<1>4. ASSUME NEW i \in DOMAIN blocks, Overwrite(i) PROVE HeapIInv'
  BY <1>0, <1>4 DEF Overwrite, heapVars, HeapTypeOK
<1>5. ASSUME NEW i \in DOMAIN blocks, Kfree(i) PROVE HeapIInv'
  <2>1. \A j \in DOMAIN blocks' : j \in 1..calls' /\ blocks'[j] \in Block
    BY <1>0, <1>5 DEF Kfree
  <2>2. HeapTypeOK'
    BY <1>0, <1>5 DEF Kfree, release, heapVars, HeapTypeOK
  <2>3. pc' \in {"left", "wild"} /\ seg' \in Addr \cup {Nil} /\ (pc' = "left" => seg' \in Addr)
    BY <1>0, <1>5 DEF Kfree, Block
  <2> QED
    BY <1>5, <2>1, <2>2, <2>3 DEF Kfree
<1>6. CASE KmallocSplit
  <2> DEFINE n == needed(req)
             rest == seg + n
  <2>1. seg \in Addr /\ rest \in Addr /\ req \in Requests /\ n \in 0..Word - 1
    <3>1. seg \in Addr /\ rest \in Addr /\ req \in Requests
      BY <1>6 DEF KmallocSplit
    <3>2. n \in Nat /\ n < Word /\ Word \in Nat
      BY <3>1, NeededHolds, WordType
    <3> HIDE DEF n, rest
    <3> QED
      BY <3>1, <3>2
  <2>2. (segment_size[seg] - n) % Word \in 0..Word - 1
    <3>1. segment_size[seg] - n \in Int /\ Word \in Nat \ {0}
      <4> HIDE DEF n, rest
      <4> QED
        BY <1>0, <2>1, WordType DEF HeapTypeOK
    <3> QED
      BY <3>1, Remainder
  <2> DEFINE left == (segment_size[seg] - n) % Word
  <2>3. /\ hnext' = [hnext EXCEPT ![seg] = rest, ![rest] = hnext[seg]]
        /\ hprev' = [hprev EXCEPT ![rest] = seg]
        /\ is_allocated' = [is_allocated EXCEPT ![rest] = FALSE]
        /\ segment_size' = [segment_size EXCEPT ![seg] = n, ![rest] = left]
    BY <1>6 DEF KmallocSplit, split
  <2> HIDE DEF n, rest, left
  <2>4. hnext[seg] \in Addr \cup {Nil} /\ left \in 0..Word - 1
    BY <1>0, <2>1, <2>2 DEF HeapTypeOK, left
  <2>5. HeapTypeOK'
    BY <1>0, <2>1, <2>3, <2>4 DEF HeapTypeOK
  <2> QED
    BY <1>0, <1>6, <2>1, <2>5 DEF KmallocSplit
<1>7. CASE KmallocSplitOutside
  BY <1>0, <1>7 DEF KmallocSplitOutside, heapVars, HeapTypeOK
<1>8. CASE KmallocReturn
  <2>1. seg \in Addr /\ req \in Requests /\ calls < MaxCalls /\ calls' = calls + 1
        /\ hnext[seg] \in Addr \cup {Nil} /\ MaxCalls \in Nat
    BY <1>0, <1>8, ClientAssumption DEF KmallocReturn, HeapTypeOK
  <2>2. [ptr |-> kmalloc_result(seg), bytes |-> req] \in Block
    BY <2>1 DEF Block, kmalloc_result
  <2>3. \A j \in DOMAIN blocks' : j \in 1..calls' /\ blocks'[j] \in Block
    <3>1. \A j \in 1..calls : j \in 1..calls'
      BY <1>0, <2>1
    <3>2. calls' \in 1..calls'
      BY <1>0, <2>1
    <3> QED
      BY <1>0, <1>8, <2>2, <3>1, <3>2 DEF KmallocReturn
  <2>4. HeapTypeOK'
    BY <1>0, <1>8 DEF KmallocReturn, mark, HeapTypeOK
  <2>5. calls' \in 0..MaxCalls
    BY <1>0, <2>1
  <2> QED
    BY <1>8, <2>3, <2>4, <2>5 DEF KmallocReturn
<1>9. CASE CoalesceLeft
  <2> DEFINE p == hprev[seg]
             s == hnext[seg]
             sum == (segment_size[p] + segment_size[seg]) % Word
  <2>1. seg \in Addr /\ p \in Addr /\ s \in Addr \cup {Nil}
    BY <1>0, <1>9 DEF CoalesceLeft, free_on_left, HeapTypeOK
  <2>2. sum \in 0..Word - 1
    BY <1>0, <2>1, SumType DEF HeapTypeOK
  <2>3. /\ hnext' = [hnext EXCEPT ![p] = s]
        /\ hprev' = IF s = Nil THEN hprev ELSE [hprev EXCEPT ![s] = p]
        /\ segment_size' = [segment_size EXCEPT ![p] = sum]
        /\ UNCHANGED is_allocated /\ seg' = p
    BY <1>9 DEF CoalesceLeft, merge_left
  <2> HIDE DEF p, s, sum
  <2>4. HeapTypeOK'
    BY <1>0, <2>1, <2>2, <2>3 DEF HeapTypeOK
  <2> QED
    BY <1>0, <1>9, <2>1, <2>3, <2>4 DEF CoalesceLeft
<1>10. CASE LeftDone
  BY <1>0, <1>10 DEF LeftDone, heapVars, HeapTypeOK
<1>11. CASE CoalesceRight
  <2>1. CASE hnext[hnext[seg]] = Nil
    BY <1>0, <1>11, <2>1 DEF CoalesceRight, heapVars, HeapTypeOK
  <2>2. CASE hnext[hnext[seg]] # Nil
    <3> DEFINE s == hnext[hnext[seg]]
               sum == (segment_size[seg] + segment_size[s]) % Word
    <3>1. seg \in Addr /\ hnext[seg] \in Addr /\ s \in Addr
      BY <1>0, <1>11, <2>2 DEF CoalesceRight, free_on_right, HeapTypeOK
    <3>2. sum \in 0..Word - 1
      BY <1>0, <3>1, SumType DEF HeapTypeOK
    <3>3. /\ hprev' = [hprev EXCEPT ![s] = seg]
          /\ hnext' = [hnext EXCEPT ![seg] = s]
          /\ segment_size' = [segment_size EXCEPT ![seg] = sum]
          /\ UNCHANGED <<is_allocated, pc>> /\ seg' = s
      BY <1>11, <2>2 DEF CoalesceRight, merge_right
    <3> HIDE DEF s, sum
    <3>4. HeapTypeOK'
      BY <1>0, <3>1, <3>2, <3>3 DEF HeapTypeOK
    <3> QED
      BY <1>0, <1>11, <3>1, <3>3, <3>4 DEF CoalesceRight
  <2> QED
    BY <2>1, <2>2
<1>12. CASE KfreeReturn
  BY <1>0, <1>12 DEF KfreeReturn, heapVars, HeapTypeOK
<1> QED
  BY <1>1, <1>2, <1>3, <1>4, <1>5, <1>6, <1>7, <1>8, <1>9, <1>10, <1>11, <1>12
  DEF Next, Loops

\* Whatever a client asks for and gives back, and however wrong the sizes have
\* become, links lead to addresses of the heap and sizes are words.
THEOREM TypeCorrect == Spec => []TypeOK
<1>1. HeapIInv => TypeOK
  BY DEF HeapIInv
<1> QED
  BY <1>1, InitTypes, TypeStep, PTL DEF Spec

----------------------------------------------------------------------------
(* A client that keeps to what the kernel does while it boots: a chain of  *)
(* allocated segments with one free segment at its end, in which the last  *)
(* block lies.                                                             *)

\* The headers: the head, and what any link leads to.
Headers == {0} \cup {hnext[a] : a \in {b \in Addr : hnext[b] # Nil}}

\* One behind the other up to the end of the heap.
ChainTiles ==
  /\ \A a \in Addr \ Headers : hnext[a] = Nil
  /\ \A a \in Headers : segment_size[a] >= Header
  /\ \A a \in Headers : IF hnext[a] = Nil THEN a + segment_size[a] = HeapSize
                                          ELSE hnext[a] = a + segment_size[a]
  /\ \A a, b \in Headers : a < b => a + segment_size[a] <= b
  /\ \A a \in Headers : hprev[a] # Nil => hprev[a] \in Headers /\ hnext[hprev[a]] = a

\* All but the last are allocated, the one that kmalloc has split off will be.
ChainMarked ==
  \A a \in Headers : is_allocated[a] <=> hnext[a] # Nil /\ ~(pc = "mark" /\ a = seg)

\* Each block lies in the space of a segment, no two in the same, and the one
\* that may be given back in the last.
BlocksPlaced ==
  /\ \A i \in DOMAIN blocks : /\ blocks[i].ptr \in Headers
                              /\ Header + blocks[i].bytes <= segment_size[blocks[i].ptr]
  /\ \A i, j \in DOMAIN blocks : blocks[i].ptr = blocks[j].ptr => i = j
  /\ calls \in DOMAIN blocks /\ pc # "mark" => hnext[blocks[calls].ptr] = Nil

\* What the steps of kmalloc and kfree carry on.
CallsCarry ==
  /\ pc = "split" =>
       /\ seg \in Headers /\ hnext[seg] = Nil
       /\ segment_size[seg] - needed(req) > 2 * Header
       /\ segment_size[seg] - needed(req) >= needed(req)
       /\ \A i \in DOMAIN blocks : blocks[i].bytes <= req
  /\ pc = "mark" =>
       /\ seg \in Headers /\ hnext[seg] # Nil /\ hnext[hnext[seg]] = Nil
       /\ Header + req <= segment_size[hnext[seg]]
       /\ \A i \in DOMAIN blocks : blocks[i].ptr # hnext[seg]
  /\ pc \in {"left", "right"} => seg \in Headers /\ hnext[seg] = Nil

BootInv ==
  boot => pc # "wild" /\ ChainTiles /\ ChainMarked /\ BlocksPlaced /\ CallsCarry

LEMMA ChainFacts ==
  ASSUME HeapTypeOK, ChainTiles
  PROVE  /\ Headers \subseteq Addr /\ 0 \in Headers
         /\ Segments \subseteq Headers
         /\ \A a \in Headers : hnext[a] # Nil => hnext[a] \in Headers
         /\ \A a \in Headers : /\ a \in Nat /\ segment_size[a] \in Nat
                               /\ a + segment_size[a] <= HeapSize
         /\ \A a, b \in Headers : hnext[a] = Nil /\ hnext[b] = Nil => a = b
         /\ \A a, b \in Headers : hnext[a] = Nil => b <= a
<1>0. HeapSize \in Nat /\ HeapSize > 0 /\ Nil \notin Addr
      /\ \A a : a \in Addr <=> a \in Nat /\ a < HeapSize
  BY HeapAssumption DEF Addr
<1>1. Headers \subseteq Addr /\ 0 \in Headers
  BY <1>0 DEF Headers, HeapTypeOK
<1>2. \A a \in Headers : hnext[a] # Nil => hnext[a] \in Headers
  BY <1>1 DEF Headers
<1>3. Segments \subseteq Headers
  BY <1>1, <1>2, WalkStays
<1>4. ASSUME NEW a \in Headers
      PROVE  a \in Nat /\ segment_size[a] \in Nat /\ a + segment_size[a] <= HeapSize
  <2>1. a \in Nat /\ segment_size[a] \in Nat
    BY <1>0, <1>1, WordType DEF HeapTypeOK
  <2>2. CASE hnext[a] = Nil
    BY <1>0, <2>1, <2>2 DEF ChainTiles
  <2>3. CASE hnext[a] # Nil
    <3>1. hnext[a] = a + segment_size[a] /\ hnext[a] \in Addr
      BY <1>1, <1>2, <2>3 DEF ChainTiles
    <3> QED
      BY <1>0, <2>1, <3>1
  <2> QED
    BY <2>1, <2>2, <2>3
<1>5. ASSUME NEW a \in Headers, NEW b \in Headers, hnext[a] = Nil PROVE b <= a
  <2>1. a + segment_size[a] = HeapSize /\ (a < b => a + segment_size[a] <= b) /\ b < HeapSize
    BY <1>0, <1>1, <1>5 DEF ChainTiles
  <2>2. a \in Nat /\ b \in Nat
    BY <1>4
  <2> QED
    BY <1>0, <2>1, <2>2
<1>6. ASSUME NEW a \in Headers, NEW b \in Headers, hnext[a] = Nil, hnext[b] = Nil PROVE a = b
  <2>1. a <= b /\ b <= a /\ a \in Nat /\ b \in Nat
    BY <1>4, <1>5, <1>6
  <2> QED
    BY <2>1
<1> QED
  BY <1>1, <1>2, <1>3, <1>4, <1>5, <1>6

LEMMA BootInit == Init => BootInv
<1> SUFFICES ASSUME Init PROVE BootInv
  OBVIOUS
<1>0. HeapSize \in Nat /\ HeapSize > Header /\ Header \in Nat /\ 0 \in Addr /\ Nil \notin Addr
  BY HeapAssumption DEF Addr
<1>1. /\ hnext = [a \in Addr |-> Nil] /\ hprev = [a \in Addr |-> Nil]
      /\ is_allocated = [a \in Addr |-> FALSE]
      /\ segment_size = [a \in Addr |-> IF a = 0 THEN HeapSize ELSE 0]
      /\ pc = "idle" /\ DOMAIN blocks = {}
  BY DEF Init, heap_init
<1>2. Headers = {0}
  BY <1>1 DEF Headers
<1>3. ChainTiles
  BY <1>0, <1>1, <1>2 DEF ChainTiles
<1>4. ChainMarked
  BY <1>0, <1>1, <1>2 DEF ChainMarked
<1>5. BlocksPlaced /\ CallsCarry
  BY <1>1 DEF BlocksPlaced, CallsCarry
<1> QED
  BY <1>1, <1>3, <1>4, <1>5 DEF BootInv

\* The search of kmalloc finds the last segment, and that one is split.
LEMMA ScanFinds ==
  ASSUME HeapTypeOK, ChainTiles, ChainMarked, pc = "idle", boot,
         NEW bytes \in Requests, MayRequest(bytes), NEW b \in best(needed(bytes))
  PROVE  /\ b \in Headers /\ hnext[b] = Nil /\ splits(b, needed(bytes))
         /\ segment_size[b] - needed(bytes) > 2 * Header
         /\ segment_size[b] - needed(bytes) >= needed(bytes)
<1> DEFINE n == needed(bytes)
<1>1. ASSUME NEW c \in best(n) PROVE c \in Headers /\ hnext[c] = Nil
  <2>1. c \in Segments /\ ~is_allocated[c]
    BY DEF best, candidates
  <2> QED
    BY <2>1, ChainFacts DEF ChainMarked
<1>2. PICK c \in best(n) : splits(c, n) /\ diff(c, n) >= n
  BY DEF MayRequest
<1>3. b = c
  BY <1>1, ChainFacts
<1>4. segment_size[b] \in 0..HeapSize
  <2>1. b \in Headers /\ HeapSize \in Nat
    BY <1>1, HeapAssumption
  <2>2. b \in Nat /\ segment_size[b] \in Nat /\ b + segment_size[b] <= HeapSize
    BY <2>1, ChainFacts
  <2> QED
    BY <2>1, <2>2
<1>5. n \in Nat /\ n < Word /\ n > 0
  <2>1. bytes \in Nat /\ Header \in Nat \ {0}
    BY ClientAssumption, HeapAssumption
  <2>2. n \in Nat /\ n < Word /\ n >= bytes + Header
    BY NeededHolds
  <2> HIDE DEF n
  <2> QED
    BY <2>1, <2>2
<1>6. segment_size[b] - n >= n /\ diff(b, n) = segment_size[b] - n
  BY <1>2, <1>3, <1>4, <1>5, DiffIs
<1> QED
  BY <1>1, <1>2, <1>3, <1>6 DEF splits

\* The invariant with the links and the blocks as they were.
LEMMA SameHeap ==
  ASSUME ChainTiles, UNCHANGED <<hnext, hprev, segment_size>>
  PROVE  ChainTiles' /\ Headers' = Headers
<1>1. Headers' = Headers
  BY DEF Headers
<1> QED
  BY <1>1 DEF ChainTiles

\* The rest of the last segment becomes the last segment.
LEMMA SplitStep ==
  ASSUME HeapIInv, BootInv, boot, KmallocSplit
  PROVE  BootInv'
<1>0. /\ HeapTypeOK /\ ChainTiles /\ ChainMarked /\ BlocksPlaced /\ CallsCarry
      /\ pc = "split" /\ req \in Requests
  BY DEF HeapIInv, TypeOK, BootInv, KmallocSplit
<1> DEFINE n == needed(req)
           rest == seg + n
           left == (segment_size[seg] - n) % Word
<1>1. /\ seg \in Headers /\ hnext[seg] = Nil
      /\ segment_size[seg] - n > 2 * Header
      /\ segment_size[seg] - n >= n
      /\ \A i \in DOMAIN blocks : blocks[i].bytes <= req
  BY <1>0 DEF CallsCarry
<1>2. n \in Nat /\ n >= req + Header /\ req \in Nat /\ Header \in Nat \ {0} /\ n > 0
  <2>1. req \in Nat /\ Header \in Nat \ {0}
    BY <1>0, ClientAssumption, HeapAssumption
  <2>2. n \in Nat /\ n >= req + Header
    BY <1>0, NeededHolds
  <2> HIDE DEF n
  <2> QED
    BY <2>1, <2>2
<1>3. /\ hnext' = [hnext EXCEPT ![seg] = rest, ![rest] = hnext[seg]]
      /\ hprev' = [hprev EXCEPT ![rest] = seg]
      /\ is_allocated' = [is_allocated EXCEPT ![rest] = FALSE]
      /\ segment_size' = [segment_size EXCEPT ![seg] = n, ![rest] = left]
      /\ pc' = "mark" /\ UNCHANGED <<boot, blocks, calls, req, seg>>
  BY DEF KmallocSplit, split
<1>4. /\ Headers \subseteq Addr /\ 0 \in Headers
      /\ \A a \in Headers : /\ a \in Nat /\ segment_size[a] \in Nat
                            /\ a + segment_size[a] <= HeapSize
      /\ \A a, b \in Headers : hnext[a] = Nil /\ hnext[b] = Nil => a = b
      /\ \A b \in Headers : b <= seg
      /\ \A a \in Headers : hnext[a] # Nil => hnext[a] \in Headers
  BY <1>0, <1>1, ChainFacts
<1>5. left = segment_size[seg] - n
  <2>1. segment_size[seg] - n \in Nat /\ segment_size[seg] - n < Word
    <3> HIDE DEF n
    <3>1. HeapSize \in Nat /\ Word \in Nat /\ 2 * HeapSize < Word
      BY HeapAssumption, WordType
    <3>2. seg \in Nat /\ segment_size[seg] \in Nat /\ seg + segment_size[seg] <= HeapSize
      BY <1>1, <1>4
    <3> QED
      BY <1>1, <1>2, <3>1, <3>2
  <2> QED
    BY <2>1, InWord
<1> HIDE DEF n, left
<1>6. /\ seg \in Nat /\ segment_size[seg] \in Nat
      /\ seg + segment_size[seg] = HeapSize /\ HeapSize \in Nat
  BY <1>0, <1>1, <1>4, HeapAssumption DEF ChainTiles
<1>7. /\ rest \in Nat /\ rest < HeapSize /\ rest > seg /\ rest + left = HeapSize
      /\ left >= Header /\ left \in Nat /\ left >= n
  BY <1>1, <1>2, <1>5, <1>6
<1> DEFINE r == rest
<1>8. rest \in Addr /\ rest \notin Headers /\ rest # seg /\ seg \in Addr /\ Nil \notin Addr
  <2>1. rest \in Addr
    BY <1>6, <1>7 DEF Addr
  <2>2. rest \notin Headers
    BY <1>4, <1>6, <1>7
  <2> QED
    BY <1>1, <1>4, <1>6, <1>7, <2>1, <2>2, HeapAssumption DEF Addr
<1> HIDE DEF rest
<1>9. /\ hnext'[seg] = rest /\ hnext'[rest] = Nil
      /\ \A a \in Addr \ {seg, rest} : hnext'[a] = hnext[a]
      /\ hprev'[rest] = seg
      /\ \A a \in Addr \ {rest} : hprev'[a] = hprev[a]
      /\ is_allocated'[rest] = FALSE
      /\ \A a \in Addr \ {rest} : is_allocated'[a] = is_allocated[a]
      /\ segment_size'[seg] = n /\ segment_size'[rest] = left
      /\ \A a \in Addr \ {seg, rest} : segment_size'[a] = segment_size[a]
  BY <1>0, <1>1, <1>3, <1>8 DEF HeapTypeOK
<1>10. Headers' = Headers \cup {rest}
  <2>1. \A x : x \in Headers <=> x = 0 \/ \E a \in Addr : hnext[a] # Nil /\ x = hnext[a]
    BY DEF Headers
  <2>2. \A x : x \in Headers' <=> x = 0 \/ \E a \in Addr : hnext'[a] # Nil /\ x = hnext'[a]
    BY DEF Headers
  <2>3. hnext[rest] = Nil
    BY <1>0, <1>8 DEF ChainTiles
  <2>4. \A a \in Addr : hnext[a] # Nil => hnext'[a] = hnext[a]
    BY <1>1, <1>9, <2>3
  <2>5. \A a \in Addr : hnext'[a] # Nil => hnext'[a] = hnext[a] \/ hnext'[a] = rest
    BY <1>9
  <2>6. rest # Nil /\ seg \in Addr
    BY <1>8
  <2> QED
    BY <1>9, <2>1, <2>2, <2>4, <2>5, <2>6
<1>11. ChainTiles'
  <2>1. \A a \in Addr \ Headers' : hnext'[a] = Nil
    BY <1>0, <1>1, <1>9, <1>10 DEF ChainTiles
  <2>2. \A a \in Headers' : segment_size'[a] >= Header
    <3>1. \A a \in Headers \ {seg} : segment_size'[a] = segment_size[a]
      BY <1>4, <1>8, <1>9
    <3>2. n >= Header
      BY <1>2
    <3> QED
      BY <1>0, <1>7, <1>9, <1>10, <3>1, <3>2 DEF ChainTiles
  <2>3. \A a \in Headers' : IF hnext'[a] = Nil THEN a + segment_size'[a] = HeapSize
                                               ELSE hnext'[a] = a + segment_size'[a]
    <3>1. \A a \in Headers \ {seg} : segment_size'[a] = segment_size[a] /\ hnext'[a] = hnext[a]
      BY <1>4, <1>8, <1>9
    <3>2. rest = seg + n /\ rest # Nil
      BY <1>8 DEF rest
    <3>3. ASSUME NEW a \in Headers'
          PROVE  IF hnext'[a] = Nil THEN a + segment_size'[a] = HeapSize
                                    ELSE hnext'[a] = a + segment_size'[a]
      <4>1. CASE a = seg
        BY <1>9, <3>2, <4>1
      <4>2. CASE a = rest
        BY <1>7, <1>9, <4>2
      <4>3. CASE a \in Headers \ {seg}
        BY <1>0, <3>1, <4>3 DEF ChainTiles
      <4> QED
        BY <1>10, <4>1, <4>2, <4>3
    <3> QED
      BY <3>3
  <2>4. ASSUME NEW a \in Headers', NEW b \in Headers', a < b
        PROVE  a + segment_size'[a] <= b
    <3>1. CASE a = rest
      <4>1. b \in Headers
        BY <1>7, <1>10, <2>4, <3>1
      <4> QED
        BY <1>4, <1>6, <1>7, <2>4, <3>1, <4>1
    <3>2. CASE a = seg
      <4>1. b = rest
        BY <1>4, <1>6, <1>10, <2>4, <3>2
      <4> QED
        BY <1>2, <1>6, <1>9, <3>2, <4>1 DEF rest
    <3>3. CASE a \in Headers \ {seg}
      <4>1. segment_size'[a] = segment_size[a]
        BY <1>4, <1>8, <1>9, <3>3
      <4>2. CASE b = rest
        <5>1. a <= seg /\ a # seg /\ a \in Nat
          BY <1>4, <3>3
        <5>2. a < seg
          BY <1>6, <5>1
        <5>3. a + segment_size[a] <= seg /\ segment_size[a] \in Nat
          BY <1>0, <1>1, <1>4, <3>3, <5>2 DEF ChainTiles
        <5> QED
          BY <1>6, <1>7, <4>1, <4>2, <5>1, <5>3
      <4>3. CASE b \in Headers
        BY <1>0, <2>4, <3>3, <4>1, <4>3 DEF ChainTiles
      <4> QED
        BY <1>10, <4>2, <4>3
    <3> QED
      BY <1>10, <3>1, <3>2, <3>3
  <2>5. ASSUME NEW a \in Headers', hprev'[a] # Nil
        PROVE  hprev'[a] \in Headers' /\ hnext'[hprev'[a]] = a
    <3>1. CASE a = rest
      BY <1>1, <1>9, <1>10, <3>1
    <3>2. CASE a \in Headers
      <4>1. hprev'[a] = hprev[a]
        BY <1>4, <1>8, <1>9, <3>2
      <4>2. hprev[a] \in Headers /\ hnext[hprev[a]] = a
        BY <1>0, <2>5, <3>2, <4>1 DEF ChainTiles
      <4>3. a # Nil /\ hprev[a] # seg /\ hprev[a] # rest /\ hprev[a] \in Addr
        BY <1>1, <1>4, <1>8, <3>2, <4>2
      <4> QED
        BY <1>9, <1>10, <4>1, <4>2, <4>3
    <3> QED
      BY <1>10, <3>1, <3>2
  <2> QED
    BY <2>1, <2>2, <2>3, <2>4, <2>5 DEF ChainTiles
<1>12. ChainMarked'
  <2>1. ASSUME NEW a \in Headers' PROVE is_allocated'[a] <=> hnext'[a] # Nil /\ a # seg
    <3>1. CASE a = rest
      BY <1>9, <3>1
    <3>2. CASE a = seg
      BY <1>0, <1>1, <1>8, <1>9, <3>2 DEF ChainMarked
    <3>3. CASE a \in Headers \ {seg}
      BY <1>0, <1>4, <1>8, <1>9, <3>3 DEF ChainMarked
    <3> QED
      BY <1>10, <3>1, <3>2, <3>3
  <2> QED
    BY <1>3, <2>1 DEF ChainMarked
<1>13. BlocksPlaced'
  <2>1. ASSUME NEW i \in DOMAIN blocks
        PROVE  /\ blocks[i].ptr \in Headers'
               /\ Header + blocks[i].bytes <= segment_size'[blocks[i].ptr]
    <3>1. blocks[i].ptr \in Headers /\ Header + blocks[i].bytes <= segment_size[blocks[i].ptr]
      BY <1>0 DEF BlocksPlaced
    <3>2. CASE blocks[i].ptr = seg
      <4>1. blocks[i].bytes <= req /\ blocks[i].bytes \in Nat
        BY <1>1, ClientAssumption DEF HeapIInv, TypeOK, Block
      <4> QED
        BY <1>2, <1>9, <1>10, <3>1, <3>2, <4>1
    <3>3. CASE blocks[i].ptr # seg
      BY <1>4, <1>8, <1>9, <1>10, <3>1, <3>3
    <3> QED
      BY <3>2, <3>3
  <2> QED
    BY <1>0, <1>3, <2>1 DEF BlocksPlaced
<1>14. CallsCarry'
  <2>1. seg \in Headers' /\ hnext'[seg] # Nil /\ hnext'[hnext'[seg]] = Nil
    BY <1>1, <1>8, <1>9, <1>10
  <2>2. Header + req <= segment_size'[hnext'[seg]]
    BY <1>2, <1>7, <1>9
  <2>3. \A i \in DOMAIN blocks : blocks[i].ptr # rest
    BY <1>0, <1>8 DEF BlocksPlaced
  <2> QED
    BY <1>3, <1>9, <2>1, <2>2, <2>3 DEF CallsCarry
<1> QED
  BY <1>3, <1>11, <1>12, <1>13, <1>14 DEF BootInv

\* What a block takes of the segment it lies in.
LEMMA PlacedWhere ==
  ASSUME HeapIInv, ChainTiles, BlocksPlaced, NEW i \in DOMAIN blocks
  PROVE  /\ blocks[i].ptr \in Headers /\ blocks[i].ptr \in Nat /\ blocks[i].ptr # Nil
         /\ \A x \in BlockBytes(blocks[i]) :
              /\ x \in Int /\ blocks[i].ptr + Header <= x
              /\ x < blocks[i].ptr + segment_size[blocks[i].ptr]
         /\ blocks[i].ptr + Header + blocks[i].bytes <= HeapSize
<1> DEFINE p == blocks[i].ptr
           k == blocks[i].bytes
<1>1. p \in Headers /\ Header + k <= segment_size[p]
  BY DEF BlocksPlaced
<1>2. p \in Nat /\ segment_size[p] \in Nat /\ p + segment_size[p] <= HeapSize /\ p \in Addr
  BY <1>1, ChainFacts DEF HeapIInv, TypeOK
<1>3. k \in Nat /\ Header \in Nat \ {0} /\ HeapSize \in Nat /\ p # Nil
  <2>1. k \in Requests
    <3>1. blocks[i] \in Block
      BY DEF HeapIInv, TypeOK
    <3> QED
      BY <3>1 DEF Block
  <2> HIDE DEF p, k
  <2>2. k \in Nat
    BY <2>1, ClientAssumption
  <2> QED
    BY <1>2, <2>2, HeapAssumption
<1>4. BlockBytes(blocks[i]) = p + Header .. p + Header + k - 1
  BY DEF BlockBytes
<1> HIDE DEF p, k
<1>5. \A x \in p + Header .. p + Header + k - 1 :
        x \in Int /\ p + Header <= x /\ x < p + segment_size[p]
  BY <1>1, <1>2, <1>3
<1>6. p + Header + k <= HeapSize
  BY <1>1, <1>2, <1>3
<1> QED
  BY <1>1, <1>2, <1>3, <1>4, <1>5, <1>6 DEF p, k

LEMMA PlacedIntact ==
  ASSUME HeapIInv, ChainTiles, BlocksPlaced, NEW i \in DOMAIN blocks
  PROVE  Intact(blocks[i])
<1> DEFINE p == blocks[i].ptr
<1>1. ASSUME NEW a \in Segments, NEW x \in BlockBytes(blocks[i]) PROVE x \notin HeaderBytes(a)
  <2>1. /\ a \in Headers /\ a \in Nat /\ segment_size[a] \in Nat
        /\ p \in Headers /\ p \in Nat /\ segment_size[p] \in Nat
        /\ x \in Int /\ p + Header <= x /\ x < p + segment_size[p]
        /\ Header \in Nat
    BY PlacedWhere, ChainFacts, HeapAssumption DEF HeapIInv, TypeOK
  <2>2. /\ a < p => a + segment_size[a] <= p
        /\ p < a => p + segment_size[p] <= a
        /\ segment_size[a] >= Header
    BY <2>1 DEF ChainTiles
  <2> HIDE DEF p
  <2>3. ~(a <= x /\ x <= a + Header - 1)
    BY <2>1, <2>2
  <2> QED
    BY <2>1, <2>3 DEF HeaderBytes
<1> QED
  BY <1>1, PlacedWhere DEF Intact

LEMMA PlacedApart ==
  ASSUME HeapIInv, ChainTiles, BlocksPlaced,
         NEW i \in DOMAIN blocks, NEW j \in DOMAIN blocks, i # j
  PROVE  BlockBytes(blocks[i]) \cap BlockBytes(blocks[j]) = {}
<1> DEFINE p == blocks[i].ptr
           q == blocks[j].ptr
<1> SUFFICES ASSUME NEW x \in BlockBytes(blocks[i]), x \in BlockBytes(blocks[j]) PROVE FALSE
  OBVIOUS
<1>1. /\ p \in Headers /\ p \in Nat /\ segment_size[p] \in Nat
      /\ q \in Headers /\ q \in Nat /\ segment_size[q] \in Nat
      /\ x \in Int /\ p + Header <= x /\ x < p + segment_size[p]
      /\ q + Header <= x /\ x < q + segment_size[q]
      /\ Header \in Nat
  BY PlacedWhere, ChainFacts, HeapAssumption DEF HeapIInv, TypeOK
<1>2. p # q
  BY DEF BlocksPlaced
<1> HIDE DEF p, q
<1>3. /\ p < q => p + segment_size[p] <= q
      /\ q < p => q + segment_size[q] <= p
  BY <1>1 DEF ChainTiles
<1> QED
  BY <1>1, <1>2, <1>3

LEMMA BootStep == HeapIInv /\ BootInv /\ [Next]_vars => BootInv'
<1> SUFFICES ASSUME HeapIInv, BootInv, [Next]_vars, boot' PROVE BootInv'
  BY DEF BootInv
<1>0. boot /\ HeapTypeOK /\ ChainTiles /\ ChainMarked /\ BlocksPlaced /\ CallsCarry
  <2>1. boot' = boot
    BY DEF Next, Loops, vars, KmallocScan, KmallocFails, Overwrite, Kfree, KmallocSplit,
           KmallocSplitOutside, KmallocReturn, CoalesceLeft, LeftDone, CoalesceRight, KfreeReturn
  <2> QED
    BY <2>1 DEF BootInv, HeapIInv, TypeOK
<1>1. CASE UNCHANGED vars
  <2>1. Headers' = Headers /\ ChainTiles'
    BY <1>0, <1>1, SameHeap DEF vars, heapVars
  <2> QED
    BY <1>0, <1>1, <2>1 DEF vars, heapVars, BootInv, ChainMarked, BlocksPlaced, CallsCarry
<1>2. ASSUME NEW bytes \in Requests, KmallocScan(bytes) PROVE BootInv'
  <2>1. PICK b \in best(needed(bytes)) :
          seg' = b /\ pc' = IF splits(b, needed(bytes)) THEN "split" ELSE "mark"
    BY <1>2 DEF KmallocScan
  <2>2. pc = "idle" /\ MayRequest(bytes) /\ req' = bytes
        /\ UNCHANGED <<hnext, hprev, is_allocated, segment_size, boot, blocks, calls>>
    BY <1>2 DEF KmallocScan, heapVars
  <2>3. /\ b \in Headers /\ hnext[b] = Nil /\ splits(b, needed(bytes))
        /\ segment_size[b] - needed(bytes) > 2 * Header
        /\ segment_size[b] - needed(bytes) >= needed(bytes)
    BY <1>0, <2>2, ScanFinds
  <2>4. Headers' = Headers /\ ChainTiles'
    BY <1>0, <2>2, SameHeap
  <2>5. ChainMarked' /\ BlocksPlaced'
    BY <1>0, <2>1, <2>2, <2>3, <2>4 DEF ChainMarked, BlocksPlaced
  <2>6. CallsCarry'
    <3>1. \A i \in DOMAIN blocks : blocks[i].bytes <= bytes
      BY <1>0, <2>2 DEF MayRequest
    <3>2. needed(req') = needed(bytes) /\ needed(req)' = needed(bytes)
      BY <2>2 DEF needed
    <3> QED
      BY <2>1, <2>2, <2>3, <2>4, <3>1, <3>2 DEF CallsCarry
  <2> QED
    BY <2>1, <2>3, <2>4, <2>5, <2>6 DEF BootInv
<1>3. ASSUME NEW bytes \in Requests, KmallocFails(bytes) PROVE BootInv'
  BY <1>0, <1>3 DEF KmallocFails, MayRequest
<1>4. ASSUME NEW i \in DOMAIN blocks, Overwrite(i) PROVE BootInv'
  BY <1>0, <1>4, PlacedIntact DEF Overwrite
<1>5. ASSUME NEW i \in DOMAIN blocks, Kfree(i) PROVE BootInv'
  <2> DEFINE p == blocks[i].ptr
  <2>1. pc = "idle" /\ i = calls
    BY <1>0, <1>5 DEF Kfree, MayFree
  <2>2. p \in Headers /\ hnext[p] = Nil
    BY <1>0, <2>1 DEF BlocksPlaced
  <2>3. p # Nil /\ p \in Addr
    BY <1>0, <2>2, ChainFacts, HeapAssumption DEF Addr
  <2>4. /\ is_allocated' = [is_allocated EXCEPT ![p] = FALSE]
        /\ UNCHANGED <<hnext, hprev, segment_size, boot, calls, req>>
        /\ pc' = "left" /\ seg' = p
        /\ blocks' = [j \in DOMAIN blocks \ {i} |-> blocks[j]]
    BY <1>5, <2>3 DEF Kfree, release
  <2>5. is_allocated' = is_allocated
    BY <1>0, <2>1, <2>2, <2>3, <2>4 DEF ChainMarked, HeapTypeOK
  <2>6. Headers' = Headers /\ ChainTiles'
    BY <1>0, <2>4, SameHeap
  <2>7. ChainMarked' /\ BlocksPlaced' /\ CallsCarry'
    BY <1>0, <2>1, <2>2, <2>4, <2>5, <2>6 DEF ChainMarked, BlocksPlaced, CallsCarry
  <2> QED
    BY <2>4, <2>6, <2>7 DEF BootInv
<1>6. CASE KmallocSplit
  BY <1>0, <1>6, SplitStep
<1>7. CASE KmallocSplitOutside
  <2>1. seg \in Headers /\ hnext[seg] = Nil /\ pc = "split" /\ req \in Requests
        /\ segment_size[seg] - needed(req) > 2 * Header
    BY <1>0, <1>7 DEF KmallocSplitOutside, CallsCarry, HeapIInv
  <2>2. needed(req) \in Nat /\ Header \in Nat /\ HeapSize \in Nat
    BY <2>1, NeededHolds, HeapAssumption
  <2>3. seg \in Nat /\ segment_size[seg] \in Nat /\ seg + segment_size[seg] <= HeapSize
    BY <1>0, <2>1, ChainFacts
  <2>4. seg + needed(req) \in Nat /\ seg + needed(req) < HeapSize
    BY <2>1, <2>2, <2>3
  <2>5. seg + needed(req) \in Addr
    BY <2>2, <2>4 DEF Addr
  <2> QED
    BY <1>7, <2>5 DEF KmallocSplitOutside
<1>8. CASE KmallocReturn
  <2> DEFINE p == hnext[seg]
  <2>1. /\ pc = "mark" /\ pc' = "idle" /\ calls' = calls + 1
        /\ is_allocated' = [is_allocated EXCEPT ![seg] = TRUE]
        /\ UNCHANGED <<hnext, hprev, segment_size, boot>>
        /\ blocks' = [i \in DOMAIN blocks \cup {calls'} |->
                        IF i = calls' THEN [ptr |-> p, bytes |-> req] ELSE blocks[i]]
    BY <1>8 DEF KmallocReturn, mark, kmalloc_result
  <2>2. /\ seg \in Headers /\ p # Nil /\ hnext[p] = Nil
        /\ Header + req <= segment_size[p]
        /\ \A i \in DOMAIN blocks : blocks[i].ptr # p
    BY <1>0, <2>1 DEF CallsCarry
  <2>3. p \in Headers /\ seg \in Addr
    BY <1>0, <2>2, ChainFacts
  <2>4. Headers' = Headers /\ ChainTiles'
    BY <1>0, <2>1, SameHeap
  <2>5. ChainMarked'
    <3>1. \A a \in Addr \ {seg} : is_allocated'[a] = is_allocated[a]
      BY <1>0, <2>1 DEF HeapTypeOK
    <3>2. is_allocated'[seg]
      BY <1>0, <2>1, <2>3 DEF HeapTypeOK
    <3>3. Headers \subseteq Addr
      BY <1>0, ChainFacts
    <3> QED
      BY <1>0, <2>1, <2>2, <2>4, <3>1, <3>2, <3>3 DEF ChainMarked
  <2>6. calls' \notin DOMAIN blocks
    BY <2>1 DEF HeapIInv, TypeOK
  <2>7. /\ DOMAIN blocks' = DOMAIN blocks \cup {calls'}
        /\ blocks'[calls'].ptr = p /\ blocks'[calls'].bytes = req
        /\ \A i \in DOMAIN blocks : blocks'[i] = blocks[i]
    BY <2>1, <2>6
  <2>8. BlocksPlaced'
    BY <1>0, <2>1, <2>2, <2>3, <2>4, <2>7 DEF BlocksPlaced
  <2>9. CallsCarry'
    BY <2>1 DEF CallsCarry
  <2> QED
    BY <2>1, <2>4, <2>5, <2>8, <2>9 DEF BootInv
<1>9. CASE CoalesceLeft
  <2>1. seg \in Headers /\ pc = "left" /\ hprev[seg] # Nil /\ ~is_allocated[hprev[seg]]
    BY <1>0, <1>9 DEF CoalesceLeft, free_on_left, CallsCarry
  <2>2. hprev[seg] \in Headers /\ hnext[hprev[seg]] = seg /\ seg # Nil
    BY <1>0, <2>1, ChainFacts, HeapAssumption DEF ChainTiles, Addr
  <2> QED
    BY <1>0, <2>1, <2>2 DEF ChainMarked
<1>10. CASE LeftDone
  <2>1. Headers' = Headers /\ ChainTiles'
    BY <1>0, <1>10, SameHeap DEF LeftDone, heapVars
  <2> QED
    BY <1>0, <1>10, <2>1
    DEF LeftDone, heapVars, BootInv, ChainMarked, BlocksPlaced, CallsCarry
<1>11. CASE CoalesceRight
  BY <1>0, <1>11 DEF CoalesceRight, free_on_right, CallsCarry
<1>12. CASE KfreeReturn
  <2>1. Headers' = Headers /\ ChainTiles'
    BY <1>0, <1>12, SameHeap DEF KfreeReturn, heapVars
  <2> QED
    BY <1>0, <1>12, <2>1
    DEF KfreeReturn, heapVars, BootInv, ChainMarked, BlocksPlaced, CallsCarry
<1> QED
  BY <1>1, <1>2, <1>3, <1>4, <1>5, <1>6, <1>7, <1>8, <1>9, <1>10, <1>11, <1>12
  DEF Next, Loops

LEMMA HeapInvariant == Spec => [](HeapIInv /\ BootInv)
<1> QED
  BY InitTypes, TypeStep, BootInit, BootStep, PTL DEF Spec

\* While the kernel boots the segments fill the heap without a gap or an overlap,
\* whatever it asks for within the order of its calls.
THEOREM SegmentsTile == Spec => []Tiling
<1>1. HeapIInv /\ BootInv => Tiling
  <2> SUFFICES ASSUME HeapIInv, BootInv, boot, NEW a \in Segments
               PROVE  IF hnext[a] = Nil THEN a + segment_size[a] = HeapSize
                                        ELSE hnext[a] = a + segment_size[a]
    BY DEF Tiling
  <2>1. a \in Headers
    BY ChainFacts DEF HeapIInv, TypeOK, BootInv
  <2> QED
    BY <2>1 DEF BootInv, ChainTiles
<1> QED
  BY <1>1, HeapInvariant, PTL

\* While the kernel boots every block it holds lies in the heap, off every header
\* and off every other block, although kmalloc hands out the space behind the
\* header it has not marked.
THEOREM BlocksApart == Spec => []BlocksDisjoint
<1>1. HeapIInv /\ BootInv => BlocksDisjoint
  <2> SUFFICES ASSUME HeapIInv, BootInv, boot
               PROVE  \A i \in DOMAIN blocks :
                        /\ Intact(blocks[i])
                        /\ \A j \in DOMAIN blocks :
                             i # j => BlockBytes(blocks[i]) \cap BlockBytes(blocks[j]) = {}
    BY DEF BlocksDisjoint
  <2> QED
    BY PlacedIntact, PlacedApart DEF BootInv
<1> QED
  BY <1>1, HeapInvariant, PTL

=============================================================================
