---------------------------- MODULE MailboxProofs ----------------------------
(***************************************************************************)
(* Proofs about Mailbox for any arrays of tags, any size of the heap and a *)
(* GPU of any speed.  send_messages puts a message together that keeps to  *)
(* its segment of the heap and asks for a place the kernel's heap has; an  *)
(* answer of 0 is one that was awaited; and kfree never has anything to    *)
(* coalesce while the kernel boots, since the header it is given is the    *)
(* last of the chain and free already.                                     *)
(***************************************************************************)
EXTENDS Mailbox, SequenceTheorems, TLAPS

\* The lemmas about kmalloc's arithmetic and its walk along the chain; they are
\* about the heap alone, and hold of any client.
Kernel == INSTANCE HeapProofs
  WITH Requests <- {0}, MaxCalls <- 0, Clients <- {TRUE},
       boot <- TRUE, blocks <- <<>>, calls <- 0, req <- 0, seg <- Nil, pc <- "idle"

----------------------------------------------------------------------------
\* The segments that are allocated, or will be with the next step.
Held == {a \in Addr : is_allocated[a]}
          \cup (IF pc = "mark" /\ hnext[seg] # Nil THEN {seg} ELSE {})

\* The chain: all segments are held but the last, e, which has the rest of the heap.
Chain(e) ==
  /\ e \in Addr /\ e \notin Held /\ Held \subseteq Addr
  /\ hnext[e] = Nil /\ hprev[e] \in Held \cup {Nil}
  /\ segment_size[e] = HeapSize - e
  /\ 0 \in Held \cup {e}
  /\ \A a \in Held : a < e /\ hnext[a] \in Held \cup {e} /\ a < hnext[a]

\* What kmalloc and send_messages have in hand: the last segment.
InHand(e) ==
  /\ pc = "split" => seg = e /\ HeapSize - e - needed(Asked) > 2 * Header
  /\ pc = "mark" => seg = e \/ hnext[seg] = e
  /\ pc \in {"compose", "send", "check"} => msg = e

\* The requests that have been cut from the chain, and how far the last segment
\* has moved with them.
Cut == IF pc \in {"kmalloc", "split"} THEN call - 1 ELSE call
Room(e) == HasRoom => e <= Sums(Asks)[Cut] /\ (pc = "mark" => seg # e)

MailIInv ==
  /\ HeapTypeOK
  /\ program \in Programs /\ call \in 1..Len(program) + 1
  /\ pc \in {"split", "mark"} => seg \in Addr
  /\ pc \in {"compose", "send", "check", "returned"} => Sending
  /\ pc # "wild" => \E e \in Addr : Chain(e) /\ InHand(e) /\ Room(e)

----------------------------------------------------------------------------
LEMMA Sizes ==
  /\ Word \in Nat \ {0} /\ Header \in Nat \ {0} /\ HeapSize \in Nat /\ HeapSize > Header
  /\ MaxInt \in Nat /\ HeapSize + 2 * Header <= MaxInt + 1 /\ 2 * MaxInt < Word
  /\ 0 \in Addr /\ Nil \notin Addr /\ Addr \subseteq Nat
<1>1. /\ Word \in Nat /\ Header \in Nat \ {0} /\ HeapSize \in Nat /\ HeapSize > Header
      /\ HeapSize < Word \div 2 /\ HeapSize + 2 * Header <= Word \div 2
  BY HeapAssumption, MailboxAssumption
<1> DEFINE w == Word \div 2
<1>2. w \in Nat /\ 2 * w <= Word
  BY <1>1
<1>3. MaxInt = w - 1
  BY DEF MaxInt
<1>4. HeapSize + 2 * Header <= w
  BY <1>1
<1> HIDE DEF w
<1>5. Word \in Nat \ {0} /\ MaxInt \in Nat /\ HeapSize + 2 * Header <= MaxInt + 1
      /\ 2 * MaxInt < Word
  BY <1>1, <1>2, <1>3, <1>4
<1>6. 0 \in Addr /\ Nil \notin Addr /\ Addr \subseteq Nat
  BY <1>1, HeapAssumption DEF Addr
<1> QED
  BY <1>1, <1>5, <1>6

\* What the kernel asks for while it boots takes less than half of the addresses.
LEMMA NeededSmall ==
  ASSUME NEW bytes \in 0..HeapSize
  PROVE  /\ needed(bytes) \in Nat /\ needed(bytes) > 0 /\ needed(bytes) <= MaxInt
         /\ needed(bytes) >= bytes + Header
<1>1. /\ Word \in Nat \ {0} /\ Header \in Nat \ {0} /\ HeapSize \in Nat /\ MaxInt \in Nat
      /\ HeapSize + 2 * Header <= MaxInt + 1 /\ 2 * MaxInt < Word
  BY Sizes
<1> DEFINE total == bytes + Header
           over == total % Header
           up == total + (IF over = 0 THEN 0 ELSE Header - over)
<1>2. /\ total \in Nat /\ total > 0 /\ total < Word /\ total + Header <= MaxInt + 1
      /\ total = bytes + Header
  BY <1>1
<1>3. over \in 0..Header - 1
  BY <1>1, <1>2
<1>4. total % Word = total
  BY <1>1, <1>2
<1>5. needed(bytes) = up % Word
  BY <1>4 DEF needed
<1> HIDE DEF total, over
<1>6. up \in Nat /\ up > 0 /\ up <= MaxInt /\ up < Word /\ up >= total
  BY <1>1, <1>2, <1>3
<1> HIDE DEF up
<1>7. up % Word = up
  BY <1>1, <1>6
<1> QED
  BY <1>2, <1>5, <1>6, <1>7

LEMMA AskedSmall ==
  ASSUME MailIInv
  PROVE  Asked \in 0..HeapSize
<1>1. /\ program \in Seq(Seq(STRING)) /\ call \in 1..Len(program) + 1
      /\ \A i \in 1..Len(program) : bufsize(program[i]) \in 0..HeapSize
      /\ PcbBytes \in 0..HeapSize
  BY MailboxAssumption, ArraysAssumption DEF MailIInv
<1>2. Len(program) \in Nat
  BY <1>1, LenProperties
<1> QED
  BY <1>1, <1>2 DEF Asked, Sending, tags

\* A segment that splits has more room than is asked for.
LEMMA SplitsRoom ==
  ASSUME NEW a, NEW s \in 0..HeapSize, segment_size[a] = s,
         NEW n \in Nat, n <= MaxInt, splits(a, n)
  PROVE  s - n > 2 * Header /\ (s - n) % Word = s - n
<1>1. /\ Word \in Nat \ {0} /\ Header \in Nat \ {0} /\ HeapSize \in Nat /\ MaxInt \in Nat
      /\ HeapSize + 2 * Header <= MaxInt + 1 /\ 2 * MaxInt < Word
  BY Sizes
<1> DEFINE d == (s - n) % Word
<1>2. d \in 0..Word - 1
  BY <1>1
<1>3. (IF d > MaxInt THEN d - Word ELSE d) > 2 * Header
  BY DEF splits, diff
<1>4. CASE n <= s
  <2>1. s - n \in Nat /\ s - n < Word
    BY <1>1, <1>4
  <2>2. d = s - n
    BY <1>1, <2>1
  <2> HIDE DEF d
  <2>3. s - n > 2 * Header
    BY <1>1, <1>2, <1>3, <2>2
  <2> QED
    BY <2>2, <2>3 DEF d
<1>5. CASE n > s
  <2>1. s - n \in Int /\ -Word <= s - n /\ s - n < 0
    BY <1>1, <1>5
  <2>2. d = s - n + Word
    BY <2>1, HeapAssumption, Kernel!BelowWord
  <2> HIDE DEF d
  <2>3. d > MaxInt
    BY <1>1, <1>5, <2>2
  <2> QED
    BY <1>1, <1>2, <1>3, <2>3
<1> QED
  BY <1>1, <1>4, <1>5

\* A segment is held or the last.
LEMMA SegmentsHeld ==
  ASSUME HeapTypeOK, NEW e \in Addr, Chain(e)
  PROVE  Segments \subseteq Held \cup {e}
<1> DEFINE C == Held \cup {e}
<1>1. C \in SUBSET Addr /\ 0 \in C /\ \A a \in C : hnext[a] # Nil => hnext[a] \in C
  <2>1. Held \subseteq Addr
    BY DEF Chain
  <2> QED
    BY <2>1 DEF Chain
<1>2. Kernel!HeapTypeOK
  BY DEF HeapTypeOK, Kernel!HeapTypeOK, Addr, Kernel!Addr
<1> HIDE DEF C
<1>3. C \in SUBSET Kernel!Addr
  BY <1>1 DEF Addr, Kernel!Addr
<1>4. Kernel!Segments \subseteq C
  BY <1>1, <1>2, <1>3, HeapAssumption, Kernel!WalkStays
<1> QED
  BY <1>4 DEF C, Segments, Kernel!Segments

\* kmalloc finds no segment but the last.
LEMMA BestIsLast ==
  ASSUME HeapTypeOK, NEW e \in Addr, Chain(e), pc = "kmalloc", NEW n, NEW b \in best(n)
  PROVE  b = e
<1>1. b \in Segments /\ ~is_allocated[b]
  BY DEF best, candidates
<1>2. Segments \subseteq Held \cup {e}
  BY SegmentsHeld
<1> QED
  BY <1>1, <1>2 DEF Held

----------------------------------------------------------------------------
(* The layout of a message. *)

LEMMA Least ==
  ASSUME NEW T \in SUBSET Nat, T # {}
  PROVE  \E x \in T : \A y \in T : ~ (y < x)
BY HeapAssumption, Kernel!LeastNat

\* There is a function with this value at 0 and each value made from the one before.
Defined(S, start, n, step) ==
  \E f \in [0..n -> S] : f[0] = start /\ \A i \in 1..n : f[i] = step[i][f[i - 1]]

\* A function that is defined by recursion exists: otherwise there would be a least argument it has to stop at.
LEMMA Recursion ==
  ASSUME NEW S, NEW start \in S, NEW n \in Nat, NEW step \in [1..n -> [S -> S]]
  PROVE  Defined(S, start, n, step)
<1> DEFINE upto(m, f) == f[0] = start /\ \A i \in 1..m : f[i] = step[i][f[i - 1]]
           Bad == {m \in 0..n : \A f \in [0..m -> S] : ~upto(m, f)}
<1>1. SUFFICES ASSUME Bad # {} PROVE FALSE
  <2>1. n \in 0..n
    OBVIOUS
  <2> QED
    BY <1>1, <2>1 DEF Defined
<1>2. PICK m \in Bad : \A k \in Bad : ~ (k < m)
  <2>1. Bad \in SUBSET Nat
    OBVIOUS
  <2> HIDE DEF Bad
  <2> QED
    BY <1>1, <2>1, Least, Zenon
<1>3. CASE m = 0
  <2> DEFINE f == [i \in 0..0 |-> start]
  <2>1. f \in [0..0 -> S] /\ upto(0, f)
    OBVIOUS
  <2> HIDE DEF f
  <2> QED
    BY <1>2, <1>3, <2>1
<1>4. CASE m # 0
  <2>1. m \in 1..n /\ m - 1 \in 0..n /\ m - 1 < m
    BY <1>2, <1>4
  <2>2. m - 1 \notin Bad
    BY <1>2, <2>1
  <2>3. PICK g \in [0..m - 1 -> S] : upto(m - 1, g)
    BY <2>1, <2>2
  <2> DEFINE f == [i \in 0..m |-> IF i = m THEN step[m][g[m - 1]] ELSE g[i]]
  <2>4. m - 1 \in 0..m - 1 /\ 0 \in 0..m - 1
    BY <2>1
  <2>5. f \in [0..m -> S]
    <3>1. step[m][g[m - 1]] \in S
      BY <2>1, <2>3, <2>4
    <3>2. \A i \in 0..m : i # m => i \in 0..m - 1
      BY <2>1
    <3> QED
      BY <2>3, <3>1, <3>2
  <2>6. f[0] = start
    BY <1>4, <2>1, <2>3
  <2>7. ASSUME NEW i \in 1..m PROVE f[i] = step[i][f[i - 1]]
    <3>1. i - 1 \in 0..m /\ i - 1 # m /\ i \in 0..m
      BY <2>1
    <3>2. f[i - 1] = g[i - 1]
      BY <3>1
    <3>3. CASE i = m
      BY <3>1, <3>2, <3>3
    <3>4. CASE i # m
      <4>1. i \in 1..m - 1
        BY <2>1, <3>4
      <4>2. f[i] = g[i]
        BY <3>1, <3>4
      <4> QED
        BY <2>3, <3>2, <4>1, <4>2
    <3> QED
      BY <3>3, <3>4
  <2>8. upto(m, f)
    BY <2>6, <2>7
  <2> HIDE DEF f
  <2> QED
    BY <1>2, <2>5, <2>8
<1> QED
  BY <1>3, <1>4

\* The sums of a sequence are what they are called, and grow.
LEMMA SumsAre ==
  ASSUME NEW s \in Seq(Nat)
  PROVE  /\ Sums(s) \in [0..Len(s) -> Nat] /\ Sums(s)[0] = 0
         /\ \A i \in 1..Len(s) : Sums(s)[i] = Sums(s)[i - 1] + s[i]
<1> DEFINE n == Len(s)
           step == [i \in 1..n |-> [x \in Nat |-> x + s[i]]]
           rec(f) == [i \in 0..n |-> IF i = 0 THEN 0 ELSE f[i - 1] + s[i]]
           sum == CHOOSE f : f = rec(f)
<1>1. n \in Nat /\ \A i \in 1..n : s[i] \in Nat
  BY LenProperties, ElementOfSeq
<1>2. PICK f \in [0..n -> Nat] : f[0] = 0 /\ \A i \in 1..n : f[i] = step[i][f[i - 1]]
  <2>1. step \in [1..n -> [Nat -> Nat]]
    BY <1>1
  <2>2. 0 \in Nat /\ n \in Nat
    BY <1>1
  <2> HIDE DEF step, n
  <2>3. Defined(Nat, 0, n, step)
    BY <2>1, <2>2, Recursion
  <2> QED
    BY <2>3 DEF Defined
<1>3. \A i \in 1..n : f[i] = f[i - 1] + s[i]
  <2> TAKE i \in 1..n
  <2>1. i - 1 \in 0..n
    BY <1>1
  <2>2. f[i - 1] \in Nat
    BY <1>2, <2>1
  <2> QED
    BY <1>2, <2>2
<1>4. f = rec(f)
  <2>1. ASSUME NEW i \in 0..n PROVE f[i] = IF i = 0 THEN 0 ELSE f[i - 1] + s[i]
    <3>1. i = 0 \/ i \in 1..n
      BY <1>1
    <3> QED
      BY <1>2, <1>3, <3>1
  <2> QED
    BY <1>2, <2>1
<1>5. sum = rec(sum)
  BY <1>4
<1>6. Sums(s) = sum
  BY DEF Sums
<1> HIDE DEF sum
<1>7. sum[0] = 0 /\ \A i \in 1..n : sum[i] = sum[i - 1] + s[i]
  <2>1. 0 \in 0..n /\ \A i \in 1..n : i \in 0..n /\ i # 0
    BY <1>1
  <2> QED
    BY <1>5, <2>1
<1>8. sum = f
  <2> DEFINE Bad == {i \in 0..n : sum[i] # f[i]}
  <2>1. ASSUME Bad # {} PROVE FALSE
    <3>1. PICK i \in Bad : \A k \in Bad : ~ (k < i)
      <4>1. Bad \in SUBSET Nat
        BY <1>1
      <4> HIDE DEF Bad
      <4> QED
        BY <2>1, <4>1, Least, Zenon
    <3>2. i \in 1..n /\ i - 1 \in 0..n /\ i - 1 < i
      BY <1>1, <1>2, <1>7, <3>1
    <3>3. sum[i - 1] = f[i - 1]
      BY <3>1, <3>2
    <3> QED
      BY <1>3, <1>7, <3>1, <3>2, <3>3
  <2>2. DOMAIN sum = 0..n /\ DOMAIN f = 0..n /\ sum = [i \in 0..n |-> sum[i]]
    BY <1>2, <1>5
  <2>3. f = [i \in 0..n |-> f[i]]
    BY <1>2
  <2> QED
    BY <2>1, <2>2, <2>3
<1> QED
  BY <1>2, <1>3, <1>6, <1>8

LEMMA SumsGrow ==
  ASSUME NEW s \in Seq(Nat), NEW i \in 0..Len(s), NEW k \in 0..Len(s), i <= k
  PROVE  Sums(s)[i] <= Sums(s)[k]
<1>1. PICK sum : sum = Sums(s)
  OBVIOUS
<1>2. /\ Len(s) \in Nat /\ \A m \in 1..Len(s) : s[m] \in Nat
      /\ sum \in [0..Len(s) -> Nat] /\ \A m \in 1..Len(s) : sum[m] = sum[m - 1] + s[m]
  BY <1>1, LenProperties, ElementOfSeq, SumsAre
<1> DEFINE Bad == {m \in i..Len(s) : ~(sum[i] <= sum[m])}
<1>3. ASSUME Bad # {} PROVE FALSE
  <2>1. PICK m \in Bad : \A l \in Bad : ~ (l < m)
    <3>1. Bad \in SUBSET Nat
      BY <1>2
    <3> HIDE DEF Bad
    <3> QED
      BY <1>3, <3>1, Least, Zenon
  <2>2. m # i
    BY <1>2, <2>1
  <2>3. m - 1 \in i..Len(s) /\ m \in 1..Len(s) /\ m - 1 < m /\ m - 1 \in 0..Len(s)
    BY <1>2, <2>1, <2>2
  <2>4. sum[i] <= sum[m - 1]
    BY <2>1, <2>3
  <2>5. sum[m] = sum[m - 1] + s[m] /\ sum[m - 1] \in Nat /\ s[m] \in Nat /\ sum[i] \in Nat
    BY <1>2, <2>3
  <2> QED
    BY <2>1, <2>4, <2>5
<1>4. k \in i..Len(s)
  BY <1>2
<1> QED
  BY <1>1, <1>3, <1>4

\* A function on 1..n is a sequence of that length.
LEMMA IsLong ==
  ASSUME NEW S, NEW n \in Nat, NEW f \in [1..n -> S]
  PROVE  f \in Seq(S) /\ Len(f) = n
<1>1. f \in Seq(S)
  BY SeqDef
<1>2. Len(f) \in Nat /\ 1..Len(f) = 1..n
  BY <1>1, LenProperties
<1> QED
  BY <1>1, <1>2

\* What the program asks for, and how it adds up.
LEMMA AsksAre ==
  ASSUME program \in Programs
  PROVE  /\ Len(program) \in Nat /\ Len(Asks) = Len(program) + 1
         /\ DOMAIN Asks = 1..Len(program) + 1
         /\ \A i \in 1..Len(program) + 1 :
              /\ Asks[i] \in Nat /\ i - 1 \in 0..Len(program) + 1
              /\ Sums(Asks)[i] = Sums(Asks)[i - 1] + Asks[i]
              /\ call = i => Asks[i] = needed(Asked)
         /\ \A i \in 0..Len(program) + 1 : Sums(Asks)[i] \in Nat
         /\ Sums(Asks)[0] = 0
         /\ \A i, k \in 0..Len(program) + 1 : i <= k => Sums(Asks)[i] <= Sums(Asks)[k]
<1>1. PICK n : n = Len(program) + 1
  OBVIOUS
<1>2. /\ Len(program) \in Nat /\ n \in Nat /\ PcbBytes \in 0..HeapSize
      /\ \A i \in 1..Len(program) : bufsize(program[i]) \in 0..HeapSize
  <2>1. program \in Seq(Seq(STRING))
    BY MailboxAssumption
  <2> QED
    BY <1>1, <2>1, LenProperties, MailboxAssumption, ArraysAssumption
<1>3. PICK s : s = Asks
  OBVIOUS
<1>4. s = [i \in 1..n |->
             needed(IF i <= Len(program) THEN bufsize(program[i]) ELSE PcbBytes)]
  BY <1>1, <1>3 DEF Asks
<1>5. \A i \in 1..n : s[i] \in Nat
  <2> TAKE i \in 1..n
  <2>1. PICK bytes \in 0..HeapSize :
          bytes = IF i <= Len(program) THEN bufsize(program[i]) ELSE PcbBytes
    BY <1>1, <1>2
  <2>2. needed(bytes) \in Nat
    BY NeededSmall
  <2> QED
    BY <1>4, <2>1, <2>2
<1>6. s \in [1..n -> Nat]
  BY <1>4, <1>5
<1>7. s \in Seq(Nat) /\ Len(s) = n /\ DOMAIN s = 1..n
  BY <1>2, <1>6, IsLong
<1>8. /\ Sums(s) \in [0..n -> Nat] /\ Sums(s)[0] = 0
      /\ \A i \in 1..n : Sums(s)[i] = Sums(s)[i - 1] + s[i]
  BY <1>7, SumsAre
<1>9. \A i, k \in 0..n : i <= k => Sums(s)[i] <= Sums(s)[k]
  BY <1>7, SumsGrow
<1>10. ASSUME NEW i \in 1..n, call = i PROVE s[i] = needed(Asked)
  BY <1>4, <1>10 DEF Asked, Sending, tags
<1>11. \A i \in 1..n : i - 1 \in 0..n
  BY <1>2
<1>12. \A i \in 0..n : Sums(s)[i] \in Nat
  BY <1>8
<1> QED
  BY <1>1, <1>2, <1>3, <1>5, <1>7, <1>8, <1>9, <1>10, <1>11, <1>12

LEMMA TagsAre ==
  ASSUME NEW array \in Seq(STRING)
  PROVE  /\ Len(array) \in Nat
         /\ \A i \in 1..Len(array) : get_value_buffer_len(array[i]) \in 0..2
         /\ \A i \in 0..Len(array) : TagsEnd(array, i) \in Nat
         /\ TagsEnd(array, 0) = 0
         /\ \A i \in 1..Len(array) :
              TagsEnd(array, i) = TagsEnd(array, i - 1) + 3 + get_value_buffer_len(array[i])
         /\ \A i, k \in 0..Len(array) : i <= k => TagsEnd(array, i) <= TagsEnd(array, k)
<1>1. PICK s : s = TagWords(array)
  OBVIOUS
<1>2. \A tag : get_value_buffer_len(tag) \in 0..2
  BY DEF get_value_buffer_len
<1>3. Len(array) \in Nat
  BY LenProperties
<1>4. s \in Seq(Nat) /\ Len(s) = Len(array)
      /\ \A i \in 1..Len(array) : s[i] = 3 + get_value_buffer_len(array[i])
  <2>1. s = [i \in 1..Len(array) |-> 3 + get_value_buffer_len(array[i])]
    BY <1>1 DEF TagWords
  <2>2. \A i \in 1..Len(array) : s[i] \in Nat
    BY <1>2, <2>1
  <2> QED
    BY <1>3, <2>1, <2>2, IsASeq
<1>5. \A i : TagsEnd(array, i) = Sums(s)[i]
  BY <1>1 DEF TagsEnd
<1>6. /\ Sums(s) \in [0..Len(s) -> Nat] /\ Sums(s)[0] = 0
      /\ \A i \in 1..Len(s) : Sums(s)[i] = Sums(s)[i - 1] + s[i]
  BY <1>4, SumsAre
<1>7. \A i, k \in 0..Len(s) : i <= k => Sums(s)[i] <= Sums(s)[k]
  BY <1>4, SumsGrow
<1>8. ASSUME NEW i \in 1..Len(array)
      PROVE  TagsEnd(array, i) = TagsEnd(array, i - 1) + 3 + get_value_buffer_len(array[i])
  <2>1. Sums(s)[i] = Sums(s)[i - 1] + s[i] /\ i - 1 \in 0..Len(s)
    BY <1>3, <1>4, <1>6
  <2>2. Sums(s)[i - 1] \in Nat /\ s[i] = 3 + get_value_buffer_len(array[i])
    BY <1>4, <1>6, <2>1
  <2>3. get_value_buffer_len(array[i]) \in Nat
    BY <1>2
  <2> QED
    BY <1>5, <2>1, <2>2, <2>3
<1>9. \A i \in 0..Len(array) : TagsEnd(array, i) \in Nat
  BY <1>4, <1>5, <1>6
<1>10. TagsEnd(array, 0) = 0
  BY <1>5, <1>6
<1>11. \A i, k \in 0..Len(array) : i <= k => TagsEnd(array, i) <= TagsEnd(array, k)
  BY <1>4, <1>5, <1>7
<1> HIDE DEF TagsEnd
<1> QED
  BY <1>2, <1>3, <1>8, <1>9, <1>10, <1>11, Zenon

\* The two parts of a sequence are where they should be.
LEMMA Joined ==
  ASSUME NEW S, NEW s \in Seq(S), NEW t \in Seq(S), NEW all, all = s \o t
  PROVE  /\ all \in Seq(S) /\ Len(all) = Len(s) + Len(t)
         /\ Len(s) \in Nat /\ Len(t) \in Nat
         /\ \A k \in 1..Len(s) : all[k] = s[k]
         /\ \A k \in 1..Len(t) : all[Len(s) + k] = t[k]
<1>1. PICK m, n : m = Len(s) /\ n = Len(t) /\ m \in Nat /\ n \in Nat
  BY LenProperties
<1>2. /\ all \in Seq(S) /\ Len(all) = m + n
      /\ \A k \in 1..m + n : all[k] = IF k <= m THEN s[k] ELSE t[k - m]
  BY <1>1, ConcatProperties
<1>3. \A k \in 1..m : all[k] = s[k]
  BY <1>1, <1>2
<1>4. ASSUME NEW k \in 1..n PROVE all[m + k] = t[k]
  <2>1. PICK x : x = m + k
    OBVIOUS
  <2>2. x \in 1..m + n /\ ~(x <= m) /\ x - m = k
    BY <1>1, <2>1
  <2>3. all[x] = t[x - m]
    BY <1>2, <2>2
  <2> QED
    BY <2>1, <2>2, <2>3
<1> QED
  BY <1>1, <1>2, <1>3, <1>4

Parts(S, s, t, u, all) ==
  /\ all \in Seq(S) /\ Len(all) = Len(s) + Len(t) + Len(u)
  /\ \A k \in 1..Len(s) : all[k] = s[k]
  /\ \A k \in 1..Len(u) : all[Len(s) + Len(t) + k] = u[k]

LEMMA JoinedTwice ==
  ASSUME NEW S, NEW s \in Seq(S), NEW t \in Seq(S), NEW u \in Seq(S)
  PROVE  Parts(S, s, t, u, s \o t \o u)
<1>0. PICK all : all = s \o t \o u
  OBVIOUS
<1>1. PICK front : front = s \o t
  OBVIOUS
<1>2. /\ front \in Seq(S) /\ Len(front) = Len(s) + Len(t)
      /\ Len(s) \in Nat /\ Len(t) \in Nat
      /\ \A k \in 1..Len(s) : front[k] = s[k]
  BY <1>1, Joined
<1>3. /\ all \in Seq(S) /\ Len(all) = Len(front) + Len(u)
      /\ \A k \in 1..Len(front) : all[k] = front[k]
      /\ \A k \in 1..Len(u) : all[Len(front) + k] = u[k]
  BY <1>0, <1>1, <1>2, Joined
<1>4. \A k \in 1..Len(s) : k \in 1..Len(front)
  BY <1>2
<1> QED
  BY <1>0, <1>2, <1>3, <1>4 DEF Parts

\* The words of a message in front of its end tag.
Plain == {"size", "REQUEST", "tag", "length", "zero", "request"}

\* The words up to the end of the i-th tag are what they should be.
Laid(array, text, i) ==
  /\ text \in Seq(Plain) /\ Len(text) = 2 + TagsEnd(array, i) /\ text[2] = "REQUEST"
  /\ \A m \in 1..i : \A j \in 1..get_value_buffer_len(array[m]) :
       text[2 + TagsEnd(array, m - 1) + 3 + j] = "request"

\* One more tag.
LEMMA TagLaid ==
  ASSUME NEW array \in Seq(STRING), NEW i \in 1..Len(array), NEW text,
         Laid(array, text, i - 1), NEW buf \in Seq(Plain),
         Len(buf) = get_value_buffer_len(array[i]), \A j \in 1..Len(buf) : buf[j] = "request"
  PROVE  Laid(array, text \o <<"tag", "length", "zero">> \o buf, i)
<1>1. PICK len, k : len = get_value_buffer_len(array[i]) /\ k = TagsEnd(array, i - 1)
  OBVIOUS
<1>2. PICK three, all : three = <<"tag", "length", "zero">> /\ all = text \o three \o buf
  OBVIOUS
<1>3. len \in 0..2 /\ k \in Nat /\ TagsEnd(array, i) = k + 3 + len
  <2>1. i - 1 \in 0..Len(array) /\ i \in 1..Len(array)
    BY LenProperties
  <2> QED
    BY <1>1, <2>1, TagsAre
<1>4. /\ text \in Seq(Plain) /\ Len(text) = 2 + k /\ text[2] = "REQUEST"
      /\ \A m \in 1..i - 1 : \A j \in 1..get_value_buffer_len(array[m]) :
           text[2 + TagsEnd(array, m - 1) + 3 + j] = "request"
  BY <1>1 DEF Laid
<1>5. three \in Seq(Plain) /\ Len(three) = 3
  BY <1>2 DEF Plain
<1>6. Len(buf) = len /\ \A j \in 1..len : buf[j] = "request"
  BY <1>1
<1>7. /\ all \in Seq(Plain) /\ Len(all) = 2 + k + 3 + len
      /\ \A m \in 1..2 + k : all[m] = text[m]
      /\ \A j \in 1..len : all[2 + k + 3 + j] = buf[j]
  <2>1. Parts(Plain, text, three, buf, text \o three \o buf)
    BY <1>4, <1>5, JoinedTwice, Zenon
  <2>2. Parts(Plain, text, three, buf, all)
    BY <1>2, <2>1
  <2> QED
    BY <1>1, <1>4, <1>5, <2>2 DEF Parts
<1>8. Len(all) = 2 + TagsEnd(array, i) /\ all[2] = "REQUEST"
  BY <1>3, <1>4, <1>7
<1>9. ASSUME NEW m \in 1..i, NEW j \in 1..get_value_buffer_len(array[m])
       PROVE  all[2 + TagsEnd(array, m - 1) + 3 + j] = "request"
  <2>1. CASE m = i
    BY <1>1, <1>6, <1>7, <2>1
  <2>2. CASE m # i
    <3>1. m \in 1..i - 1 /\ m \in 1..Len(array) /\ m - 1 \in 0..Len(array) /\ m \in 0..Len(array)
          /\ i - 1 \in 0..Len(array) /\ m <= i - 1
      BY <2>2, LenProperties
    <3>2. PICK x, y : x = TagsEnd(array, m - 1) /\ y = get_value_buffer_len(array[m])
      OBVIOUS
    <3>3. TagsEnd(array, m) = x + 3 + y /\ x \in Nat /\ y \in 0..2 /\ TagsEnd(array, m) <= k
      BY <1>1, <3>1, <3>2, TagsAre
    <3>4. 2 + x + 3 + j \in 1..2 + k
      <4>1. j \in 1..y /\ x + 3 + y \in Nat /\ x + 3 + y <= k
        BY <3>2, <3>3
      <4> QED
        BY <1>3, <3>3, <4>1
    <3>5. text[2 + x + 3 + j] = "request"
      BY <1>4, <3>1, <3>2
    <3> QED
      BY <1>7, <3>2, <3>4, <3>5
  <2> QED
    BY <2>1, <2>2
<1>10. Laid(array, all, i)
  BY <1>7, <1>8, <1>9 DEF Laid
<1> QED
  BY <1>2, <1>10

\* The message for an array of tags: the request code, the values and the end tag
\* are where send_messages and the GPU look for them.
LEMMA MessageIs ==
  ASSUME NEW array \in Seq(STRING), NEW text, text = Message(Requested(array)),
         NEW n, n = TagsEnd(array, Len(array))
  PROVE  /\ n \in Nat /\ text \in Seq(Words) /\ Len(text) = n + 3
         /\ text[2] = "REQUEST" /\ text[n + 3] = "end"
         /\ \A k \in 1..n + 2 : text[k] # "end"
         /\ \A i \in 1..Len(array) : \A j \in 1..get_value_buffer_len(array[i]) :
              /\ 2 + TagsEnd(array, i - 1) + 3 + j \in 3..n + 2
              /\ text[2 + TagsEnd(array, i - 1) + 3 + j] = "request"
<1>1. PICK bufs, len : bufs = Requested(array) /\ len = Len(array)
  OBVIOUS
<1>2. /\ len \in Nat /\ Len(bufs) = len
      /\ \A i \in 1..len : bufs[i] = [j \in 1..get_value_buffer_len(array[i]) |-> "request"]
  BY <1>1, LenProperties DEF Requested
<1> DEFINE more == <<"tag", "length", "zero">>
           step == [i \in 1..len |-> [t \in Seq(Plain) |-> t \o more \o bufs[i]]]
           rec(f) == [i \in 0..len |-> IF i = 0 THEN <<"size", "REQUEST">>
                                       ELSE f[i - 1] \o more \o bufs[i]]
           upto == CHOOSE f : f = rec(f)
<1>3. /\ more \in Seq(Plain) /\ <<"size", "REQUEST">> \in Seq(Plain)
      /\ \A i \in 1..len : /\ bufs[i] \in Seq(Plain)
                           /\ Len(bufs[i]) = get_value_buffer_len(array[i])
                           /\ \A j \in 1..Len(bufs[i]) : bufs[i][j] = "request"
  <2>1. ASSUME NEW i \in 1..len
        PROVE  /\ bufs[i] \in Seq(Plain) /\ Len(bufs[i]) = get_value_buffer_len(array[i])
               /\ \A j \in 1..Len(bufs[i]) : bufs[i][j] = "request"
    <3>1. PICK k : k = get_value_buffer_len(array[i]) /\ k \in Nat
      BY <1>1, TagsAre
    <3>2. bufs[i] = [j \in 1..k |-> "request"]
      BY <1>2, <3>1
    <3>3. bufs[i] \in [1..k -> Plain]
      BY <3>2 DEF Plain
    <3>4. bufs[i] \in Seq(Plain) /\ Len(bufs[i]) = k
      BY <3>1, <3>3, IsLong
    <3>5. \A j \in 1..Len(bufs[i]) : bufs[i][j] = "request"
      BY <3>2, <3>4
    <3> QED
      BY <3>1, <3>4, <3>5
  <2> QED
    BY <2>1 DEF Plain
<1> HIDE DEF more
<1>4. \E f : f = rec(f)
  <2>1. step \in [1..len -> [Seq(Plain) -> Seq(Plain)]]
    BY <1>3, ConcatProperties
  <2>2. Defined(Seq(Plain), <<"size", "REQUEST">>, len, step)
    <3> HIDE DEF step
    <3> QED
      BY <1>2, <1>3, <2>1, Recursion
  <2>3. PICK f \in [0..len -> Seq(Plain)] :
          f[0] = <<"size", "REQUEST">> /\ \A i \in 1..len : f[i] = step[i][f[i - 1]]
    BY <2>2 DEF Defined
  <2>4. \A i \in 1..len : f[i] = f[i - 1] \o more \o bufs[i]
    <3> TAKE i \in 1..len
    <3>1. i - 1 \in 0..len
      BY <1>2
    <3>2. f[i - 1] \in Seq(Plain)
      BY <2>3, <3>1
    <3> QED
      BY <2>3, <3>2
  <2>5. f = rec(f)
    <3>1. ASSUME NEW i \in 0..len
          PROVE  f[i] = IF i = 0 THEN <<"size", "REQUEST">> ELSE f[i - 1] \o more \o bufs[i]
      <4>1. i = 0 \/ i \in 1..len
        BY <1>2
      <4> QED
        BY <2>3, <2>4, <4>1
    <3> QED
      BY <2>3, <3>1
  <2> QED
    BY <2>5
<1>5. upto = rec(upto)
  BY <1>4
<1>6. text = Append(upto[len], "end")
  <2>1. text = Message(bufs) /\ Len(bufs) = len
    BY <1>1, <1>2
  <2> QED
    BY <2>1 DEF Message, more
<1> HIDE DEF upto
<1>7. upto[0] = <<"size", "REQUEST">> /\ \A i \in 1..len : upto[i] = upto[i - 1] \o more \o bufs[i]
  <2>1. 0 \in 0..len /\ \A i \in 1..len : i \in 0..len /\ i # 0
    BY <1>2
  <2> QED
    BY <1>5, <2>1
<1>8. Laid(array, upto[0], 0)
  <2>1. TagsEnd(array, 0) = 0
    BY TagsAre
  <2> QED
    BY <1>3, <1>7, <2>1 DEF Laid
<1>9. \A i \in 1..len : Laid(array, upto[i - 1], i - 1) => Laid(array, upto[i], i)
  <2> SUFFICES ASSUME NEW i \in 1..len, Laid(array, upto[i - 1], i - 1)
               PROVE  Laid(array, upto[i], i)
    OBVIOUS
  <2>1. PICK text1, buf : text1 = upto[i - 1] /\ buf = bufs[i]
    OBVIOUS
  <2>2. Laid(array, text1 \o <<"tag", "length", "zero">> \o buf, i)
    <3>1. /\ buf \in Seq(Plain) /\ Len(buf) = get_value_buffer_len(array[i])
          /\ \A j \in 1..Len(buf) : buf[j] = "request"
      BY <1>3, <2>1
    <3> QED
      BY <1>1, <2>1, <3>1, TagLaid
  <2> QED
    BY <1>7, <2>1, <2>2 DEF more
<1>10. Laid(array, upto[len], len)
  <2>1. PICK laid : laid = {i \in 0..len : Laid(array, upto[i], i)}
    OBVIOUS
  <2> DEFINE Bad == {i \in 0..len : i \notin laid}
  <2>2. ASSUME Bad # {} PROVE FALSE
    <3>1. PICK i \in Bad : \A k \in Bad : ~ (k < i)
      <4>1. Bad \in SUBSET Nat
        BY <1>2
      <4> HIDE DEF Bad
      <4> QED
        BY <2>2, <4>1, Least, Zenon
    <3>2. i # 0
      BY <1>2, <1>8, <2>1, <3>1
    <3>3. i \in 1..len /\ i - 1 \in 0..len /\ i - 1 < i
      BY <1>2, <3>1, <3>2
    <3>4. i - 1 \in laid
      BY <3>1, <3>3
    <3> QED
      BY <1>9, <2>1, <3>1, <3>3, <3>4
  <2>3. len \in 0..len
    BY <1>2
  <2> QED
    BY <2>1, <2>2, <2>3
<1>11. PICK front : front = upto[len]
  OBVIOUS
<1>12. /\ front \in Seq(Plain) /\ Len(front) = n + 2 /\ front[2] = "REQUEST" /\ n \in Nat
       /\ \A m \in 1..len : \A j \in 1..get_value_buffer_len(array[m]) :
            front[2 + TagsEnd(array, m - 1) + 3 + j] = "request"
  <2>1. n \in Nat
    BY <1>1, <1>2, TagsAre
  <2> QED
    BY <1>1, <1>10, <1>11, <2>1 DEF Laid
<1>13. Plain \subseteq Words /\ "end" \in Words /\ "end" \notin Plain
  BY DEF Plain, Words, Codes
<1>14. /\ text \in Seq(Words) /\ Len(text) = n + 3 /\ text[n + 3] = "end"
       /\ \A k \in 1..n + 2 : text[k] = front[k]
  <2>1. front \in Seq(Words)
    BY <1>12, <1>13, SeqMonotonic
  <2> QED
    BY <1>6, <1>11, <1>12, <1>13, <2>1, AppendProperties
<1>15. \A k \in 1..n + 2 : text[k] # "end"
  <2>1. \A k \in 1..n + 2 : front[k] \in Plain
    BY <1>12, ElementOfSeq
  <2> QED
    BY <1>13, <1>14, <2>1
<1>16. ASSUME NEW i \in 1..Len(array), NEW j \in 1..get_value_buffer_len(array[i])
       PROVE  2 + TagsEnd(array, i - 1) + 3 + j \in 3..n + 2
  <2>1. i - 1 \in 0..Len(array) /\ i \in 0..Len(array) /\ Len(array) \in 0..Len(array)
        /\ i <= Len(array)
    BY <1>1, <1>2
  <2>2. /\ TagsEnd(array, i) = TagsEnd(array, i - 1) + 3 + get_value_buffer_len(array[i])
        /\ TagsEnd(array, i - 1) \in Nat /\ get_value_buffer_len(array[i]) \in 0..2
        /\ TagsEnd(array, i) \in Nat /\ TagsEnd(array, i) <= n
    BY <2>1, TagsAre
  <2>3. n \in Nat
    BY <1>12
  <2>4. j \in Nat /\ 1 <= j /\ j <= get_value_buffer_len(array[i])
    BY <2>2
  <2>5. 2 + TagsEnd(array, i - 1) + 3 + j \in Nat
    BY <2>2, <2>4
  <2> QED
    BY <2>2, <2>3, <2>4, <2>5
<1>17. text[2] = "REQUEST"
  BY <1>12, <1>14
<1> QED
  BY <1>1, <1>12, <1>14, <1>15, <1>16, <1>17

----------------------------------------------------------------------------
LEMMA InitMail == Init => MailIInv
<1> SUFFICES ASSUME Init PROVE MailIInv
  OBVIOUS
<1>1. /\ Word \in Nat \ {0} /\ HeapSize \in Nat /\ HeapSize < Word /\ 0 \in Addr
  BY Sizes
<1>2. /\ hnext = [a \in Addr |-> Nil] /\ hprev = [a \in Addr |-> Nil]
      /\ is_allocated = [a \in Addr |-> FALSE]
      /\ segment_size = [a \in Addr |-> IF a = 0 THEN HeapSize ELSE 0]
      /\ program \in Programs /\ call = 1 /\ pc = "kmalloc"
  BY DEF Init, heap_init
<1>3. HeapTypeOK
  BY <1>1, <1>2 DEF HeapTypeOK
<1>4. Held = {}
  BY <1>2 DEF Held
<1>5. Chain(0) /\ InHand(0)
  BY <1>1, <1>2, <1>4 DEF Chain, InHand
<1>6. Room(0)
  BY <1>1, <1>2, AsksAre DEF Room, Cut
<1>7. call \in 1..Len(program) + 1
  BY <1>2, AsksAre
<1> QED
  BY <1>1, <1>2, <1>3, <1>5, <1>6, <1>7 DEF MailIInv

LEMMA SameAsks ==
  ASSUME program' = program
  PROVE  Asks' = Asks /\ (HasRoom' <=> HasRoom)
<1>1. Asks' = Asks
  BY DEF Asks, needed
<1> QED
  BY <1>1 DEF HasRoom

\* A step that cuts nothing.
LEMMA LaterRoom ==
  ASSUME program' = program, program \in Programs, pc' # "mark", Cut <= Cut',
         Cut \in 0..Len(program) + 1, Cut' \in 0..Len(program) + 1
  PROVE  \A e \in Addr : Room(e) => Room(e)'
<1> SUFFICES ASSUME NEW e \in Addr, Room(e), HasRoom PROVE e <= Sums(Asks)[Cut']
  BY SameAsks DEF Room
<1>1. PICK i, k : i = Cut /\ k = Cut'
  OBVIOUS
<1>2. /\ Sums(Asks)[i] \in Nat /\ Sums(Asks)[k] \in Nat
      /\ Sums(Asks)[i] <= Sums(Asks)[k]
  BY <1>1, AsksAre
<1>3. e <= Sums(Asks)[i] /\ e \in Nat
  BY <1>1, Sizes DEF Room, Addr
<1> QED
  BY <1>1, <1>2, <1>3

LEMMA SameRoom ==
  ASSUME UNCHANGED <<program, seg>>, Cut' = Cut, pc' = "mark" => pc = "mark"
  PROVE  \A e \in Addr : Room(e) => Room(e)'
BY SameAsks DEF Room

\* A step that leaves the chain alone.
LEMMA SameChain ==
  ASSUME MailIInv, UNCHANGED <<hnext, hprev, segment_size, seg, program>>,
         is_allocated' = is_allocated, call' \in 1..Len(program) + 1,
         \A e \in Addr : Room(e) => Room(e)',
         pc' \in {"compose", "send", "check", "returned"} => Sending',
         pc # "wild", pc' = "mark" <=> pc = "mark",
         pc' = "split" => pc = "split" /\ call' = call,
         pc' \in {"compose", "send", "check"}
           => pc \in {"compose", "send", "check"} /\ msg' = msg
  PROVE  MailIInv'
<1>1. PICK e \in Addr : Chain(e) /\ InHand(e) /\ Room(e)
  BY DEF MailIInv
<1>2. Held' = Held
  BY DEF Held
<1>3. Chain(e)'
  BY <1>1, <1>2 DEF Chain
<1>4. pc' = "split" => Asked' = Asked
  BY DEF Asked, Sending, tags
<1>5. InHand(e)'
  BY <1>1, <1>4 DEF InHand, needed
<1>6. HeapTypeOK' /\ program' \in Programs /\ (pc' \in {"split", "mark"} => seg' \in Addr)
  BY DEF MailIInv, HeapTypeOK
<1>7. Room(e)' /\ call' \in 1..Len(program') + 1
  BY <1>1
<1> QED
  BY <1>3, <1>5, <1>6, <1>7 DEF MailIInv

\* A step after which nothing is modelled.
LEMMA GoesWild ==
  ASSUME MailIInv, HeapTypeOK', UNCHANGED <<program, call>>, pc' = "wild"
  PROVE  MailIInv'
BY DEF MailIInv

\* Where there is room for all requests there is room for the next, and it splits.
LEMMA RoomLeft ==
  ASSUME MailIInv, HasRoom, NEW e \in Addr, Room(e), pc = "kmalloc"
  PROVE  HeapSize - e \in 0..HeapSize /\ HeapSize - e - needed(Asked) > 2 * Header
<1>1. PICK n : n = needed(Asked)
  OBVIOUS
<1>2. program \in Programs /\ call \in 1..Len(program) + 1 /\ e <= Sums(Asks)[call - 1]
  BY DEF MailIInv, Room, Cut
<1>3. /\ Sums(Asks)[call] = Sums(Asks)[call - 1] + n /\ n \in Nat
      /\ Sums(Asks)[call - 1] \in Nat /\ call \in DOMAIN Asks
  BY <1>1, <1>2, AsksAre
<1>4. HeapSize - Sums(Asks)[call] > 2 * Header
  BY <1>3 DEF HasRoom
<1>5. HeapSize \in Nat /\ Header \in Nat /\ e \in Nat /\ e < HeapSize
  BY Sizes DEF Addr
<1> QED
  BY <1>1, <1>2, <1>3, <1>4, <1>5

LEMMA RoomDiff ==
  ASSUME NEW e, NEW s \in 0..HeapSize, segment_size[e] = s,
         NEW n \in Nat, s - n > 2 * Header
  PROVE  diff(e, n) = s - n /\ diff(e, n) < MaxInt
<1>1. /\ Word \in Nat \ {0} /\ Header \in Nat \ {0} /\ HeapSize \in Nat /\ MaxInt \in Nat
      /\ HeapSize + 2 * Header <= MaxInt + 1 /\ 2 * MaxInt < Word
  BY Sizes
<1>2. s - n \in Nat /\ s - n < Word /\ s - n < MaxInt
  BY <1>1
<1>3. (s - n) % Word = s - n
  BY <1>1, <1>2
<1> QED
  BY <1>1, <1>2, <1>3 DEF diff

LEMMA RoomSplits ==
  ASSUME NEW e, NEW s \in 0..HeapSize, segment_size[e] = s,
         NEW n \in Nat, s - n > 2 * Header
  PROVE  splits(e, n)
BY RoomDiff DEF splits

LEMMA ScanStep ==
  ASSUME MailIInv, KmallocScan
  PROVE  MailIInv'
<1> DEFINE n == needed(Asked)
<1>1. PICK b \in best(n) : seg' = b /\ pc' = IF splits(b, n) THEN "split" ELSE "mark"
  BY DEF KmallocScan
<1>2. /\ pc = "kmalloc"
      /\ UNCHANGED <<hnext, hprev, is_allocated, segment_size, program, call, msg>>
  BY DEF KmallocScan, heapVars
<1>3. PICK e \in Addr : Chain(e) /\ InHand(e) /\ Room(e)
  BY <1>2 DEF MailIInv
<1>4. b = e
  BY <1>2, <1>3, BestIsLast DEF MailIInv
<1>5. n \in Nat /\ n <= MaxInt
  BY AskedSmall, NeededSmall
<1> HIDE DEF n
<1>6. splits(e, n) => HeapSize - e - n > 2 * Header
  <2>1. HeapSize - e \in 0..HeapSize /\ segment_size[e] = HeapSize - e
    BY <1>3, Sizes DEF Chain, Addr
  <2> QED
    BY <1>5, <2>1, SplitsRoom
<1>7. Held' = Held
  <2>1. hnext[e] = Nil
    BY <1>3 DEF Chain
  <2> QED
    BY <1>1, <1>2, <1>4, <2>1 DEF Held
<1>8. Chain(e)'
  BY <1>2, <1>3, <1>7 DEF Chain
<1>9. needed(Asked)' = n
  BY <1>2 DEF n, Asked, Sending, tags, needed
<1>10. InHand(e)'
  BY <1>1, <1>4, <1>6, <1>9 DEF InHand
<1>11. HeapTypeOK'
  BY <1>2 DEF MailIInv, HeapTypeOK
<1>12. Room(e)'
  <2> SUFFICES ASSUME HasRoom PROVE e <= Sums(Asks)[Cut'] /\ pc' = "split"
    BY <1>2, SameAsks DEF Room
  <2>1. /\ HeapSize - e - n > 2 * Header /\ HeapSize - e \in 0..HeapSize
        /\ segment_size[e] = HeapSize - e
    BY <1>2, <1>3, <1>9, RoomLeft DEF n, Chain
  <2>2. splits(e, n)
    BY <1>5, <2>1, RoomSplits
  <2>3. pc' = "split" /\ Cut' = Cut
    BY <1>1, <1>2, <1>4, <2>2 DEF Cut
  <2> QED
    BY <1>3, <2>3 DEF Room
<1>13. pc' \in {"split", "mark"}
  BY <1>1
<1> QED
  BY <1>1, <1>2, <1>4, <1>8, <1>10, <1>11, <1>12, <1>13 DEF MailIInv

\* The last segment is cut in two, and its rest is the last.
LEMMA SplitStep ==
  ASSUME MailIInv, KmallocSplit
  PROVE  MailIInv'
<1>0. PICK n, rest, left :
        n = needed(Asked) /\ rest = seg + n /\ left = (segment_size[seg] - n) % Word
  OBVIOUS
<1>1. /\ hnext' = [hnext EXCEPT ![seg] = rest, ![rest] = hnext[seg]]
      /\ hprev' = [hprev EXCEPT ![rest] = seg]
      /\ is_allocated' = [is_allocated EXCEPT ![rest] = FALSE]
      /\ segment_size' = [segment_size EXCEPT ![seg] = n, ![rest] = left]
      /\ pc = "split" /\ pc' = "mark" /\ UNCHANGED <<program, call, seg>>
  BY <1>0 DEF KmallocSplit, split
<1>2. PICK e \in Addr : Chain(e) /\ InHand(e) /\ Room(e)
  BY <1>1 DEF MailIInv
<1>3. seg = e /\ HeapSize - e - n > 2 * Header
  BY <1>0, <1>1, <1>2 DEF InHand
<1>4. n \in Nat /\ n > 0 /\ n <= MaxInt
  BY <1>0, AskedSmall, NeededSmall
<1>5. /\ e \in Nat /\ rest \in Addr /\ rest > e /\ Nil \notin Addr
      /\ HeapSize - rest \in 0..Word - 1 /\ HeapSize - rest = HeapSize - e - n
      /\ n \in 0..Word - 1
  BY <1>0, <1>3, <1>4, Sizes DEF Addr
<1>6. left = HeapSize - rest
  <2>1. segment_size[seg] = HeapSize - e
    BY <1>2, <1>3 DEF Chain
  <2>2. HeapSize - e - n \in Nat /\ HeapSize - e - n < Word /\ Word \in Nat \ {0}
    BY <1>3, <1>4, <1>5, Sizes
  <2>3. (HeapSize - e - n) % Word = HeapSize - e - n
    BY <2>2
  <2> QED
    BY <1>0, <1>3, <1>5, <2>1, <2>3
<1>7. /\ hnext \in [Addr -> Addr \cup {Nil}] /\ hprev \in [Addr -> Addr \cup {Nil}]
      /\ is_allocated \in [Addr -> BOOLEAN] /\ segment_size \in [Addr -> 0..Word - 1]
  BY DEF MailIInv, HeapTypeOK
<1>8. HeapTypeOK'
  BY <1>1, <1>2, <1>3, <1>5, <1>6, <1>7 DEF HeapTypeOK
<1>9. /\ hnext'[e] = rest /\ hnext'[rest] = Nil /\ hprev'[rest] = e
      /\ segment_size'[rest] = HeapSize - rest
      /\ \A a \in Addr \ {e, rest} : hnext'[a] = hnext[a]
  <2>1. hnext[e] = Nil
    BY <1>2 DEF Chain
  <2> QED
    BY <1>1, <1>3, <1>5, <1>6, <1>7, <2>1
<1>10. Held' = Held \cup {e}
  <2>1. Held = {a \in Addr : is_allocated[a]}
    BY <1>1 DEF Held
  <2>2. rest \notin Held
    BY <1>2, <1>5 DEF Chain
  <2>3. \A a \in Addr : is_allocated'[a] <=> is_allocated[a]
    BY <1>1, <1>5, <1>7, <2>1, <2>2
  <2>4. Held' = {a \in Addr : is_allocated'[a]} \cup {e}
    BY <1>1, <1>3, <1>5, <1>9 DEF Held
  <2> QED
    BY <2>1, <2>3, <2>4
<1>11. \A a \in Held : a \in Addr /\ a < e /\ hnext[a] \in Held \cup {e} /\ a < hnext[a]
  BY <1>1, <1>2 DEF Chain, Held
<1>12. Chain(rest)'
  <2>1. rest \notin Held' /\ 0 \in Held' \cup {rest} /\ hprev'[rest] \in Held' \cup {Nil}
    BY <1>2, <1>5, <1>9, <1>10, <1>11, Sizes DEF Chain
  <2>2. ASSUME NEW a \in Held'
        PROVE  a < rest /\ hnext'[a] \in Held' \cup {rest} /\ a < hnext'[a]
    <3>1. CASE a = e
      BY <1>5, <1>9, <3>1
    <3>2. CASE a \in Held
      <4>1. a \in Addr \ {e, rest} /\ a < rest
        <5>1. a \in Addr /\ a \in Nat /\ a < e
          BY <1>11, <3>2, Sizes
        <5> QED
          BY <1>5, <5>1
      <4> QED
        BY <1>9, <1>10, <1>11, <3>2, <4>1
    <3> QED
      BY <1>10, <3>1, <3>2
  <2>3. rest \in Addr /\ hnext'[rest] = Nil /\ segment_size'[rest] = HeapSize - rest
    BY <1>5, <1>9
  <2>4. Held' \subseteq Addr
    BY <1>2, <1>10 DEF Chain
  <2> QED
    BY <2>1, <2>2, <2>3, <2>4 DEF Chain
<1>13. InHand(rest)'
  BY <1>1, <1>3, <1>9 DEF InHand
<1>14. program' \in Programs /\ call' \in 1..Len(program') + 1 /\ seg' \in Addr
  BY <1>1, <1>2, <1>3 DEF MailIInv
<1>15. Room(rest)'
  <2> SUFFICES ASSUME HasRoom PROVE rest <= Sums(Asks)[call] /\ e # rest
    BY <1>1, <1>3, SameAsks DEF Room, Cut
  <2>1. e <= Sums(Asks)[call - 1]
    BY <1>1, <1>2 DEF Room, Cut
  <2>2. /\ Sums(Asks)[call] = Sums(Asks)[call - 1] + Asks[call] /\ Asks[call] = n
        /\ Sums(Asks)[call - 1] \in Nat
    BY <1>0, AsksAre DEF MailIInv
  <2> QED
    BY <1>0, <1>3, <1>4, <1>5, <2>1, <2>2
<1> QED
  BY <1>1, <1>5, <1>8, <1>12, <1>13, <1>14, <1>15 DEF MailIInv

\* What was in hand is marked, and the space behind the next header is given out.
LEMMA ReturnStep ==
  ASSUME MailIInv, KmallocReturn
  PROVE  MailIInv'
<1>0. PICK p : p = hnext[seg]
  OBVIOUS
<1>1. /\ pc = "mark" /\ is_allocated' = [is_allocated EXCEPT ![seg] = TRUE]
      /\ Sending => msg' = p
      /\ pc' = CASE p = Nil -> "wild" [] p # Nil /\ Sending -> "compose" [] OTHER -> "up"
      /\ UNCHANGED <<hnext, hprev, segment_size, program, call, seg>>
  BY <1>0 DEF KmallocReturn, mark, kmalloc_result
<1>2. seg \in Addr /\ HeapTypeOK /\ HeapTypeOK'
  BY <1>1 DEF MailIInv, HeapTypeOK
<1>3. CASE p = Nil
  BY <1>1, <1>2, <1>3, GoesWild
<1>4. CASE p # Nil
  <2>1. PICK e \in Addr : Chain(e) /\ InHand(e) /\ Room(e)
    BY <1>1 DEF MailIInv
  <2>2. p = e /\ seg \in Held /\ seg # e
    BY <1>0, <1>1, <1>4, <2>1 DEF Chain, InHand, Held
  <2>3. pc' \in {"compose", "up"} /\ (pc' = "compose" => msg' = e)
    BY <1>1, <1>4, <2>2
  <2>4. Held' = Held
    <3>1. Held = {a \in Addr : is_allocated[a]} \cup {seg}
      BY <1>0, <1>1, <1>4 DEF Held
    <3>2. Held' = {a \in Addr : is_allocated'[a]}
      BY <2>3 DEF Held
    <3>3. \A a \in Addr : is_allocated'[a] <=> (is_allocated[a] \/ a = seg)
      BY <1>1, <1>2 DEF HeapTypeOK
    <3> QED
      BY <1>2, <3>1, <3>2, <3>3
  <2>5. Chain(e)'
    BY <1>1, <2>1, <2>4 DEF Chain
  <2>6. InHand(e)'
    BY <2>3 DEF InHand
  <2>7. Room(e)'
    <3>1. Cut' = Cut
      BY <1>1, <2>3 DEF Cut
    <3> QED
      BY <1>1, <2>1, <2>3, <3>1, SameRoom
  <2>8. pc' = "compose" => Sending'
    BY <1>1, <1>4 DEF Sending
  <2>9. program' \in Programs /\ call' \in 1..Len(program') + 1
    BY <1>1 DEF MailIInv
  <2> QED
    BY <1>2, <2>3, <2>5, <2>6, <2>7, <2>8, <2>9 DEF MailIInv
<1> QED
  BY <1>3, <1>4

\* kfree marks a header free that is free already.
LEMMA FreeStep ==
  ASSUME MailIInv, NEW res, pc = "check", Return(res)
  PROVE  MailIInv'
<1>1. /\ is_allocated' = [is_allocated EXCEPT ![msg] = FALSE] /\ pc' = "returned"
      /\ UNCHANGED <<hnext, hprev, segment_size, program, call, seg>>
  BY DEF Return, release
<1>2. PICK e \in Addr : Chain(e) /\ InHand(e)
  BY DEF MailIInv
<1>3. msg = e /\ is_allocated \in [Addr -> BOOLEAN]
  BY <1>2 DEF InHand, MailIInv, HeapTypeOK
<1>4. is_allocated[e] = FALSE
  BY <1>2, <1>3 DEF Chain, Held
<1>5. is_allocated' = is_allocated
  BY <1>1, <1>3, <1>4
<1>6. call' \in 1..Len(program) + 1 /\ Sending'
  BY <1>1 DEF MailIInv, Sending
<1>7. \A a \in Addr : Room(a) => Room(a)'
  BY <1>1, SameRoom DEF Cut
<1> QED
  BY <1>1, <1>5, <1>6, <1>7, SameChain

LEMMA CpuStep ==
  ASSUME MailIInv, Cpu
  PROVE  MailIInv'
<1>0. /\ HeapTypeOK /\ program \in Programs /\ call \in 1..Len(program) + 1
      /\ pc \in {"compose", "send", "check", "returned"} => Sending
  BY DEF MailIInv
<1>1. CASE KmallocScan
  BY <1>1, ScanStep
<1>2. CASE KmallocSplit
  BY <1>2, SplitStep
<1>3. CASE KmallocReturn
  BY <1>3, ReturnStep
<1>4. CASE KmallocFails
  <2>1. /\ pc = "kmalloc" /\ pc' \in {"returned", "wild"}
        /\ pc' = "returned" => Sending
        /\ UNCHANGED <<hnext, hprev, is_allocated, segment_size, program, call, seg, msg>>
    BY <1>4 DEF KmallocFails, heapVars
  <2>2. \A e \in Addr : Room(e) => Room(e)'
    <3>1. Cut = call - 1 /\ Cut' = call /\ Len(program) \in Nat
      BY <1>0, <2>1, AsksAre DEF Cut
    <3> QED
      BY <1>0, <2>1, <3>1, LaterRoom
  <2>3. Sending' <=> Sending
    BY <2>1 DEF Sending
  <2> QED
    BY <1>0, <2>1, <2>2, <2>3, SameChain
<1>5. CASE Compose
  <2>1. /\ pc = "compose" /\ pc' \in {"send", "wild"}
        /\ UNCHANGED <<hnext, hprev, is_allocated, segment_size, program, call, seg, msg>>
    BY <1>5 DEF Compose, heapVars
  <2>2. Sending' <=> Sending
    BY <2>1 DEF Sending
  <2>3. \A e \in Addr : Room(e) => Room(e)'
    BY <2>1, SameRoom DEF Cut
  <2> QED
    BY <1>0, <2>1, <2>2, <2>3, SameChain
<1>6. CASE MailboxSend
  <2>1. /\ pc = "send" /\ pc' = "check"
        /\ UNCHANGED <<hnext, hprev, is_allocated, segment_size, program, call, seg, msg>>
    BY <1>6 DEF MailboxSend, heapVars
  <2>2. Sending' <=> Sending
    BY <2>1 DEF Sending
  <2>3. \A e \in Addr : Room(e) => Room(e)'
    BY <2>1, SameRoom DEF Cut
  <2> QED
    BY <1>0, <2>1, <2>2, <2>3, SameChain
<1>7. CASE NoAnswer \/ ErrorAnswer \/ CopyBack
  <2>1. PICK res \in {0, 1, 2} : pc = "check" /\ Return(res)
    BY <1>7 DEF NoAnswer, ErrorAnswer, CopyBack, Looks
  <2> QED
    BY <2>1, FreeStep
<1>8. CASE GpuInit
  <2>1. /\ pc = "returned" /\ pc' = "kmalloc"
        /\ call' = IF result = 0 THEN call + 1 ELSE Len(program) + 1
        /\ UNCHANGED <<hnext, hprev, is_allocated, segment_size, program, seg, msg>>
    BY <1>8 DEF GpuInit, heapVars
  <2>2. Len(program) \in Nat /\ call \in 1..Len(program)
    BY <1>0, <2>1, AsksAre DEF Sending
  <2>3. call' \in 1..Len(program) + 1 /\ call <= call' - 1 /\ call' - 1 \in 0..Len(program) + 1
    BY <2>1, <2>2
  <2>4. \A e \in Addr : Room(e) => Room(e)'
    <3>1. Cut = call /\ Cut' = call' - 1
      BY <2>1 DEF Cut
    <3> QED
      BY <1>0, <2>1, <2>2, <2>3, <3>1, LaterRoom
  <2> QED
    BY <2>1, <2>3, <2>4, SameChain
<1> QED
  BY <1>1, <1>2, <1>3, <1>4, <1>5, <1>6, <1>7, <1>8 DEF Cpu

\* The GPU does not touch the headers.
LEMMA GpuStep ==
  ASSUME MailIInv, Gpu \/ UNCHANGED vars
  PROVE  MailIInv'
<1>1. /\ pc' \in {pc, "wild"}
      /\ UNCHANGED <<hnext, hprev, is_allocated, segment_size, program, call, seg, msg>>
  BY DEF Gpu, GpuDrains, GpuFills, GpuAnswers, heapVars, cpuVars, vars
<1>2. HeapTypeOK' /\ call \in 1..Len(program) + 1
  BY <1>1 DEF MailIInv, HeapTypeOK
<1>3. CASE pc' = "wild"
  BY <1>1, <1>2, <1>3, GoesWild
<1>4. CASE pc' # "wild"
  <2>1. pc' = pc /\ pc # "wild"
    BY <1>1, <1>4
  <2>2. \A e \in Addr : Room(e) => Room(e)'
    BY <1>1, <2>1, SameRoom DEF Cut
  <2>3. pc' \in {"compose", "send", "check", "returned"} => Sending'
    BY <1>1, <2>1 DEF MailIInv, Sending
  <2> QED
    BY <1>1, <1>2, <2>1, <2>2, <2>3, SameChain
<1> QED
  BY <1>3, <1>4

----------------------------------------------------------------------------
(* The message has a place. *)

\* The walk along the chain gets to the last segment: with every step it is one segment on.
LEMMA LastReached ==
  ASSUME HeapTypeOK, NEW e \in Addr, Chain(e)
  PROVE  e \in Segments
<1>1. /\ HeapSize \in Nat /\ 0 \in Held \cup {e} /\ Nil \notin Addr /\ Addr \subseteq Nat
      /\ \A a \in Held : a \in Addr /\ hnext[a] \in Held \cup {e} /\ a < hnext[a]
      /\ \A a \in Addr : a < HeapSize
  BY Sizes DEF Chain, Addr
<1>2. PICK r : /\ Segments = r[HeapSize] /\ r[0] = {0}
               /\ \A i \in Nat \ {0} : r[i] = UNION {{a} \cup ({hnext[a]} \ {Nil}) : a \in r[i - 1]}
  <2>1. Kernel!HeapTypeOK
    BY DEF HeapTypeOK, Kernel!HeapTypeOK, Addr, Kernel!Addr
  <2>2. PICK r : /\ Kernel!Segments = r[HeapSize] /\ r[0] = {0}
                 /\ \A i \in Nat \ {0} : r[i] = Kernel!onward(r[i - 1])
    BY <2>1, HeapAssumption, Kernel!WalkIs
  <2> QED
    BY <2>2 DEF Segments, Kernel!Segments, Kernel!onward
<1> DEFINE far(i) == \E a \in r[i] : a = e \/ (a \in Held /\ a >= i)
<1>3. far(0)
  BY <1>1, <1>2
<1>4. ASSUME NEW i \in Nat \ {0}, far(i - 1) PROVE far(i)
  <2>1. PICK a \in r[i - 1] : a = e \/ (a \in Held /\ a >= i - 1)
    BY <1>4
  <2>2. CASE a = e
    BY <1>2, <2>1, <2>2
  <2>3. CASE a \in Held /\ a >= i - 1
    <3>1. PICK b : b = hnext[a]
      OBVIOUS
    <3>2. /\ b \in Held \cup {e} /\ b # Nil /\ a \in Nat /\ a < b
          /\ b \in Held => b \in Nat
      BY <1>1, <2>3, <3>1
    <3>3. b \in r[i]
      BY <1>2, <2>1, <3>1, <3>2
    <3>4. b = e \/ (b \in Held /\ b >= i)
      BY <2>3, <3>2
    <3> QED
      BY <3>3, <3>4
  <2> QED
    BY <2>1, <2>2, <2>3
<1>5. far(HeapSize)
  <2>1. PICK good : good = {i \in Nat : far(i)}
    OBVIOUS
  <2>2. 0 \in good /\ \A i \in Nat \ {0} : i - 1 \in good => i \in good
    BY <1>3, <1>4, <2>1
  <2> HIDE DEF far
  <2> DEFINE Bad == {i \in Nat : i \notin good}
  <2>3. ASSUME Bad # {} PROVE FALSE
    <3>1. PICK i \in Bad : \A k \in Bad : ~ (k < i)
      <4>1. Bad \in SUBSET Nat
        OBVIOUS
      <4> HIDE DEF Bad
      <4> QED
        BY <2>3, <4>1, Least, Zenon
    <3>2. i \in Nat \ {0} /\ i - 1 \in Nat /\ i - 1 < i
      BY <2>2, <3>1
    <3>3. i - 1 \in good
      BY <3>1, <3>2
    <3> QED
      BY <2>2, <3>1, <3>2, <3>3
  <2> QED
    BY <1>1, <2>1, <2>3
<1>6. PICK a \in Segments : a = e \/ (a \in Held /\ a >= HeapSize)
  BY <1>2, <1>5
<1>7. ~(a \in Held /\ a >= HeapSize)
  <2>1. a \in Held => a \in Nat /\ a < HeapSize
    BY <1>1
  <2> QED
    BY <1>1, <2>1
<1> QED
  BY <1>6, <1>7

\* Where there is room for all requests kmalloc finds a segment for the next.
LEMMA BestThere ==
  ASSUME MailIInv, HasRoom, pc = "kmalloc"
  PROVE  best(needed(Asked)) # {}
<1>1. PICK e \in Addr : Chain(e) /\ Room(e)
  BY DEF MailIInv
<1>2. PICK n : n = needed(Asked) /\ n \in Nat
  BY AskedSmall, NeededSmall
<1>3. /\ HeapSize - e \in 0..HeapSize /\ HeapSize - e - n > 2 * Header
      /\ segment_size[e] = HeapSize - e
  BY <1>1, <1>2, RoomLeft DEF Chain
<1>4. diff(e, n) = HeapSize - e - n /\ diff(e, n) < MaxInt
  BY <1>2, <1>3, RoomDiff
<1>5. e \in Segments /\ Segments \subseteq Held \cup {e} /\ e \notin Held
      /\ \A a \in Held : is_allocated[a]
  BY <1>1, LastReached, SegmentsHeld DEF MailIInv, Chain, Held
<1>6. ~is_allocated[e]
  BY <1>5 DEF Held
<1>7. diff(e, n) >= 0 /\ e \in Nat
  BY <1>2, <1>3, <1>4, Sizes
<1>8. candidates(n) = {e}
  BY <1>4, <1>5, <1>6, <1>7 DEF candidates
<1>9. e \in best(n)
  BY <1>7, <1>8 DEF best
<1> QED
  BY <1>2, <1>9

\* The words of the message that is sent, its end tag included.
Size == TagsEnd(tags, Len(tags)) + 3

\* The layout of the message in the block.
LEMMA Places ==
  ASSUME MailIInv, Sending
  PROVE  /\ tags \in Seq(STRING) /\ Size \in Nat /\ Size >= 3 /\ Size <= bufsize(tags)
         /\ Len(Message(Requested(tags))) = Size
         /\ Message(Requested(tags)) \in Seq(Words)
         /\ \A p : MessageAt(p, Requested(tags)) = p + Header .. p + Header + Size - 1
         /\ Message(Requested(tags))[2] = "REQUEST"
         /\ Message(Requested(tags))[Size] = "end"
         /\ \A k \in 1..Size - 1 : Message(Requested(tags))[k] # "end"
<1>1. tags \in Seq(STRING)
  <2>1. program \in Seq(Seq(STRING)) /\ call \in 1..Len(program)
    BY MailboxAssumption, AsksAre DEF MailIInv, Sending
  <2> QED
    BY <2>1, ElementOfSeq DEF tags
<1>2. PICK array, text, n : /\ array = tags /\ text = Message(Requested(tags))
                            /\ n = TagsEnd(tags, Len(tags))
  OBVIOUS
<1>3. /\ n \in Nat /\ text \in Seq(Words) /\ Len(text) = n + 3
      /\ text[2] = "REQUEST" /\ text[n + 3] = "end"
      /\ \A k \in 1..n + 2 : text[k] # "end"
  BY <1>1, <1>2, MessageIs
<1>4. bufsize(tags) >= n + 3
  <2>1. PICK words : words = n + 3
    OBVIOUS
  <2>2. words \in Nat /\ words % 4 \in 0..3
    BY <1>3, <2>1
  <2>3. bufsize(tags) = words + (IF (words % 4) = 0 THEN 0 ELSE 4 - (words % 4))
    BY <1>2, <2>1 DEF bufsize
  <2> QED
    BY <2>1, <2>2, <2>3
<1>5. Size = n + 3 /\ Size - 1 = n + 2
  BY <1>2, <1>3 DEF Size
<1>6. \A p : MessageAt(p, Requested(tags)) = p + Header .. p + Header + Size - 1
  BY <1>2, <1>3, <1>5 DEF MessageAt
<1> QED
  BY <1>1, <1>2, <1>3, <1>4, <1>5, <1>6

\* The values lie behind the code and in front of the end tag.
LEMMA ValuePlaces ==
  ASSUME MailIInv, Sending, NEW p \in Nat,
         NEW i \in 1..Len(tags), NEW j \in 1..get_value_buffer_len(tags[i])
  PROVE  \E k \in 3..Size - 1 : /\ ValueAt(p, tags, i, j) = p + Header + k - 1
                                /\ Message(Requested(tags))[k] = "request"
<1>1. PICK array, text, n : /\ array = tags /\ text = Message(Requested(tags))
                            /\ n = TagsEnd(tags, Len(tags))
  OBVIOUS
<1>2. PICK k, t : k = 2 + TagsEnd(array, i - 1) + 3 + j /\ t = TagsEnd(array, i - 1)
  OBVIOUS
<1>3. array \in Seq(STRING) /\ i \in 1..Len(array) /\ j \in 1..get_value_buffer_len(array[i])
  BY <1>1, Places
<1>4. n \in Nat /\ k \in 3..n + 2 /\ text[k] = "request"
  BY <1>1, <1>2, <1>3, MessageIs
<1>5. t \in Nat /\ get_value_buffer_len(array[i]) \in 0..2
  <2>1. i - 1 \in 0..Len(array)
    BY <1>3, LenProperties
  <2> QED
    BY <1>2, <1>3, <2>1, TagsAre
<1>6. k = 2 + t + 3 + j /\ j \in Nat /\ Header \in Nat
  BY <1>2, <1>3, <1>5, Sizes
<1>7. ValueAt(p, tags, i, j) = p + Header + k - 1
  <2>1. ValueAt(p, tags, i, j) = p + Header + 2 + t + 3 + j - 1
    BY <1>1, <1>2 DEF ValueAt
  <2> QED
    BY <1>5, <1>6, <2>1
<1>8. Size - 1 = n + 2
  BY <1>1, <1>4 DEF Size
<1> QED
  BY <1>1, <1>4, <1>7, <1>8

\* Where there is room for all requests there is room for the message.
LEMMA MessageRoom ==
  ASSUME MailIInv, HasRoom, pc \in {"compose", "send", "check"}
  PROVE  MessageAt(msg, Requested(tags)) \subseteq Addr
<1>1. Sending /\ program \in Programs /\ call \in 1..Len(program)
  BY AsksAre DEF MailIInv, Sending
<1>2. PICK n, b, s, e : /\ n = needed(Asked) /\ b = bufsize(tags)
                        /\ s = Sums(Asks)[call] /\ e = msg
  OBVIOUS
<1>3. e \in Addr /\ e <= s
  BY <1>2 DEF MailIInv, InHand, Room, Cut
<1>4. /\ b \in 0..HeapSize /\ n \in Nat /\ n >= b + Header
  BY <1>1, <1>2, AskedSmall, NeededSmall DEF Asked
<1>5. s \in Nat /\ HeapSize - s >= n
  <2>1. s \in Nat /\ Asks[call] = n /\ call \in DOMAIN Asks
    BY <1>1, <1>2, AsksAre
  <2> QED
    BY <1>2, <2>1 DEF HasRoom
<1>6. Size \in Nat /\ Size <= b /\ MessageAt(e, Requested(tags)) = e + Header .. e + Header + Size - 1
  BY <1>1, <1>2, Places
<1>7. e \in Nat /\ Header \in Nat /\ HeapSize \in Nat
  BY <1>3, Sizes
<1>8. e + Header + Size - 1 <= HeapSize - 1 /\ e + Header >= 0
  BY <1>3, <1>4, <1>5, <1>6, <1>7
<1>9. e + Header .. e + Header + Size - 1 \subseteq 0..HeapSize - 1
  BY <1>6, <1>7, <1>8
<1> QED
  BY <1>2, <1>6, <1>9 DEF Addr

\* The values the caller asks for are words.
LEMMA RequestedType ==
  ASSUME NEW array \in Seq(STRING)
  PROVE  /\ DOMAIN Requested(array) = 1..Len(array)
         /\ \A i \in 1..Len(array) :
              /\ Requested(array)[i] \in Seq(Words) /\ get_value_buffer_len(array[i]) \in Nat
              /\ DOMAIN Requested(array)[i] = 1..get_value_buffer_len(array[i])
<1>1. \A i \in 1..Len(array) : get_value_buffer_len(array[i]) \in Nat
  BY TagsAre
<1>2. ASSUME NEW i \in 1..Len(array)
      PROVE  /\ Requested(array)[i] \in Seq(Words)
             /\ DOMAIN Requested(array)[i] = 1..get_value_buffer_len(array[i])
  <2>1. PICK n, v : n = get_value_buffer_len(array[i]) /\ v = Requested(array)[i] /\ n \in Nat
    BY <1>1
  <2>2. v = [j \in 1..n |-> "request"]
    BY <2>1 DEF Requested
  <2>3. v \in [1..n -> Words]
    BY <2>2 DEF Words
  <2>4. v \in Seq(Words)
    BY <2>1, <2>3, IsLong
  <2> QED
    BY <2>1, <2>3, <2>4
<1>3. DOMAIN Requested(array) = 1..Len(array)
  BY DEF Requested
<1> QED
  BY <1>1, <1>2, <1>3

----------------------------------------------------------------------------
(* The exchange with the GPU. *)

\* All value words of the message are in S.
Holds(S) == \A i \in 1..Len(tags) : \A j \in 1..get_value_buffer_len(tags[i]) :
              mem[ValueAt(msg, tags, i, j)] \in S

Code == mem[CodeAt(msg)]

\* The message is in memory, and its end tag is the first the GPU meets.
Composed ==
  /\ MessageAt(msg, values) \subseteq Addr
  /\ \A k \in 1..Size - 1 : mem[msg + Header + k - 1] # "end"
  /\ mem[msg + Header + Size - 1] = "end"

\* What the caller's values are.
Asking == Sending /\ pc \notin {"returned", "wild"} => values = Requested(tags)

\* While send_messages waits with a mail, and after the answer.
Waiting ==
  mail # Nil => /\ mail = msg /\ Code = "REQUEST" /\ Holds({"request", "answer"})
                /\ gpu = "answered" => Holds({"answer"})
Answered ==
  mail = Nil => /\ Code \in {"RESPONSE_SUCCESS", "RESPONSE_ERROR"}
                /\ Code = "RESPONSE_SUCCESS" => Holds({"answer"})

\* A mail that has not been answered was sent by the last request: after another
\* result than 0 gpu_init sends no more.
Mailed ==
  /\ gpu = "answered" => mail # Nil
  /\ Sending /\ pc \in {"kmalloc", "split", "mark", "compose", "send"} => mail = Nil
  /\ pc = "returned" /\ result = 0 => mail = Nil

Exchange ==
  /\ Asking /\ Mailed
  /\ pc \in {"send", "check"} => Composed
  /\ pc = "send" => Code = "REQUEST" /\ Holds({"request"})
  /\ pc = "check" => Waiting /\ Answered
  /\ ZeroMeansAnswered

\* On a machine whose GPU is in time.
InTime ==
  /\ pc \notin {"up", "wild"} => main_pcb = Nil
  /\ prompt /\ mail # Nil /\ pc # "wild" => pc = "check"
  /\ MessageHasAPlace

AllIInv == MailIInv /\ TypeOK /\ Exchange /\ InTime

LEMMA InitAll == Init => AllIInv
<1> SUFFICES ASSUME Init PROVE AllIInv
  OBVIOUS
<1>1. MailIInv /\ HeapTypeOK
  BY InitMail DEF MailIInv
<1>2. /\ prompt \in Machines /\ program \in Programs /\ call = 1
      /\ mem = [a \in Addr |-> "junk"] /\ values = Requested(program[1])
      /\ msg = Nil /\ seg = Nil /\ result = 0 /\ main_pcb = Nil
      /\ full \in BOOLEAN /\ mail = Nil /\ pc = "kmalloc" /\ gpu = "idle"
  BY DEF Init
<1>3. Sending /\ tags = program[1]
  <2>1. program \in Seq(Seq(STRING)) /\ program # <<>>
    BY <1>2, MailboxAssumption
  <2>2. Len(program) \in Nat \ {0}
    BY <2>1, EmptySeq
  <2> QED
    BY <1>2, <2>2 DEF Sending, tags
<1>4. \A i \in DOMAIN values : values[i] \in Seq(Words)
  BY <1>1, <1>2, <1>3, Places, RequestedType
<1>5. TypeOK
  BY <1>1, <1>2, <1>4 DEF TypeOK, MailIInv, Words
<1>6. Exchange
  BY <1>2, <1>3 DEF Exchange, Asking, Mailed, ZeroMeansAnswered
<1>7. InTime
  BY <1>2 DEF InTime, MessageHasAPlace
<1> QED
  BY <1>1, <1>5, <1>6, <1>7 DEF AllIInv

LEMMA MailStep ==
  ASSUME MailIInv, [Next]_vars
  PROVE  MailIInv'
BY CpuStep, GpuStep DEF Next

\* While kmalloc works the mailbox is at rest.
LEMMA KmallocKeeps ==
  ASSUME AllIInv, UNCHANGED <<prompt, program, call, mem, values, full, mail, gpu>>,
         pc \in {"kmalloc", "split", "mark"},
         pc' \in {"split", "mark", "compose", "up", "wild", "returned"},
         pc' = "returned" => result' # 0
  PROVE  Exchange'
<1>1. Sending' = Sending /\ Requested(tags)' = Requested(tags)
  BY DEF Sending, Requested, tags
<1>2. Asking'
  BY <1>1 DEF AllIInv, Exchange, Asking
<1>3. Mailed'
  BY <1>1 DEF AllIInv, Exchange, Mailed
<1>4. ZeroMeansAnswered'
  BY DEF ZeroMeansAnswered
<1> QED
  BY <1>2, <1>3, <1>4 DEF Exchange

\* The state the steps of kmalloc leave alone.
LEMMA KmallocType ==
  ASSUME AllIInv, MailIInv', UNCHANGED <<prompt, program, call, mem, values, full, mail, gpu>>,
         msg' \in Addr \cup {Nil}, seg' \in Addr \cup {Nil}, main_pcb' \in Addr \cup {Nil},
         result' \in {-1, 0, 1, 2},
         pc' \in {"split", "mark", "compose", "up", "wild", "returned"}
  PROVE  TypeOK'
<1>1. HeapTypeOK' /\ call' \in 1..Len(program') + 1
  BY DEF MailIInv
<1>2. /\ prompt' \in Machines /\ program' \in Programs /\ mem' \in [Addr -> Words]
      /\ \A i \in DOMAIN values' : values'[i] \in Seq(Words)
      /\ full' \in BOOLEAN /\ mail' \in Addr \cup {Nil} /\ gpu' \in {"idle", "answered"}
  BY DEF AllIInv, TypeOK
<1> QED
  BY <1>1, <1>2 DEF TypeOK

LEMMA ScanAll ==
  ASSUME AllIInv, KmallocScan
  PROVE  AllIInv'
<1>1. /\ pc = "kmalloc" /\ pc' \in {"split", "mark"} /\ seg' \in Addr
      /\ UNCHANGED <<prompt, program, call, mem, values, msg, result, full, mail, main_pcb, gpu>>
  BY DEF KmallocScan, best
<1>2. MailIInv'
  BY MailStep DEF AllIInv, Next, Cpu
<1>3. msg' \in Addr \cup {Nil} /\ main_pcb' \in Addr \cup {Nil} /\ result' \in {-1, 0, 1, 2}
  BY <1>1 DEF AllIInv, TypeOK
<1>4. TypeOK'
  BY <1>1, <1>2, <1>3, KmallocType
<1>5. Exchange'
  BY <1>1, KmallocKeeps
<1>6. InTime'
  BY <1>1 DEF AllIInv, InTime, MessageHasAPlace
<1> QED
  BY <1>2, <1>4, <1>5, <1>6 DEF AllIInv

LEMMA SplitAll ==
  ASSUME AllIInv, KmallocSplit
  PROVE  AllIInv'
<1>1. /\ pc = "split" /\ pc' = "mark"
      /\ UNCHANGED <<prompt, program, call, mem, values, msg, seg, result, full, mail, main_pcb, gpu>>
  BY DEF KmallocSplit
<1>2. MailIInv'
  BY MailStep DEF AllIInv, Next, Cpu
<1>3. /\ msg' \in Addr \cup {Nil} /\ main_pcb' \in Addr \cup {Nil} /\ result' \in {-1, 0, 1, 2}
      /\ seg' \in Addr \cup {Nil}
  BY <1>1 DEF AllIInv, TypeOK
<1>4. TypeOK'
  BY <1>1, <1>2, <1>3, KmallocType
<1>5. Exchange'
  BY <1>1, KmallocKeeps
<1>6. InTime'
  BY <1>1 DEF AllIInv, InTime, MessageHasAPlace
<1> QED
  BY <1>2, <1>4, <1>5, <1>6 DEF AllIInv

\* Where there is room for all requests there is a header behind the segment.
LEMMA ReturnAll ==
  ASSUME AllIInv, KmallocReturn
  PROVE  AllIInv'
<1>1. PICK p : p = hnext[seg]
  OBVIOUS
<1>2. /\ pc = "mark" /\ pc' \in {"compose", "up", "wild"}
      /\ pc' = "wild" => p = Nil
      /\ pc' = "compose" => Sending
      /\ IF Sending THEN msg' = p /\ main_pcb' = main_pcb ELSE main_pcb' = p /\ msg' = msg
      /\ UNCHANGED <<prompt, program, call, mem, values, seg, result, full, mail, gpu>>
  BY <1>1 DEF KmallocReturn, kmalloc_result
<1>3. MailIInv'
  BY MailStep DEF AllIInv, Next, Cpu
<1>4. p \in Addr \cup {Nil}
  BY <1>1, <1>2 DEF AllIInv, MailIInv, HeapTypeOK
<1>5. /\ msg' \in Addr \cup {Nil} /\ main_pcb' \in Addr \cup {Nil} /\ result' \in {-1, 0, 1, 2}
      /\ seg' \in Addr \cup {Nil}
  BY <1>2, <1>4 DEF AllIInv, TypeOK
<1>6. TypeOK'
  BY <1>2, <1>3, <1>5, KmallocType
<1>7. Exchange'
  BY <1>2, KmallocKeeps
<1>8. HasRoom => p # Nil
  <2>1. PICK e \in Addr : InHand(e) /\ Room(e)
    BY <1>2 DEF AllIInv, MailIInv
  <2> QED
    BY <1>1, <1>2, <2>1, Sizes DEF InHand, Room
<1>9. InTime'
  BY <1>2, <1>8, SameAsks DEF AllIInv, InTime, MessageHasAPlace
<1> QED
  BY <1>3, <1>6, <1>7, <1>9 DEF AllIInv

LEMMA FailsAll ==
  ASSUME AllIInv, KmallocFails
  PROVE  AllIInv'
<1>1. /\ pc = "kmalloc" /\ pc' \in {"wild", "returned"} /\ best(needed(Asked)) = {}
      /\ pc' = "returned" => result' = -1
      /\ pc' = "wild" => result' = result
      /\ UNCHANGED <<prompt, program, call, mem, values, msg, seg, full, mail, main_pcb, gpu>>
  BY DEF KmallocFails
<1>2. MailIInv'
  BY MailStep DEF AllIInv, Next, Cpu
<1>3. /\ msg' \in Addr \cup {Nil} /\ main_pcb' \in Addr \cup {Nil} /\ result' \in {-1, 0, 1, 2}
      /\ seg' \in Addr \cup {Nil}
  BY <1>1 DEF AllIInv, TypeOK
<1>4. TypeOK'
  BY <1>1, <1>2, <1>3, KmallocType
<1>5. Exchange'
  BY <1>1, KmallocKeeps
<1>6. ~HasRoom
  BY <1>1, BestThere DEF AllIInv
<1>7. InTime'
  BY <1>1, <1>6, SameAsks DEF AllIInv, InTime, MessageHasAPlace
<1> QED
  BY <1>2, <1>4, <1>5, <1>7 DEF AllIInv

LEMMA SameTags ==
  ASSUME UNCHANGED <<program, call>>
  PROVE  /\ tags' = tags /\ Size' = Size /\ (Sending' <=> Sending)
         /\ Requested(tags)' = Requested(tags)
BY DEF tags, Size, Sending, Requested

LEMMA ComposeAll ==
  ASSUME AllIInv, Compose
  PROVE  AllIInv'
<1>1. /\ pc = "compose" /\ pc' \in {"send", "wild"}
      /\ UNCHANGED <<prompt, program, call, values, msg, seg, result, full, mail, main_pcb, gpu>>
  BY DEF Compose
<1>2. MailIInv /\ MailIInv'
  BY MailStep DEF AllIInv, Next, Cpu
<1>3. Sending /\ values = Requested(tags) /\ mail = Nil
  BY <1>1 DEF AllIInv, Exchange, Asking, Mailed, MailIInv
<1>4. msg \in Addr /\ msg \in Nat /\ Header \in Nat \ {0}
  BY <1>1, Sizes DEF AllIInv, MailIInv, InHand
<1>5. PICK text, n : text = Message(values) /\ n = Size
  OBVIOUS
<1>6. /\ n \in Nat /\ n >= 3 /\ Len(text) = n /\ text \in Seq(Words)
      /\ MessageAt(msg, values) = msg + Header .. msg + Header + n - 1
      /\ text[2] = "REQUEST" /\ text[n] = "end" /\ \A k \in 1..n - 1 : text[k] # "end"
  BY <1>2, <1>3, <1>5, Places
<1>7. /\ program' \in Programs /\ prompt' \in Machines /\ call' \in 1..Len(program') + 1
      /\ \A i \in DOMAIN values' : values'[i] \in Seq(Words)
      /\ msg' \in Addr \cup {Nil} /\ seg' \in Addr \cup {Nil} /\ result' \in {-1, 0, 1, 2}
      /\ full' \in BOOLEAN /\ mail' \in Addr \cup {Nil} /\ main_pcb' \in Addr \cup {Nil}
      /\ gpu' \in {"idle", "answered"} /\ HeapTypeOK'
  BY <1>1, <1>2 DEF AllIInv, TypeOK, MailIInv
<1>8. CASE pc' = "send"
  <2>1. /\ MessageAt(msg, values) \subseteq Addr
        /\ mem' = [a \in Addr |-> IF a \in MessageAt(msg, values)
                                  THEN text[a - (msg + Header) + 1] ELSE mem[a]]
    BY <1>5, <1>8 DEF Compose
  <2>2. ASSUME NEW k \in 1..n
        PROVE  msg + Header + k - 1 \in MessageAt(msg, values)
               /\ mem'[msg + Header + k - 1] = text[k]
    <3>1. PICK a : a = msg + Header + k - 1
      OBVIOUS
    <3>2. a \in msg + Header .. msg + Header + n - 1 /\ a - (msg + Header) + 1 = k
      BY <1>4, <1>6, <3>1
    <3> QED
      BY <1>6, <2>1, <3>1, <3>2
  <2>3. mem' \in [Addr -> Words]
    <3>1. ASSUME NEW a \in MessageAt(msg, values)
          PROVE  text[a - (msg + Header) + 1] \in Words
      <4>1. a - (msg + Header) + 1 \in 1..n
        BY <1>4, <1>6
      <4> QED
        BY <1>6, <4>1, ElementOfSeq
    <3>2. mem \in [Addr -> Words]
      BY DEF AllIInv, TypeOK
    <3> QED
      BY <2>1, <3>1, <3>2
  <2>4. TypeOK'
    BY <1>7, <1>8, <2>3 DEF TypeOK
  <2>5. Composed'
    <3>1. \A k \in 1..n - 1 : k \in 1..n
      BY <1>6
    <3>2. n \in 1..n
      BY <1>6
    <3>3. /\ \A k \in 1..n - 1 : mem'[msg + Header + k - 1] # "end"
          /\ mem'[msg + Header + n - 1] = "end"
      BY <1>6, <2>2, <3>1, <3>2
    <3>4. MessageAt(msg', values') \subseteq Addr
      BY <1>1, <2>1
    <3> QED
      BY <1>1, <1>5, <3>3, <3>4, SameTags DEF Composed
  <2>6. Code' = "REQUEST"
    <3>1. 2 \in 1..n /\ CodeAt(msg) = msg + Header + 2 - 1
      BY <1>4, <1>6 DEF CodeAt
    <3> QED
      BY <1>1, <1>6, <2>2, <3>1 DEF Code, CodeAt
  <2>7. Holds({"request"})'
    <3>1. ASSUME NEW i \in 1..Len(tags), NEW j \in 1..get_value_buffer_len(tags[i])
          PROVE  mem'[ValueAt(msg, tags, i, j)] = "request"
      <4>1. PICK k \in 3..Size - 1 : /\ ValueAt(msg, tags, i, j) = msg + Header + k - 1
                                     /\ text[k] = "request"
        BY <1>2, <1>3, <1>4, <1>5, ValuePlaces
      <4>2. k \in 1..n
        BY <1>5, <1>6
      <4> QED
        BY <2>2, <4>1, <4>2
    <3> QED
      BY <1>1, <3>1, SameTags DEF Holds
  <2>8. Asking' /\ Mailed' /\ ZeroMeansAnswered'
    BY <1>1, <1>3, <1>8, SameTags
       DEF AllIInv, Exchange, Asking, Mailed, ZeroMeansAnswered
  <2>9. Exchange'
    BY <1>8, <2>5, <2>6, <2>7, <2>8 DEF Exchange
  <2>10. InTime'
    BY <1>1, <1>8 DEF AllIInv, InTime, MessageHasAPlace
  <2> QED
    BY <1>2, <2>4, <2>9, <2>10 DEF AllIInv
<1>9. CASE pc' = "wild"
  <2>1. ~(MessageAt(msg, values) \subseteq Addr) /\ mem' = mem
    BY <1>9 DEF Compose
  <2>2. ~HasRoom
    BY <1>1, <1>2, <1>3, <2>1, MessageRoom
  <2>3. TypeOK'
    BY <1>7, <1>9, <2>1 DEF AllIInv, TypeOK
  <2>4. Exchange'
    BY <1>1, <1>3, <1>9 DEF AllIInv, Exchange, Asking, Mailed, ZeroMeansAnswered
  <2>5. InTime'
    BY <1>1, <1>9, <2>2, SameAsks DEF AllIInv, InTime, MessageHasAPlace
  <2> QED
    BY <1>2, <2>3, <2>4, <2>5 DEF AllIInv
<1> QED
  BY <1>1, <1>8, <1>9

LEMMA SendAll ==
  ASSUME AllIInv, MailboxSend
  PROVE  AllIInv'
<1>1. /\ pc = "send" /\ pc' = "check" /\ mail' = msg
      /\ UNCHANGED <<heapVars, prompt, program, call, mem, values, msg, seg, result, full,
                     main_pcb, gpu>>
  BY DEF MailboxSend
<1>2. MailIInv /\ MailIInv'
  BY MailStep DEF AllIInv, Next, Cpu
<1>3. msg \in Addr /\ Nil \notin Addr
  BY <1>1, Sizes DEF AllIInv, MailIInv, InHand
<1>4. Sending /\ values = Requested(tags) /\ mail = Nil /\ gpu # "answered"
  BY <1>1 DEF AllIInv, Exchange, Asking, Mailed, MailIInv
<1>5. TypeOK'
  BY <1>1, <1>2, <1>3 DEF AllIInv, TypeOK, MailIInv
<1>6. Composed' /\ Code' = "REQUEST" /\ Holds({"request"})'
  <2>1. Composed /\ Code = "REQUEST" /\ Holds({"request"})
    BY <1>1 DEF AllIInv, Exchange
  <2>2. Composed'
    BY <1>1, <2>1, SameTags DEF Composed, MessageAt
  <2>3. Code' = "REQUEST"
    BY <1>1, <2>1 DEF Code, CodeAt
  <2>4. Holds({"request"})'
    BY <1>1, <2>1, SameTags DEF Holds
  <2> QED
    BY <2>2, <2>3, <2>4
<1>7. Waiting' /\ Answered'
  BY <1>1, <1>3, <1>4, <1>6 DEF Waiting, Answered, Holds
<1>8. Asking' /\ Mailed' /\ ZeroMeansAnswered'
  BY <1>1, <1>3, <1>4, SameTags DEF Asking, Mailed, ZeroMeansAnswered
<1>9. Exchange'
  BY <1>1, <1>6, <1>7, <1>8 DEF Exchange
<1>10. InTime'
  BY <1>1 DEF AllIInv, InTime, MessageHasAPlace
<1> QED
  BY <1>2, <1>5, <1>9, <1>10 DEF AllIInv

\* The end of send_messages, whatever it found.
LEMMA ResultAll ==
  ASSUME AllIInv, MailIInv', NEW res \in {0, 1, 2}, Looks, Return(res),
         \A i \in DOMAIN values' : values'[i] \in Seq(Words),
         res = 0 => mail = Nil /\ \A i \in DOMAIN values' : \A j \in DOMAIN values'[i] :
                                    values'[i][j] = "answer"
  PROVE  AllIInv'
<1>1. /\ pc = "check"
      /\ prompt => mail = Nil
      /\ pc' = "returned" /\ result' = res
      /\ UNCHANGED <<mem, prompt, program, call, msg, seg, full, mail, main_pcb, gpu>>
  BY DEF Looks, Return
<1>2. HeapTypeOK'
  BY DEF MailIInv
<1>3. TypeOK'
  BY <1>1, <1>2 DEF AllIInv, TypeOK
<1>4. Asking' /\ Mailed' /\ ZeroMeansAnswered'
  BY <1>1 DEF AllIInv, Exchange, Asking, Mailed, ZeroMeansAnswered
<1>5. Exchange'
  BY <1>1, <1>4 DEF Exchange
<1>6. InTime'
  BY <1>1 DEF AllIInv, InTime, MessageHasAPlace
<1> QED
  BY <1>3, <1>5, <1>6 DEF AllIInv

LEMMA AnswerAll ==
  ASSUME AllIInv, NoAnswer \/ ErrorAnswer \/ CopyBack
  PROVE  AllIInv'
<1>1. MailIInv /\ MailIInv'
  BY MailStep DEF AllIInv, Next, Cpu
<1>2. CASE NoAnswer \/ ErrorAnswer
  <2>1. PICK res \in {1, 2} : Looks /\ Return(res) /\ values' = values
    BY <1>2 DEF NoAnswer, ErrorAnswer
  <2>2. \A i \in DOMAIN values' : values'[i] \in Seq(Words)
    BY <2>1 DEF AllIInv, TypeOK
  <2> QED
    BY <1>1, <2>1, <2>2, ResultAll
<1>3. CASE CopyBack
  <2>1. /\ Looks /\ Return(0) /\ mem[CodeAt(msg)] = "RESPONSE_SUCCESS" /\ pc = "check"
        /\ values' = [i \in DOMAIN values |-> [j \in DOMAIN values[i] |->
                        mem[ValueAt(msg, tags, i, j)]]]
    BY <1>3 DEF CopyBack, Looks
  <2>2. Sending /\ values = Requested(tags) /\ Waiting /\ Answered
    BY <2>1 DEF AllIInv, Exchange, Asking, MailIInv
  <2>3. mail = Nil /\ Holds({"answer"})
    BY <2>1, <2>2 DEF Waiting, Answered, Code
  <2>4. /\ DOMAIN values = 1..Len(tags)
        /\ \A i \in 1..Len(tags) : /\ get_value_buffer_len(tags[i]) \in Nat
                                   /\ DOMAIN values[i] = 1..get_value_buffer_len(tags[i])
    BY <1>1, <2>2, Places, RequestedType
  <2>5. DOMAIN values' = 1..Len(tags)
    BY <2>1, <2>4
  <2>6. ASSUME NEW i \in 1..Len(tags)
        PROVE  /\ values'[i] \in [1..get_value_buffer_len(tags[i]) -> Words]
               /\ \A j \in 1..get_value_buffer_len(tags[i]) : values'[i][j] = "answer"
    <3>1. values'[i] = [j \in 1..get_value_buffer_len(tags[i]) |-> mem[ValueAt(msg, tags, i, j)]]
      BY <2>1, <2>4
    <3>2. \A j \in 1..get_value_buffer_len(tags[i]) : mem[ValueAt(msg, tags, i, j)] = "answer"
      BY <2>3 DEF Holds
    <3> QED
      BY <3>1, <3>2 DEF Words
  <2>7. \A i \in DOMAIN values' : values'[i] \in Seq(Words)
    BY <2>4, <2>5, <2>6, IsLong
  <2>8. \A i \in DOMAIN values' : \A j \in DOMAIN values'[i] : values'[i][j] = "answer"
    BY <2>5, <2>6
  <2> QED
    BY <1>1, <2>1, <2>3, <2>7, <2>8, ResultAll
<1> QED
  BY <1>2, <1>3

LEMMA NextArray ==
  ASSUME AllIInv, GpuInit
  PROVE  AllIInv'
<1>1. /\ pc = "returned" /\ pc' = "kmalloc"
      /\ call' = IF result = 0 THEN call + 1 ELSE Len(program) + 1
      /\ values' = IF call' <= Len(program) THEN Requested(program[call']) ELSE values
      /\ UNCHANGED <<mem, prompt, program, msg, seg, result, full, mail, main_pcb, gpu>>
  BY DEF GpuInit
<1>2. MailIInv /\ MailIInv'
  BY MailStep DEF AllIInv, Next, Cpu
<1>3. /\ Sending' <=> call' <= Len(program)
      /\ Requested(tags)' = Requested(program[call'])
  BY <1>1 DEF Sending, tags, Requested
<1>4. Sending' => values' = Requested(tags)'
  BY <1>1, <1>3
<1>5. \A i \in DOMAIN values' : values'[i] \in Seq(Words)
  <2>1. CASE Sending'
    <3>1. program \in Seq(Seq(STRING)) /\ call' \in 1..Len(program)
      <4>1. Len(program) \in Nat /\ program \in Seq(Seq(STRING)) /\ call' \in Nat \ {0}
        BY <1>1, <1>2, AsksAre, MailboxAssumption DEF MailIInv
      <4> QED
        BY <1>3, <2>1, <4>1
    <3>2. PICK array : array = program[call']
      OBVIOUS
    <3>3. array \in Seq(STRING)
      BY <3>1, <3>2, ElementOfSeq
    <3>4. values' = Requested(array)
      BY <1>1, <1>3, <2>1, <3>2
    <3> QED
      BY <3>3, <3>4, RequestedType
  <2>2. CASE ~Sending'
    BY <1>1, <1>3, <2>2 DEF AllIInv, TypeOK
  <2> QED
    BY <2>1, <2>2
<1>6. Sending' => mail' = Nil
  <2>1. Sending' => result = 0
    <3>1. Len(program) \in Nat
      BY <1>2, AsksAre DEF MailIInv
    <3> QED
      BY <1>1, <1>3, <3>1
  <2> QED
    BY <1>1, <2>1 DEF AllIInv, Exchange, Mailed
<1>7. TypeOK'
  BY <1>1, <1>2, <1>5 DEF AllIInv, TypeOK, MailIInv
<1>8. Exchange'
  BY <1>1, <1>4, <1>6 DEF AllIInv, Exchange, Asking, Mailed, ZeroMeansAnswered
<1>9. InTime'
  BY <1>1 DEF AllIInv, InTime, MessageHasAPlace
<1> QED
  BY <1>2, <1>7, <1>8, <1>9 DEF AllIInv

\* The message the GPU may be reading.
LEMMA AtCheck ==
  ASSUME AllIInv, pc = "check"
  PROVE  /\ msg \in Addr /\ msg \in Nat /\ Header \in Nat \ {0} /\ Sending
         /\ Size \in Nat /\ Size >= 3 /\ values = Requested(tags)
         /\ MessageAt(msg, values) = msg + Header .. msg + Header + Size - 1
         /\ \A k \in 1..Size : msg + Header + k - 1 \in Addr
         /\ CodeAt(msg) = msg + Header + 2 - 1 /\ CodeAt(msg) \in Addr
         /\ \A i \in 1..Len(tags) : \A j \in 1..get_value_buffer_len(tags[i]) :
              \E k \in 3..Size - 1 : ValueAt(msg, tags, i, j) = msg + Header + k - 1
         /\ Composed /\ Waiting /\ Answered
<1>1. /\ MailIInv /\ Sending /\ values = Requested(tags) /\ Composed /\ Waiting /\ Answered
  BY DEF AllIInv, MailIInv, Exchange, Asking
<1>2. msg \in Addr /\ msg \in Nat /\ Header \in Nat \ {0}
  BY <1>1, Sizes DEF MailIInv, InHand
<1>3. /\ Size \in Nat /\ Size >= 3
      /\ MessageAt(msg, values) = msg + Header .. msg + Header + Size - 1
  BY <1>1, Places
<1>4. \A k \in 1..Size : msg + Header + k - 1 \in Addr
  <2>1. MessageAt(msg, values) \subseteq Addr
    BY <1>1 DEF Composed
  <2>2. \A k \in 1..Size : msg + Header + k - 1 \in msg + Header .. msg + Header + Size - 1
    BY <1>2, <1>3
  <2> QED
    BY <1>3, <2>1, <2>2
<1>5. CodeAt(msg) = msg + Header + 2 - 1 /\ 2 \in 1..Size
  BY <1>2, <1>3 DEF CodeAt
<1>6. \A i \in 1..Len(tags) : \A j \in 1..get_value_buffer_len(tags[i]) :
        \E k \in 3..Size - 1 : ValueAt(msg, tags, i, j) = msg + Header + k - 1
  BY <1>1, <1>2, ValuePlaces
<1> QED
  BY <1>1, <1>2, <1>3, <1>4, <1>5, <1>6

\* The GPU reads the message as it was written.
LEMMA MailIs ==
  ASSUME AllIInv, pc = "check"
  PROVE  MailWords(msg) = msg + Header .. msg + Header + Size - 1
<1>1. PICK base, n : base = msg + Header /\ n = Size
  OBVIOUS
<1>2. /\ base \in Nat /\ n \in Nat /\ n >= 3 /\ \A k \in 1..n : base + k - 1 \in Addr
      /\ CodeAt(msg) = base + 1 /\ mem[base + n - 1] = "end"
      /\ \A k \in 1..n - 1 : mem[base + k - 1] # "end"
  BY <1>1, AtCheck DEF Composed, CodeAt
<1> DEFINE ends == {a \in Addr : a > CodeAt(msg) /\ mem[a] = "end"}
           last == base + n - 1
<1>3. last \in ends
  <2>1. n \in 1..n /\ base + n - 1 > base + 1
    BY <1>2
  <2> QED
    BY <1>2, <2>1
<1>4. \A b \in ends : last <= b
  <2> TAKE b \in ends
  <2>1. b \in Nat /\ b > base + 1 /\ mem[b] = "end"
    BY <1>2, Sizes
  <2>2. CASE b < base + n - 1
    <3>1. PICK k : k = b - base + 1
      OBVIOUS
    <3>2. k \in 1..n - 1 /\ base + k - 1 = b
      BY <1>2, <2>1, <2>2, <3>1
    <3> QED
      BY <1>2, <2>1, <3>2
  <2> QED
    BY <1>2, <2>1, <2>2
<1>5. \A a \in ends : (\A b \in ends : a <= b) => a = last
  <2> SUFFICES ASSUME NEW a \in ends, \A b \in ends : a <= b PROVE a = last
    OBVIOUS
  <2>1. a <= last /\ last <= a /\ a \in Nat /\ last \in Nat
    BY <1>2, <1>3, <1>4, Sizes
  <2> QED
    BY <2>1
<1>6. (CHOOSE a \in ends : \A b \in ends : a <= b) = last
  BY <1>3, <1>4, <1>5
<1> QED
  BY <1>1, <1>6 DEF MailWords

\* The message is behind the header of every segment, and nobody else has a block.
LEMMA NobodyElse ==
  ASSUME AllIInv, pc = "check"
  PROVE  MailWords(msg) \cap Occupied = {}
<1>1. PICK e \in Addr : Chain(e) /\ msg = e
  BY DEF AllIInv, MailIInv, InHand
<1>2. Segments \subseteq Held \cup {e} /\ HeapTypeOK
  BY <1>1, SegmentsHeld DEF AllIInv, MailIInv
<1>3. main_pcb = Nil
  BY DEF AllIInv, InTime
<1>4. \A a \in Segments : a \in Nat /\ a <= msg
  BY <1>1, <1>2, Sizes DEF Chain
<1>5. MailWords(msg) = msg + Header .. msg + Header + Size - 1
  BY MailIs
<1>6. msg \in Nat /\ Header \in Nat \ {0}
  BY AtCheck
<1>7. ASSUME NEW a \in Segments, NEW w \in a..a + Header - 1
      PROVE  w \notin msg + Header .. msg + Header + Size - 1
  <2>1. a \in Nat /\ a <= msg
    BY <1>4
  <2>2. w < msg + Header
    BY <1>6, <2>1
  <2> QED
    BY <1>6, <2>1, <2>2
<1>8. Occupied = UNION {a..a + Header - 1 : a \in Segments}
  BY <1>3 DEF Occupied
<1> QED
  BY <1>5, <1>7, <1>8

LEMMA FillsAll ==
  ASSUME AllIInv, GpuFills
  PROVE  AllIInv'
<1>1. /\ pc # "wild" /\ mail # Nil /\ gpu = "idle"
      /\ UNCHANGED <<prompt, program, call, values, msg, seg, result, main_pcb, full, mail>>
      /\ HeapTypeOK'
  BY DEF GpuFills, heapVars, cpuVars, AllIInv, MailIInv, HeapTypeOK
<1>2. MailIInv'
  BY MailStep DEF AllIInv, Next, Gpu
<1>3. pc = "check" => Waiting /\ mail = msg
  BY <1>1 DEF AllIInv, Exchange, Waiting
<1>4. pc # "send"
  BY <1>1 DEF AllIInv, Exchange, Mailed, MailIInv
<1>5. CASE MailWords(mail) \cap Occupied = {}
  <2>1. /\ mem' = [a \in Addr |-> IF a \in MailWords(mail) /\ mem[a] = "request"
                                  THEN "answer" ELSE mem[a]]
        /\ gpu' = "answered" /\ pc' = pc
    BY <1>5 DEF GpuFills, cpuVars
  <2>2. mem' \in [Addr -> Words]
    BY <2>1 DEF AllIInv, TypeOK, Words
  <2>3. TypeOK'
    BY <1>1, <2>1, <2>2 DEF AllIInv, TypeOK
  <2>4. Asking' /\ Mailed' /\ ZeroMeansAnswered'
    BY <1>1, <2>1, SameTags DEF AllIInv, Exchange, Asking, Mailed, ZeroMeansAnswered
  <2>5. ASSUME pc = "check" PROVE Composed' /\ Waiting' /\ Answered'
    <3>1. \A a \in Addr : /\ mem'[a] = "end" <=> mem[a] = "end"
                          /\ mem[a] # "request" => mem'[a] = mem[a]
      BY <2>1
    <3>2. Composed'
      <4>1. Composed /\ Size \in Nat /\ Size >= 3
            /\ \A k \in 1..Size : msg + Header + k - 1 \in Addr
        BY <2>5, AtCheck
      <4>2. \A k \in 1..Size - 1 : mem'[msg + Header + k - 1] # "end"
        <5>1. \A k \in 1..Size - 1 : k \in 1..Size
          BY <4>1
        <5> QED
          BY <3>1, <4>1, <5>1 DEF Composed
      <4>3. mem'[msg + Header + Size - 1] = "end"
        <5>1. Size \in 1..Size
          BY <4>1
        <5> QED
          BY <3>1, <4>1, <5>1 DEF Composed
      <4>4. MessageAt(msg', values') \subseteq Addr
        BY <1>1, <4>1 DEF Composed
      <4> QED
        BY <1>1, <4>2, <4>3, <4>4, SameTags DEF Composed
    <3>3. Code' = "REQUEST"
      <4>1. mem[CodeAt(msg)] = "REQUEST" /\ CodeAt(msg) \in Addr
        BY <1>1, <1>3, <2>5, AtCheck DEF Waiting, Code
      <4> QED
        BY <1>1, <3>1, <4>1 DEF Code, CodeAt
    <3>4. Holds({"answer"})'
      <4>1. ASSUME NEW i \in 1..Len(tags), NEW j \in 1..get_value_buffer_len(tags[i])
            PROVE  mem'[ValueAt(msg, tags, i, j)] = "answer"
        <5>1. PICK a : a = ValueAt(msg, tags, i, j)
          OBVIOUS
        <5>2. PICK k \in 3..Size - 1 : a = msg + Header + k - 1
          BY <2>5, <5>1, AtCheck
        <5>3. msg \in Nat /\ Header \in Nat /\ Size \in Nat /\ k \in 1..Size
          BY <2>5, AtCheck
        <5>4. a \in Addr /\ a \in MailWords(mail)
          <6>1. a \in Addr
            BY <2>5, <5>2, <5>3, AtCheck
          <6>2. MailWords(mail) = msg + Header .. msg + Header + Size - 1
            BY <1>3, <2>5, MailIs
          <6>3. a \in msg + Header .. msg + Header + Size - 1
            BY <5>2, <5>3
          <6> QED
            BY <6>1, <6>2, <6>3
        <5>5. mem[a] \in {"request", "answer"}
          BY <1>1, <1>3, <2>5, <5>1 DEF Waiting, Holds
        <5> QED
          BY <2>1, <5>1, <5>4, <5>5
      <4> QED
        BY <1>1, <4>1, SameTags DEF Holds
    <3>5. Holds({"request", "answer"})'
      BY <3>4 DEF Holds
    <3> QED
      BY <1>1, <1>3, <2>5, <3>2, <3>3, <3>4, <3>5 DEF Waiting, Answered
  <2>6. Exchange'
    BY <1>4, <2>1, <2>4, <2>5 DEF Exchange
  <2>7. InTime'
    BY <1>1, <2>1, SameAsks DEF AllIInv, InTime, MessageHasAPlace
  <2> QED
    BY <1>2, <2>3, <2>6, <2>7 DEF AllIInv
<1>6. CASE MailWords(mail) \cap Occupied # {}
  <2>1. pc' = "wild" /\ mem' = mem /\ gpu' = gpu
    BY <1>6 DEF GpuFills
  <2>2. pc # "check"
    BY <1>3, <1>6, NobodyElse
  <2>3. TypeOK'
    BY <1>1, <2>1 DEF AllIInv, TypeOK
  <2>4. Exchange'
    BY <1>1, <2>1 DEF AllIInv, Exchange, Asking, Mailed, ZeroMeansAnswered
  <2>5. ~prompt
    BY <1>1, <2>2 DEF AllIInv, InTime
  <2>6. InTime'
    BY <1>1, <2>1, <2>5 DEF InTime, MessageHasAPlace
  <2> QED
    BY <1>2, <2>3, <2>4, <2>6 DEF AllIInv
<1> QED
  BY <1>5, <1>6

LEMMA AnswersAll ==
  ASSUME AllIInv, GpuAnswers
  PROVE  AllIInv'
<1>1. PICK code \in {"RESPONSE_SUCCESS", "RESPONSE_ERROR"} :
        /\ mem' = [mem EXCEPT ![CodeAt(mail)] = code]
        /\ code = "RESPONSE_SUCCESS" => gpu = "answered"
  BY DEF GpuAnswers
<1>2. /\ pc # "wild" /\ mail # Nil /\ mail' = Nil /\ gpu' = "idle"
      /\ UNCHANGED <<prompt, program, call, values, msg, seg, result, main_pcb, full, pc>>
      /\ HeapTypeOK'
  BY DEF GpuAnswers, heapVars, cpuVars, AllIInv, MailIInv, HeapTypeOK
<1>3. MailIInv'
  BY MailStep DEF AllIInv, Next, Gpu
<1>4. mem \in [Addr -> Words] /\ mem' \in [Addr -> Words]
  BY <1>1 DEF AllIInv, TypeOK, Words, Codes
<1>5. TypeOK'
  BY <1>2, <1>4 DEF AllIInv, TypeOK
<1>6. Asking' /\ Mailed' /\ ZeroMeansAnswered'
  BY <1>2, SameTags DEF AllIInv, Exchange, Asking, Mailed, ZeroMeansAnswered
<1>7. pc # "send"
  BY <1>2 DEF AllIInv, Exchange, Mailed, MailIInv
<1>8. ASSUME pc = "check" PROVE Composed' /\ Waiting' /\ Answered'
  <2>1. mail = msg /\ Code = "REQUEST" /\ (gpu = "answered" => Holds({"answer"}))
    BY <1>2, <1>8, AtCheck DEF Waiting
  <2>2. /\ msg \in Nat /\ Header \in Nat \ {0} /\ Size \in Nat /\ Size >= 3
        /\ CodeAt(msg) = msg + Header + 2 - 1 /\ CodeAt(msg) \in Addr /\ Composed
        /\ \A k \in 1..Size : msg + Header + k - 1 \in Addr
    BY <1>8, AtCheck
  <2>3. mem'[CodeAt(msg)] = code /\ \A a \in Addr \ {CodeAt(msg)} : mem'[a] = mem[a]
    BY <1>1, <1>4, <2>1, <2>2
  <2>4. Composed'
    <3>1. \A k \in 1..Size - 1 : mem'[msg + Header + k - 1] # "end"
      <4>1. \A k \in 1..Size - 1 : k \in 1..Size
        BY <2>2
      <4>2. \A k \in 1..Size - 1 : mem[msg + Header + k - 1] # "end"
        BY <2>2 DEF Composed
      <4> QED
        BY <2>2, <2>3, <4>1, <4>2
    <3>2. mem'[msg + Header + Size - 1] = "end"
      <4>1. Size \in 1..Size /\ msg + Header + Size - 1 # CodeAt(msg)
        BY <2>2
      <4> QED
        BY <2>2, <2>3, <4>1 DEF Composed
    <3>3. MessageAt(msg', values') \subseteq Addr
      BY <1>2, <2>2 DEF Composed
    <3> QED
      BY <1>2, <3>1, <3>2, <3>3, SameTags DEF Composed
  <2>5. Code' = code
    BY <1>2, <2>3 DEF Code, CodeAt
  <2>6. code = "RESPONSE_SUCCESS" => Holds({"answer"})'
    <3> SUFFICES ASSUME Holds({"answer"}) PROVE Holds({"answer"})'
      BY <1>1, <2>1
    <3>1. ASSUME NEW i \in 1..Len(tags), NEW j \in 1..get_value_buffer_len(tags[i])
          PROVE  mem'[ValueAt(msg, tags, i, j)] = "answer"
      <4>1. PICK a : a = ValueAt(msg, tags, i, j)
        OBVIOUS
      <4>2. PICK k \in 3..Size - 1 : a = msg + Header + k - 1
        BY <1>8, <4>1, AtCheck
      <4>3. k \in 1..Size /\ msg + Header + k - 1 # CodeAt(msg)
        BY <2>2
      <4>4. mem[a] = "answer"
        BY <4>1 DEF Holds
      <4> QED
        BY <2>2, <2>3, <4>1, <4>2, <4>3, <4>4
    <3> QED
      BY <1>2, <3>1, SameTags DEF Holds
  <2> QED
    BY <1>2, <2>4, <2>5, <2>6 DEF Waiting, Answered
<1>9. Exchange'
  BY <1>2, <1>6, <1>7, <1>8 DEF Exchange
<1>10. InTime'
  BY <1>2, SameAsks DEF AllIInv, InTime, MessageHasAPlace
<1> QED
  BY <1>3, <1>5, <1>9, <1>10 DEF AllIInv

\* The mailbox empties, or nothing happens.
LEMMA RestAll ==
  ASSUME AllIInv, GpuDrains \/ UNCHANGED vars
  PROVE  AllIInv'
<1>1. /\ full' \in BOOLEAN
      /\ UNCHANGED <<hnext, hprev, is_allocated, segment_size>>
      /\ UNCHANGED <<prompt, program, call, mem, values, msg, seg, result, mail, main_pcb, pc, gpu>>
  BY DEF GpuDrains, vars, heapVars, cpuVars, AllIInv, TypeOK
<1>2. MailIInv'
  BY MailStep DEF AllIInv, Next, Gpu
<1>3. TypeOK'
  BY <1>1 DEF AllIInv, TypeOK, HeapTypeOK
<1>4. Composed' = Composed /\ Code' = Code /\ \A S : Holds(S)' = Holds(S)
  BY <1>1, SameTags DEF Composed, Code, Holds, MessageAt, CodeAt
<1>5. Waiting' = Waiting /\ Answered' = Answered
  BY <1>1, SameTags DEF Waiting, Answered, Code, CodeAt, Holds
<1>6. Asking' /\ Mailed' /\ ZeroMeansAnswered'
  BY <1>1, SameTags DEF AllIInv, Exchange, Asking, Mailed, ZeroMeansAnswered
<1>7. Exchange'
  <2>1. pc = "send" => Holds({"request"})'
    BY <1>1, SameTags DEF AllIInv, Exchange, Holds
  <2> QED
    BY <1>1, <1>4, <1>5, <1>6, <2>1 DEF AllIInv, Exchange
<1>8. InTime'
  BY <1>1, SameAsks DEF AllIInv, InTime, MessageHasAPlace
<1> QED
  BY <1>2, <1>3, <1>7, <1>8 DEF AllIInv

LEMMA StepAll ==
  ASSUME AllIInv, [Next]_vars
  PROVE  AllIInv'
BY ScanAll, SplitAll, ReturnAll, FailsAll, ComposeAll, SendAll, AnswerAll, NextArray,
   FillsAll, AnswersAll, RestAll DEF Next, Cpu, Gpu

----------------------------------------------------------------------------
(* The theorems. *)

\* For any arrays of tags, a heap of any size and a GPU of any speed the state stays
\* well typed: what is copied back into the caller's values are words of the message.
THEOREM TypeCorrect == Spec => []TypeOK
<1>1. AllIInv => TypeOK
  BY DEF AllIInv
<1> QED
  BY <1>1, InitAll, StepAll, PTL DEF Spec

\* Where the heap has room for what the program asks for, every message, its end tag
\* included, fits into the block send_messages was given, whatever its tags are.
THEOREM MessagesFit == Spec => []MessageFits
<1>1. AllIInv => MessageFits
  <2> SUFFICES ASSUME AllIInv, HasRoom, pc \in {"compose", "send", "check"}
               PROVE  /\ Len(Message(values)) <= bufsize(tags)
                      /\ MessageAt(msg, values) \subseteq Addr
    BY DEF MessageFits
  <2>1. Sending /\ values = Requested(tags) /\ MailIInv
    BY DEF AllIInv, Exchange, Asking, MailIInv
  <2> QED
    BY <2>1, Places, MessageRoom
<1> QED
  BY <1>1, InitAll, StepAll, PTL DEF Spec

\* However late the GPU is: a result of 0 means that every value is its answer.
THEOREM ZeroIsAnswered == Spec => []ZeroMeansAnswered
<1>1. AllIInv => ZeroMeansAnswered
  BY DEF AllIInv, Exchange
<1> QED
  BY <1>1, InitAll, StepAll, PTL DEF Spec

\* With room in the heap and a GPU that is in time, no message lies at NULL or past
\* the end of the heap, and no answer meets anything but the message.
THEOREM MessagesPlaced == Spec => []MessageHasAPlace
<1>1. AllIInv => MessageHasAPlace
  BY DEF AllIInv, InTime
<1> QED
  BY <1>1, InitAll, StepAll, PTL DEF Spec

\* On any machine kfree, called by send_messages, is given the header of the last
\* segment: its loops stop at once, and the memory of the message is lost.
THEOREM NothingCoalesces == Spec => []KfreeStopsAtOnce
<1>1. MailIInv /\ [Next]_vars => MailIInv'
  BY CpuStep, GpuStep DEF Next
<1>2. MailIInv => KfreeStopsAtOnce
  <2> SUFFICES ASSUME MailIInv, pc = "check"
               PROVE  ~free_on_left(msg) /\ ~free_on_right(msg) /\ ~is_allocated[msg]
    BY DEF KfreeStopsAtOnce
  <2>1. PICK e \in Addr : Chain(e) /\ InHand(e)
    BY DEF MailIInv
  <2>2. msg = e /\ Held = {a \in Addr : is_allocated[a]}
    BY <2>1 DEF InHand, Held
  <2> QED
    BY <2>1, <2>2 DEF Chain, free_on_left, free_on_right
<1> QED
  BY <1>1, <1>2, InitMail, PTL DEF Spec

=============================================================================
