-------------------------- MODULE PageAllocProofs --------------------------
(***************************************************************************)
(* Proofs about PageAlloc for any memory layout and any number of threads: *)
(* no interleaving of allocations and frees hands a page out twice, loses  *)
(* one, or lets a thread read what another has left in a page.             *)
(***************************************************************************)
EXTENDS PageAlloc, ListOpsProofs

\* The page that t is taking or giving back, as a set.
InHand(t) == IF Taking(t) \/ Returning(t) THEN {page[t]} ELSE {}

\* free_pages is a sequence of pages: those that it owns.
FreeListHolds == \E q \in [1..size[Free] -> Node] : Represents(Free, q)

\* A page that can be allocated is on the list, marked free and nobody's, or it
\* is off the list and one thread's.
OneOwner ==
  \A p \in UserPages :
    \/ container[p] = Free /\ Owners(p) = {} /\ ~allocated[p]
    \/ container[p] = Null /\ \E t \in Thread : Owners(p) = {t}

\* What a thread can have: pages that can be allocated and, for a caller who
\* does not look, the page at 0.
Obtainable == UserPages \cup (IF checks THEN {} ELSE {ZeroPage})

\* The list and the threads have nothing else, and what is in a thread's hand
\* is not yet, or no longer, among its pages.
Reserved ==
  /\ \A p \in Pages \ UserPages : container[p] = Null
  /\ \A t \in Thread :
       /\ held[t] \cup InHand(t) \subseteq Obtainable
       /\ Taking(t) => page[t] \in UserPages
       /\ held[t] \cap InHand(t) = {}

\* A page is marked allocated before it is handed out, and free before it is
\* back on the list.
Marked ==
  \A t \in Thread :
    /\ \A p \in held[t] \ {ZeroPage} : allocated[p]
    /\ pc[t] = "zero" => allocated[page[t]]
    /\ Returning(t) /\ page[t] # ZeroPage => ~allocated[page[t]]

PageIInv ==
  /\ TypeOK /\ NoOldData
  /\ ~wild => FreeListHolds /\ OneOwner /\ Reserved /\ Marked

----------------------------------------------------------------------------
(* The layout. *)

\* The division of a number by another, as the provers know it.
LEMMA Division ==
  ASSUME NEW a \in Nat, NEW n \in Nat \ {0}
  PROVE  /\ a \div n \in Nat /\ a % n \in 0..n - 1
         /\ a = n * (a \div n) + (a % n)
OBVIOUS

\* A number that is not 0 is rounded up to one page at least.
LEMMA RoundUp ==
  ASSUME NEW a \in Nat \ {0}
  PROVE  round_up(a) \in Nat /\ round_up(a) >= PageSize
<1> USE PageAssumption
<1> DEFINE k == a \div PageSize
           r == a % PageSize
<1>1. k \in Nat /\ r \in 0..PageSize - 1 /\ a = PageSize * k + r
  BY Division
<1>2. round_up(a) = a + (IF r = 0 THEN 0 ELSE PageSize - r)
  BY DEF round_up
<1> HIDE DEF k, r
<1>3. CASE k = 0
  BY <1>1, <1>2, <1>3
<1>4. CASE k # 0
  <2>1. PageSize * k >= PageSize
    BY <1>1, <1>4
  <2>2. PageSize * k \in Nat
    BY <1>1
  <2> QED
    BY <1>1, <1>2, <2>1, <2>2
<1> QED
  BY <1>3, <1>4

LEMMA Layout ==
  /\ num_pages \in Nat /\ heap_end \in Nat \ {0}
  /\ Node = Pages /\ List = {Free} /\ Pages \subseteq Ref
  /\ ZeroPage \in Pages \ UserPages
  /\ UserPages = heap_end..num_pages - 1
<1> USE PageAssumption
<1>1. num_pages \in Nat
  BY Division DEF num_pages
<1> DEFINE a == Base + EndAddr + StackSize + PageStruct * num_pages
<1>2. a \in Nat \ {0}
  <2>1. PageStruct * num_pages \in Nat
    BY <1>1
  <2> QED
    BY <2>1
<1>3. page_array_end \in Nat /\ page_array_end >= PageSize
  BY <1>2, RoundUp DEF page_array_end
<1>4. kernel_pages \in Nat \ {0}
  <2> DEFINE k == page_array_end \div PageSize
             r == page_array_end % PageSize
  <2>1. k \in Nat /\ r \in 0..PageSize - 1 /\ page_array_end = PageSize * k + r
    BY <1>3, Division
  <2>2. k # 0
    <3> HIDE DEF k, r
    <3> QED
      BY <1>3, <2>1
  <2> QED
    BY <2>1, <2>2 DEF kernel_pages
<1>5. HeapSize \div PageSize \in Nat
  BY Division
<1>6. heap_end \in Nat \ {0}
  BY <1>4, <1>5 DEF heap_end
<1> QED
  BY <1>1, <1>6 DEF Pages, UserPages, ZeroPage, Ref

LEMMA PagesFit == CountFits
<1>1. IsFiniteSet(Pages) /\ Cardinality(Pages) = num_pages
  <2>1. 0 \in Int /\ num_pages - 1 \in Int /\ num_pages > 0
    BY Layout, PageAssumption
  <2>2. IsFiniteSet(0..num_pages - 1)
        /\ Cardinality(0..num_pages - 1)
             = IF 0 > num_pages - 1 THEN 0 ELSE num_pages - 1 - 0 + 1
    BY <2>1, FS_Interval, Zenon
  <2> DEFINE N == Cardinality(0..num_pages - 1)
  <2>3. N = IF 0 > num_pages - 1 THEN 0 ELSE num_pages - 1 - 0 + 1
    BY <2>2
  <2> HIDE DEF N
  <2>4. N = num_pages
    BY <2>1, <2>3, Layout
  <2> QED
    BY <2>2, <2>4 DEF N, Pages
<1> QED
  BY <1>1, Layout, PageAssumption DEF CountFits

----------------------------------------------------------------------------
(* mem_init leaves every page that can be allocated on the list. *)

LEMMA UserCount ==
  /\ Cardinality(UserPages) \in 0..MaxWord
  /\ Cardinality(UserPages) =
       IF heap_end >= num_pages THEN 0 ELSE num_pages - heap_end
<1> DEFINE N == Cardinality(heap_end..num_pages - 1)
<1>1. num_pages \in Int /\ heap_end \in Int /\ num_pages - 1 \in Int
  BY Layout
<1>2. N = IF heap_end > num_pages - 1 THEN 0 ELSE num_pages - 1 - heap_end + 1
  BY <1>1, FS_Interval, Zenon
<1>3. N = Cardinality(UserPages)
  BY Layout
<1> HIDE DEF N
<1>4. N = IF heap_end >= num_pages THEN 0 ELSE num_pages - heap_end
  BY <1>1, <1>2
<1> QED
  BY <1>3, <1>4, Layout, PageAssumption, ListAssumption

LEMMA InitLists == Init => ListTypeOK /\ FreeListHolds
<1> SUFFICES ASSUME Init PROVE ListTypeOK /\ FreeListHolds
  OBVIOUS
<1> USE Layout, PageAssumption, ListAssumption
<1> DEFINE n == IF heap_end >= num_pages THEN 0 ELSE num_pages - heap_end
           q == [i \in 1..n |-> heap_end + i - 1]
<1>1. n \in Nat /\ size = [l \in List |-> n] /\ n \in 0..MaxWord
  BY UserCount DEF Init
<1>2. UserPages = {} <=> n = 0
  OBVIOUS
<1>3. /\ FirstUser = IF n = 0 THEN Null ELSE heap_end
      /\ LastUser = IF n = 0 THEN Null ELSE num_pages - 1
      /\ head[Free] = FirstUser /\ tail[Free] = LastUser
  BY <1>2 DEF FirstUser, LastUser, Init
<1>4. Null \in Ref /\ Junk \in Ref /\ FirstUser \in Ref /\ LastUser \in Ref
  <2>1. n # 0 => heap_end \in Pages /\ num_pages - 1 \in Pages
    BY DEF Pages
  <2> QED
    BY <1>3, <2>1 DEF Ref
<1>5. \A p \in UserPages : /\ p \in Pages
                           /\ next[p] = IF p = num_pages - 1 THEN Null ELSE p + 1
                           /\ container[p] = Free
  <2> SUFFICES ASSUME NEW p \in UserPages
               PROVE  /\ p \in Pages /\ p \in Ref /\ p # Null
                      /\ next[p] = IF p = num_pages - 1 THEN Null ELSE p + 1
                      /\ container[p] = Free
    OBVIOUS
  <2>1. p \in Pages /\ p \in Ref /\ p # Null
    BY DEF UserPages, Ref
  <2>2. next[p] = IF p \in UserPages \ {LastUser} THEN p + 1
                  ELSE IF p = Junk THEN Junk ELSE Null
    BY <2>1 DEF Init
  <2>3. container[p] = Free
    BY <2>1 DEF Init
  <2> QED
    BY <1>2, <1>3, <2>1, <2>2, <2>3
<1>6. \A p \in Pages \ UserPages : container[p] = Null
  <2> SUFFICES ASSUME NEW p \in Pages \ UserPages PROVE container[p] = Null
    OBVIOUS
  <2>1. p \in Ref /\ p # Null /\ p # Junk
    BY DEF Ref
  <2> QED
    BY <2>1 DEF Init
<1>7. ListTypeOK
  <2>1. head \in [List -> Ref] /\ tail \in [List -> Ref] /\ size \in [List -> 0..MaxWord]
    BY <1>1, <1>4 DEF Init
  <2>2. next \in [Ref -> Ref]
    <3> SUFFICES ASSUME NEW r \in Ref PROVE next[r] \in Ref
      BY DEF Init
    <3>1. CASE r \in UserPages
      BY <1>4, <1>5, <3>1 DEF Ref
    <3>2. CASE r \notin UserPages
      <4>1. next[r] = IF r = Null THEN (IF UserPages = {} THEN Junk ELSE FirstUser)
                      ELSE IF r = Junk THEN Junk ELSE Null
        BY <3>2 DEF Init
      <4> QED
        BY <1>4, <4>1
    <3> QED
      BY <3>1, <3>2
  <2>3. prev \in [Ref -> Ref]
    <3> SUFFICES ASSUME NEW r \in Ref PROVE prev[r] \in Ref
      BY DEF Init
    <3>1. CASE r \in UserPages \ {FirstUser}
      <4>1. prev[r] = r - 1
        <5>1. r \in Pages /\ r \notin {Null, Junk}
          BY <3>1 DEF UserPages
        <5> QED
          BY <3>1, <5>1 DEF Init
      <4>2. r # heap_end
        BY <1>2, <1>3, <3>1
      <4>3. r \in heap_end..num_pages - 1
        BY <3>1
      <4>4. r - 1 \in Pages
        BY <4>2, <4>3 DEF Pages
      <4> QED
        BY <4>1, <4>4
    <3>2. CASE r \notin UserPages \ {FirstUser}
      <4>1. prev[r] = IF r \in {Null, Junk} THEN Junk ELSE Null
        BY <3>2 DEF Init
      <4> QED
        BY <1>4, <4>1
    <3> QED
      BY <3>1, <3>2
  <2>4. container \in [Ref -> Owner]
    <3> SUFFICES ASSUME NEW r \in Ref PROVE container[r] \in Owner
      BY DEF Init
    <3>1. container[r] \in {Free, Null, Junk}
      BY <1>5 DEF Init
    <3> QED
      BY <3>1 DEF Owner
  <2> QED
    BY <2>1, <2>2, <2>3, <2>4 DEF ListTypeOK
<1>8. q \in [1..size[Free] -> Node] /\ Len(q) = n /\ q \in Seq(Node)
  <2>1. \A i \in 1..n : heap_end + i - 1 \in Node
    BY DEF Pages
  <2>2. size[Free] = n
    BY <1>1
  <2>3. q \in [1..n -> Node]
    BY <2>1
  <2> HIDE DEF q, n
  <2>4. q \in Seq(Node) /\ Len(q) = n
    BY <1>1, <2>3
  <2> QED
    BY <2>2, <2>3, <2>4
<1>9. Represents(Free, q)
  <2>1. \A i \in 1..n : q[i] = heap_end + i - 1 /\ q[i] \in UserPages
    OBVIOUS
  <2>2. \A i, j \in 1..n : q[i] = q[j] => i = j
    BY <1>1
  <2>3. \A p \in Node : container[p] = Free => \E i \in 1..n : q[i] = p
    <3> SUFFICES ASSUME NEW p \in Node, container[p] = Free
                 PROVE  \E i \in 1..n : q[i] = p
      OBVIOUS
    <3>1. p \in heap_end..num_pages - 1
      BY <1>6 DEF Free
    <3>2. p - heap_end + 1 \in 1..n
      BY <3>1
    <3>3. q[p - heap_end + 1] = p
      BY <2>1, <3>1, <3>2
    <3> QED
      BY <3>2, <3>3
  <2>4. \A i \in 1..n - 1 : next[q[i]] = q[i + 1]
    BY <1>1, <1>5, <2>1
  <2>5. IF q = <<>> THEN head[Free] = Null
        ELSE head[Free] = q[1] /\ tail[Free] = q[n] /\ next[q[n]] = Null
    <3>1. CASE n = 0
      BY <1>3, <1>8, <3>1
    <3>2. CASE n # 0
      <4>1. 1 \in 1..n /\ n \in 1..n /\ q # <<>>
        BY <1>1, <1>8, <3>2
      <4>2. q[1] = heap_end /\ q[n] = num_pages - 1 /\ q[n] \in UserPages
        BY <1>1, <2>1, <3>2, <4>1
      <4> QED
        BY <1>3, <1>5, <3>2, <4>1, <4>2
    <3> QED
      BY <3>1, <3>2
  <2> HIDE DEF q, n
  <2> QED
    BY <1>1, <1>5, <1>8, <2>1, <2>2, <2>3, <2>4, <2>5 DEF Represents
<1> QED
  BY <1>7, <1>8, <1>9 DEF FreeListHolds

LEMMA InitHolds == Init => PageIInv
<1> SUFFICES ASSUME Init PROVE PageIInv
  OBVIOUS
<1> USE Layout, ListAssumption, PageAssumption
<1>1. ListTypeOK /\ FreeListHolds
  BY InitLists
<1>2. TypeOK
  <2>1. /\ allocated \in [Pages -> BOOLEAN]
        /\ kernel_page \in [Pages -> BOOLEAN]
        /\ kernel_heap_page \in [Pages -> BOOLEAN]
    BY DEF Init
  <2>2. /\ lock \in BOOLEAN /\ checks \in BOOLEAN /\ wild \in BOOLEAN
        /\ content \in [Pages -> Thread \cup {"zero", "boot"}]
        /\ held \in [Thread -> SUBSET Pages]
        /\ page \in [Thread -> Ref]
    BY DEF Init, Ref
  <2> QED
    BY <1>1, <2>1, <2>2 DEF TypeOK, Init
<1>3. NoOldData /\ Reserved /\ Marked
  <2>1. \A p \in Pages \ UserPages : container[p] = Null
    <3> SUFFICES ASSUME NEW p \in Pages \ UserPages PROVE container[p] = Null
      OBVIOUS
    <3>1. p \in Ref /\ p # Null /\ p # Junk
      BY DEF Ref
    <3> QED
      BY <3>1 DEF Init
  <2> QED
    BY <2>1 DEF Init, NoOldData, Reserved, Marked, InHand, Taking, Returning
<1>4. OneOwner
  BY DEF Init, OneOwner, Owners, Taking, Returning, UserPages
<1> QED
  BY <1>1, <1>2, <1>3, <1>4 DEF PageIInv

----------------------------------------------------------------------------
(* Every step keeps the invariant. *)

PoolInv == FreeListHolds /\ OneOwner /\ Reserved /\ Marked

LEMMA OwnersAre ==
  \A p : Owners(p) = {t \in Thread : p \in held[t] \cup InHand(t)}
BY DEF Owners, InHand

\* A thread that has page p is its one owner, and p is not on the list.
LEMMA Owner1 ==
  ASSUME PoolInv, NEW t \in Thread, NEW p \in held[t] \cup InHand(t),
         p # ZeroPage \/ checks
  PROVE  p \in UserPages /\ Owners(p) = {t} /\ container[p] = Null
<1>1. p \in UserPages
  BY DEF PoolInv, Reserved, Obtainable
<1>2. t \in Owners(p)
  BY OwnersAre
<1> QED
  BY <1>1, <1>2 DEF PoolInv, OneOwner

\* As long as each thread has the same pages, each page has the same owner.
LEMMA SameOwners ==
  ASSUME OneOwner, UNCHANGED container,
         \A t \in Thread : \A p \in UserPages :
           p \in held'[t] \cup InHand(t)' <=> p \in held[t] \cup InHand(t),
         \A p \in UserPages : container[p] = Free => allocated'[p] = allocated[p]
  PROVE  OneOwner'
<1>1. \A p \in UserPages : Owners(p)' = Owners(p)
  <2>1. (\A p : Owners(p) = {t \in Thread : p \in held[t] \cup InHand(t)})'
    BY OwnersAre, PTL
  <2> QED
    BY <2>1, OwnersAre
<1> QED
  BY <1>1 DEF OneOwner

\* The steps that leave every page with whom it is.
LEMMA StillStep ==
  ASSUME PageIInv, ~wild, NEW t \in Thread,
         AllocFails(t) \/ AllocCheck(t) \/ AllocLock(t) \/ FreeLock(t) \/ Write(t)
  PROVE  PageIInv'
<1> USE Layout
<1>1. PoolInv /\ TypeOK /\ NoOldData
  BY DEF PageIInv, PoolInv
<1>2. UNCHANGED listVars /\ UNCHANGED flagVars /\ UNCHANGED <<page, checks, wild>>
  BY DEF AllocFails, AllocCheck, AllocLock, FreeLock, Write, Step
<1>3. TypeOK'
  <2>1. ListTypeOK'
    BY <1>1, <1>2 DEF TypeOK, ListTypeOK, listVars
  <2>2. lock' \in BOOLEAN
    BY <1>1 DEF AllocFails, AllocCheck, AllocLock, FreeLock, Write, spin_lock, TypeOK
  <2>3. held' \in [Thread -> SUBSET Pages]
    BY <1>1 DEF AllocFails, AllocCheck, AllocLock, FreeLock, Write, TypeOK
  <2>4. content' \in [Pages -> Thread \cup {"zero", "boot"}]
    BY <1>1 DEF AllocFails, AllocCheck, AllocLock, FreeLock, Write, TypeOK
  <2>5. pc' \in [Thread -> {"idle", "lock", "pop", "flag", "zero", "lock_free", "append"}]
    BY <1>1 DEF AllocFails, AllocCheck, AllocLock, FreeLock, Write, Step, TypeOK
  <2> QED
    BY <1>1, <1>2, <2>1, <2>2, <2>3, <2>4, <2>5 DEF TypeOK, flagVars
<1>4. \A u \in Thread : /\ InHand(u)' = InHand(u) /\ (Taking(u)' <=> Taking(u))
                        /\ Returning(u)' <=> Returning(u)
  BY <1>1, <1>2
  DEF AllocFails, AllocCheck, AllocLock, FreeLock, Write, Step, InHand, Taking,
      Returning, TypeOK
<1>5. \A u \in Thread : \/ held'[u] = held[u]
                        \/ ~checks /\ held'[u] = held[u] \cup {ZeroPage} /\ InHand(u) = {}
  BY <1>1
  DEF AllocFails, AllocCheck, AllocLock, FreeLock, Write, Step, InHand, Taking,
      Returning, TypeOK
<1>6. FreeListHolds'
  BY <1>1, <1>2 DEF PoolInv, FreeListHolds, Represents, listVars
<1>7. OneOwner'
  <2>1. \A u \in Thread : \A p \in UserPages :
          p \in held'[u] \cup InHand(u)' <=> p \in held[u] \cup InHand(u)
    BY <1>4, <1>5
  <2> QED
    BY <1>1, <1>2, <2>1, SameOwners DEF PoolInv, listVars, flagVars
<1>8. Reserved'
  BY <1>1, <1>2, <1>4, <1>5 DEF PoolInv, Reserved, Obtainable, listVars
<1>9. Marked'
  <2>1. \A u \in Thread : pc'[u] = "zero" <=> pc[u] = "zero"
    BY <1>1 DEF AllocFails, AllocCheck, AllocLock, FreeLock, Write, Step, TypeOK
  <2> QED
    BY <1>1, <1>2, <1>4, <1>5, <2>1 DEF PoolInv, Marked, flagVars
<1>10. NoOldData'
  <2>1. CASE Write(t)
    <3>1. PICK p \in held[t] \ {ZeroPage} : content' = [content EXCEPT ![p] = t]
      BY <2>1 DEF Write
    <3>2. Owners(p) = {t}
      BY <1>1, <3>1, Owner1
    <3>3. \A u \in Thread \ {t} : p \notin held[u]
      BY <3>2 DEF Owners
    <3>4. held' = held
      BY <2>1 DEF Write
    <3> QED
      BY <1>1, <3>1, <3>3, <3>4 DEF NoOldData, TypeOK
  <2>2. CASE ~ Write(t)
    <3>1. content' = content
      BY <2>2 DEF AllocFails, AllocCheck, AllocLock, FreeLock
    <3> QED
      BY <1>1, <1>5, <3>1 DEF NoOldData
  <2> QED
    BY <2>1, <2>2
<1> QED
  BY <1>3, <1>6, <1>7, <1>8, <1>9, <1>10 DEF PageIInv

\* alloc_page takes the page at the head, or runs wild.
LEMMA PopStep ==
  ASSUME PageIInv, ~wild, NEW t \in Thread, AllocPop(t)
  PROVE  PageIInv'
<1> USE Layout, ListAssumption
<1>1. PoolInv /\ TypeOK /\ NoOldData
  BY DEF PageIInv, PoolInv
<1>2. TypeOK'
  <2>1. ListTypeOK' /\ head[Free] \in Ref
    BY <1>1, PopType DEF AllocPop, TypeOK, ListTypeOK
  <2>2. /\ pc' \in [Thread -> {"idle", "lock", "pop", "flag", "zero", "lock_free", "append"}]
        /\ page' \in [Thread -> Ref]
    BY <1>1, <2>1 DEF AllocPop, Step, TypeOK
  <2>3. lock' \in BOOLEAN /\ wild' \in BOOLEAN
    BY DEF AllocPop, spin_unlock
  <2>4. UNCHANGED <<flagVars, content, held, checks>>
    BY DEF AllocPop, Step
  <2>5. /\ allocated' \in [Pages -> BOOLEAN]
        /\ kernel_page' \in [Pages -> BOOLEAN]
        /\ kernel_heap_page' \in [Pages -> BOOLEAN]
    BY <1>1, <2>4 DEF flagVars, TypeOK
  <2>6. /\ content' \in [Pages -> Thread \cup {"zero", "boot"}]
        /\ held' \in [Thread -> SUBSET Pages] /\ checks' \in BOOLEAN
    BY <1>1, <2>4 DEF TypeOK
  <2> QED
    BY <2>1, <2>2, <2>3, <2>5, <2>6 DEF TypeOK
<1>3. NoOldData'
  BY <1>1 DEF AllocPop, NoOldData
<1>4. ASSUME ~wild' PROVE (FreeListHolds /\ OneOwner /\ Reserved /\ Marked)'
  <2>0. PICK p : p = head[Free]
    OBVIOUS
  <2>1. p \in Pages /\ pop_list(Free)
    BY <1>4, <2>0 DEF AllocPop
  <2>2. PICK q \in [1..size[Free] -> Node] : Represents(Free, q)
    BY <1>1 DEF PoolInv, FreeListHolds
  <2>3. size[Free] \in Nat /\ q \in Seq(Node)
    <3>1. size[Free] \in 0..MaxWord /\ MaxWord \in Nat
      BY <1>1 DEF TypeOK, ListTypeOK
    <3> QED
      BY <2>2, <3>1
  <2>4. size[Free] > 0
    <3>1. q # <<>>
      BY <2>0, <2>1, <2>2 DEF Represents
    <3> QED
      BY <2>2, <2>3, <3>1, EmptySeq DEF Represents
  <2>5. q # <<>> /\ p = q[1] /\ Represents(Free, Tail(q))'
    BY <1>1, <2>0, <2>1, <2>2, <2>3, <2>4, PopTakes, PagesFit DEF TypeOK
  <2>6. FreeListHolds'
    <3>1. Tail(q) \in Seq(Node) /\ size'[Free] = Len(Tail(q))
      BY <2>3, <2>5, HeadTailProperties DEF Represents
    <3>2. Tail(q) \in [1..size'[Free] -> Node]
      BY <3>1, LenProperties
    <3> QED
      BY <2>5, <3>2 DEF FreeListHolds
  <2>7. container[p] = Free
    BY <2>3, <2>4, <2>5, <2>2 DEF Represents
  <2>8. p \in UserPages /\ Owners(p) = {} /\ ~allocated[p]
    BY <1>1, <2>1, <2>7 DEF PoolInv, Reserved, OneOwner
  <2>9. \A r \in Pages : container'[r] = IF r = p THEN Null ELSE container[r]
    BY <1>1, <2>0, <2>1 DEF pop_list, TypeOK, ListTypeOK
  <2>10. InHand(t) = {} /\ InHand(t)' = {p} /\ Taking(t)' /\ pc'[t] = "flag" /\ page'[t] = p
    BY <1>1, <2>0 DEF AllocPop, Step, InHand, Taking, Returning, TypeOK
  <2>11. \A u \in Thread \ {t} : /\ InHand(u)' = InHand(u)
                                 /\ Taking(u)' <=> Taking(u)
                                 /\ Returning(u)' <=> Returning(u)
                                 /\ pc'[u] = pc[u] /\ page'[u] = page[u]
    BY <1>1 DEF AllocPop, Step, InHand, Taking, Returning, TypeOK
  <2>12. UNCHANGED <<flagVars, held, checks>>
    BY DEF AllocPop, Step
  <2>13. p \notin held[t]
    BY <2>8 DEF Owners
  <2>14. OneOwner'
    <3>1. \A r : Owners(r)' = {u \in Thread : r \in held'[u] \cup InHand(u)'}
      BY DEF Owners, InHand
    <3>2. \A u \in Thread : held'[u] = held[u]
      BY <2>12
    <3>3. \A r \in UserPages \ {p} : Owners(r)' = Owners(r)
      <4> SUFFICES ASSUME NEW r \in UserPages \ {p}, NEW u \in Thread
                   PROVE  r \in held'[u] \cup InHand(u)' <=> r \in held[u] \cup InHand(u)
        BY <3>1, OwnersAre
      <4> QED
        BY <2>10, <2>11, <3>2
    <3>4. Owners(p)' = {t}
      <4>1. \A u \in Thread : p \notin held[u] \cup InHand(u)
        BY <2>8, OwnersAre
      <4>2. \A u \in Thread : p \in held'[u] \cup InHand(u)' <=> u = t
        BY <2>10, <2>11, <3>2, <4>1
      <4>3. Owners(p)' \subseteq Thread /\ \A u \in Thread : u \in Owners(p)' <=> u = t
        BY <3>1, <4>2
      <4> QED
        BY <4>3
    <3> QED
      <4> SUFFICES ASSUME NEW r \in UserPages
                   PROVE  \/ container'[r] = Free /\ Owners(r)' = {} /\ ~allocated'[r]
                          \/ container'[r] = Null /\ \E u \in Thread : Owners(r)' = {u}
        BY DEF OneOwner
      <4>1. r \in Pages /\ allocated' = allocated
        BY <2>12 DEF UserPages, flagVars
      <4>2. CASE r = p
        <5>1. container'[r] = Null /\ Owners(r)' = {t}
          BY <2>9, <3>4, <4>1, <4>2
        <5> QED
          BY <5>1
      <4>3. CASE r # p
        <5>1. container'[r] = container[r] /\ Owners(r)' = Owners(r)
          BY <2>9, <3>3, <4>1, <4>3
        <5> QED
          BY <1>1, <4>1, <5>1 DEF PoolInv, OneOwner
      <4> QED
        BY <4>2, <4>3
  <2>15. Reserved'
    BY <1>1, <2>8, <2>9, <2>10, <2>11, <2>12, <2>13 DEF Reserved, Obtainable, PoolInv
  <2>16. Marked'
    <3>1. ~Returning(t)'
      BY <2>10 DEF Returning
    <3> QED
      BY <1>1, <2>10, <2>11, <2>12, <3>1 DEF Marked, PoolInv, flagVars
  <2> QED
    BY <2>6, <2>14, <2>15, <2>16
<1> QED
  BY <1>2, <1>3, <1>4 DEF PageIInv

\* alloc_page marks the page it took.
LEMMA FlagStep ==
  ASSUME PageIInv, ~wild, NEW t \in Thread, AllocFlag(t)
  PROVE  PageIInv'
<1> USE Layout
<1>1. PoolInv /\ TypeOK /\ NoOldData
  BY DEF PageIInv, PoolInv
<1>2. page[t] \in UserPages /\ page[t] \in InHand(t)
  BY <1>1 DEF AllocFlag, Step, PoolInv, Reserved, Taking, InHand
<1>3. TypeOK'
  <2>1. ListTypeOK'
    BY <1>1 DEF AllocFlag, TypeOK, ListTypeOK, listVars
  <2>2. pc' \in [Thread -> {"idle", "lock", "pop", "flag", "zero", "lock_free", "append"}]
    BY <1>1 DEF AllocFlag, Step, TypeOK
  <2>3. allocated' \in [Pages -> BOOLEAN] /\ kernel_page' \in [Pages -> BOOLEAN]
    BY <1>1 DEF AllocFlag, TypeOK
  <2> QED
    BY <1>1, <2>1, <2>2, <2>3 DEF AllocFlag, Step, TypeOK
<1>4. NoOldData'
  BY <1>1 DEF AllocFlag, NoOldData
<1>5. FreeListHolds'
  BY <1>1 DEF AllocFlag, PoolInv, FreeListHolds, Represents, listVars
<1>6. \A u \in Thread : /\ InHand(u)' = InHand(u)
                        /\ Taking(u)' <=> Taking(u)
                        /\ Returning(u)' <=> Returning(u)
  BY <1>1 DEF AllocFlag, Step, InHand, Taking, Returning, TypeOK
<1>7. \A p \in Pages : allocated'[p] = (p = page[t] \/ allocated[p])
  BY <1>1, <1>2 DEF AllocFlag, TypeOK
<1>8. container[page[t]] = Null
  BY <1>1, <1>2, Owner1
<1>9. UNCHANGED <<container, held, page, checks, wild>>
  BY DEF AllocFlag, Step, listVars
<1>10. OneOwner'
  <2>1. \A p \in UserPages : container[p] = Free => allocated'[p] = allocated[p]
    BY <1>1, <1>7, <1>8, ListAssumption DEF UserPages, TypeOK
  <2> QED
    BY <1>1, <1>6, <1>9, <2>1, SameOwners DEF PoolInv
<1>11. Reserved'
  BY <1>1, <1>6, <1>9 DEF PoolInv, Reserved, Obtainable
<1>12. Marked'
  <2>1. \A u \in Thread \ {t} : pc'[u] = pc[u]
    BY <1>1 DEF AllocFlag, Step, TypeOK
  <2>2. \A u \in Thread : Taking(u) => page[u] \in Pages
    BY <1>1 DEF PoolInv, Reserved, UserPages
  <2>3. held \in [Thread -> SUBSET Pages]
    BY <1>1 DEF TypeOK
  <2>4. ASSUME NEW u \in Thread, NEW p \in held'[u] \ {ZeroPage} PROVE allocated'[p]
    BY <1>1, <1>7, <1>9, <2>3, <2>4 DEF PoolInv, Marked
  <2>5. ASSUME NEW u \in Thread, pc'[u] = "zero" PROVE allocated'[page'[u]]
    <3>1. CASE u = t
      BY <1>2, <1>7, <1>9, <3>1 DEF UserPages
    <3>2. CASE u # t
      <4>1. pc[u] = "zero" /\ Taking(u)
        BY <2>1, <2>5, <3>2 DEF Taking
      <4> QED
        BY <1>1, <1>7, <1>9, <2>2, <4>1 DEF PoolInv, Marked
    <3> QED
      BY <3>1, <3>2
  <2>6. ASSUME NEW u \in Thread, Returning(u)', page'[u] # ZeroPage
        PROVE  ~allocated'[page'[u]]
    <3>1. Returning(u) /\ page[u] # ZeroPage /\ page'[u] = page[u] /\ page[u] \in InHand(u)
      BY <1>6, <1>9, <2>6 DEF InHand
    <3>2. Owners(page[u]) = {u} /\ page[u] \in Pages
      BY <1>1, <3>1, Owner1 DEF UserPages
    <3>3. Owners(page[t]) = {t}
      BY <1>1, <1>2, Owner1
    <3>4. u # t
      BY <3>1 DEF AllocFlag, Step, Returning
    <3>5. page[u] # page[t]
      BY <3>2, <3>3, <3>4
    <3> QED
      BY <1>1, <1>7, <3>1, <3>2, <3>5 DEF PoolInv, Marked
  <2> QED
    BY <2>4, <2>5, <2>6 DEF Marked
<1> QED
  BY <1>3, <1>4, <1>5, <1>10, <1>11, <1>12 DEF PageIInv

\* alloc_page clears the page and returns it.
LEMMA ZeroStep ==
  ASSUME PageIInv, ~wild, NEW t \in Thread, AllocZero(t)
  PROVE  PageIInv'
<1> USE Layout
<1>0. PICK p : p = page[t]
  OBVIOUS
<1>1. PoolInv /\ TypeOK /\ NoOldData
  BY DEF PageIInv, PoolInv
<1>2. /\ p \in UserPages /\ InHand(t) = {p} /\ p # ZeroPage /\ p \in Pages
      /\ allocated[p] /\ p \notin held[t]
  <2>1. pc[t] = "zero" /\ Taking(t)
    BY DEF AllocZero, Step, Taking
  <2> QED
    BY <1>0, <1>1, <2>1 DEF PoolInv, Reserved, Marked, InHand, UserPages
<1>3. Owners(p) = {t}
  BY <1>1, <1>2, Owner1
<1>4. /\ content' = [content EXCEPT ![p] = "zero"]
      /\ held' = [held EXCEPT ![t] = @ \cup {p}]
      /\ pc' = [pc EXCEPT ![t] = "idle"]
      /\ UNCHANGED <<listVars, flagVars, lock, page, checks, wild>>
  BY <1>0 DEF AllocZero, Step
<1>5. TypeOK'
  <2>1. ListTypeOK'
    BY <1>1, <1>4 DEF TypeOK, ListTypeOK, listVars
  <2>2. /\ pc' \in [Thread -> {"idle", "lock", "pop", "flag", "zero", "lock_free", "append"}]
        /\ content' \in [Pages -> Thread \cup {"zero", "boot"}]
    BY <1>1, <1>4 DEF TypeOK
  <2>3. held' \in [Thread -> SUBSET Pages]
    BY <1>1, <1>2, <1>4 DEF TypeOK
  <2> QED
    BY <1>1, <1>4, <2>1, <2>2, <2>3 DEF flagVars, TypeOK
<1>6. held'[t] = held[t] \cup {p} /\ \A u \in Thread \ {t} : held'[u] = held[u]
  BY <1>1, <1>4 DEF TypeOK
<1>7. InHand(t)' = {} /\ \A u \in Thread \ {t} : InHand(u)' = InHand(u)
  BY <1>1, <1>4 DEF InHand, Taking, Returning, TypeOK
<1>8. FreeListHolds'
  BY <1>1, <1>4 DEF PoolInv, FreeListHolds, Represents, listVars
<1>9. OneOwner'
  <2>1. \A u \in Thread : \A r \in UserPages :
          r \in held'[u] \cup InHand(u)' <=> r \in held[u] \cup InHand(u)
    BY <1>2, <1>6, <1>7
  <2> QED
    BY <1>1, <1>4, <2>1, SameOwners DEF PoolInv, listVars, flagVars
<1>10. Reserved'
  <2>1. \A u \in Thread \ {t} : Taking(u)' <=> Taking(u)
    BY <1>1, <1>4 DEF Taking, TypeOK
  <2>2. ~Taking(t)'
    BY <1>1, <1>4 DEF Taking, TypeOK
  <2> QED
    BY <1>1, <1>2, <1>4, <1>6, <1>7, <2>1, <2>2 DEF PoolInv, Reserved, Obtainable, listVars
<1>11. Marked'
  <2>1. \A u \in Thread : /\ pc'[u] = "zero" => pc[u] = "zero"
                          /\ Returning(u)' => Returning(u)
    BY <1>1, <1>4 DEF Returning, TypeOK
  <2> QED
    BY <1>1, <1>2, <1>4, <1>6, <2>1 DEF PoolInv, Marked, flagVars
<1>12. NoOldData'
  <2>1. \A u \in Thread \ {t} : p \notin held[u]
    BY <1>3 DEF Owners
  <2> SUFFICES ASSUME NEW u \in Thread, NEW r \in held'[u] \ {ZeroPage}
               PROVE  content'[r] \in {"zero", u}
    BY DEF NoOldData
  <2>2. held \in [Thread -> SUBSET Pages] /\ content \in [Pages -> Thread \cup {"zero", "boot"}]
    BY <1>1 DEF TypeOK
  <2>3. CASE r = p
    BY <1>2, <1>4, <2>2, <2>3
  <2>4. CASE r # p
    <3>1. r \in held[u] /\ content'[r] = content[r]
      BY <1>4, <1>6, <2>2, <2>4
    <3> QED
      BY <1>1, <3>1 DEF NoOldData
  <2> QED
    BY <2>3, <2>4
<1> QED
  BY <1>5, <1>8, <1>9, <1>10, <1>11, <1>12 DEF PageIInv

\* free_page looks the page up and marks it free.
LEMMA FreeFlagStep ==
  ASSUME PageIInv, ~wild, NEW t \in Thread, FreeFlag(t)
  PROVE  PageIInv'
<1> USE Layout
<1>1. PoolInv /\ TypeOK /\ NoOldData
  BY DEF PageIInv, PoolInv
<1>2. PICK p \in held[t] :
         /\ page' = [page EXCEPT ![t] = p]
         /\ held' = [held EXCEPT ![t] = @ \ {p}]
         /\ allocated' = [allocated EXCEPT ![p] = FALSE]
  BY DEF FreeFlag
<1>3. /\ pc[t] = "idle" /\ pc' = [pc EXCEPT ![t] = "lock_free"]
      /\ UNCHANGED <<listVars, kernel_page, kernel_heap_page, lock, content, checks, wild>>
  BY DEF FreeFlag, Step
<1>4. p \in Pages /\ p \in Ref
  BY <1>1 DEF TypeOK
<1>5. TypeOK'
  <2>1. ListTypeOK'
    BY <1>1, <1>3 DEF TypeOK, ListTypeOK, listVars
  <2>2. /\ pc' \in [Thread -> {"idle", "lock", "pop", "flag", "zero", "lock_free", "append"}]
        /\ page' \in [Thread -> Ref]
    BY <1>1, <1>2, <1>3, <1>4 DEF TypeOK
  <2>3. held' \in [Thread -> SUBSET Pages] /\ allocated' \in [Pages -> BOOLEAN]
    BY <1>1, <1>2 DEF TypeOK
  <2> QED
    BY <1>1, <1>3, <2>1, <2>2, <2>3 DEF TypeOK
<1>6. held'[t] = held[t] \ {p} /\ \A u \in Thread \ {t} : held'[u] = held[u]
  BY <1>1, <1>2 DEF TypeOK
<1>7. /\ InHand(t) = {} /\ InHand(t)' = {p} /\ ~Taking(t)'
      /\ \A u \in Thread \ {t} : /\ InHand(u)' = InHand(u)
                                 /\ Taking(u)' <=> Taking(u)
                                 /\ page'[u] = page[u]
  BY <1>1, <1>2, <1>3 DEF InHand, Taking, Returning, TypeOK
<1>8. FreeListHolds'
  BY <1>1, <1>3 DEF PoolInv, FreeListHolds, Represents, listVars
<1>9. OneOwner'
  <2>1. \A u \in Thread : \A r \in UserPages :
          r \in held'[u] \cup InHand(u)' <=> r \in held[u] \cup InHand(u)
    BY <1>6, <1>7
  <2>2. p # ZeroPage => container[p] = Null
    BY <1>1, Owner1
  <2>3. \A r \in UserPages : container[r] = Free => allocated'[r] = allocated[r]
    <3> SUFFICES ASSUME NEW r \in UserPages, container[r] = Free
                 PROVE  allocated'[r] = allocated[r]
      OBVIOUS
    <3>1. r # p /\ r \in Pages
      BY <2>2, ListAssumption DEF UserPages, Free
    <3> QED
      BY <1>1, <1>2, <3>1 DEF TypeOK
  <2> QED
    BY <1>1, <1>3, <2>1, <2>3, SameOwners DEF PoolInv, listVars
<1>10. Reserved'
  <2>1. p \in Obtainable
    BY <1>1 DEF PoolInv, Reserved
  <2>2. Obtainable' = Obtainable
    BY <1>3 DEF Obtainable
  <2> QED
    BY <1>1, <1>3, <1>6, <1>7, <2>1, <2>2 DEF PoolInv, Reserved, listVars
<1>11. Marked'
  <2>1. \A u \in Thread : pc'[u] = "zero" => u # t /\ pc[u] = "zero" /\ page'[u] = page[u]
    BY <1>1, <1>2, <1>3 DEF TypeOK
  <2>2. ASSUME NEW u \in Thread, NEW r \in held'[u] \ {ZeroPage} PROVE allocated'[r]
    <3>1. r \in held[u] /\ r # p /\ r \in Pages
      <4>1. r \in held[u] /\ r \in Pages
        BY <1>1, <1>6, <2>2 DEF TypeOK
      <4>2. CASE u = t
        BY <1>6, <2>2, <4>1, <4>2
      <4>3. CASE u # t /\ r = p
        <5>1. Owners(p) = {t}
          BY <1>1, <2>2, <4>3, Owner1
        <5> QED
          BY <4>1, <4>3, <5>1 DEF Owners
      <4> QED
        BY <4>1, <4>2, <4>3
    <3> QED
      BY <1>1, <1>2, <2>2, <3>1 DEF PoolInv, Marked, TypeOK
  <2>3. ASSUME NEW u \in Thread, pc'[u] = "zero" PROVE allocated'[page'[u]]
    <3>1. u # t /\ pc[u] = "zero" /\ page'[u] = page[u] /\ Taking(u)
      BY <2>1, <2>3 DEF Taking
    <3>2. page[u] \in UserPages /\ page[u] \in InHand(u) /\ page[u] \in Pages
      BY <1>1, <3>1 DEF PoolInv, Reserved, InHand, UserPages
    <3>3. Owners(page[u]) = {u}
      BY <1>1, <3>2, Owner1
    <3>4. page[u] # p
      BY <3>1, <3>3 DEF Owners
    <3> QED
      BY <1>1, <1>2, <3>1, <3>2, <3>4 DEF PoolInv, Marked, TypeOK
  <2>4. ASSUME NEW u \in Thread, Returning(u)', page'[u] # ZeroPage
        PROVE  ~allocated'[page'[u]]
    <3>1. CASE u = t
      BY <1>1, <1>2, <1>4, <3>1 DEF TypeOK
    <3>2. CASE u # t
      <4>1. Returning(u) /\ page[u] # ZeroPage /\ page'[u] = page[u] /\ page[u] \in InHand(u)
        BY <1>1, <1>3, <1>7, <2>4, <3>2 DEF Returning, InHand, TypeOK
      <4>2. page[u] \in Pages
        BY <1>1, <4>1, Owner1 DEF UserPages
      <4> QED
        BY <1>1, <1>2, <4>1, <4>2 DEF PoolInv, Marked, TypeOK
    <3> QED
      BY <3>1, <3>2
  <2> QED
    BY <2>2, <2>3, <2>4 DEF Marked
<1>12. NoOldData'
  BY <1>1, <1>3, <1>6 DEF NoOldData
<1> QED
  BY <1>5, <1>8, <1>9, <1>10, <1>11, <1>12 DEF PageIInv

\* free_page puts the page on the list; with the page at 0 the run is over.
LEMMA AppendStep ==
  ASSUME PageIInv, ~wild, NEW t \in Thread, FreeAppend(t)
  PROVE  PageIInv'
<1> USE Layout
<1>0. PICK p : p = page[t]
  OBVIOUS
<1>1. PoolInv /\ TypeOK /\ NoOldData
  BY DEF PageIInv, PoolInv
<1>2. /\ pc[t] = "append" /\ pc' = [pc EXCEPT ![t] = "idle"]
      /\ append_list(Free, p) /\ wild' = (p = ZeroPage)
      /\ lock' = TRUE
      /\ UNCHANGED <<flagVars, content, held, page, checks>>
  BY <1>0 DEF FreeAppend, Step, spin_unlock
<1>3. TypeOK'
  <2>1. ListTypeOK'
    <3>1. p \in Ref
      BY <1>0, <1>1 DEF TypeOK
    <3> QED
      BY <1>1, <1>2, <3>1, AppendType DEF TypeOK
  <2>2. pc' \in [Thread -> {"idle", "lock", "pop", "flag", "zero", "lock_free", "append"}]
    BY <1>1, <1>2 DEF TypeOK
  <2>3. lock' \in BOOLEAN /\ wild' \in BOOLEAN
    BY <1>2
  <2>4. /\ allocated' \in [Pages -> BOOLEAN]
        /\ kernel_page' \in [Pages -> BOOLEAN]
        /\ kernel_heap_page' \in [Pages -> BOOLEAN]
    BY <1>1, <1>2 DEF flagVars, TypeOK
  <2>5. /\ content' \in [Pages -> Thread \cup {"zero", "boot"}]
        /\ held' \in [Thread -> SUBSET Pages] /\ checks' \in BOOLEAN
        /\ page' \in [Thread -> Ref]
    BY <1>1, <1>2 DEF TypeOK
  <2> QED
    BY <2>1, <2>2, <2>3, <2>4, <2>5 DEF TypeOK
<1>4. NoOldData'
  BY <1>1, <1>2 DEF NoOldData
<1>5. ASSUME ~wild' PROVE (FreeListHolds /\ OneOwner /\ Reserved /\ Marked)'
  <2>1. p # ZeroPage
    BY <1>2, <1>5
  <2>2. InHand(t) = {p} /\ p \notin held[t]
    BY <1>0, <1>1, <1>2 DEF InHand, Returning, PoolInv, Reserved
  <2>3. p \in UserPages /\ Owners(p) = {t} /\ container[p] = Null /\ p \in Node
    BY <1>1, <2>1, <2>2, Owner1 DEF UserPages
  <2>4. ~allocated[p]
    BY <1>0, <1>1, <1>2, <2>1 DEF PoolInv, Marked, Returning
  <2>5. FreeListHolds'
    <3>1. PICK q \in [1..size[Free] -> Node] : Represents(Free, q)
      BY <1>1 DEF PoolInv, FreeListHolds
    <3>2. q \in Seq(Node)
      <4>1. size[Free] \in 0..MaxWord /\ MaxWord \in Nat
        BY <1>1, ListAssumption DEF TypeOK, ListTypeOK
      <4> QED
        BY <3>1, <4>1
    <3>3. Represents(Free, Append(q, p))'
      BY <1>1, <1>2, <2>3, <3>1, <3>2, AppendAdds, PagesFit DEF TypeOK
    <3>4. Append(q, p) \in Seq(Node) /\ size'[Free] = Len(Append(q, p))
      BY <2>3, <3>2, <3>3, AppendProperties DEF Represents
    <3>5. Append(q, p) \in [1..size'[Free] -> Node]
      BY <3>4, LenProperties
    <3> QED
      BY <3>3, <3>5 DEF FreeListHolds
  <2>6. \A r \in Pages : container'[r] = IF r = p THEN Free ELSE container[r]
    BY <1>1, <1>2 DEF append_list, append_count, TypeOK, ListTypeOK
  <2>7. \A u \in Thread : held'[u] = held[u] /\ InHand(u)' = IF u = t THEN {} ELSE InHand(u)
    BY <1>1, <1>2 DEF InHand, Taking, Returning, TypeOK
  <2>8. OneOwner'
    <3>1. \A r : Owners(r)' = {u \in Thread : r \in held'[u] \cup InHand(u)'}
      BY DEF Owners, InHand
    <3>2. \A r \in UserPages \ {p} : Owners(r)' = Owners(r)
      <4> SUFFICES ASSUME NEW r \in UserPages \ {p}, NEW u \in Thread
                   PROVE  r \in held'[u] \cup InHand(u)' <=> r \in held[u] \cup InHand(u)
        BY <3>1, OwnersAre
      <4> QED
        BY <2>2, <2>7
    <3>3. Owners(p)' = {}
      <4>1. \A u \in Thread \ {t} : p \notin held[u] \cup InHand(u)
        BY <2>3, OwnersAre
      <4>2. \A u \in Thread : p \notin held'[u] \cup InHand(u)'
        BY <2>2, <2>7, <4>1
      <4> QED
        BY <3>1, <4>2
    <3> SUFFICES ASSUME NEW r \in UserPages
                 PROVE  \/ container'[r] = Free /\ Owners(r)' = {} /\ ~allocated'[r]
                        \/ container'[r] = Null /\ \E u \in Thread : Owners(r)' = {u}
      BY DEF OneOwner
    <3>4. r \in Pages /\ allocated' = allocated
      BY <1>2 DEF UserPages, flagVars
    <3>5. CASE r = p
      BY <2>4, <2>6, <3>3, <3>4, <3>5
    <3>6. CASE r # p
      <4>1. container'[r] = container[r] /\ Owners(r)' = Owners(r)
        BY <2>6, <3>2, <3>4, <3>6
      <4> QED
        BY <1>1, <3>4, <4>1 DEF PoolInv, OneOwner
    <3> QED
      BY <3>5, <3>6
  <2>9. Reserved'
    <3>1. \A u \in Thread : Taking(u)' <=> Taking(u)
      BY <1>1, <1>2 DEF Taking, TypeOK
    <3> QED
      BY <1>1, <1>2, <2>3, <2>6, <2>7, <3>1 DEF PoolInv, Reserved, Obtainable
  <2>10. Marked'
    <3>1. \A u \in Thread : /\ pc'[u] = "zero" => pc[u] = "zero"
                            /\ Returning(u)' => Returning(u)
      BY <1>1, <1>2 DEF Returning, TypeOK
    <3> QED
      BY <1>1, <1>2, <2>7, <3>1 DEF PoolInv, Marked, flagVars
  <2> QED
    BY <2>5, <2>8, <2>9, <2>10
<1> QED
  BY <1>3, <1>4, <1>5 DEF PageIInv

LEMMA PageStep == PageIInv /\ [Next]_vars => PageIInv'
<1> SUFFICES ASSUME PageIInv, [Next]_vars PROVE PageIInv'
  OBVIOUS
<1>1. CASE UNCHANGED vars
  <2>1. TypeOK' /\ NoOldData'
    BY <1>1 DEF vars, listVars, flagVars, PageIInv, TypeOK, ListTypeOK, NoOldData
  <2>2. FreeListHolds => FreeListHolds'
    BY <1>1 DEF vars, listVars, FreeListHolds, Represents
  <2>3. OneOwner => OneOwner'
    BY <1>1 DEF vars, listVars, flagVars, OneOwner, Owners, Taking, Returning
  <2>4. Reserved /\ Marked => (Reserved /\ Marked)'
    BY <1>1 DEF vars, listVars, flagVars, Reserved, Obtainable, Marked, InHand, Taking,
                Returning
  <2>5. wild' = wild
    BY <1>1 DEF vars
  <2> QED
    BY <2>1, <2>2, <2>3, <2>4, <2>5 DEF PageIInv
<1>2. ASSUME NEW t \in Thread,
             \/ AllocFails(t) \/ AllocCheck(t) \/ FreeFlag(t) \/ Write(t) \/ Call(t)
      PROVE  PageIInv'
  <2>1. ~wild
    BY <1>2 DEF AllocFails, AllocCheck, FreeFlag, Write, Call, AllocLock, AllocPop,
                AllocFlag, AllocZero, FreeLock, FreeAppend, Step
  <2> QED
    BY <1>2, <2>1, StillStep, PopStep, FlagStep, ZeroStep, FreeFlagStep, AppendStep
    DEF Call
<1> QED
  BY <1>1, <1>2 DEF Next

----------------------------------------------------------------------------
(* The theorems. *)

LEMMA PageInvariant == Spec => []PageIInv
BY InitHolds, PageStep, PTL DEF Spec

\* Every variable keeps its type, whichever thread is preempted where, also
\* when the list is popped empty.
THEOREM TypeCorrect == Spec => []TypeOK
<1>1. PageIInv => TypeOK
  BY DEF PageIInv
<1> QED
  BY <1>1, PageInvariant, PTL

\* The pages met along free_pages are those whose container names it.
LEMMA FreePages ==
  ASSUME TypeOK, FreeListHolds
  PROVE  Linked(Free) = {p \in Pages : container[p] = Free}
<1>1. PICK q \in [1..size[Free] -> Node] : Represents(Free, q)
  BY DEF FreeListHolds
<1>2. size[Free] \in 0..MaxWord /\ MaxWord \in Nat
  BY Layout, ListAssumption DEF TypeOK, ListTypeOK
<1>3. q \in Seq(Node)
  BY <1>1, <1>2
<1> QED
  BY <1>1, <1>3, Layout, LinkedIs, PagesFit DEF CountFits

\* Two callers that race for a page, or a caller that frees while another
\* allocates, never share one nor lose one: a page is linked in free_pages and
\* nobody's, or off it and one thread's.
THEOREM PagesOnce == Spec => []EveryPageOnce
<1>1. PageIInv => EveryPageOnce
  <2> SUFFICES ASSUME PageIInv, checks, ~wild, NEW p \in UserPages
               PROVE  IF p \in Linked(Free) THEN Owners(p) = {} ELSE Cardinality(Owners(p)) = 1
    BY DEF EveryPageOnce
  <2>1. p \in Linked(Free) <=> container[p] = Free
    BY FreePages DEF PageIInv, UserPages
  <2>2. CASE container[p] = Free
    BY <2>1, <2>2, ListAssumption, Layout DEF PageIInv, OneOwner
  <2>3. CASE container[p] # Free
    <3>1. PICK t \in Thread : Owners(p) = {t}
      BY <2>3 DEF PageIInv, OneOwner
    <3>2. Cardinality({t}) = 1
      BY FS_Singleton
    <3> QED
      BY <2>1, <2>3, <3>1, <3>2
  <2> QED
    BY <2>2, <2>3
<1> QED
  BY <1>1, PageInvariant, PTL

\* The kernel, its stack, the page array and the heap are never handed out, and
\* the flags agree with the list and with who has the pages.
THEOREM FlagsRight == Spec => []FlagsAgree
<1>1. PageIInv => FlagsAgree
  <2> SUFFICES ASSUME PageIInv, checks, ~wild
               PROVE  /\ \A t \in Thread : held[t] \subseteq UserPages
                      /\ \A t \in Thread : \A p \in held[t] : allocated[p]
                      /\ \A p \in Linked(Free) : ~allocated[p]
    BY DEF FlagsAgree
  <2>1. \A t \in Thread : held[t] \subseteq UserPages
    BY DEF PageIInv, Reserved, Obtainable
  <2>2. \A t \in Thread : \A p \in held[t] : allocated[p]
    BY <2>1, Layout DEF PageIInv, Marked
  <2>3. \A p \in Linked(Free) : ~allocated[p]
    <3> SUFFICES ASSUME NEW p \in Linked(Free) PROVE ~allocated[p]
      OBVIOUS
    <3>1. p \in Pages /\ container[p] = Free
      BY FreePages DEF PageIInv
    <3>2. p \in UserPages /\ Free # Null
      BY <3>1, Layout, ListAssumption DEF PageIInv, Reserved
    <3> QED
      BY <3>1, <3>2 DEF PageIInv, OneOwner
  <2> QED
    BY <2>1, <2>2, <2>3
<1> QED
  BY <1>1, PageInvariant, PTL

\* mem.c:107: the page that alloc_page hands out holds nothing of its last
\* owner, nor does anybody write to it but its new one, also where callers do
\* not look for 0.
THEOREM PagesClean == Spec => []NoOldData
<1>1. PageIInv => NoOldData
  BY DEF PageIInv
<1> QED
  BY <1>1, PageInvariant, PTL

----------------------------------------------------------------------------
(* The allocator implements a pool. *)

\* The pages a thread has, or is about to have or to give back.
Claims(t) == held[t] \cup InHand(t)

LEMMA OwnersClaim == \A t \in Thread : \A p : t \in Owners(p) <=> p \in Claims(t)
BY DEF Owners, Claims, InHand

LEMMA OwnersClaimNext == (\A t \in Thread : \A p : t \in Owners(p) <=> p \in Claims(t))'
BY OwnersClaim, PTL

LEMMA FreeIs == PageIInv /\ ~wild => Linked(Free) = {p \in Pages : container[p] = Free}
BY FreePages DEF PageIInv

LEMMA FreeIsNext == (PageIInv /\ ~wild => Linked(Free) = {p \in Pages : container[p] = Free})'
BY FreeIs, PTL

\* A step that leaves the list alone, and every page with whom it is, does nothing
\* to the pool; but the page at 0 may be handed out where the pool is empty.
LEMMA PoolKept ==
  ASSUME PageIInv, PageIInv', ~wild, ~wild', NEW t \in Thread, UNCHANGED container,
         \A u \in Thread \ {t} : Claims(u)' = Claims(u),
         \/ Claims(t)' = Claims(t)
         \/ Linked(Free) = {} /\ Claims(t)' = Claims(t) \cup {ZeroPage}
  PROVE  [Pool!Next]_(Pool!vars)
<1>1. /\ \A u \in Thread : \A p : u \in Owners(p) <=> p \in Claims(u)
      /\ (\A u \in Thread : \A p : u \in Owners(p) <=> p \in Claims(u))'
  BY OwnersClaim, OwnersClaimNext
<1>2. Linked(Free)' = Linked(Free)
  BY FreeIs, FreeIsNext
<1>3. ZeroPage \notin UserPages
  BY Layout
<1>4. TakenBy' = TakenBy
  <2>1. \A u \in Thread : Taken(u)' = Taken(u)
    BY <1>1, <1>3 DEF Taken
  <2> QED
    BY <2>1 DEF TakenBy
<1>7. wild' = wild
  BY DEF PageIInv, TypeOK
<1>5. CASE Claims(t)' = Claims(t)
  <2>1. TakenZero' = TakenZero
    BY <1>1, <1>5 DEF TakenZero
  <2> QED
    BY <1>2, <1>4, <1>7, <2>1 DEF Pool!vars
<1>6. CASE Linked(Free) = {} /\ Claims(t)' = Claims(t) \cup {ZeroPage}
  <2>1. TakenZero'
          = TakenZero \cup {t}
    BY <1>1, <1>6 DEF TakenZero
  <2>2. Pool!Refuse(t)
    BY <1>2, <1>4, <1>6, <1>7, <2>1 DEF Pool!Refuse
  <2> QED
    BY <2>2 DEF Pool!Next
<1> QED
  BY <1>5, <1>6

\* The steps of a call that move no page between the list and a thread.
LEMMA PoolWaits ==
  ASSUME PageIInv, PageIInv', ~wild, NEW t \in Thread,
         \/ AllocFails(t) \/ AllocCheck(t) \/ AllocLock(t) \/ AllocFlag(t) \/ AllocZero(t)
         \/ FreeFlag(t) \/ FreeLock(t) \/ Write(t)
  PROVE  [Pool!Next]_(Pool!vars)
<1>0. TypeOK /\ UNCHANGED <<listVars, wild>>
  BY DEF PageIInv, AllocFails, AllocCheck, AllocLock, AllocFlag, AllocZero, FreeFlag, FreeLock, Write
<1>1. ~wild' /\ UNCHANGED container
  BY <1>0 DEF listVars
<1>2. \A u \in Thread \ {t} : Claims(u)' = Claims(u)
  BY <1>0 DEF AllocFails, AllocCheck, AllocLock, AllocFlag, AllocZero, FreeFlag, FreeLock, Write,
              Step, Claims, InHand, Taking, Returning, TypeOK
<1>3. CASE AllocFails(t)
  <2>1. Linked(Free) = {}
    <3>1. PICK q \in [1..size[Free] -> Node] : Represents(Free, q)
      BY DEF PageIInv, FreeListHolds
    <3>2. size[Free] = 0
      BY <1>3 DEF AllocFails
    <3>3. \A p \in Node : container[p] # Free
      BY <3>1, <3>2 DEF Represents
    <3> QED
      BY <3>3, FreeIs, Layout
  <2>2. Claims(t)' = Claims(t) \cup {ZeroPage}
    BY <1>0, <1>3 DEF AllocFails, Step, Claims, InHand, Taking, Returning, TypeOK
  <2> QED
    BY <1>1, <1>2, <2>1, <2>2, PoolKept
<1>4. CASE AllocCheck(t) \/ AllocLock(t) \/ AllocFlag(t) \/ FreeLock(t) \/ Write(t)
  <2>1. Claims(t)' = Claims(t)
    BY <1>0, <1>4 DEF AllocCheck, AllocLock, AllocFlag, FreeLock, Write,
                      Step, Claims, InHand, Taking, Returning, TypeOK
  <2> QED
    BY <1>1, <1>2, <2>1, PoolKept
<1>5. CASE AllocZero(t)
  <2>1. /\ InHand(t) = {page[t]} /\ InHand(t)' = {}
        /\ held'[t] = held[t] \cup {page[t]}
    BY <1>0, <1>5 DEF AllocZero, Step, InHand, Taking, Returning, TypeOK
  <2>2. Claims(t)' = Claims(t)
    BY <2>1 DEF Claims
  <2> QED
    BY <1>1, <1>2, <2>2, PoolKept
<1>6. CASE FreeFlag(t)
  <2>1. PICK p \in held[t] :
          page' = [page EXCEPT ![t] = p] /\ held' = [held EXCEPT ![t] = @ \ {p}]
    BY <1>6 DEF FreeFlag
  <2>2. InHand(t) = {} /\ InHand(t)' = {p} /\ held'[t] = held[t] \ {p}
    BY <1>0, <1>6, <2>1 DEF FreeFlag, Step, InHand, Taking, Returning, TypeOK
  <2>3. Claims(t)' = Claims(t)
    BY <2>1, <2>2 DEF Claims
  <2> QED
    BY <1>1, <1>2, <2>3, PoolKept
<1> QED
  BY <1>3, <1>4, <1>5, <1>6

\* The pop takes the page for the thread, or breaks an empty pool.
LEMMA PoolTakes ==
  ASSUME PageIInv, PageIInv', ~wild, NEW t \in Thread, AllocPop(t)
  PROVE  [Pool!Next]_(Pool!vars)
<1> USE Layout, ListAssumption
<1>0. TypeOK /\ PoolInv
  BY DEF PageIInv, PoolInv
<1>1. PICK p : p = head[Free]
  OBVIOUS
<1>2. PICK q \in [1..size[Free] -> Node] : Represents(Free, q)
  BY <1>0 DEF PoolInv, FreeListHolds
<1>3. pop_list(Free) /\ page' = [page EXCEPT ![t] = p] /\ wild' = (p \notin Pages)
      /\ held' = held
  BY <1>1 DEF AllocPop
<1>4. CASE p \notin Pages
  <2>1. q = <<>>
    <3>1. size[Free] \in 0..MaxWord /\ MaxWord \in Nat
      BY <1>0 DEF TypeOK, ListTypeOK
    <3>2. q # <<>> => 1 \in 1..size[Free]
      BY <1>2, <3>1, EmptySeq DEF Represents
    <3> QED
      BY <1>1, <1>2, <1>4, <3>2 DEF Represents
  <2>2. \A n \in Node : container[n] # Free
    BY <1>2, <2>1 DEF Represents
  <2>3. Linked(Free) = {}
    BY <2>2, FreeIs
  <2>4. Pool!Break(t)
    BY <1>3, <1>4, <2>3 DEF Pool!Break
  <2> QED
    BY <2>4 DEF Pool!Next
<1>5. CASE p \in Pages
  <2>1. container[p] = Free
    <3>1. q # <<>> /\ p = q[1]
      BY <1>1, <1>2, <1>5 DEF Represents
    <3>2. 1 \in 1..Len(q)
      <4>1. size[Free] \in 0..MaxWord /\ MaxWord \in Nat /\ Len(q) = size[Free]
        BY <1>0, <1>2 DEF TypeOK, ListTypeOK, Represents
      <4>2. size[Free] # 0
        BY <1>2, <3>1, <4>1, EmptySeq
      <4> QED
        BY <4>1, <4>2
    <3> QED
      BY <1>2, <3>1, <3>2 DEF Represents
  <2>2. p \in UserPages /\ Owners(p) = {}
    BY <1>0, <1>5, <2>1 DEF PoolInv, Reserved, OneOwner
  <2>3. \A r \in Pages : container'[r] = IF r = p THEN Null ELSE container[r]
    BY <1>0, <1>1, <1>3, <1>5 DEF pop_list, TypeOK, ListTypeOK
  <2>4. Linked(Free)' = Linked(Free) \ {p} /\ p \in Linked(Free)
    BY <1>3, <1>5, <2>1, <2>3, FreeIs, FreeIsNext
  <2>5. /\ Claims(t)' = Claims(t) \cup {p}
        /\ \A u \in Thread \ {t} : Claims(u)' = Claims(u)
    BY <1>0, <1>3 DEF AllocPop, Step, Claims, InHand, Taking, Returning, TypeOK
  <2>6. /\ \A u \in Thread : \A r : u \in Owners(r) <=> r \in Claims(u)
        /\ (\A u \in Thread : \A r : u \in Owners(r) <=> r \in Claims(u))'
    BY OwnersClaim, OwnersClaimNext
  <2>7. /\ Taken(t)' = Taken(t) \cup {p}
        /\ \A u \in Thread \ {t} :
             Taken(u)' = Taken(u)
        /\ TakenZero' = TakenZero
    BY <2>2, <2>5, <2>6 DEF Taken, TakenZero
  <2>9. TakenBy' = [TakenBy EXCEPT ![t] = @ \cup {p}]
    BY <2>7 DEF TakenBy
  <2>10. wild' = wild
    BY <1>0, <1>3, <1>5 DEF TypeOK
  <2>8. Pool!Take(t)
    BY <2>4, <2>7, <2>9, <2>10 DEF Pool!Take
  <2> QED
    BY <2>8 DEF Pool!Next
<1> QED
  BY <1>4, <1>5

\* The append gives the page back, or breaks the pool with the page at 0.
LEMMA PoolGets ==
  ASSUME PageIInv, PageIInv', ~wild, NEW t \in Thread, FreeAppend(t)
  PROVE  [Pool!Next]_(Pool!vars)
<1> USE Layout, ListAssumption
<1>0. TypeOK /\ PoolInv
  BY DEF PageIInv, PoolInv
<1>1. PICK p : p = page[t]
  OBVIOUS
<1>2. /\ InHand(t) = {p} /\ InHand(t)' = {} /\ held' = held /\ wild' = (p = ZeroPage)
      /\ append_list(Free, p)
      /\ \A u \in Thread \ {t} : Claims(u)' = Claims(u)
  BY <1>0, <1>1 DEF FreeAppend, Step, Claims, InHand, Taking, Returning, TypeOK
<1>3. p \in Claims(t) /\ p \notin held[t] /\ p \in Obtainable
  BY <1>0, <1>2 DEF Claims, PoolInv, Reserved
<1>4. CASE p = ZeroPage
  <2>1. t \in Owners(ZeroPage)
    BY <1>3, <1>4, OwnersClaim
  <2>3. wild'
    BY <1>2, <1>4
  <2>4. t \in TakenZero
    BY <2>1 DEF TakenZero
  <2>2. Pool!Break(t)
    BY <2>3, <2>4 DEF Pool!Break
  <2> QED
    BY <2>2 DEF Pool!Next
<1>5. CASE p # ZeroPage
  <2>1. p \in UserPages /\ p \in Pages
    BY <1>3, <1>5 DEF Obtainable, UserPages
  <2>2. \A r \in Pages : container'[r] = IF r = p THEN Free ELSE container[r]
    BY <1>0, <1>2, <2>1 DEF append_list, append_links, append_count, TypeOK, ListTypeOK
  <2>3. Linked(Free)' = Linked(Free) \cup {p}
    BY <1>2, <1>5, <2>1, <2>2, FreeIs, FreeIsNext
  <2>4. Claims(t)' = Claims(t) \ {p}
    BY <1>2, <1>3 DEF Claims
  <2>5. /\ \A u \in Thread : \A r : u \in Owners(r) <=> r \in Claims(u)
        /\ (\A u \in Thread : \A r : u \in Owners(r) <=> r \in Claims(u))'
    BY OwnersClaim, OwnersClaimNext
  <2>6. /\ Taken(t)' = Taken(t) \ {p}
        /\ p \in Taken(t)
        /\ \A u \in Thread \ {t} :
             Taken(u)' = Taken(u)
        /\ TakenZero' = TakenZero
    BY <1>2, <1>3, <1>5, <2>1, <2>4, <2>5 DEF Taken, TakenZero
  <2>8. TakenBy' = [TakenBy EXCEPT ![t] = @ \ {p}] /\ TakenBy[t] = Taken(t)
    BY <2>6 DEF TakenBy
  <2>9. wild' = wild
    BY <1>0, <1>2, <1>5 DEF TypeOK
  <2>7. Pool!Give(t)
    BY <2>3, <2>6, <2>8, <2>9 DEF Pool!Give
  <2> QED
    BY <2>7 DEF Pool!Next
<1> QED
  BY <1>4, <1>5

LEMMA InitPool == Init => Pool!Init
<1> SUFFICES ASSUME Init PROVE Pool!Init
  OBVIOUS
<1>1. PageIInv /\ ~wild /\ wild = FALSE
  BY InitHolds DEF Init
<1>2. Linked(Free) = UserPages
  BY <1>1, FreeIs, Layout, ListAssumption DEF Init, UserPages, Pages
<1>3. \A t \in Thread : \A p : t \notin Owners(p)
  BY DEF Init, Owners, Taking, Returning
<1>4. TakenBy = [t \in Thread |-> {}]
  BY <1>3 DEF Taken, TakenBy
<1>5. TakenZero = {}
  BY <1>3 DEF TakenZero
<1> QED
  BY <1>1, <1>2, <1>4, <1>5 DEF Pool!Init

LEMMA PoolStep == PageIInv /\ PageIInv' /\ [Next]_vars => [Pool!Next]_(Pool!vars)
<1> SUFFICES ASSUME PageIInv, PageIInv', [Next]_vars PROVE [Pool!Next]_(Pool!vars)
  OBVIOUS
<1>1. ASSUME NEW t \in Thread,
             AllocFails(t) \/ AllocCheck(t) \/ FreeFlag(t) \/ Write(t) \/ Call(t)
      PROVE  [Pool!Next]_(Pool!vars)
  <2>1. ~wild
    BY <1>1 DEF AllocFails, AllocCheck, FreeFlag, Write, Call, AllocLock, AllocPop, AllocFlag,
                AllocZero, FreeLock, FreeAppend, Step
  <2> QED
    BY <1>1, <2>1, PoolWaits, PoolTakes, PoolGets DEF Call
<1>2. CASE UNCHANGED vars
  <2>1. Linked(Free)' = Linked(Free)
    BY <1>2 DEF vars, listVars, Linked
  <2>2. UNCHANGED <<TakenZero, TakenBy>>
    BY <1>2 DEF vars, TakenBy, TakenZero, Taken, Owners, Taking, Returning
  <2>3. wild' = wild
    BY <1>2 DEF vars
  <2> QED
    BY <2>1, <2>2, <2>3 DEF Pool!vars
<1> QED
  BY <1>1, <1>2 DEF Next

\* However their steps are interleaved, alloc_page and free_page act as if each took a
\* page from the pool, or gave one back, at one instant; what breaks the pool is a pop
\* of the empty list or a page at 0 that is freed, and nothing else.
THEOREM PagesPooled == Spec => Implements
BY PageInvariant, InitPool, PoolStep, PTL DEF Spec, Implements, Pool!Spec

=============================================================================
