----------------------------- MODULE BootProofs -----------------------------
(***************************************************************************)
(* Proofs about Boot for a directory and tables of any size, any id of the *)
(* timer and any depth of nested interrupts: the tables are laid out next  *)
(* to one another and translate what they should, the vectors are reached  *)
(* whenever an interrupt can be taken, and a nested interrupt finds the    *)
(* handler below it past its handler.                                      *)
(***************************************************************************)
EXTENDS Boot, SequenceTheorems, TLAPS

----------------------------------------------------------------------------
(* Interrupts. *)

\* Who is in the table of handlers: nobody but the timer.
Registered ==
  \A id \in Ids : \/ clearer[id] \in {"0", "junk"} /\ handler[id] \in {"0", "junk"}
                  \/ id = Timer /\ clearer[id] \in Functions /\ handler[id] \in Functions

\* A call of irq_handler is past the handler of the timer, the last there is.
Behind(f) == f.at = "enable" \/ f.j = Timer + 1

FramesInv ==
  /\ \A n \in 1 .. Len(frames) : frames[n].at # "scan" => frames[n].j = Timer
  /\ \A n \in 1 .. Len(frames) - 1 : Behind(frames[n])
  /\ frames # <<>> /\ ~disabled => Behind(Top)

Sane == (\A id \in Ids : clearer[id] # "junk") => ~lost

\* Nothing is enabled or entered before the kernel has installed the vectors.
KernelRuns ==
  /\ ~disabled \/ frames # <<>> => booted # "no"
  /\ booted # "no" => InKernel \/ lost
  /\ lost => stage = "on" /\ how = "early_init"

IrqInv == IrqTypeOK /\ Registered /\ FramesInv /\ Sane

----------------------------------------------------------------------------
(* Tables. *)

\* Where the page tables begin, one behind the other; where entry e of the
\* directories is.
Tables == IF how = "early_init" THEN FirstTable + PageWords ELSE 0
DirAt(e) == IF e < Half THEN DirBase + e ELSE DirBase + Entries + e

\* The entries of directories and of tables that are stored.
Entered == IF stage = "table" THEN i + 1 ELSE i
Stored == IF stage = "table" THEN i * TableLen + k ELSE i * TableLen

DirEntry(e) == [kind |-> "table", baddr |-> (Tables + e * TableLen) \div TableLen]
PageEntry(p) == [kind |-> "page", baddr |-> frame(p), read_only |-> TRUE]

\* The loop counters, and the places derived from them.
LoopInv ==
  /\ how \in {"early_init", "alloc_page"}
  /\ stage \in {"entry", "table", "half", "enable", "on"}
  /\ i \in 0..Entries /\ k \in 0..TableLen
  /\ stage = "table" => k < TableLen
  /\ stage \in {"entry", "table"} => i < Entries
  /\ stage = "half" => i = Half
  /\ stage \in {"enable", "on"} => i = Entries
  /\ pagedir = IF i < Half \/ stage = "half" THEN DirBase ELSE DirBase + Entries
  /\ pagetable \in Address
  /\ stage = "table" => pagetable = Tables + (i \div PerPage) * PageWords
  /\ stage \in {"entry", "half"} =>
       IF i % PerPage = 0
       THEN how = "early_init" => pagetable + PageWords = Tables + (i \div PerPage) * PageWords
       ELSE pagetable = Tables + (i \div PerPage) * PageWords

\* What is in memory is what has been stored.
MemInv ==
  /\ mem \in [Address -> {Unwritten} \cup DirWord \cup PageWord]
  /\ \A e \in 0..Entered - 1 : mem[DirAt(e)] = DirEntry(e)
  /\ \A p \in 0..Stored - 1 : mem[Tables + p] = PageEntry(p)
  /\ \A a \in Address : mem[a] # Unwritten =>
       \/ \E e \in 0..Entered - 1 : a = DirAt(e)
       \/ \E p \in 0..Stored - 1 : a = Tables + p

RegsInv ==
  /\ ttbr0 \in Nat /\ ttbr1 \in Nat /\ dacr \in {"client", "manager"}
  /\ i >= Half /\ stage # "half" => ttbr0 = DirBase
  /\ stage = "on" => ttbr1 = ttbr1_of(DirBase + Entries) /\ dacr = "manager"

PagingInv == LoopInv /\ MemInv /\ RegsInv

BootIInv == PagingInv /\ IrqInv /\ KernelRuns

----------------------------------------------------------------------------
(* Arithmetic of the layout. *)

LEMMA DivMod ==
  ASSUME NEW a \in Nat, NEW n \in Nat \ {0}
  PROVE  a \div n \in Nat /\ a % n \in 0..n - 1 /\ a = n * (a \div n) + (a % n)
OBVIOUS

LEMMA Times ==
  ASSUME NEW x \in Nat, NEW y \in Nat, NEW n \in Nat
  PROVE  /\ x * n \in Nat /\ x * n = n * x
         /\ (x + y) * n = x * n + y * n
         /\ x < y => x * n + n <= y * n
<1>1. x * n \in Nat /\ x * n = n * x /\ (x + y) * n = x * n + y * n
  OBVIOUS
<1>2. ASSUME x < y PROVE x * n + n <= y * n
  <2>1. PICK d \in Nat : y = x + 1 + d
    <3>1. y - x - 1 \in Nat
      BY <1>2
    <3>2. y = x + 1 + (y - x - 1)
      OBVIOUS
    <3> QED
      BY <3>1, <3>2
  <2>2. y * n = x * n + n + d * n
    BY <2>1
  <2>3. d * n \in Nat
    BY <2>1
  <2> QED
    BY <1>1, <2>2, <2>3
<1> QED
  BY <1>1, <1>2

\* Quotient and remainder are unique.
LEMMA QuotientIs ==
  ASSUME NEW q \in Nat, NEW n \in Nat \ {0}, NEW r \in 0..n - 1
  PROVE  (q * n + r) \div n = q /\ (q * n + r) % n = r
<1> DEFINE x == q * n + r
           p == x \div n
           s == x % n
<1>1. x \in Nat
  BY Times
<1>2. p \in Nat /\ s \in 0..n - 1 /\ x = n * p + s
  BY <1>1, DivMod
<1> HIDE DEF p, s
<1>3. p * n + s = q * n + r /\ p * n \in Nat /\ q * n \in Nat
  BY <1>2, Times
<1>4. CASE p < q
  <2>1. p * n + n <= q * n
    BY <1>2, <1>4, Times
  <2> QED
    BY <1>2, <1>3, <2>1
<1>5. CASE q < p
  <2>1. q * n + n <= p * n
    BY <1>2, <1>5, Times
  <2> QED
    BY <1>2, <1>3, <2>1
<1>6. CASE p = q
  BY <1>2, <1>3, <1>6 DEF p, s
<1> QED
  BY <1>2, <1>4, <1>5, <1>6

\* The sizes, and what is a multiple of what.
LEMMA Sizes ==
  /\ Entries \in Nat \ {0} /\ TableLen \in Nat \ {0} /\ DirBase \in Nat
  /\ PageWords = 4 * TableLen /\ PageWords \in Nat \ {0}
  /\ Half \in Nat \ {0} /\ Entries = 2 * Half /\ Half % 4 = 0
  /\ FirstTable = DirBase + 4 * Entries
  /\ Entries * TableLen \in Nat \ {0}
  /\ 2 * (Entries * TableLen) <= DirBase /\ Entries * TableLen <= DirBase
  /\ FirstTable + PageWords + Entries * TableLen <= MemWords
  /\ \E d \in Nat : DirBase = d * Entries
  /\ \E m \in Nat : FirstTable + PageWords = m * TableLen
<1> USE PagingAssumption
<1>1. PageWords = 4 * TableLen /\ PageWords \in Nat \ {0}
  BY DEF PageWords, PerPage
<1>2. PICK c \in Nat : Entries = c * PageWords
  <2> DEFINE c == Entries \div PageWords
  <2>1. c \in Nat /\ Entries = PageWords * c + (Entries % PageWords)
    BY <1>1, DivMod
  <2>2. Entries = PageWords * c
    BY <1>1, <2>1
  <2> HIDE DEF c
  <2>3. Entries = c * PageWords
    BY <1>1, <2>1, <2>2
  <2> QED
    BY <2>1, <2>3
<1>3. PICK d \in Nat : DirBase = d * Entries
  <2> DEFINE d == DirBase \div Entries
  <2>1. d \in Nat /\ DirBase = Entries * d + (DirBase % Entries)
    BY DivMod
  <2> HIDE DEF d
  <2>2. DirBase = d * Entries
    BY <2>1
  <2> QED
    BY <2>1, <2>2
<1>4. Half \in Nat \ {0} /\ Entries = 2 * Half /\ Half % 4 = 0
  <2>1. PICK b \in Nat : Entries = 2 * b
    <3>1. c * TableLen \in Nat
      OBVIOUS
    <3>2. Entries = 4 * (c * TableLen)
      BY <1>1, <1>2
    <3>3. Entries = 2 * (2 * (c * TableLen))
      BY <3>1, <3>2
    <3> QED
      BY <3>1, <3>3
  <2>2. Half = b
    BY <2>1 DEF Half
  <2> QED
    BY <2>1, <2>2 DEF PerPage
<1>5. \E m \in Nat : FirstTable + PageWords = m * TableLen
  <2>1. Entries = (4 * c) * TableLen
    BY <1>1, <1>2
  <2>2. DirBase = (d * (4 * c)) * TableLen
    BY <1>3, <2>1
  <2>3. d * (4 * c) \in Nat
    OBVIOUS
  <2> DEFINE e == d * (4 * c)
  <2> HIDE DEF e
  <2>4. FirstTable + PageWords = (e + 4 * (4 * c) + 4) * TableLen
    <3>1. DirBase = e * TableLen /\ e \in Nat
      BY <2>2, <2>3 DEF e
    <3>2. FirstTable + PageWords = e * TableLen + 4 * ((4 * c) * TableLen) + 4 * TableLen
      BY <1>1, <2>1, <3>1 DEF FirstTable
    <3> QED
      BY <3>1, <3>2
  <2>5. e + 4 * (4 * c) + 4 \in Nat
    BY <2>3 DEF e
  <2> QED
    BY <2>4, <2>5
<1>6. Entries * TableLen \in Nat \ {0}
  OBVIOUS
<1>7. /\ Entries \in Nat \ {0} /\ TableLen \in Nat \ {0} /\ DirBase \in Nat
      /\ FirstTable = DirBase + 4 * Entries
      /\ 2 * (Entries * TableLen) <= DirBase /\ Entries * TableLen <= DirBase
      /\ FirstTable + PageWords + Entries * TableLen <= MemWords
  BY <1>6 DEF FirstTable
<1>8. \E x \in Nat : DirBase = x * Entries
  BY <1>3
<1> QED
  BY <1>1, <1>4, <1>5, <1>6, <1>7, <1>8

\* Directories and tables are in memory, apart from one another.
LEMMA Places ==
  ASSUME how \in {"early_init", "alloc_page"}
  PROVE  /\ Tables \in Nat
         /\ \E m \in Nat : Tables = m * TableLen
         /\ \A e \in 0..Entries - 1 : DirAt(e) \in Address
         /\ \A e, f \in 0..Entries - 1 : DirAt(e) = DirAt(f) => e = f
         /\ \A p \in VPages : Tables + p \in Address
         /\ \A e \in 0..Entries - 1 : \A p \in VPages : DirAt(e) # Tables + p
<1> DEFINE N == Entries * TableLen
<1>1. /\ Entries \in Nat \ {0} /\ DirBase \in Nat /\ PageWords \in Nat \ {0}
      /\ Half \in Nat \ {0} /\ Entries = 2 * Half
      /\ FirstTable = DirBase + 4 * Entries
      /\ N \in Nat \ {0} /\ N <= DirBase
      /\ FirstTable + PageWords + N <= MemWords
  BY Sizes
<1>2. MemWords \in Int
  BY PagingAssumption
<1>3. VPages = 0..N - 1 /\ Address = 0..MemWords - 1
  BY DEF VPages, Address
<1> HIDE DEF N
<1>4. Tables \in Nat /\ (Tables = 0 \/ Tables = FirstTable + PageWords)
  BY <1>1 DEF Tables
<1>5. \E m \in Nat : Tables = m * TableLen
  <2>1. 0 = 0 * TableLen
    BY Sizes
  <2> QED
    BY <2>1, Sizes DEF Tables
<1>6. ASSUME NEW e \in 0..Entries - 1
      PROVE  /\ DirAt(e) \in Address /\ DirAt(e) >= DirBase /\ DirAt(e) < FirstTable
             /\ e < Half => DirAt(e) = DirBase + e
             /\ e >= Half => DirAt(e) = DirBase + Entries + e
  BY <1>1, <1>2, <1>3 DEF DirAt
<1>7. ASSUME NEW e \in 0..Entries - 1, NEW f \in 0..Entries - 1, DirAt(e) = DirAt(f)
      PROVE  e = f
  BY <1>1, <1>6, <1>7
<1>8. ASSUME NEW p \in VPages
      PROVE  Tables + p \in Address /\ (Tables + p < DirBase \/ Tables + p >= FirstTable)
  BY <1>1, <1>2, <1>3, <1>4
<1>9. ASSUME NEW e \in 0..Entries - 1, NEW p \in VPages PROVE DirAt(e) # Tables + p
  BY <1>1, <1>4, <1>6, <1>8
<1> QED
  BY <1>4, <1>5, <1>6, <1>7, <1>8, <1>9

\* The tables follow one another, four to a page.
LEMMA TableFollows ==
  ASSUME how \in {"early_init", "alloc_page"}, NEW e \in Nat
  PROVE  /\ table_at(Tables + (e \div PerPage) * PageWords, e) = Tables + e * TableLen
         /\ e \div PerPage \in Nat
<1> DEFINE q == e \div PerPage
           r == e % PerPage
<1>1. q \in Nat /\ r \in Nat /\ e = 4 * q + r
  BY DEF PerPage
<1>2. TableLen \in Nat /\ PageWords = 4 * TableLen /\ Tables \in Nat
  BY Sizes, Places
<1>3. table_at(Tables + q * PageWords, e) = Tables + q * PageWords + r * TableLen
  BY DEF table_at
<1> HIDE DEF q, r
<1>4. e * TableLen = 4 * (q * TableLen) + r * TableLen
  BY <1>1, <1>2
<1>5. q * PageWords = 4 * (q * TableLen)
  BY <1>1, <1>2
<1>6. q * TableLen \in Nat /\ r * TableLen \in Nat
  BY <1>1, <1>2
<1>7. table_at(Tables + q * PageWords, e) = Tables + e * TableLen
  BY <1>2, <1>3, <1>4, <1>5, <1>6
<1> QED
  BY <1>1, <1>7 DEF q

\* The directory's entry leads to the table.
LEMMA EntryLeads ==
  ASSUME how \in {"early_init", "alloc_page"}, NEW e \in Nat
  PROVE  /\ DirEntry(e).kind = "table" /\ DirEntry(e) \in DirWord
         /\ DirEntry(e).baddr * TableLen = Tables + e * TableLen
<1>1. PICK m \in Nat : Tables = m * TableLen
  BY Places
<1>2. TableLen \in Nat \ {0}
  BY Sizes
<1>3. Tables + e * TableLen = (m + e) * TableLen + 0 /\ m + e \in Nat
  BY <1>1, <1>2, Times
<1>4. (Tables + e * TableLen) \div TableLen = m + e
  <2>1. 0 \in 0..TableLen - 1
    BY <1>2
  <2>2. ((m + e) * TableLen + 0) \div TableLen = m + e
    BY <1>2, <1>3, <2>1, QuotientIs
  <2> QED
    BY <1>3, <2>2
<1>5. (m + e) * TableLen = Tables + e * TableLen
  BY <1>1, <1>2, Times
<1> QED
  BY <1>3, <1>4, <1>5 DEF DirEntry, DirWord

\* A page of an entry's table, and the pages stored before it.
LEMMA PageOf ==
  ASSUME NEW e \in 0..Entries - 1, NEW j \in 0..TableLen - 1
  PROVE  /\ e * TableLen + j \in VPages
         /\ e * TableLen \in Nat
         /\ (e + 1) * TableLen = e * TableLen + TableLen
<1>1. e \in Nat /\ Entries \in Nat /\ TableLen \in Nat \ {0} /\ e < Entries /\ 1 \in Nat
  BY Sizes
<1>2. e * TableLen + TableLen <= Entries * TableLen /\ e * TableLen \in Nat
      /\ Entries * TableLen \in Nat
  BY <1>1, Times
<1>3. (e + 1) * TableLen = e * TableLen + TableLen
  BY <1>1
<1> QED
  BY <1>1, <1>2, <1>3 DEF VPages

\* What a page maps to.
LEMMA FrameType ==
  /\ KernelBase \in Nat \ {0} /\ KernelBase \in VPages
  /\ \A p \in VPages : frame(p) \in VPages /\ PageEntry(p) \in PageWord /\ frame(p) = physical(p)
<1> DEFINE N == Entries * TableLen
           b == N \div 4
<1>1. N \in Nat \ {0} /\ N >= 4 /\ VPages = 0..N - 1
  <2>1. Entries \in Nat /\ Entries >= 4 /\ TableLen \in Nat \ {0}
    <3>1. /\ Half \in Nat \ {0} /\ Entries = 2 * Half /\ Half % 4 = 0
          /\ TableLen \in Nat \ {0}
      BY Sizes
    <3> QED
      BY <3>1
  <2>2. Entries * TableLen >= 4
    <3>1. Entries * TableLen = 4 * TableLen + (Entries - 4) * TableLen
      BY <2>1
    <3>2. (Entries - 4) * TableLen >= 0
      BY <2>1
    <3> QED
      BY <2>1, <3>1, <3>2
  <2> QED
    BY <2>2, Sizes DEF VPages
<1>2. KernelBase = 3 * b
  BY DEF KernelBase
<1> HIDE DEF N
<1>3. b \in Nat /\ b >= 1 /\ 4 * b <= N
  BY <1>1
<1> HIDE DEF b
<1>4. KernelBase \in Nat \ {0} /\ KernelBase \in VPages
  BY <1>1, <1>2, <1>3
<1> QED
  BY <1>1, <1>4 DEF frame, physical, PageEntry, PageWord

----------------------------------------------------------------------------
(* The loops that store the tables. *)

\* What is stored already stays.
Keeps == \A a \in Address : mem[a] # Unwritten => mem'[a] = mem[a]

\* The pages stored so far are pages.
LEMMA StoredPages ==
  ASSUME LoopInv
  PROVE  /\ Stored \in Nat /\ \A p \in 0..Stored - 1 : p \in VPages
         /\ stage = "table" => Stored \in VPages
         /\ Entered \in Nat /\ \A e \in 0..Entered - 1 : e \in 0..Entries - 1
<1> DEFINE N == Entries * TableLen
<1>1. /\ i \in Nat /\ i <= Entries /\ Entries \in Nat \ {0} /\ TableLen \in Nat \ {0} /\ k \in Nat
      /\ stage \in {"entry", "table"} => i < Entries
  BY Sizes DEF LoopInv
<1>2. N \in Nat /\ VPages = 0..N - 1
  BY Sizes DEF VPages
<1>3. i * TableLen \in Nat /\ i * TableLen <= N
  <2>1. TableLen \in Nat
    BY <1>1
  <2>2. i < Entries => i * TableLen + TableLen <= N
    BY <1>1, <2>1, Times
  <2>3. i * TableLen \in Nat
    BY <1>1, <2>1, Times
  <2>4. i = Entries => i * TableLen = N
    OBVIOUS
  <2> HIDE DEF N
  <2> QED
    BY <1>1, <1>2, <2>1, <2>2, <2>3, <2>4
<1> HIDE DEF N
<1>4. ASSUME stage = "table" PROVE i * TableLen + k \in VPages
  <2>1. i \in 0..Entries - 1 /\ k \in 0..TableLen - 1
    BY <1>1, <1>4 DEF LoopInv
  <2> QED
    BY <2>1, PageOf
<1>5. Stored \in Nat /\ Stored <= N /\ (stage = "table" => Stored \in VPages)
  <2>1. CASE stage = "table"
    BY <1>2, <1>4, <2>1 DEF Stored
  <2>2. CASE stage # "table"
    BY <1>2, <1>3, <2>2 DEF Stored
  <2> QED
    BY <2>1, <2>2
<1>6. \A p \in 0..Stored - 1 : p \in VPages
  BY <1>2, <1>5
<1>7. Entered \in Nat /\ Entered <= Entries
  BY <1>1 DEF Entered
<1>8. \A e \in 0..Entered - 1 : e \in 0..Entries - 1
  BY <1>1, <1>7
<1> QED
  BY <1>5, <1>6, <1>7, <1>8

\* One word is stored where nothing is, and it is the next one.
LEMMA StoreStep ==
  ASSUME LoopInv, MemInv, how' = how, NEW a \in Address, NEW v \in DirWord \cup PageWord,
         mem' = [mem EXCEPT ![a] = v],
         NEW x \in Nat, NEW y \in Nat, Entered' = x, Stored' = y,
         \/ /\ x = Entered + 1 /\ y = Stored /\ Entered < Entries
            /\ a = DirAt(Entered) /\ v = DirEntry(Entered)
         \/ /\ x = Entered /\ y = Stored + 1 /\ Stored \in VPages
            /\ a = Tables + Stored /\ v = PageEntry(Stored)
  PROVE  MemInv' /\ Keeps
<1>0. /\ how \in {"early_init", "alloc_page"}
      /\ mem \in [Address -> {Unwritten} \cup DirWord \cup PageWord]
      /\ Entered \in Nat /\ Stored \in Nat /\ Entries \in Nat
  BY StoredPages, Sizes DEF LoopInv, MemInv
<1>1. mem[a] = Unwritten
  <2>1. ASSUME NEW e \in 0..Entered - 1, a = DirAt(e) PROVE FALSE
    <3>1. e \in 0..Entries - 1 /\ e # Entered
      BY <1>0, StoredPages
    <3>2. CASE Entered < Entries /\ a = DirAt(Entered)
      <4>1. Entered \in 0..Entries - 1
        BY <1>0, <3>2
      <4> QED
        BY <1>0, <2>1, <3>1, <3>2, <4>1, Places
    <3>3. CASE Stored \in VPages /\ a = Tables + Stored
      BY <1>0, <2>1, <3>1, <3>3, Places
    <3> QED
      BY <3>2, <3>3
  <2>2. ASSUME NEW p \in 0..Stored - 1, a = Tables + p PROVE FALSE
    <3>1. p \in VPages /\ p # Stored /\ p \in Nat
      BY <1>0, StoredPages
    <3>2. CASE Entered < Entries /\ a = DirAt(Entered)
      <4>1. Entered \in 0..Entries - 1
        BY <1>0, <3>2
      <4> QED
        BY <1>0, <2>2, <3>1, <3>2, <4>1, Places
    <3>3. CASE a = Tables + Stored
      BY <1>0, <2>2, <3>1, <3>3, Places
    <3> QED
      BY <3>2, <3>3
  <2> QED
    BY <2>1, <2>2 DEF MemInv
<1>2. Keeps
  BY <1>0, <1>1 DEF Keeps
<1>3. /\ mem' \in [Address -> {Unwritten} \cup DirWord \cup PageWord]
      /\ mem'[a] = v /\ \A b \in Address \ {a} : mem'[b] = mem[b]
  BY <1>0
<1>4. v # Unwritten
  BY DEF DirWord, PageWord, Unwritten
<1>5. Tables' = Tables /\ (\A e : DirEntry(e)' = DirEntry(e))
  BY DEF Tables, DirEntry
<1>6. ASSUME NEW e \in 0..Entered - 1
      PROVE  DirAt(e) \in Address /\ mem'[DirAt(e)] = DirEntry(e)
  <2>1. DirAt(e) \in Address /\ mem[DirAt(e)] = DirEntry(e)
    BY <1>0, StoredPages, Places DEF MemInv
  <2>2. DirAt(e) # a
    <3>1. DirEntry(e) # Unwritten
      BY DEF DirEntry, Unwritten
    <3> QED
      BY <1>1, <2>1, <3>1
  <2> QED
    BY <1>3, <2>1, <2>2
<1>7. ASSUME NEW p \in 0..Stored - 1
      PROVE  Tables + p \in Address /\ mem'[Tables + p] = PageEntry(p)
  <2>1. Tables + p \in Address /\ mem[Tables + p] = PageEntry(p)
    BY <1>0, StoredPages, Places DEF MemInv
  <2>2. Tables + p # a
    <3>1. PageEntry(p) # Unwritten
      BY DEF PageEntry, Unwritten
    <3> QED
      BY <1>1, <2>1, <3>1
  <2> QED
    BY <1>3, <2>1, <2>2
<1>8. \A e \in 0..x - 1 : mem'[DirAt(e)] = DirEntry(e)
  <2>1. \A e \in 0..x - 1 : e \in 0..Entered - 1
                                   \/ (e = Entered /\ a = DirAt(e) /\ v = DirEntry(e))
    BY <1>0
  <2> QED
    BY <1>3, <1>6, <2>1
<1>9. \A p \in 0..y - 1 : mem'[Tables + p] = PageEntry(p)
  <2>1. \A p \in 0..y - 1 : p \in 0..Stored - 1
                                  \/ (p = Stored /\ a = Tables + p /\ v = PageEntry(p))
    BY <1>0
  <2> QED
    BY <1>3, <1>7, <2>1
<1>10. ASSUME NEW b \in Address, mem'[b] # Unwritten
       PROVE  \/ \E e \in 0..x - 1 : b = DirAt(e)
              \/ \E p \in 0..y - 1 : b = Tables + p
  <2>1. \A e \in 0..Entered - 1 : e \in 0..x - 1
    BY <1>0
  <2>2. \A p \in 0..Stored - 1 : p \in 0..y - 1
    BY <1>0
  <2>3. CASE b = a
    <3>1. CASE x = Entered + 1 /\ a = DirAt(Entered)
      <4>1. Entered \in 0..x - 1
        BY <1>0, <3>1
      <4> QED
        BY <2>3, <3>1, <4>1
    <3>2. CASE y = Stored + 1 /\ a = Tables + Stored
      <4>1. Stored \in 0..y - 1
        BY <1>0, <3>2
      <4> QED
        BY <2>3, <3>2, <4>1
    <3> QED
      BY <3>1, <3>2
  <2>4. CASE b # a
    BY <1>3, <1>10, <2>1, <2>2, <2>4 DEF MemInv
  <2> QED
    BY <2>3, <2>4
<1> QED
  BY <1>2, <1>3, <1>5, <1>8, <1>9, <1>10 DEF MemInv

LEMMA EntryStep ==
  ASSUME PagingInv, store_entry
  PROVE  PagingInv' /\ Keeps
<1>0. /\ LoopInv /\ MemInv /\ RegsInv /\ how \in {"early_init", "alloc_page"}
      /\ stage = "entry" /\ i \in Nat /\ i < Entries /\ i \in 0..Entries - 1
      /\ Entries \in Nat \ {0} /\ TableLen \in Nat \ {0} /\ PageWords \in Nat
      /\ MemWords \in Nat
  BY Sizes, PagingAssumption DEF PagingInv, LoopInv, store_entry
<1> DEFINE page == Tables + (i \div PerPage) * PageWords
<1>1. /\ pagetable' = page_of(i) /\ k' = 0 /\ stage' = "table"
      /\ mem' = [mem EXCEPT ![pagedir + i] =
                   [kind |-> "table", baddr |-> table_at(pagetable', i) \div TableLen]]
      /\ UNCHANGED <<how, i, pagedir, ttbr0, ttbr1, dacr>>
  BY DEF store_entry
<1>2. page_of(i) = page
  <2>1. CASE i % PerPage = 0 /\ how = "early_init"
    BY <1>0, <2>1 DEF page_of, new_page, LoopInv
  <2>2. CASE i % PerPage = 0 /\ how = "alloc_page"
    <3>1. (i \div PerPage) * PageWords \in Nat
      BY <1>0, TableFollows
    <3> QED
      BY <2>2, <3>1 DEF page_of, new_page, Tables
  <2>3. CASE i % PerPage # 0
    BY <1>0, <2>3 DEF page_of, LoopInv
  <2> QED
    BY <1>0, <2>1, <2>2, <2>3
<1>3. table_at(page, i) = Tables + i * TableLen /\ i \div PerPage \in Nat
  BY <1>0, TableFollows
<1>4. page \in Address
  <2>1. i * TableLen + 0 \in VPages
    <3>1. 0 \in 0..TableLen - 1
      BY <1>0
    <3> QED
      BY <1>0, <3>1, PageOf
  <2>2. Tables + i * TableLen \in Address /\ Tables \in Nat /\ i * TableLen \in Nat
    <3>1. i * TableLen \in Nat
      BY <1>0, Times
    <3>2. i * TableLen + 0 = i * TableLen
      BY <3>1
    <3> QED
      BY <1>0, <2>1, <3>1, <3>2, Places
  <2> DEFINE q == i \div PerPage
             r == (i % PerPage) * TableLen
  <2>3. q * PageWords \in Nat /\ r \in Nat
    <3>1. i % PerPage \in Nat
      BY <1>0 DEF PerPage
    <3>2. q \in Nat
      BY <1>3
    <3> HIDE DEF q
    <3> QED
      BY <1>0, <3>1, <3>2, Times
  <2>4. Tables + q * PageWords + r = Tables + i * TableLen
    BY <1>3 DEF table_at
  <2> HIDE DEF q, r
  <2>5. Tables + q * PageWords \in Nat /\ Tables + q * PageWords <= Tables + i * TableLen
    BY <2>2, <2>3, <2>4
  <2>6. Tables + q * PageWords \in Address
    BY <1>0, <2>2, <2>5 DEF Address
  <2> QED
    BY <2>6 DEF q
<1> HIDE DEF page
<1>5. pagedir + i = DirAt(i)
  BY <1>0, Sizes DEF LoopInv, DirAt
<1>6. mem' = [mem EXCEPT ![DirAt(i)] = DirEntry(i)]
  BY <1>1, <1>2, <1>3, <1>5 DEF DirEntry
<1>7. Entered = i /\ Entered' = i + 1 /\ Stored = i * TableLen /\ Stored' = i * TableLen
      /\ i * TableLen \in Nat
  <2>1. i * TableLen \in Nat
    BY <1>0, Times
  <2> QED
    BY <1>0, <1>1, <2>1 DEF Entered, Stored
<1>8. MemInv' /\ Keeps
  <2>1. DirAt(i) \in Address /\ DirEntry(i) \in DirWord
    BY <1>0, Places, EntryLeads
  <2>2. Entered' \in Nat /\ Stored' \in Nat /\ Entered' = Entered + 1 /\ Stored' = Stored
        /\ Entered < Entries
    BY <1>0, <1>7
  <2>3. how' = how
    BY <1>1
  <2> HIDE DEF MemInv, LoopInv
  <2> QED
    BY <1>0, <1>6, <1>7, <2>1, <2>2, <2>3, StoreStep
<1>9. LoopInv'
  <2>1. Tables' = Tables
    BY <1>1 DEF Tables
  <2>2. k' \in 0..TableLen /\ k' < TableLen
    BY <1>0, <1>1
  <2> QED
    BY <1>0, <1>1, <1>2, <1>4, <2>1, <2>2 DEF LoopInv, page
<1>10. RegsInv'
  BY <1>0, <1>1 DEF RegsInv
<1> QED
  BY <1>8, <1>9, <1>10 DEF PagingInv


\* The next entry is on the same page or begins another.
LEMMA NextTable ==
  ASSUME NEW e \in Nat
  PROVE  IF (e + 1) % PerPage = 0
         THEN (e + 1) \div PerPage = e \div PerPage + 1
         ELSE (e + 1) \div PerPage = e \div PerPage
BY DEF PerPage

LEMMA PageStep ==
  ASSUME PagingInv, store_page
  PROVE  PagingInv' /\ Keeps
<1>0. /\ LoopInv /\ MemInv /\ RegsInv /\ how \in {"early_init", "alloc_page"}
      /\ stage = "table" /\ i \in Nat /\ i < Entries /\ k \in Nat /\ k < TableLen
      /\ pagedir = IF i < Half THEN DirBase ELSE DirBase + Entries
      /\ pagetable \in Address /\ pagetable = Tables + (i \div PerPage) * PageWords
      /\ Entries \in Nat \ {0} /\ TableLen \in Nat \ {0} /\ PageWords \in Nat
      /\ Half \in Nat \ {0} /\ Entries = 2 * Half /\ Tables \in Nat
  BY Sizes, Places DEF PagingInv, LoopInv, store_page
<1>1. /\ mem' = [mem EXCEPT ![table_at(pagetable, i) + k] = PageEntry(i * TableLen + k)]
      /\ UNCHANGED <<how, pagedir, pagetable, ttbr0, ttbr1, dacr>>
  BY DEF store_page, PageEntry
<1>2. \/ /\ k + 1 < TableLen /\ k' = k + 1 /\ i' = i /\ stage' = "table"
      \/ /\ k + 1 = TableLen /\ k' = 0 /\ i' = i + 1
         /\ i + 1 = Half => stage' = "half"
         /\ i + 1 = Entries => stage' = "enable"
         /\ i + 1 # Half /\ i + 1 # Entries => stage' = "entry"
  BY <1>0 DEF store_page
<1>3. i * TableLen \in Nat /\ (i + 1) * TableLen = i * TableLen + TableLen
  BY <1>0
<1>4. /\ Stored = i * TableLen + k /\ Stored' = i * TableLen + k + 1
      /\ Entered = i + 1 /\ Entered' = i + 1
  <2>1. CASE k + 1 < TableLen
    BY <1>0, <1>2, <1>3, <2>1 DEF Stored, Entered
  <2>2. CASE k + 1 = TableLen
    <3>1. stage' # "table" /\ i' = i + 1
      BY <1>0, <1>2, <2>2
    <3>2. Stored' = (i + 1) * TableLen /\ Entered' = i + 1
      BY <3>1 DEF Stored, Entered
    <3> QED
      BY <1>0, <1>3, <2>2, <3>2 DEF Stored, Entered
  <2> QED
    BY <1>0, <2>1, <2>2
<1>5. table_at(pagetable, i) + k = Tables + Stored
  <2>1. table_at(pagetable, i) = Tables + i * TableLen
    BY <1>0, TableFollows
  <2> QED
    BY <1>0, <1>3, <1>4, <2>1
<1>6. MemInv' /\ Keeps
  <2>1. Stored \in VPages
    BY <1>0, StoredPages
  <2>2. PageEntry(Stored) \in PageWord /\ Tables + Stored \in Address
    BY <1>0, <2>1, Places, FrameType
  <2>3. mem' = [mem EXCEPT ![Tables + Stored] = PageEntry(Stored)]
    BY <1>1, <1>4, <1>5
  <2> DEFINE x == i + 1
             y == i * TableLen + k + 1
  <2>4. x \in Nat /\ y \in Nat /\ Entered' = x /\ Stored' = y /\ x = Entered /\ y = Stored + 1
    BY <1>0, <1>3, <1>4
  <2>5. PICK b, c : b = x /\ c = y
    OBVIOUS
  <2>6. b \in Nat /\ c \in Nat /\ Entered' = b /\ Stored' = c /\ b = Entered /\ c = Stored + 1
    BY <2>4, <2>5
  <2>7. how' = how
    BY <1>1
  <2> HIDE DEF x, y
  <2> QED
    BY <1>0, <2>1, <2>2, <2>3, <2>6, <2>7, StoreStep
<1>7. LoopInv'
  <2>1. Tables' = Tables
    BY <1>1 DEF Tables
  <2>2. CASE k + 1 < TableLen
    <3>1. /\ k' = k + 1 /\ i' = i /\ stage' = "table" /\ k + 1 \in 0..TableLen
          /\ i \in 0..Entries
      BY <1>0, <1>2, <2>2
    <3> QED
      BY <1>0, <1>1, <2>1, <2>2, <3>1 DEF LoopInv
  <2>3. CASE k + 1 = TableLen
    <3>1. /\ k' = 0 /\ i' = i + 1 /\ i + 1 \in 0..Entries /\ 0 \in 0..TableLen
          /\ i + 1 = Half => stage' = "half"
          /\ i + 1 = Entries => stage' = "enable"
          /\ i + 1 # Half /\ i + 1 # Entries => stage' = "entry"
      BY <1>0, <1>2, <2>3
    <3>2. pagedir = IF i + 1 < Half \/ stage' = "half" THEN DirBase ELSE DirBase + Entries
      BY <1>0, <3>1
    <3>3. IF (i + 1) % PerPage = 0
          THEN pagetable + PageWords = Tables + ((i + 1) \div PerPage) * PageWords
          ELSE pagetable = Tables + ((i + 1) \div PerPage) * PageWords
      <4>1. CASE (i + 1) % PerPage = 0
        <5>1. (i + 1) \div PerPage = i \div PerPage + 1
          BY <1>0, <4>1, NextTable
        <5>2. i \div PerPage \in Nat
          BY <1>0, TableFollows
        <5> DEFINE q == i \div PerPage
        <5>3. pagetable = Tables + q * PageWords
              /\ (i + 1) \div PerPage = q + 1 /\ q \in Nat
          BY <1>0, <5>1, <5>2
        <5> HIDE DEF q
        <5>4. (q + 1) * PageWords = q * PageWords + PageWords /\ q * PageWords \in Nat
          BY <1>0, <5>3
        <5>5. pagetable + PageWords = Tables + (q + 1) * PageWords
          BY <1>0, <5>3, <5>4
        <5> QED
          BY <4>1, <5>3, <5>5
      <4>2. CASE (i + 1) % PerPage # 0
        BY <1>0, <4>2, NextTable
      <4> QED
        BY <4>1, <4>2
    <3> HIDE DEF PerPage
    <3> QED
      BY <1>0, <1>1, <2>1, <3>1, <3>2, <3>3 DEF LoopInv
  <2> QED
    BY <1>0, <2>2, <2>3
<1>8. RegsInv'
  <2>1. i' >= Half /\ stage' # "half" => i >= Half
    BY <1>0, <1>2
  <2>2. stage' # "on"
    BY <1>2
  <2> QED
    BY <1>0, <1>1, <2>1, <2>2 DEF RegsInv
<1> QED
  BY <1>6, <1>7, <1>8 DEF PagingInv

\* The first directory is aligned for either way the base is packed.
LEMMA BaseHolds == ttbr0_of(DirBase) = DirBase
<1>1. PICK d \in Nat : DirBase = d * Entries
  BY Sizes
<1>2. Half \in Nat \ {0} /\ Entries = 2 * Half /\ DirBase \in Nat
  BY Sizes
<1>3. DirBase = (2 * d) * Half + 0 /\ 2 * d \in Nat
  BY <1>1, <1>2
<1>4. DirBase \div Half = 2 * d
  <2>1. 0 \in 0..Half - 1
    BY <1>2
  <2>2. ((2 * d) * Half + 0) \div Half = 2 * d
    BY <1>2, <1>3, <2>1, QuotientIs
  <2> QED
    BY <1>3, <2>2
<1> QED
  BY <1>2, <1>3, <1>4 DEF ttbr0_of

LEMMA HalfStep ==
  ASSUME PagingInv, next_directory
  PROVE  PagingInv' /\ Keeps
<1>0. /\ LoopInv /\ MemInv /\ RegsInv /\ stage = "half" /\ i = Half /\ pagedir = DirBase
      /\ Half \in Nat \ {0} /\ Entries = 2 * Half /\ DirBase \in Nat
  BY Sizes DEF PagingInv, LoopInv, next_directory
<1>1. /\ ttbr0' = DirBase /\ pagedir' = DirBase + Entries /\ stage' = "entry"
      /\ UNCHANGED <<mem, how, i, k, pagetable, ttbr1, dacr>>
  BY <1>0, BaseHolds DEF next_directory
<1>2. LoopInv'
  BY <1>0, <1>1 DEF LoopInv, Tables
<1>3. MemInv' /\ Keeps
  <2>1. Entered' = Entered /\ Stored' = Stored /\ Tables' = Tables
    BY <1>0, <1>1 DEF Entered, Stored, Tables
  <2> QED
    BY <1>0, <1>1, <2>1 DEF MemInv, Keeps, DirEntry
<1>4. RegsInv'
  BY <1>0, <1>1 DEF RegsInv
<1> QED
  BY <1>2, <1>3, <1>4 DEF PagingInv

LEMMA EnableStep ==
  ASSUME PagingInv, enable_mmu
  PROVE  PagingInv' /\ Keeps
<1>0. /\ LoopInv /\ MemInv /\ RegsInv /\ stage = "enable" /\ i = Entries
      /\ pagedir = DirBase + Entries
      /\ Half \in Nat \ {0} /\ Entries = 2 * Half /\ DirBase \in Nat
  BY Sizes DEF PagingInv, LoopInv, enable_mmu
<1>1. /\ ttbr1' = ttbr1_of(DirBase + Entries) /\ dacr' = "manager" /\ stage' = "on"
      /\ UNCHANGED <<mem, how, i, k, pagedir, pagetable, ttbr0>>
  BY <1>0 DEF enable_mmu
<1>2. LoopInv'
  BY <1>0, <1>1 DEF LoopInv, Tables
<1>3. MemInv' /\ Keeps
  <2>1. Entered' = Entered /\ Stored' = Stored /\ Tables' = Tables
    BY <1>0, <1>1 DEF Entered, Stored, Tables
  <2> QED
    BY <1>0, <1>1, <2>1 DEF MemInv, Keeps, DirEntry
<1>4. ttbr1_of(DirBase + Entries) \in Nat
  <2> DEFINE b == DirBase + Entries
  <2>1. b \in Nat /\ Entries \in Nat \ {0}
    BY <1>0
  <2>2. b \div Entries \in Nat
    BY <2>1, DivMod
  <2> HIDE DEF b
  <2>3. (b \div Entries) * Half \in Nat
    BY <1>0, <2>2, Times
  <2> QED
    BY <2>1, <2>3 DEF ttbr1_of, b
<1>5. RegsInv'
  <2>1. ttbr1_of(DirBase + Entries)' = ttbr1_of(DirBase + Entries)
    BY <1>1 DEF ttbr1_of
  <2> QED
    BY <1>0, <1>1, <1>4, <2>1 DEF RegsInv
<1> QED
  BY <1>2, <1>3, <1>5 DEF PagingInv

LEMMA InitPaging == PagingInit => PagingInv
<1> SUFFICES ASSUME PagingInit PROVE PagingInv
  OBVIOUS
<1>0. /\ mem = [a \in Address |-> Unwritten] /\ how \in {"early_init", "alloc_page"}
      /\ i = 0 /\ k = 0 /\ pagedir = DirBase /\ stage = "entry"
      /\ pagetable = IF how = "early_init" THEN FirstTable ELSE 0
      /\ ttbr0 = 0 /\ ttbr1 = 0 /\ dacr = "client"
  BY DEF PagingInit
<1>1. /\ Entries \in Nat \ {0} /\ TableLen \in Nat \ {0} /\ PageWords \in Nat \ {0}
      /\ Half \in Nat \ {0} /\ DirBase \in Nat /\ FirstTable = DirBase + 4 * Entries
  BY Sizes
<1>2. 0 \in Address /\ FirstTable \in Address
  <2>1. PICK n \in Nat : n = Entries * TableLen /\ FirstTable + PageWords + n <= MemWords
    BY Sizes
  <2>2. FirstTable \in Nat /\ FirstTable < MemWords
    BY <1>1, <2>1, PagingAssumption
  <2> QED
    BY <2>2, PagingAssumption DEF Address
<1>3. LoopInv
  <2>1. (i % PerPage) = 0 /\ (i \div PerPage) * PageWords = 0
    BY <1>0, <1>1 DEF PerPage
  <2>2. FirstTable + PageWords = FirstTable + PageWords + 0
    BY <1>1
  <2>3. how = "early_init" => pagetable + PageWords = Tables + (i \div PerPage) * PageWords
    BY <1>0, <2>1, <2>2 DEF Tables
  <2>4. pagetable \in Address
    BY <1>0, <1>2
  <2>5. 0 \in 0..Entries /\ 0 \in 0..TableLen
    BY <1>1
  <2> QED
    BY <1>0, <1>1, <2>1, <2>3, <2>4, <2>5 DEF LoopInv
<1>4. MemInv
  <2>1. Entered = 0 /\ Stored = 0
    BY <1>0, <1>1 DEF Entered, Stored
  <2>2. \A n \in 0..0 - 1 : FALSE
    OBVIOUS
  <2> QED
    BY <1>0, <2>1, <2>2 DEF MemInv
<1>5. RegsInv
  BY <1>0, <1>1 DEF RegsInv
<1> QED
  BY <1>3, <1>4, <1>5 DEF PagingInv

LEMMA PagingStep == PagingInv /\ [PagingNext]_pagingVars => PagingInv' /\ Keeps
<1> SUFFICES ASSUME PagingInv, [PagingNext]_pagingVars PROVE PagingInv' /\ Keeps
  OBVIOUS
<1>1. CASE build
  BY <1>1, EntryStep, PageStep, HalfStep, EnableStep DEF build
<1>2. CASE UNCHANGED pagingVars
  <2>1. UNCHANGED <<mem, how, i, k, pagedir, pagetable, stage, ttbr0, ttbr1, dacr>>
    BY <1>2 DEF pagingVars
  <2>2. Entered' = Entered /\ Stored' = Stored /\ Tables' = Tables
        /\ (ttbr1_of(DirBase + Entries))' = ttbr1_of(DirBase + Entries)
    BY <2>1 DEF Entered, Stored, Tables, ttbr1_of
  <2>3. LoopInv'
    BY <2>1, <2>2 DEF PagingInv, LoopInv
  <2>4. MemInv' /\ Keeps
    BY <2>1, <2>2 DEF PagingInv, MemInv, Keeps, DirEntry
  <2>5. RegsInv'
    BY <2>1, <2>2 DEF PagingInv, RegsInv
  <2> QED
    BY <2>3, <2>4, <2>5 DEF PagingInv
<1> QED
  BY <1>1, <1>2 DEF PagingNext, early_init, paging_enable_with_identitymapping

LEMMA PagingTypes == PagingInv => PagingTypeOK
<1> SUFFICES ASSUME PagingInv PROVE PagingTypeOK
  OBVIOUS
<1>1. pagedir \in Address
  <2>1. /\ Entries \in Nat \ {0} /\ DirBase \in Nat /\ FirstTable = DirBase + 4 * Entries
        /\ PageWords \in Nat \ {0}
    BY Sizes
  <2>2. PICK n \in Nat : n = Entries * TableLen /\ FirstTable + PageWords + n <= MemWords
    BY Sizes
  <2>3. pagedir = DirBase \/ pagedir = DirBase + Entries
    BY DEF PagingInv, LoopInv
  <2> QED
    BY <2>1, <2>2, <2>3, PagingAssumption DEF Address
<1> QED
  BY <1>1 DEF PagingInv, LoopInv, MemInv, RegsInv, PagingTypeOK

----------------------------------------------------------------------------
(* The walk of the tables. *)

\* Of a page the walk finds the entry that was stored for it.
LEMMA WalkFinds ==
  ASSUME PagingInv, stage = "on", NEW p \in VPages,
         how = "early_init" \/ p < Half * TableLen
  PROVE  walk(p) = [frame |-> physical(p), writable |-> TRUE]
<1>0. /\ how \in {"early_init", "alloc_page"} /\ i = Entries
      /\ ttbr0 = DirBase /\ ttbr1 = ttbr1_of(DirBase + Entries) /\ dacr = "manager"
      /\ Half \in Nat \ {0} /\ Entries = 2 * Half /\ DirBase \in Nat
      /\ Entries \in Nat \ {0} /\ TableLen \in Nat \ {0}
  BY Sizes DEF PagingInv, LoopInv, RegsInv
<1> DEFINE e == p \div TableLen
           r == p % TableLen
<1>1. p \in Nat /\ p < Entries * TableLen /\ Entries * TableLen \in Nat
  BY Sizes DEF VPages
<1>2. e \in Nat /\ r \in 0..TableLen - 1 /\ p = e * TableLen + r /\ e < Entries
  <2>1. e \in Nat /\ r \in 0..TableLen - 1 /\ p = TableLen * e + r
    BY <1>0, <1>1, DivMod
  <2> HIDE DEF e, r
  <2>2. p = e * TableLen + r /\ e * TableLen \in Nat
    BY <1>0, <2>1, Times
  <2>3. ~(e < Entries) => Entries * TableLen <= e * TableLen
    <3>1. Entries < e => Entries * TableLen + TableLen <= e * TableLen
      BY <1>0, <2>1, Times
    <3>2. e = Entries => Entries * TableLen <= e * TableLen
      BY <1>1
    <3> QED
      BY <1>0, <1>1, <2>1, <2>2, <3>1, <3>2
  <2> QED
    BY <1>0, <1>1, <2>1, <2>2, <2>3
<1>3. how # "early_init" => e < Half
  <2>1. ASSUME p < Half * TableLen, ~(e < Half) PROVE FALSE
    <3> HIDE DEF e, r
    <3>1. e * TableLen \in Nat /\ Half * TableLen \in Nat
      BY <1>0, <1>2, Times
    <3>2. Half < e => Half * TableLen + TableLen <= e * TableLen
      BY <1>0, <1>2, Times
    <3>3. Half = e \/ Half < e
      BY <1>0, <1>2, <2>1
    <3> QED
      BY <1>0, <1>1, <1>2, <2>1, <3>1, <3>2, <3>3
  <2> QED
    BY <2>1
<1> HIDE DEF e, r
<1> DEFINE dir == IF e < Half THEN (ttbr0 \div Half) * Half ELSE (ttbr1 \div Entries) * Entries
<1>4. dir + e = DirAt(e)
  <2>1. PICK d \in Nat : DirBase = d * Entries
    BY Sizes
  <2>2. CASE e < Half
    <3>1. DirBase = (2 * d) * Half + 0 /\ 2 * d \in Nat /\ 0 \in 0..Half - 1
      BY <1>0, <2>1
    <3>2. ((2 * d) * Half + 0) \div Half = 2 * d
      BY <1>0, <3>1, QuotientIs
    <3>3. (DirBase \div Half) * Half = DirBase
      BY <1>0, <3>1, <3>2
    <3> QED
      BY <1>0, <2>2, <3>3 DEF DirAt
  <2>3. CASE ~(e < Half)
    <3>1. how = "early_init"
      BY <1>0, <1>3, <2>3
    <3>2. ttbr1 = DirBase + Entries
      BY <1>0, <3>1 DEF ttbr1_of
    <3>3. DirBase + Entries = (d + 1) * Entries + 0 /\ d + 1 \in Nat /\ 0 \in 0..Entries - 1
      BY <1>0, <2>1
    <3>4. ((d + 1) * Entries + 0) \div Entries = d + 1
      BY <1>0, <3>3, QuotientIs
    <3>5. (ttbr1 \div Entries) * Entries = DirBase + Entries
      <4>1. (DirBase + Entries) \div Entries = d + 1
        BY <3>3, <3>4
      <4>2. (d + 1) * Entries + 0 = (d + 1) * Entries
        BY <1>0
      <4> QED
        BY <3>2, <3>3, <4>1, <4>2
    <3> QED
      BY <1>0, <2>3, <3>5 DEF DirAt
  <2> QED
    BY <2>2, <2>3
<1>5. e \in 0..Entries - 1
  BY <1>0, <1>2
<1>6. Word(dir + e) = DirEntry(e)
  <2>1. DirAt(e) \in Address
    BY <1>0, <1>5, Places
  <2>2. Entered = Entries
    BY <1>0 DEF Entered
  <2> QED
    BY <1>4, <1>5, <2>1, <2>2 DEF PagingInv, MemInv, Word
<1>7. Word(DirEntry(e).baddr * TableLen + r) = PageEntry(p)
  <2>1. DirEntry(e).baddr * TableLen = Tables + e * TableLen
    BY <1>0, <1>2, EntryLeads
  <2>2. Tables \in Nat /\ e * TableLen \in Nat /\ r \in Nat
    BY <1>0, <1>2, Places, Times
  <2>3. DirEntry(e).baddr * TableLen + r = Tables + p
    BY <1>2, <2>1, <2>2
  <2>4. Tables + p \in Address
    BY <1>0, Places
  <2>5. Stored = Entries * TableLen
    BY <1>0 DEF Stored
  <2>6. p \in 0..Stored - 1
    BY <1>1, <2>5
  <2> QED
    BY <2>3, <2>4, <2>6 DEF PagingInv, MemInv, Word
<1>8. DirEntry(e).kind = "table"
  BY <1>0, <1>2, EntryLeads
<1> HIDE DEF dir
<1>9. PICK d : d = Word(dir + e)
  OBVIOUS
<1>10. PICK w : w = PageEntry(p)
  OBVIOUS
<1>11. w.kind = "page" /\ w.baddr = frame(p) /\ w.read_only = TRUE /\ frame(p) = physical(p)
  BY <1>10, FrameType DEF PageEntry
<1>12. walk(p) = [frame |-> w.baddr, writable |-> dacr = "manager" \/ ~w.read_only]
  BY <1>6, <1>7, <1>8, <1>10, <1>11 DEF walk, dir, e, r
<1> QED
  BY <1>0, <1>11, <1>12

\* Of a page in the upper half the other function has the MMU look below the
\* directories and above the tables, where it has stored nothing.
LEMMA WalkMisses ==
  ASSUME PagingInv, stage = "on", how # "early_init", NEW p \in VPages,
         ~(p < Half * TableLen)
  PROVE  walk(p) = Fault
<1>0. /\ how \in {"early_init", "alloc_page"} /\ i = Entries
      /\ ttbr1 = ttbr1_of(DirBase + Entries)
      /\ Half \in Nat \ {0} /\ Entries = 2 * Half /\ DirBase \in Nat
      /\ Entries \in Nat \ {0} /\ TableLen \in Nat \ {0}
  BY Sizes DEF PagingInv, LoopInv, RegsInv
<1> DEFINE e == p \div TableLen
           r == p % TableLen
           dir == (ttbr1 \div Entries) * Entries
<1>1. e \in Half .. Entries - 1
  <2>1. p \in Nat /\ p < Entries * TableLen /\ Entries * TableLen \in Nat
    BY Sizes DEF VPages
  <2>2. e \in Nat /\ r \in 0..TableLen - 1 /\ p = TableLen * e + r
    BY <1>0, <2>1, DivMod
  <2> HIDE DEF e, r
  <2>3. p = e * TableLen + r /\ e * TableLen \in Nat /\ Half * TableLen \in Nat
    BY <1>0, <2>2, Times
  <2>4. e < Half => e * TableLen + TableLen <= Half * TableLen
    BY <1>0, <2>2, Times
  <2>5. Entries < e => Entries * TableLen + TableLen <= e * TableLen
    BY <1>0, <2>2, Times
  <2>6. ~(e < Half)
    BY <1>0, <2>1, <2>2, <2>3, <2>4
  <2>7. ~(Entries < e) /\ e # Entries
    BY <1>0, <2>1, <2>2, <2>3, <2>5
  <2> QED
    BY <1>0, <2>2, <2>6, <2>7
<1>2. \E c \in Nat : dir = c * Entries /\ DirBase <= 2 * dir /\ dir + Entries <= DirBase
  <2>1. PICK d \in Nat : DirBase = d * Entries
    BY Sizes
  <2>2. d >= 2
    <3>1. 2 * (Entries * TableLen) <= DirBase /\ Entries <= Entries * TableLen
      <4>1. 1 * Entries <= TableLen * Entries
        <5>1. 1 < TableLen => 1 * Entries + Entries <= TableLen * Entries
          BY <1>0, Times
        <5> QED
          BY <1>0, <5>1
      <4> QED
        BY <1>0, <4>1, Sizes, Times
    <3>2. Entries * TableLen \in Nat
      BY Sizes
    <3>3. d = 0 => DirBase = 0
      BY <1>0, <2>1
    <3>4. d = 1 => DirBase = Entries
      BY <1>0, <2>1
    <3> QED
      BY <1>0, <2>1, <3>1, <3>2, <3>3, <3>4
  <2>3. ttbr1 = (d + 1) * Half
    <3>1. DirBase + Entries = (d + 1) * Entries + 0 /\ d + 1 \in Nat /\ 0 \in 0..Entries - 1
      BY <1>0, <2>1
    <3>2. (DirBase + Entries) \div Entries = d + 1
      <4>1. ((d + 1) * Entries + 0) \div Entries = d + 1
        BY <1>0, <3>1, QuotientIs
      <4> QED
        BY <3>1, <4>1
    <3> QED
      BY <1>0, <3>2 DEF ttbr1_of
  <2>4. PICK c \in Nat, b \in {0, 1} : d + 1 = 2 * c + b
    <3> DEFINE x == (d + 1) \div 2
               y == (d + 1) % 2
    <3>1. x \in Nat /\ y \in {0, 1} /\ d + 1 = 2 * x + y
      OBVIOUS
    <3> HIDE DEF x, y
    <3> QED
      BY <3>1
  <2>5. ttbr1 \div Entries = c
    <3>1. b * Half \in 0..Entries - 1
      BY <1>0, <2>4
    <3>2. (c * Entries + b * Half) \div Entries = c
      BY <1>0, <2>4, <3>1, QuotientIs
    <3>3. ttbr1 = c * Entries + b * Half
      <4>1. c * Half \in Nat /\ c * Entries = 2 * (c * Half)
        BY <1>0, <2>4
      <4>2. (2 * c + b) * Half = 2 * (c * Half) + b * Half
        BY <1>0, <2>4
      <4> QED
        BY <2>3, <2>4, <4>1, <4>2
    <3> QED
      BY <3>2, <3>3
  <2>6. d <= 2 * c /\ c < d
    BY <2>2, <2>4
  <2>7. c * Entries \in Nat /\ d * Entries \in Nat /\ c * Entries + Entries <= d * Entries
    BY <1>0, <2>6, Times
  <2>8. d * Entries <= (2 * c) * Entries /\ (2 * c) * Entries = 2 * (c * Entries)
    <3>1. d < 2 * c => d * Entries + Entries <= (2 * c) * Entries
      BY <1>0, <2>4, Times
    <3>2. d = 2 * c => d * Entries = (2 * c) * Entries
      OBVIOUS
    <3>3. (2 * c) * Entries = 2 * (c * Entries)
      BY <1>0, <2>4
    <3> QED
      BY <1>0, <2>6, <2>7, <3>1, <3>2, <3>3
  <2> QED
    BY <2>1, <2>5, <2>7, <2>8
<1> HIDE DEF e, r
<1>3. dir + e >= Entries * TableLen /\ dir + e < DirBase /\ dir + e \in Nat
  <2> PICK c \in Nat : dir = c * Entries /\ DirBase <= 2 * dir /\ dir + Entries <= DirBase
    BY <1>2
  <2>1. dir \in Nat /\ Entries * TableLen \in Nat /\ 2 * (Entries * TableLen) <= DirBase
    BY <1>0, Sizes, Times
  <2> HIDE DEF dir
  <2> QED
    BY <1>0, <1>1, <2>1
<1> HIDE DEF dir
<1>4. Word(dir + e) = Unwritten
  <2>1. Tables = 0 /\ Stored = Entries * TableLen /\ Entered = Entries
    BY <1>0 DEF Tables, Stored, Entered
  <2>2. ASSUME NEW f \in 0..Entries - 1 PROVE dir + e # DirAt(f)
    BY <1>0, <1>3 DEF DirAt
  <2>3. ASSUME NEW q \in 0..Entries * TableLen - 1 PROVE dir + e # 0 + q
    BY <1>3, Sizes
  <2>4. dir + e \in Address => mem[dir + e] = Unwritten
    BY <2>1, <2>2, <2>3 DEF PagingInv, MemInv
  <2> QED
    BY <2>4 DEF Word
<1>5. Unwritten.kind = "unwritten"
  BY DEF Unwritten
<1>6. ~(e < Half)
  BY <1>0, <1>1
<1> QED
  BY <1>4, <1>5, <1>6 DEF walk, e, dir

LEMMA SpaceHolds == PagingInv => AddressSpaceHolds
<1> SUFFICES ASSUME PagingInv, stage = "on", NEW p \in VPages
             PROVE  walk(p) = IF how = "early_init" \/ p < Half * TableLen
                              THEN Translation(p) ELSE Fault
  BY DEF AddressSpaceHolds
<1>1. CASE how = "early_init" \/ p < Half * TableLen
  BY <1>1, WalkFinds DEF Translation
<1>2. CASE ~(how = "early_init" \/ p < Half * TableLen)
  BY <1>2, WalkMisses
<1> QED
  BY <1>1, <1>2

\* What is at address 0 is reached there and at the kernel's base.
LEMMA VectorsSeen ==
  ASSUME PagingInv, stage = "on", how = "early_init"
  PROVE  walk(0).frame = 0 /\ walk(KernelBase).frame = 0
<1>1. KernelBase \in Nat \ {0} /\ KernelBase \in VPages
  BY FrameType
<1>2. 0 \in VPages
  BY Sizes DEF VPages
<1>3. walk(0) = [frame |-> physical(0), writable |-> TRUE]
      /\ walk(KernelBase) = [frame |-> physical(KernelBase), writable |-> TRUE]
  BY <1>1, <1>2, WalkFinds
<1>4. physical(0) = 0 /\ physical(KernelBase) = 0
  BY <1>1 DEF physical
<1> QED
  BY <1>3, <1>4

----------------------------------------------------------------------------
(* Interrupts. *)

Frame == [j : 0 .. Timer + 1, at : {"scan", "schedule", "enable"}]

LEMMA Bounds == Timer \in Nat /\ Timer \in Ids /\ MaxDepth \in Nat \ {0}
               /\ 0 \in 0 .. Timer + 1
BY IrqAssumption DEF Ids

\* The innermost call goes on as f; those below it stay.
LEMMA AdvanceKeeps ==
  ASSUME IrqTypeOK, NEW at, NEW f \in Frame, Advance(at, f)
  PROVE  /\ frames' \in Seq(Frame) /\ Len(frames') = Len(frames)
         /\ Len(frames) \in Nat \ {0} /\ Len(frames') <= MaxDepth /\ frames' # <<>>
         /\ \A n \in 1 .. Len(frames) - 1 : frames'[n] = frames[n]
         /\ frames'[Len(frames)] = f /\ Top' = f /\ Top.at = at /\ ~lost
         /\ Top \in Frame /\ Top = frames[Len(frames)]
<1>0. /\ frames \in Seq(Frame) /\ Len(frames) <= MaxDepth
      /\ frames # <<>> /\ ~lost /\ Top.at = at
      /\ frames' = [frames EXCEPT ![Len(frames)] = f]
  BY DEF Advance, IrqTypeOK, Frame
<1>1. Len(frames) \in Nat \ {0} /\ Len(frames) \in 1 .. Len(frames)
  BY <1>0, EmptySeq, LenProperties
<1> HIDE DEF Frame
<1>2. frames' \in Seq(Frame) /\ Len(frames') = Len(frames)
      /\ \A n \in 1 .. Len(frames) : frames'[n] = IF n = Len(frames) THEN f ELSE frames[n]
  BY <1>0, <1>1, ExceptSeq
<1>3. frames' # <<>>
  BY <1>1, <1>2
<1>4. Top' = f
  BY <1>1, <1>2 DEF Top
<1>5. Top \in Frame /\ Top = frames[Len(frames)]
  BY <1>0, <1>1, ElementOfSeq DEF Top
<1>6. \A n \in 1 .. Len(frames) - 1 : frames'[n] = frames[n]
  BY <1>1, <1>2
<1>7. Len(frames') <= MaxDepth
  BY <1>0, <1>2
<1> QED
  BY <1>0, <1>1, <1>2, <1>3, <1>4, <1>5, <1>6, <1>7

\* The invariant follows where the top is what it may be.
LEMMA FramesFollow ==
  ASSUME IrqInv, NEW at, NEW f \in Frame, Advance(at, f),
         f.at # "scan" => f.j = Timer,
         ~(disabled') => Behind(f)
  PROVE  FramesInv'
<1>0. FramesInv /\ IrqTypeOK
  BY DEF IrqInv
<1>1. /\ Len(frames') = Len(frames) /\ Len(frames) \in Nat \ {0}
      /\ \A n \in 1 .. Len(frames) - 1 : frames'[n] = frames[n]
      /\ frames'[Len(frames)] = f /\ Top' = f
  BY <1>0, AdvanceKeeps
<1>2. \A n \in 1 .. Len(frames) : n \in 1 .. Len(frames) - 1 \/ n = Len(frames)
  BY <1>1
<1>3. \A n \in 1 .. Len(frames') : frames'[n].at # "scan" => frames'[n].j = Timer
  <2>1. \A n \in 1 .. Len(frames) - 1 : n \in 1 .. Len(frames)
    BY <1>1
  <2> QED
    BY <1>0, <1>1, <1>2, <2>1 DEF FramesInv
<1>4. \A n \in 1 .. Len(frames') - 1 : Behind(frames'[n])
  BY <1>0, <1>1 DEF FramesInv
<1>5. frames' # <<>> /\ ~(disabled') => Behind(Top')
  BY <1>1
<1> QED
  BY <1>3, <1>4, <1>5 DEF FramesInv, Behind

\* A step that leaves the calls, the handlers and lost alone.
LEMMA SameFrames ==
  ASSUME IrqInv, UNCHANGED <<frames, clearer, handler, lost>>, disabled' \/ disabled' = disabled
  PROVE  Registered' /\ FramesInv' /\ Sane'
BY DEF IrqInv, Registered, FramesInv, Sane, Top, Behind, Functions, Ids

\* A step within the innermost call.
LEMMA FramesStep ==
  ASSUME IrqInv, KernelRuns, InKernel, ~lost', irq_handler, UNCHANGED pagingVars
  PROVE  IrqInv' /\ KernelRuns'
<1>0. /\ IrqTypeOK /\ Registered /\ FramesInv /\ Sane /\ ~lost /\ lost \in BOOLEAN
      /\ Timer \in Nat /\ Timer \in Ids /\ Ids = 0..Timer /\ Turns = Timer + 1
  BY Bounds DEF IrqInv, IrqTypeOK, InKernel, Ids, Turns
<1>1. ASSUME NEW at, NEW f \in Frame, Advance(at, f), frames # <<>>,
             f.at # "scan" => f.j = Timer, ~(disabled') => Behind(f),
             disabled' \in BOOLEAN, cntv' \in {"off", "counting", "expired"},
             UNCHANGED <<booted, clearer, handler, word, lost>>
      PROVE  IrqInv' /\ KernelRuns'
  <2>1. FramesInv'
    BY <1>1, FramesFollow
  <2>2. IrqTypeOK'
    <3>1. frames' \in Seq(Frame) /\ Len(frames') <= MaxDepth
      BY <1>0, <1>1, AdvanceKeeps
    <3> QED
      BY <1>0, <1>1, <3>1 DEF IrqTypeOK, Frame, Ids, Functions
  <2>3. Registered' /\ Sane'
    BY <1>0, <1>1 DEF Registered, Sane, Ids, Functions
  <2>4. KernelRuns'
    <3>1. booted # "no"
      BY <1>1 DEF KernelRuns
    <3> QED
      BY <1>0, <1>1, <3>1 DEF KernelRuns, InKernel, pagingVars
  <2> QED
    BY <2>1, <2>2, <2>3, <2>4 DEF IrqInv
<1>2. ASSUME frames # <<>>
      PROVE  /\ Top \in Frame /\ Top = frames[Len(frames)] /\ Len(frames) \in Nat \ {0}
             /\ Top.j \in 0 .. Timer + 1 /\ (Top.at # "scan" => Top.j = Timer)
             /\ ~disabled => Behind(Top)
  <2>1. frames \in Seq(Frame)
    BY <1>0 DEF IrqTypeOK, Frame
  <2>2. Len(frames) \in Nat \ {0} /\ Len(frames) \in 1 .. Len(frames)
    BY <1>2, <2>1, EmptySeq, LenProperties
  <2>3. Top \in Frame /\ Top = frames[Len(frames)]
    BY <2>1, <2>2, ElementOfSeq DEF Top
  <2> QED
    BY <1>0, <1>2, <2>2, <2>3 DEF FramesInv, Frame
<1>3. CASE ScanOver
  <2> DEFINE f == [j |-> Top.j + 1, at |-> "scan"]
  <2>1. /\ frames # <<>> /\ Top.j < Turns /\ Advance("scan", f)
        /\ UNCHANGED <<booted, clearer, handler, disabled, cntv, word, lost>>
    BY <1>3 DEF ScanOver
  <2>2. f \in Frame /\ f.at = "scan"
    BY <1>0, <1>2, <2>1 DEF Frame
  <2>3. disabled
    <3>1. Top.at = "scan"
      BY <2>1 DEF Advance
    <3> QED
      BY <1>0, <1>2, <2>1, <3>1 DEF Behind
  <2>4. disabled' \in BOOLEAN /\ disabled' /\ cntv' \in {"off", "counting", "expired"}
    BY <1>0, <2>1, <2>3 DEF IrqTypeOK
  <2> HIDE DEF f
  <2> QED
    BY <1>1, <2>1, <2>2, <2>4
<1>4. CASE CallTimer
  <2> DEFINE f == [Top EXCEPT !.at = "schedule"]
  <2>1. /\ frames # <<>> /\ Top.j < Turns /\ Advance("scan", f)
        /\ handler[Top.j] = "handle_timer_irq" /\ disabled' = TRUE /\ cntv' = "off"
        /\ UNCHANGED <<booted, clearer, handler, word, lost>>
    BY <1>4 DEF CallTimer
  <2>2. Top.j \in Ids /\ Top.j = Timer
    <3>1. Top.j \in Ids
      BY <1>0, <1>2, <2>1
    <3> QED
      BY <1>0, <2>1, <3>1 DEF Registered
  <2>3. f \in Frame /\ f.j = Timer
    BY <1>2, <2>1, <2>2 DEF Frame
  <2> HIDE DEF f
  <2> QED
    BY <1>1, <2>1, <2>3
<1>5. CASE schedule
  <2> DEFINE f == [Top EXCEPT !.at = "enable"]
  <2>1. /\ frames # <<>> /\ Top.at = "schedule" /\ Advance("schedule", f)
        /\ disabled' = FALSE /\ cntv' = "counting"
        /\ UNCHANGED <<booted, clearer, handler, word, lost>>
    BY <1>5 DEF schedule, Advance
  <2>2. f \in Frame /\ f.j = Timer /\ f.at = "enable"
    BY <1>2, <2>1 DEF Frame
  <2>3. Behind(f)
    BY <2>2 DEF Behind
  <2> HIDE DEF f
  <2> QED
    BY <1>1, <2>1, <2>2, <2>3
<1>6. CASE EnableAfter
  <2> DEFINE f == [j |-> Top.j + 1, at |-> "scan"]
  <2>1. /\ frames # <<>> /\ Top.at = "enable" /\ Advance("enable", f)
        /\ disabled' = FALSE
        /\ UNCHANGED <<booted, clearer, handler, cntv, word, lost>>
    BY <1>6 DEF EnableAfter, Advance
  <2>2. f \in Frame /\ f.j = Timer + 1 /\ f.at = "scan"
    BY <1>0, <1>2, <2>1 DEF Frame
  <2>3. Behind(f) /\ cntv' \in {"off", "counting", "expired"}
    BY <1>0, <2>1, <2>2 DEF Behind, IrqTypeOK
  <2> HIDE DEF f
  <2> QED
    BY <1>1, <2>1, <2>2, <2>3
<1>7. CASE Leave
  <2> DEFINE m == Len(frames) - 1
  <2>1. /\ frames # <<>> /\ frames' = SubSeq(frames, 1, m) /\ disabled' = FALSE
        /\ UNCHANGED <<booted, clearer, handler, cntv, word, lost>>
    BY <1>7 DEF Leave
  <2>2. /\ frames \in Seq(Frame) /\ m \in Nat /\ Len(frames) = m + 1 /\ m + 1 <= MaxDepth
        /\ MaxDepth \in Nat
    BY <1>0, <1>2, <2>1, Bounds DEF IrqTypeOK, Frame
  <2>3. m \in 1 - 1 .. Len(frames) /\ 1 \in 1 .. Len(frames) + 1
    BY <2>2
  <2> HIDE DEF m
  <2>4. /\ frames' \in Seq(Frame) /\ Len(frames') = m
        /\ \A n \in 1 .. m : frames'[n] = frames[n]
    <3> DEFINE s == SubSeq(frames, 1, m)
    <3>1. /\ s \in Seq(Frame)
          /\ Len(s) = IF 1 <= m THEN m - 1 + 1 ELSE 0
          /\ \A n \in 1 .. m - 1 + 1 : s[n] = frames[1 + n - 1]
      BY <2>2, <2>3, SubSeqProperties
    <3> HIDE DEF s
    <3>2. Len(s) = m
      BY <2>2, <3>1
    <3>3. \A n \in 1 .. m : s[n] = frames[n]
      <4>1. \A n \in 1 .. m : n \in 1 .. m - 1 + 1 /\ 1 + n - 1 = n
        BY <2>2
      <4> QED
        BY <3>1, <4>1
    <3> QED
      BY <2>1, <3>1, <3>2, <3>3 DEF s
  <2>5. \A n \in 1 .. m : Behind(frames'[n]) /\ (frames'[n].at # "scan" => frames'[n].j = Timer)
    <3>1. \A n \in 1 .. m : n \in 1 .. Len(frames) /\ n \in 1 .. Len(frames) - 1
      BY <2>2
    <3> QED
      BY <1>0, <2>4, <3>1 DEF FramesInv
  <2>6. FramesInv'
    <3>1. \A n \in 1 .. m - 1 : n \in 1 .. m
      BY <2>2
    <3>2. frames' # <<>> => m \in 1 .. m
      BY <2>2, <2>4, EmptySeq
    <3>3. frames' # <<>> => Behind(frames'[m])
      BY <2>5, <3>2
    <3> QED
      BY <2>4, <2>5, <3>1, <3>3 DEF FramesInv, Top, Behind
  <2>7. IrqTypeOK'
    <3>1. frames' \in Seq(Frame) /\ Len(frames') <= MaxDepth
      BY <2>2, <2>4
    <3> QED
      BY <1>0, <2>1, <3>1 DEF IrqTypeOK, Frame, Ids, Functions
  <2>8. Registered' /\ Sane'
    BY <1>0, <2>1 DEF Registered, Sane, Ids, Functions
  <2>9. KernelRuns'
    BY <1>0, <2>1 DEF KernelRuns, InKernel, pagingVars
  <2> QED
    BY <2>6, <2>7, <2>8, <2>9 DEF IrqInv
<1>8. CASE CallLost
  BY <1>8 DEF CallLost
<1> QED
  BY <1>3, <1>4, <1>5, <1>6, <1>7, <1>8 DEF irq_handler

\* Only what is registered is called, unless the table was not zeroed.
LEMMA LostStep ==
  ASSUME IrqInv, KernelRuns, InKernel, CallLost, UNCHANGED pagingVars
  PROVE  IrqInv' /\ KernelRuns'
<1>0. /\ IrqTypeOK /\ Registered /\ FramesInv /\ Sane
      /\ Timer \in Nat /\ Ids = 0..Timer /\ Turns = Timer + 1
  BY Bounds DEF IrqInv, Ids, Turns
<1>1. /\ frames # <<>> /\ Top.j < Turns /\ clearer[Top.j] # "0" /\ lost' = TRUE
      /\ handler[Top.j] \notin Functions \/ clearer[Top.j] \notin Functions
      /\ UNCHANGED <<booted, clearer, handler, disabled, cntv, word, frames>>
  BY DEF CallLost, called
<1>2. Top.j \in Ids
  <2>1. frames \in Seq(Frame)
    BY <1>0 DEF IrqTypeOK, Frame
  <2>2. Len(frames) \in 1 .. Len(frames)
    BY <1>1, <2>1, EmptySeq, LenProperties
  <2>3. Top \in Frame
    BY <2>1, <2>2, ElementOfSeq DEF Top
  <2> QED
    BY <1>0, <1>1, <2>3 DEF Frame
<1>3. clearer[Top.j] = "junk"
  BY <1>0, <1>1, <1>2 DEF Registered
<1>4. Sane'
  BY <1>1, <1>2, <1>3 DEF Sane, Ids
<1>5. IrqTypeOK'
  BY <1>0, <1>1 DEF IrqTypeOK, Ids, Functions
<1>6. Registered' /\ FramesInv'
  BY <1>0, <1>1 DEF Registered, FramesInv, Top, Behind, Ids, Functions
<1>7. KernelRuns'
  BY <1>1 DEF KernelRuns, InKernel, pagingVars
<1> QED
  BY <1>4, <1>5, <1>6, <1>7 DEF IrqInv

LEMMA IrqStep ==
  ASSUME IrqInv, KernelRuns, InKernel, IrqNext, UNCHANGED pagingVars
  PROVE  IrqInv' /\ KernelRuns'
<1>0. /\ IrqTypeOK /\ Registered /\ FramesInv /\ Sane /\ ~lost
      /\ Timer \in Nat /\ Timer \in Ids /\ Ids = 0..Timer
  BY Bounds DEF IrqInv, InKernel, Ids
<1>1. CASE initExceptions
  <2>1. /\ booted = "no" /\ booted' = "vectors" /\ disabled' = FALSE
        /\ UNCHANGED <<clearer, handler, cntv, word, frames, lost>>
    BY <1>1 DEF initExceptions
  <2>2. frames = <<>>
    BY <2>1 DEF KernelRuns
  <2>3. FramesInv'
    BY <1>0, <2>1, <2>2 DEF FramesInv, Top, Behind
  <2>4. IrqTypeOK' /\ Registered' /\ Sane'
    BY <1>0, <2>1 DEF IrqTypeOK, Registered, Sane, Ids, Functions
  <2>5. KernelRuns'
    BY <1>0, <2>1 DEF KernelRuns, InKernel, pagingVars
  <2> QED
    BY <2>3, <2>4, <2>5 DEF IrqInv
<1>2. CASE timer_init
  <2>1. /\ booted = "vectors" /\ booted' = "handler"
        /\ handler' = [handler EXCEPT ![Timer] = "handle_timer_irq"]
        /\ clearer' = [clearer EXCEPT ![Timer] = "clear_timer_irq"]
        /\ UNCHANGED <<disabled, cntv, word, frames, lost>>
    BY <1>2 DEF timer_init, register_handler
  <2>2. FramesInv' /\ Sane'
    BY <1>0, <2>1 DEF FramesInv, Sane, Top, Behind
  <2>3. IrqTypeOK'
    BY <1>0, <2>1 DEF IrqTypeOK, Ids, Functions
  <2>4. Registered'
    BY <1>0, <2>1 DEF IrqTypeOK, Registered, Ids, Functions
  <2>5. KernelRuns'
    BY <1>0, <2>1 DEF KernelRuns, InKernel, pagingVars
  <2> QED
    BY <2>2, <2>3, <2>4, <2>5 DEF IrqInv
<1>3. CASE process_init \/ Expire
  <2>1. /\ booted' \in {"timer", booted} /\ cntv' \in {"counting", "expired"}
        /\ UNCHANGED <<clearer, handler, disabled, word, frames, lost>>
    BY <1>3 DEF process_init, Expire
  <2>2. FramesInv' /\ Sane' /\ Registered'
    BY <1>0, <2>1, SameFrames
  <2>3. IrqTypeOK'
    BY <1>0, <2>1 DEF IrqTypeOK, Ids, Functions
  <2>4. KernelRuns'
    BY <1>0, <2>1 DEF KernelRuns, InKernel, pagingVars
  <2> QED
    BY <2>2, <2>3, <2>4 DEF IrqInv
<1>4. CASE irq_handler_asm_wrapper
  <2> DEFINE f == [j |-> 0, at |-> "scan"]
  <2>1. /\ ~disabled /\ Len(frames) < MaxDepth /\ frames' = Append(frames, f)
        /\ disabled' = TRUE
        /\ UNCHANGED <<booted, clearer, handler, cntv, word, lost>>
    BY <1>4 DEF irq_handler_asm_wrapper
  <2>2. f \in Frame /\ f.at = "scan" /\ frames \in Seq(Frame) /\ MaxDepth \in Nat
    BY <1>0, Bounds DEF IrqTypeOK, Frame
  <2> HIDE DEF f
  <2>3. /\ frames' \in Seq(Frame) /\ Len(frames') = Len(frames) + 1 /\ Len(frames) \in Nat
        /\ \A n \in 1 .. Len(frames) : frames'[n] = frames[n]
        /\ frames'[Len(frames) + 1] = f
    BY <2>1, <2>2, AppendProperties, LenProperties
  <2>4. \A n \in 1 .. Len(frames) : Behind(frames[n])
    <3>1. ASSUME Len(frames) \in 1 .. Len(frames) PROVE Behind(frames[Len(frames)])
      <4>1. frames # <<>>
        BY <2>2, <3>1, EmptySeq
      <4> QED
        BY <1>0, <2>1, <4>1 DEF FramesInv, Top
    <3>2. \A n \in 1 .. Len(frames) : n \in 1 .. Len(frames) - 1
                                      \/ (n = Len(frames) /\ Len(frames) \in 1 .. Len(frames))
      BY <2>3
    <3> QED
      BY <1>0, <3>1, <3>2 DEF FramesInv
  <2>5. FramesInv'
    <3>1. \A n \in 1 .. Len(frames) + 1 : n \in 1 .. Len(frames) \/ n = Len(frames) + 1
      BY <2>3
    <3>2. \A n \in 1 .. Len(frames') : frames'[n].at # "scan" => frames'[n].j = Timer
      BY <1>0, <2>2, <2>3, <3>1 DEF FramesInv
    <3>3. \A n \in 1 .. Len(frames') - 1 : Behind(frames'[n])
      <4>1. \A n \in 1 .. Len(frames') - 1 : n \in 1 .. Len(frames)
        BY <2>3
      <4> QED
        BY <2>3, <2>4, <4>1
    <3> QED
      BY <2>1, <3>2, <3>3 DEF FramesInv, Behind
  <2>6. IrqTypeOK'
    <3>1. frames' \in Seq(Frame) /\ Len(frames') <= MaxDepth
      BY <2>1, <2>2, <2>3
    <3> QED
      BY <1>0, <2>1, <3>1 DEF IrqTypeOK, Frame, Ids, Functions
  <2>7. Registered' /\ Sane'
    BY <1>0, <2>1 DEF Registered, Sane, Ids, Functions
  <2>8. KernelRuns'
    BY <1>0, <2>1 DEF KernelRuns, InKernel, pagingVars
  <2> QED
    BY <2>5, <2>6, <2>7, <2>8 DEF IrqInv
<1>5. CASE irq_handler
  <2>1. CASE CallLost
    BY <2>1, LostStep
  <2>2. CASE ~CallLost
    <3>1. ~lost'
      BY <1>0, <1>5, <2>2 DEF irq_handler, ScanOver, CallTimer, schedule, EnableAfter, Leave
    <3> QED
      BY <1>5, <3>1, FramesStep
  <2> QED
    BY <2>1, <2>2
<1> QED
  BY <1>1, <1>2, <1>3, <1>4, <1>5 DEF IrqNext, boot_steps

----------------------------------------------------------------------------
(* The invariant of the whole, and what follows from it. *)

LEMMA InitBoot == Init => BootIInv
<1> SUFFICES ASSUME Init PROVE BootIInv
  OBVIOUS
<1>1. PagingInv
  BY InitPaging DEF Init
<1>2. /\ booted = "no" /\ disabled = TRUE /\ cntv = "off" /\ frames = <<>> /\ lost = FALSE
      /\ word \in 0 .. 2^Bits - 1 /\ handler = clearer
      /\ clearer \in [Ids -> {"0", "junk"}]
  BY DEF Init, IrqInit
<1>3. IrqTypeOK
  <2>1. frames \in Seq(Frame) /\ Len(frames) <= MaxDepth
    BY <1>2, Bounds, EmptySeq
  <2> QED
    BY <1>2, <2>1 DEF IrqTypeOK, Frame
<1>4. Registered /\ FramesInv /\ Sane
  <2>1. Len(frames) = 0
    BY <1>2
  <2>2. FramesInv
    BY <1>2, <2>1 DEF FramesInv
  <2> QED
    BY <1>2, <2>2 DEF Registered, Sane
<1>5. KernelRuns
  BY <1>2 DEF KernelRuns
<1> QED
  BY <1>1, <1>3, <1>4, <1>5 DEF BootIInv, IrqInv

LEMMA BootNext == BootIInv /\ [Next]_vars => BootIInv' /\ Keeps
<1> SUFFICES ASSUME BootIInv, [Next]_vars PROVE BootIInv' /\ Keeps
  OBVIOUS
<1>0. PagingInv /\ IrqInv /\ KernelRuns
  BY DEF BootIInv
<1>1. CASE UNCHANGED irqVars /\ [PagingNext]_pagingVars
  <2>1. PagingInv' /\ Keeps
    BY <1>0, <1>1, PagingStep
  <2>2. UNCHANGED <<booted, clearer, handler, disabled, cntv, word, frames, lost>>
    BY <1>1 DEF irqVars
  <2>3. IrqInv'
    BY <1>0, <2>2 DEF IrqInv, IrqTypeOK, Registered, FramesInv, Sane, Top, Behind, Functions, Ids
  <2>4. how' = how /\ (stage = "on" => stage' = "on")
    BY <1>1 DEF PagingNext, early_init, paging_enable_with_identitymapping, build, store_entry,
       store_page, next_directory, enable_mmu, pagingVars
  <2>5. KernelRuns'
    BY <1>0, <2>2, <2>4 DEF KernelRuns, InKernel
  <2> QED
    BY <2>1, <2>3, <2>5 DEF BootIInv
<1>2. CASE Kernel(IrqNext)
  <2>1. InKernel /\ IrqNext /\ UNCHANGED pagingVars
    BY <1>2 DEF Kernel
  <2>2. PagingInv' /\ Keeps
    BY <1>0, <2>1, PagingStep
  <2>3. IrqInv' /\ KernelRuns'
    BY <1>0, <2>1, IrqStep
  <2> QED
    BY <2>2, <2>3 DEF BootIInv
<1> QED
  BY <1>1, <1>2 DEF Next, vars

LEMMA BootInvariant == Spec => []BootIInv
<1>1. BootIInv /\ [Next]_vars => BootIInv'
  BY BootNext
<1> QED
  BY InitBoot, <1>1, PTL DEF Spec

\* The words of memory, the loops, the registers and the calls on the stack keep
\* to their types: no table is stored outside memory.
THEOREM TypeCorrect == Spec => []TypeOK
<1>1. BootIInv => TypeOK
  BY PagingTypes DEF BootIInv, IrqInv, TypeOK
<1> QED
  BY <1>1, BootInvariant, PTL

\* Whatever the sizes, with the tables of early_init.c every page is where the
\* linker script says, and writable; with those of the other function every page
\* of the lower half is, and no page of the upper half is translated at all.
THEOREM SpaceTranslated == Spec => []AddressSpaceHolds
<1>1. BootIInv => AddressSpaceHolds
  BY SpaceHolds DEF BootIInv
<1> QED
  BY <1>1, BootInvariant, PTL

\* No store of a loop hits a word that another has stored.
THEOREM NothingLost == Spec => NothingIsOverwritten
<1>1. BootIInv /\ [Next]_vars => [\A a \in Address : mem[a] # Unwritten => mem'[a] = mem[a]]_mem
  BY BootNext DEF Keeps
<1> QED
  BY <1>1, BootInvariant, PTL DEF Spec, NothingIsOverwritten

\* While an interrupt can be taken or is handled, the vectors are mapped where the
\* core fetches them and where they are linked.
THEOREM VectorsThere == Spec => []VectorsAreReached
<1>1. BootIInv => VectorsAreReached
  <2> SUFFICES ASSUME BootIInv, ~disabled \/ frames # <<>> PROVE
        booted # "no" /\ stage = "on" /\ walk(0).frame = 0 /\ walk(KernelBase).frame = 0
    BY DEF VectorsAreReached
  <2>1. booted # "no" /\ stage = "on" /\ how = "early_init"
    BY DEF BootIInv, KernelRuns, InKernel
  <2> QED
    BY <2>1, VectorsSeen DEF BootIInv
<1> QED
  BY <1>1, BootInvariant, PTL

\* Where the table of handlers was zeroed, irq_handler calls nothing but what
\* timer_init has registered, whatever the word it reads as pending.
THEOREM OnlyRegistered == Spec => []NothingUnregisteredRuns
<1>1. BootIInv => NothingUnregisteredRuns
  BY DEF BootIInv, IrqInv, Sane, NothingUnregisteredRuns
<1> QED
  BY <1>1, BootInvariant, PTL

\* However deep interrupts nest, each finds the one below past the call of its
\* handler.
THEOREM NestedPastHandler == Spec => []NestedBehindHandler
<1>1. BootIInv => NestedBehindHandler
  BY DEF BootIInv, IrqInv, FramesInv, Behind, NestedBehindHandler
<1> QED
  BY <1>1, BootInvariant, PTL
=============================================================================
