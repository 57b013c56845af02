------------------------------- MODULE Paging -------------------------------
(***************************************************************************)
(* The page directories and tables (kernel/early_init.c, the second half   *)
(* of kernel/mem.c) and the switch to virtual addresses (enable_mmu in     *)
(* kernel/virtual_mem_asm.S).                                              *)
(*                                                                         *)
(* early_init, called by boot.S, places the tables one behind the other.   *)
(* paging_enable_with_identitymapping, which kernel.c no longer calls,     *)
(* takes pages from alloc_page and packs the base registers differently.   *)
(*                                                                         *)
(* Addresses count words of four bytes.  An address in virtual memory is   *)
(* known by the number of its page.                                        *)
(***************************************************************************)
EXTENDS Integers

CONSTANTS
  Entries,   \* entries of a directory, 4096 in the code
  TableLen,  \* entries of a page table, 256 in the code
  DirBase,   \* where the directories begin, 0x10004000 in the code
  MemWords   \* bound: words of memory

PerPage == 4                       \* page tables in a page
PageWords == PerPage * TableLen
Half == Entries \div 2             \* where TTBR1 takes over
VPages == 0 .. Entries * TableLen - 1
KernelBase == 3 * ((Entries * TableLen) \div 4)   \* 0xC0000000 / 4096
Address == 0 .. MemWords - 1
FirstTable == DirBase + 4 * Entries

ASSUME PagingAssumption ==
  /\ Entries \in Nat \ {0} /\ TableLen \in Nat \ {0}
  /\ Half % PerPage = 0 /\ Entries % PageWords = 0
  /\ DirBase \in Nat /\ DirBase % Entries = 0 /\ MemWords \in Nat
  /\ 2 * (Entries * TableLen) <= DirBase  \* the pages alloc_page gives are far below
  /\ FirstTable + PageWords + Entries * TableLen <= MemWords

VARIABLES
  mem,        \* the words of memory
  how,        \* the function that builds the tables
  i, k,       \* its loop counters
  pagedir,    \* identy_pagedir_page_addr
  pagetable,  \* identy_pagetable_page_addr
  stage,      \* "entry", "table", "half", "enable", or "on": the MMU translates
  ttbr0, ttbr1,
  dacr        \* what the domains grant: "client" checks permissions, "manager" does not

pagingVars == <<mem, how, i, k, pagedir, pagetable, stage, ttbr0, ttbr1, dacr>>

Unwritten == [kind |-> "unwritten"]
DirWord  == [kind : {"table"}, baddr : Nat]
PageWord == [kind : {"page"}, baddr : VPages, read_only : BOOLEAN]

PagingTypeOK ==
  /\ mem \in [Address -> {Unwritten} \cup DirWord \cup PageWord]
  /\ how \in {"early_init", "alloc_page"}
  /\ i \in 0..Entries /\ k \in 0..TableLen
  /\ pagedir \in Address /\ pagetable \in Address
  /\ stage \in {"entry", "table", "half", "enable", "on"}
  /\ ttbr0 \in Nat /\ ttbr1 \in Nat
  /\ dacr \in {"client", "manager"}

PagingInit ==
  /\ mem = [a \in Address |-> Unwritten]
  /\ how \in {"early_init", "alloc_page"}
  /\ i = 0 /\ k = 0
  /\ pagedir = DirBase
  /\ pagetable = IF how = "early_init" THEN FirstTable ELSE 0
  /\ stage = "entry"
  /\ ttbr0 = 0 /\ ttbr1 = 0 /\ dacr = "client"

----------------------------------------------------------------------------
\* Every fourth table begins a new page.  alloc_page takes the lowest free page, which
\* it zeroes: its words count as unwritten.
new_page ==
  IF how = "early_init" THEN pagetable + PageWords ELSE (i \div PerPage) * PageWords

\* MUTANT: five tables to a page.
page_of_crowded(e) == IF e % (PerPage + 1) = 0 THEN new_page ELSE pagetable

page_of(e) == IF e % PerPage = 0 THEN new_page ELSE pagetable

\* Where the table of entry e begins within its page.
table_at(page, e) == page + (e % PerPage) * TableLen

\* One turn of the outer loop up to the inner one: the entry of the directory.
store_entry ==
  /\ stage = "entry"
  /\ pagetable' = page_of(i)
  /\ mem' = [mem EXCEPT ![pagedir + i] =
               [kind |-> "table", baddr |-> table_at(pagetable', i) \div TableLen]]
  /\ k' = 0
  /\ stage' = "table"
  /\ UNCHANGED <<how, i, pagedir, ttbr0, ttbr1, dacr>>

\* MUTANT: the lower addresses are moved too.
frame_always(n) == n - KernelBase

\* Pages map to themselves, those from 0xC0000000 on to physical page 0 on.
frame(n) == IF n >= KernelBase THEN n - KernelBase ELSE n

\* One turn of the inner loop; ap and ap2 are 0b11 and 1, which is read-only.
store_page ==
  /\ stage = "table"
  /\ mem' = [mem EXCEPT ![table_at(pagetable, i) + k] =
               [kind |-> "page", baddr |-> frame(i * TableLen + k), read_only |-> TRUE]]
  /\ IF k + 1 < TableLen
     THEN k' = k + 1 /\ UNCHANGED <<i, stage>>
     ELSE /\ k' = 0 /\ i' = i + 1
          /\ stage' = CASE i' = Half -> "half"
                        [] i' = Entries -> "enable"
                        [] OTHER -> "entry"
  /\ UNCHANGED <<how, pagedir, pagetable, ttbr0, ttbr1, dacr>>

\* MUTANT: the base is shifted as in the other function.
ttbr1_of_shifted(dir) == (dir \div Entries) * Half

\* The base registers as the functions pack them: early_init passes the
\* address; the other shifts it by 13 or 14 bits into a field at bit 13
\* (2^13 bytes are Half words).
ttbr0_of(dir) == IF how = "early_init" THEN dir ELSE (dir \div Half) * Half
ttbr1_of(dir) == IF how = "early_init" THEN dir ELSE (dir \div Entries) * Half

\* Between the loops: a second directory for the upper half.
next_directory ==
  /\ stage = "half"
  /\ ttbr0' = ttbr0_of(pagedir)
  /\ pagedir' = pagedir + Entries
  /\ stage' = "entry"
  /\ UNCHANGED <<mem, how, i, k, pagetable, ttbr1, dacr>>

\* MUTANT: the domains are left as they are.
enable_mmu_checked ==
  /\ stage = "enable"
  /\ ttbr1' = ttbr1_of(pagedir)
  /\ stage' = "on"
  /\ UNCHANGED <<mem, how, i, k, pagedir, pagetable, ttbr0, dacr>>

\* enable_mmu: every domain a manager, both bases, and the bit.
enable_mmu ==
  /\ stage = "enable"
  /\ ttbr1' = ttbr1_of(pagedir)
  /\ dacr' = "manager"
  /\ stage' = "on"
  /\ UNCHANGED <<mem, how, i, k, pagedir, pagetable, ttbr0>>

build == store_entry \/ store_page \/ next_directory \/ enable_mmu

early_init == how = "early_init" /\ build
paging_enable_with_identitymapping == how = "alloc_page" /\ build

PagingNext == early_init \/ paging_enable_with_identitymapping

----------------------------------------------------------------------------
(* What the MMU does with the tables: TTBCR.N is 1, so that the lower half *)
(* is looked up through TTBR0 and the upper through TTBR1, whose low bits  *)
(* are not part of the address.                                            *)

\* No entry that the code has stored leads on.
Fault == [frame |-> -1, writable |-> FALSE]
Word(a) == IF a \in Address THEN mem[a] ELSE Unwritten

walk(p) ==
  LET e == p \div TableLen
      dir == IF e < Half THEN (ttbr0 \div Half) * Half ELSE (ttbr1 \div Entries) * Entries
      d == Word(dir + e)
      w == IF d.kind = "table" THEN Word(d.baddr * TableLen + (p % TableLen)) ELSE Unwritten
  IN  IF w.kind = "page"
      THEN [frame |-> w.baddr, writable |-> dacr = "manager" \/ ~w.read_only]
      ELSE Fault

\* The lower addresses stay what they were, where the code that turns the MMU
\* on goes on to run; the kernel is linked 0xC0000000 above where it is loaded.
physical(p) == IF p >= KernelBase THEN p - KernelBase ELSE p
Translation(p) == [frame |-> physical(p), writable |-> TRUE]

----------------------------------------------------------------------------
(* Properties. *)

\* Once early_init has turned the MMU on, every address can be read and written
\* and is where the linker script says.  The function that is not called
\* translates the lower half so, and of the upper half not one page: mem.c:334
\* has the MMU look where no entry has been stored.
AddressSpaceHolds ==
  stage = "on" =>
    \A p \in VPages :
      walk(p) = IF how = "early_init" \/ p < Half * TableLen THEN Translation(p) ELSE Fault

\* No table is laid over another table or over a directory (early_init.c:53-63
\* derives all their places from one address).
NothingIsOverwritten ==
  [][\A a \in Address : mem[a] # Unwritten => mem'[a] = mem[a]]_mem

\* mem.c:277: "align to 16kb boundary for ttbr1": the function that is not
\* called also translates the upper half.  It does not: the field begins at
\* bit 13 and is given the address shifted by 14.
UpperHalfHolds == stage = "on" => \A p \in VPages : walk(p) = Translation(p)

=============================================================================
