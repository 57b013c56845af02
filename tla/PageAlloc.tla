----------------------------- MODULE PageAlloc -----------------------------
(***************************************************************************)
(* The physical page allocator of kernel/mem.c: mem_init, and the threads  *)
(* that call alloc_page, where they are preempted between any two steps,   *)
(* and free_page, which only reap calls, with interrupts disabled          *)
(* (process.c:71, 84).  A page is named by its index in all_pages_array;   *)
(* free_pages is the intrusive list of ListOps.                            *)
(***************************************************************************)
EXTENDS ListOps, Integers

CONSTANTS
  Thread,
  MemSize, PageSize,
  Base,         \* what an address of the image has been linked above its frame
  EndAddr,      \* the frame of __end, the end of the kernel image
  StackSize,    \* KERNEL_STACK_SIZE
  PageStruct,   \* sizeof(page_t)
  HeapSize      \* KERNEL_HEAP_SIZE

Free == "free_pages"

\* mem_init: the pages in order are the kernel with its stack and the page
\* array, then the heap, then what can be allocated.  The address of __end is
\* taken for that of its frame: with Base = 0xC0000000 the first two loops run
\* past the array, over memory that is the heap's to come, and the last has no
\* turn.
num_pages      == MemSize \div PageSize
round_up(a)    == a + (IF (a % PageSize) = 0 THEN 0 ELSE PageSize - (a % PageSize))
page_array_end == round_up(Base + EndAddr + StackSize + PageStruct * num_pages)
kernel_pages   == page_array_end \div PageSize
heap_end       == kernel_pages + HeapSize \div PageSize

Pages       == 0..num_pages - 1
KernelPages == {p \in Pages : p < kernel_pages}
HeapPages   == {p \in Pages : p >= kernel_pages /\ p < heap_end}
UserPages   == {p \in Pages : p >= heap_end}

\* The page at address 0: the vectors are there, and a failed call names it.
ZeroPage == 0

ASSUME PageAssumption ==
  /\ MemSize \in Nat /\ PageSize \in Nat \ {0} /\ Base \in Nat /\ EndAddr \in Nat \ {0}
  /\ StackSize \in Nat /\ PageStruct \in Nat /\ HeapSize \in Nat
  /\ num_pages > 0 /\ num_pages <= MaxWord
  /\ Node = Pages /\ List = {Free}

VARIABLES
  allocated, kernel_page, kernel_heap_page, \* the flags of each page
  lock,     \* of free_pages; TRUE when free
  content,  \* whose data is in the page, or "zero"
  held,     \* the pages each thread has
  checks,   \* do the callers look for 0 (create_kernel_thread does not)
  pc, page, \* per thread: the next step of its call, and the local of that name
  wild      \* has the list been popped empty, or the page of the vectors put on it

flagVars == <<allocated, kernel_page, kernel_heap_page>>
vars == <<listVars, flagVars, lock, content, held, checks, pc, page, wild>>

TypeOK ==
  /\ ListTypeOK
  /\ allocated \in [Pages -> BOOLEAN]
  /\ kernel_page \in [Pages -> BOOLEAN]
  /\ kernel_heap_page \in [Pages -> BOOLEAN]
  /\ lock \in BOOLEAN /\ checks \in BOOLEAN /\ wild \in BOOLEAN
  /\ content \in [Pages -> Thread \cup {"zero", "boot"}]
  /\ held \in [Thread -> SUBSET Pages]
  /\ pc \in [Thread -> {"idle", "lock", "pop", "flag", "zero", "lock_free", "append"}]
  /\ page \in [Thread -> Ref]

\* The list that appending the UserPages in turn leaves behind.
FirstUser == IF UserPages = {} THEN Null ELSE heap_end
LastUser  == IF UserPages = {} THEN Null ELSE num_pages - 1

Init ==
  /\ head = [l \in List |-> FirstUser]
  /\ tail = [l \in List |-> LastUser]
  /\ size = [l \in List |-> Cardinality(UserPages)]
  /\ next = [r \in Ref |->
               CASE r = Null -> IF UserPages = {} THEN Junk ELSE FirstUser
                 [] r \in UserPages \ {LastUser} -> r + 1
                 [] r = Junk -> Junk
                 [] OTHER -> Null]
  /\ prev = [r \in Ref |->
               CASE r \in UserPages \ {FirstUser} -> r - 1
                 [] r \in {Null, Junk} -> Junk
                 [] OTHER -> Null]
  /\ container = [r \in Ref |->
                    CASE r \in UserPages -> Free
                      [] r \in {Null, Junk} -> Junk
                      [] OTHER -> Null]
  /\ allocated = [p \in Pages |-> p \notin UserPages]
  /\ kernel_page = [p \in Pages |-> p \in KernelPages]
  /\ kernel_heap_page = [p \in Pages |-> p \in HeapPages]
  /\ lock = TRUE
  /\ content = [p \in Pages |-> "boot"]
  /\ held = [t \in Thread |-> {}]
  /\ checks \in BOOLEAN
  /\ pc = [t \in Thread |-> "idle"]
  /\ page = [t \in Thread |-> Null]
  /\ wild = FALSE

----------------------------------------------------------------------------
Taking(t)    == pc[t] \in {"flag", "zero"}
Returning(t) == pc[t] \in {"lock_free", "append"}

\* No tick comes while a thread is in free_page: reap has interrupts disabled.
MayRun(t) == \A u \in Thread \ {t} : ~Returning(u)

Step(t, at, to) ==
  /\ ~wild /\ MayRun(t)
  /\ pc[t] = at /\ pc' = [pc EXCEPT ![t] = to]
  /\ UNCHANGED checks

spin_lock   == lock /\ lock' = FALSE
spin_unlock == lock' = TRUE

(* alloc_page *)

\* The size is read without the lock; with no page the call returns 0, and a
\* caller that does not look takes that for its page.
AllocFails(t) ==
  /\ size[Free] = 0 /\ ~checks
  /\ Step(t, "idle", "idle")
  /\ held' = [held EXCEPT ![t] = @ \cup {ZeroPage}]
  /\ UNCHANGED <<listVars, flagVars, lock, content, page, wild>>

AllocCheck(t) ==
  /\ size[Free] # 0
  /\ Step(t, "idle", "lock")
  /\ UNCHANGED <<listVars, flagVars, lock, content, held, page, wild>>

AllocLock(t) ==
  /\ Step(t, "lock", "pop")
  /\ spin_lock
  /\ UNCHANGED <<listVars, flagVars, content, held, page, wild>>

\* MUTANT: the page is only looked at (peek for pop).
AllocPop_peeks(t) ==
  /\ Step(t, "pop", "flag")
  /\ spin_unlock
  /\ page' = [page EXCEPT ![t] = head[Free]]
  /\ wild' = (head[Free] \notin Pages)
  /\ UNCHANGED <<listVars, flagVars, content, held>>

\* MUTANT: the lock is kept.
AllocPop_keeps_lock(t) ==
  /\ Step(t, "pop", "flag")
  /\ pop_list(Free)
  /\ page' = [page EXCEPT ![t] = head[Free]]
  /\ wild' = (head[Free] \notin Pages)
  /\ UNCHANGED <<flagVars, lock, content, held>>

\* Somebody else may have taken the last page since the check: then the flags
\* and the bzero that follow go to wherever NULL - all_pages_array leads.
AllocPop(t) ==
  /\ Step(t, "pop", "flag")
  /\ spin_unlock
  /\ pop_list(Free)
  /\ page' = [page EXCEPT ![t] = head[Free]]
  /\ wild' = (head[Free] \notin Pages)
  /\ UNCHANGED <<flagVars, content, held>>

\* MUTANT: only the kernel_page flag is set.
AllocFlag_not_allocated(t) ==
  /\ Step(t, "flag", "zero")
  /\ kernel_page' = [kernel_page EXCEPT ![page[t]] = TRUE]
  /\ UNCHANGED <<listVars, allocated, kernel_heap_page, lock, content, held, page, wild>>

AllocFlag(t) ==
  /\ Step(t, "flag", "zero")
  /\ kernel_page' = [kernel_page EXCEPT ![page[t]] = TRUE]
  /\ allocated' = [allocated EXCEPT ![page[t]] = TRUE]
  /\ UNCHANGED <<listVars, kernel_heap_page, lock, content, held, page, wild>>

\* MUTANT: the page is handed out as it is.
AllocZero_dirty(t) ==
  /\ Step(t, "zero", "idle")
  /\ held' = [held EXCEPT ![t] = @ \cup {page[t]}]
  /\ UNCHANGED <<listVars, flagVars, lock, content, page, wild>>

\* bzero, and the return of the page's address.
AllocZero(t) ==
  /\ Step(t, "zero", "idle")
  /\ content' = [content EXCEPT ![page[t]] = "zero"]
  /\ held' = [held EXCEPT ![t] = @ \cup {page[t]}]
  /\ UNCHANGED <<listVars, flagVars, lock, page, wild>>

(* free_page *)

\* The page of a thread: found from its address, marked free.
FreeFlag(t) ==
  /\ Step(t, "idle", "lock_free")
  /\ \E p \in held[t] :
       /\ page' = [page EXCEPT ![t] = p]
       /\ held' = [held EXCEPT ![t] = @ \ {p}]
       /\ allocated' = [allocated EXCEPT ![p] = FALSE]
  /\ UNCHANGED <<listVars, kernel_page, kernel_heap_page, lock, content, wild>>

FreeLock(t) ==
  /\ Step(t, "lock_free", "append")
  /\ spin_lock
  /\ UNCHANGED <<listVars, flagVars, content, held, page, wild>>

\* MUTANT: the page is not put on the list.
FreeAppend_loses(t) ==
  /\ Step(t, "append", "idle")
  /\ spin_unlock
  /\ wild' = (page[t] = ZeroPage)
  /\ UNCHANGED <<listVars, flagVars, content, held, page>>

\* The page at 0 on the list: an allocation will clear the vectors.
FreeAppend(t) ==
  /\ Step(t, "append", "idle")
  /\ append_list(Free, page[t])
  /\ spin_unlock
  /\ wild' = (page[t] = ZeroPage)
  /\ UNCHANGED <<flagVars, content, held, page>>

\* A thread uses a page it has.  (A stack at address 0 grows down to the vectors
\* and is not followed there.)
Write(t) ==
  /\ ~wild /\ MayRun(t)
  /\ \E p \in held[t] \ {ZeroPage} : content' = [content EXCEPT ![p] = t]
  /\ UNCHANGED <<listVars, flagVars, lock, held, checks, pc, page, wild>>

Call(t) ==
  \/ AllocLock(t) \/ AllocPop(t) \/ AllocFlag(t) \/ AllocZero(t)
  \/ FreeLock(t) \/ FreeAppend(t)

Next == \E t \in Thread : AllocFails(t) \/ AllocCheck(t) \/ FreeFlag(t) \/ Write(t) \/ Call(t)

Spec == Init /\ [][Next]_vars

\* A thread inside a call gets its quanta, as long as ticks come: one that may not
\* run because another is in free_page owes no step.
FairSpec == Spec /\ \A t \in Thread : WF_vars(Call(t))

----------------------------------------------------------------------------
(* Properties. *)

\* The threads that have page p, or are about to have it or give it back.
Owners(p) == {t \in Thread : p \in held[t] \/ ((Taking(t) \/ Returning(t)) /\ page[t] = p)}

\* Whatever the interleaving of allocations and frees, a page is on the free
\* list, or one thread has it; none is handed out twice and none is lost.  (As
\* long as nobody gives back the page at 0.)
EveryPageOnce ==
  checks /\ ~wild =>
    \A p \in UserPages :
      IF p \in Linked(Free) THEN Owners(p) = {} ELSE Cardinality(Owners(p)) = 1

\* What is handed out never comes from the kernel, its stack, the page array
\* or the heap, and is marked allocated as long as it is held; what is on the
\* list is marked free.
FlagsAgree ==
  checks /\ ~wild =>
    /\ \A t \in Thread : held[t] \subseteq UserPages
    /\ \A t \in Thread : \A p \in held[t] : allocated[p]
    /\ \A p \in Linked(Free) : ~allocated[p]

\* mem.c:107: no thread finds in its page what another has left there.
NoOldData ==
  \A t \in Thread : \A p \in held[t] \ {ZeroPage} : content[p] \in {"zero", t}

\* What alloc_page and free_page come to for their callers: a page a thread has, is
\* about to have or is giving back is taken from the pool.
Taken(t)  == {p \in UserPages : t \in Owners(p)}
TakenBy   == [t \in Thread |-> Taken(t)]
TakenZero == {t \in Thread : t \in Owners(ZeroPage)}
Pool == INSTANCE PagePool WITH free <- Linked(Free), taken <- TakenBy,
                               zero <- TakenZero, broken <- wild

\* Whoever is preempted where, each call of alloc_page takes one page from the pool,
\* or is refused, at one instant, and each call of free_page gives one back at one.
Implements == Pool!Spec

\* reap waits for the lock with interrupts disabled, and whoever has it was
\* preempted: no tick will let it go on.
Hang == ~lock /\ \E t \in Thread : pc[t] = "lock_free"

\* No path through the calls keeps the lock, whoever is preempted where: it comes
\* free again, unless reap comes to want it first.
LockIsReleasedOrHang == ~lock ~> lock \/ Hang

\* The same without the exception: fails, reap hangs.
LockIsReleased == ~lock ~> lock

\* mem.c:99: "Get a free page": alloc_page pops a page, never an empty list.
PopGetsAPage == head[Free] \in Pages \/ \A t \in Thread : pc[t] # "pop"

\* mem.c:78: "Map the rest of the pages as unallocated, and add them to the free
\* list": every frame behind those of the image, the page array and the heap is
\* on the list, or somebody has it.
RestIsAllocatable ==
  \A p \in Pages :
    p >= heap_end - Base \div PageSize => p \in Linked(Free) \/ Owners(p) # {}

\* mem.h:14: "This page is a part of the kernel": no page that can be
\* allocated is, once its thread has given it back.
FreeIsNotKernel == \A p \in Linked(Free) : ~kernel_page[p]

=============================================================================
