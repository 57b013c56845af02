------------------------------ MODULE Process ------------------------------
(***************************************************************************)
(* Kernel threads (kernel/process.c, process_asm.S) on the one core that   *)
(* runs them: thread creation, the round robin that the timer interrupt    *)
(* drives, and the reaping of a thread whose function has returned.        *)
(*                                                                         *)
(* A thread is preempted between any two of its steps while interrupts are *)
(* enabled.  The interrupt handler and reap run with interrupts disabled,  *)
(* so their steps follow one another with nothing in between.  A pcb is on *)
(* all_proc_list and on run_queue through the same pair of links.          *)
(*                                                                         *)
(* A pcb is named by the pointer kmalloc returned for it (HeapOps).  Once  *)
(* kmalloc has handed out a pcb that is in use or none at all, the vectors *)
(* have been cleared, or a NULL link has been followed, the core is "wild" *)
(* and nothing after that is modelled.                                     *)
(***************************************************************************)
EXTENDS ListOps, HeapOps

CONSTANTS
  Main,        \* the pcb of the thread that runs kernel_main
  Creators,    \* the threads that call create_kernel_thread
  MayExit,     \* the threads whose function may return
  FirstPages,  \* the pages on the free list at boot, in order (each once: PageAlloc)
  ZeroPage,    \* the page at address 0, what a failed alloc_page yields
  EndPage,     \* the page at &__end, the stack of Main
  PcbBytes,    \* sizeof(process_control_block_t)
  HeapLeft,    \* what the boot may have left of the heap behind Main's pcb
  MaxCreates   \* bound: calls of create_kernel_thread

Run == "run_queue"
All == "all_proc_list"
Pages == "free_pages"
Locks == {Run, All, Pages}
Page == {FirstPages[i] : i \in DOMAIN FirstPages}

ASSUME ProcessAssumption ==
  /\ Node \subseteq Addr \ {0} /\ PcbBytes \in 0..HeapSize
  /\ Main = needed(PcbBytes)
  /\ HeapLeft \subseteq 1..HeapSize - Main
  /\ Main \in Node /\ Creators \subseteq Node /\ MayExit \subseteq Node \ {Main}
  /\ List = {Run, All}
  /\ ZeroPage \notin Page /\ EndPage \notin Page /\ ZeroPage # EndPage
  /\ FirstPages \in Seq(Page)
  /\ \A i, j \in DOMAIN FirstPages : FirstPages[i] = FirstPages[j] => i = j
  /\ MaxCreates \in Nat

VARIABLES
  lock,            \* each spin lock: TRUE when free, as the word 1 in the code
  free_pages,      \* the free pages in order
  stack_page, pid, \* fields of a pcb
  saved_state,     \* the frame it points at: built by create, saved by a switch
  next_proc_num,
  current_process,
  running,         \* the thread whose registers and stack the core uses
  disabled,        \* are IRQs disabled
  timer,           \* is the quantum timer counting
  cpu,             \* "thread", or the next step of schedule or reap
  new, old,        \* new_thread and old_thread of schedule and reap
  seg,             \* kfree's local of that name
  pc,              \* per thread: "work" or its next step in create_kernel_thread
  pcb,             \* per thread: create_kernel_thread's local of that name
  num,             \* per thread: what it has read: kmalloc's best segment, then
                   \* next_proc_num in getNewPid
  made             \* calls of create_kernel_thread so far

memVars  == <<stack_page, pid, saved_state, next_proc_num>>
cpuVars  == <<current_process, running, disabled, timer, cpu, new, old, seg>>
callVars == <<pc, pcb, num, made>>
vars == <<listVars, heapVars, lock, free_pages, memVars, cpuVars, callVars>>

Creating == {"split", "mark", "alloc_page", "lock_pages", "pop_page", "read_pid", "write_pid",
             "lock_all", "link_all", "rest_all",
             "lock_run", "link_run", "count_run", "unlock_run"}
Handling == {"schedule", "append", "switch", "return",
             "reap", "free_page", "kfree", "left", "right", "remove", "reap_switch"}

TypeOK ==
  /\ ListTypeOK
  /\ lock \in [Locks -> BOOLEAN]
  /\ free_pages \in Seq(Page \cup {ZeroPage, EndPage})
  /\ stack_page \in [Node -> Page \cup {ZeroPage, EndPage}]
  /\ pid \in [Node -> Nat]
  /\ saved_state \in [Node -> {"none", "built", "saved"}]
  /\ next_proc_num \in Nat
  /\ current_process \in Ref /\ running \in Node
  /\ disabled \in BOOLEAN /\ timer \in BOOLEAN
  /\ cpu \in Handling \cup {"thread", "wild"}
  /\ new \in Ref /\ old \in Ref
  /\ pc \in [Node -> Creating \cup {"work"}]
  /\ pcb \in [Node -> Ref]
  /\ num \in [Node -> Nat]
  /\ made \in 0..MaxCreates

----------------------------------------------------------------------------
\* process_init: the first pcb is the first block of the heap, Main is the
\* current thread, on all_proc_list only, and the first quantum is running.
\* What is in memory holds whatever it held.  An image that is linked high has
\* left no page on the free list (PageAlloc).
HeapInit ==
  /\ hnext = [a \in Addr |-> IF a = 0 THEN Main ELSE Nil]
  /\ hprev = [a \in Addr |-> IF a = Main THEN 0 ELSE Nil]
  /\ is_allocated = [a \in Addr |-> a = 0]
  /\ \E left \in HeapLeft :
       segment_size = [a \in Addr |-> CASE a = 0 -> Main
                                        [] a = Main -> left
                                        [] OTHER -> 0]

Init ==
  /\ HeapInit
  /\ head = [l \in List |-> IF l = All THEN Main ELSE Null]
  /\ tail = [l \in List |-> IF l = All THEN Main ELSE Null]
  /\ size = [l \in List |-> IF l = All THEN 1 ELSE 0]
  /\ \E word \in {Null, Junk} :
       /\ next = [[r \in Ref |-> word] EXCEPT ![Null] = Main, ![Main] = Null]
       /\ prev = [[r \in Ref |-> word] EXCEPT ![Null] = Junk, ![Main] = Null]
       /\ container = [[r \in Ref |-> word] EXCEPT ![Null] = Junk, ![Main] = All]
  /\ lock = [k \in Locks |-> TRUE]
  /\ free_pages \in {FirstPages, <<>>}
  /\ stack_page = [n \in Node |-> IF n = Main THEN EndPage ELSE ZeroPage]
  /\ pid = [n \in Node |-> IF n = Main THEN 1 ELSE 0]
  /\ saved_state = [n \in Node |-> "none"]
  /\ next_proc_num = 2
  /\ current_process = Main /\ running = Main
  /\ disabled = FALSE /\ timer = TRUE
  /\ cpu = "thread" /\ new = Null /\ old = Null /\ seg = Nil
  /\ pc = [n \in Node |-> "work"]
  /\ pcb = [n \in Node |-> Null]
  /\ num = [n \in Node |-> 0]
  /\ made = 0

----------------------------------------------------------------------------
(* create_kernel_thread, called by thread t with interrupts enabled. *)

\* t executes its step `at` and goes on to `to`.
Step(t, at, to) ==
  /\ cpu = "thread" /\ running = t /\ pc[t] = at
  /\ pc' = [pc EXCEPT ![t] = to]
  /\ UNCHANGED cpuVars

\* spin_lock by a thread: the step waits until the word is 1.
spin_lock(k)   == lock[k] /\ lock' = [lock EXCEPT ![k] = FALSE]
spin_unlock(k) == lock' = [lock EXCEPT ![k] = TRUE]

\* The pcbs of threads between their creation and their reaping.
Live == {n \in Node : saved_state[n] # "none" \/ n = running}

\* The pcbs on their way to the lists.
InCreation == {pcb[t] : t \in {u \in Node : pc[u] \in Creating \ {"split", "mark"}}}

\* kmalloc takes no lock: it searches the chain, and then changes it.
KmallocScan(t) ==
  /\ t \in Creators /\ made < MaxCreates
  /\ \E b \in best(needed(PcbBytes)) :
       /\ Step(t, "work", IF splits(b, needed(PcbBytes)) THEN "split" ELSE "mark")
       /\ num' = [num EXCEPT ![t] = b]
  /\ made' = made + 1
  /\ UNCHANGED <<listVars, heapVars, lock, free_pages, memVars, pcb>>

\* The stores of mem.c:162-168 in one step.  Another kmalloc that looks at the chain
\* between them chooses as it would before the first or after the mark: the segment
\* that is split, and both return one block (KmallocReuses), or the rest of it.
KmallocSplit(t) ==
  /\ Step(t, "split", "mark")
  /\ split(num[t], needed(PcbBytes))
  /\ UNCHANGED <<listVars, lock, free_pages, memVars, pcb, num, made>>

\* No segment is large enough: kmalloc returns NULL, and the pcb is written over
\* the vectors.
KmallocFails(t) ==
  /\ t \in Creators /\ made < MaxCreates
  /\ cpu = "thread" /\ running = t /\ pc[t] = "work"
  /\ best(needed(PcbBytes)) = {}
  /\ cpu' = "wild"
  /\ UNCHANGED <<listVars, heapVars, lock, free_pages, memVars, callVars,
                 current_process, running, disabled, timer, new, old, seg>>

\* The words of the pcb are as they were.  (Node is all the heap has room for
\* within MaxCreates.)
KmallocReturn(t) ==
  LET p == kmalloc_result(num[t]) IN
  /\ Step(t, "mark", "alloc_page")
  /\ p \in Node \ (Live \cup InCreation)
  /\ mark(num[t])
  /\ pcb' = [pcb EXCEPT ![t] = p]
  /\ UNCHANGED <<listVars, lock, free_pages, memVars, num, made>>

\* The block is a pcb somebody uses, or there is nothing behind the marked segment.
KmallocReuses(t) ==
  /\ cpu = "thread" /\ running = t /\ pc[t] = "mark"
  /\ kmalloc_result(num[t]) \notin Node \ (Live \cup InCreation)
  /\ cpu' = "wild"
  /\ UNCHANGED <<listVars, heapVars, lock, free_pages, memVars, callVars,
                 current_process, running, disabled, timer, new, old, seg>>

\* alloc_page looks at the size before it takes the lock, and returns 0 when
\* there is no page; create_kernel_thread does not look at what it returned.
PageCheck(t) ==
  /\ \/ free_pages = <<>> /\ Step(t, "alloc_page", "read_pid")
                          /\ stack_page' = [stack_page EXCEPT ![pcb[t]] = ZeroPage]
     \/ free_pages # <<>> /\ Step(t, "alloc_page", "lock_pages")
                          /\ UNCHANGED stack_page
  /\ UNCHANGED <<listVars, heapVars, lock, free_pages, pid, saved_state,
                 next_proc_num, pcb, num, made>>

PageLock(t) ==
  /\ Step(t, "lock_pages", "pop_page")
  /\ spin_lock(Pages)
  /\ UNCHANGED <<listVars, heapVars, free_pages, memVars, pcb, num, made>>

PageAtHead == free_pages # <<>> /\ Head(free_pages) # ZeroPage

\* MUTANT: the page is read but not taken off the list.
PagePop_keeps(t) ==
  /\ free_pages # <<>>
  /\ Step(t, "pop_page", "read_pid")
  /\ stack_page' = [stack_page EXCEPT ![pcb[t]] = Head(free_pages)]
  /\ spin_unlock(Pages)
  /\ UNCHANGED <<listVars, heapVars, free_pages, pid, saved_state, next_proc_num,
                 pcb, num, made>>

PagePop(t) ==
  /\ PageAtHead
  /\ Step(t, "pop_page", "read_pid")
  /\ stack_page' = [stack_page EXCEPT ![pcb[t]] = Head(free_pages)]
  /\ free_pages' = Tail(free_pages)
  /\ spin_unlock(Pages)
  /\ UNCHANGED <<listVars, heapVars, pid, saved_state, next_proc_num, pcb, num, made>>

\* Another thread may have taken the last page since the check; or the page is
\* the one at 0, which the reaping of a thread without a page has put there, and
\* alloc_page clears the vectors.
PagePopWild(t) ==
  /\ ~PageAtHead
  /\ cpu = "thread" /\ running = t /\ pc[t] = "pop_page"
  /\ cpu' = "wild"
  /\ UNCHANGED <<listVars, heapVars, lock, free_pages, memVars, callVars,
                 current_process, running, disabled, timer, new, old, seg>>

\* getNewPid is a load, an add and a store.
PidRead(t) ==
  /\ Step(t, "read_pid", "write_pid")
  /\ num' = [num EXCEPT ![t] = next_proc_num]
  /\ UNCHANGED <<listVars, heapVars, lock, free_pages, memVars, pcb, made>>

\* MUTANT: the incremented number is not stored.
PidWrite_no_store(t) ==
  /\ Step(t, "write_pid", "lock_all")
  /\ pid' = [pid EXCEPT ![pcb[t]] = num[t]]
  /\ saved_state' = [saved_state EXCEPT ![pcb[t]] = "built"]
  /\ UNCHANGED <<listVars, heapVars, lock, free_pages, stack_page, next_proc_num,
                 pcb, num, made>>

\* The store, the pid field, and the frame the first switch will load: enter
\* the function with IRQs enabled, return into reap.
PidWrite(t) ==
  /\ Step(t, "write_pid", "lock_all")
  /\ next_proc_num' = num[t] + 1
  /\ pid' = [pid EXCEPT ![pcb[t]] = num[t]]
  /\ saved_state' = [saved_state EXCEPT ![pcb[t]] = "built"]
  /\ UNCHANGED <<listVars, heapVars, lock, free_pages, stack_page, pcb, num, made>>

\* append_pcb_list(&all_proc_list, pcb)
AllLock(t) ==
  /\ Step(t, "lock_all", "link_all")
  /\ spin_lock(All)
  /\ UNCHANGED <<listVars, heapVars, free_pages, memVars, pcb, num, made>>

AllLink(t) ==
  /\ Step(t, "link_all", "rest_all")
  /\ append_behind(All, pcb[t])
  /\ UNCHANGED <<heapVars, lock, free_pages, memVars, pcb, num, made>>

\* MUTANT: the lock is not released.
AllRest_no_unlock(t) ==
  /\ Step(t, "rest_all", "lock_run")
  /\ append_rest(All, pcb[t])
  /\ UNCHANGED <<heapVars, lock, free_pages, memVars, pcb, num, made>>

AllRest(t) ==
  /\ Step(t, "rest_all", "lock_run")
  /\ append_rest(All, pcb[t])
  /\ spin_unlock(All)
  /\ UNCHANGED <<heapVars, free_pages, memVars, pcb, num, made>>

\* append_pcb_list(&run_queue, pcb)
RunLock(t) ==
  /\ Step(t, "lock_run", "link_run")
  /\ spin_lock(Run)
  /\ UNCHANGED <<listVars, heapVars, free_pages, memVars, pcb, num, made>>

RunLink(t) ==
  /\ Step(t, "link_run", "count_run")
  /\ append_links(Run, pcb[t])
  /\ UNCHANGED <<head, size, container, heapVars, lock, free_pages, memVars, pcb, num, made>>

RunCount(t) ==
  /\ Step(t, "count_run", "unlock_run")
  /\ append_count(Run, pcb[t])
  /\ UNCHANGED <<tail, next, prev, heapVars, lock, free_pages, memVars, pcb, num, made>>

RunUnlock(t) ==
  /\ Step(t, "unlock_run", "work")
  /\ spin_unlock(Run)
  /\ UNCHANGED <<listVars, heapVars, free_pages, memVars, pcb, num, made>>

----------------------------------------------------------------------------
(* The timer interrupt: handle_timer_irq and schedule. *)

\* The core executes its step `at` of a handler and goes on to `to`.
Handle(at, to) == cpu = at /\ cpu' = to /\ UNCHANGED callVars

\* handle_timer_irq stops the timer; the core masked IRQs on entry.
TimerIrq ==
  /\ timer /\ ~disabled
  /\ Handle("thread", "schedule")
  /\ timer' = FALSE
  /\ disabled' = TRUE
  /\ UNCHANGED <<listVars, heapVars, lock, free_pages, memVars,
                 current_process, running, new, old, seg>>

\* MUTANT: the quantum is not renewed.
ScheduleNone_no_timer ==
  /\ size[Run] = 0
  /\ Handle("schedule", "thread")
  /\ disabled' = FALSE
  /\ UNCHANGED <<listVars, heapVars, lock, free_pages, memVars, timer,
                 current_process, running, new, old, seg>>

\* Nobody else is ready: another quantum for the same thread.
ScheduleNone ==
  /\ size[Run] = 0
  /\ Handle("schedule", "thread")
  /\ timer' = TRUE
  /\ disabled' = FALSE
  /\ UNCHANGED <<listVars, heapVars, lock, free_pages, memVars,
                 current_process, running, new, old, seg>>

\* A handler takes and releases a lock in one step; if the word is 0 the step
\* waits, with interrupts disabled.
through(k) == lock[k] /\ UNCHANGED lock

\* new_thread = pop; old_thread = current_process; current_process = new_thread
next_thread(at, to) ==
  /\ size[Run] # 0
  /\ through(Run)
  /\ Handle(at, to)
  /\ pop_list(Run)
  /\ new' = head[Run]
  /\ old' = current_process
  /\ current_process' = head[Run]
  /\ UNCHANGED <<heapVars, free_pages, memVars, running, disabled, timer, seg>>

SchedulePop == next_thread("schedule", "append")

\* MUTANT: the interrupted thread is not put back.
ScheduleAppend_forgets ==
  /\ Handle("append", "switch")
  /\ UNCHANGED <<listVars, heapVars, lock, free_pages, memVars,
                 current_process, running, disabled, timer, new, old, seg>>

\* MUTANT: the thread that is about to run is put back, not the interrupted one.
ScheduleAppend_new ==
  /\ Handle("append", "switch")
  /\ through(Run)
  /\ append_list(Run, new)
  /\ UNCHANGED <<heapVars, free_pages, memVars,
                 current_process, running, disabled, timer, new, old, seg>>

ScheduleAppend ==
  /\ Handle("append", "switch")
  /\ through(Run)
  /\ append_list(Run, old)
  /\ UNCHANGED <<heapVars, free_pages, memVars,
                 current_process, running, disabled, timer, new, old, seg>>

\* MUTANT: IRQs stay disabled in a thread that starts.
switch_to_thread_masked(at, left) ==
  LET frames == [saved_state EXCEPT ![old] = left]
      resumed == new \in Node /\ frames[new] # "none"
  IN  /\ cpu = at
      /\ UNCHANGED <<listVars, heapVars, lock, free_pages, stack_page, pid,
                     next_proc_num, callVars, current_process, new, old, seg, disabled>>
      /\ timer' = TRUE
      /\ \/ /\ resumed
            /\ running' = new
            /\ saved_state' = [frames EXCEPT ![new] = "none"]
            /\ cpu' = IF frames[new] = "built" THEN "thread" ELSE "return"
         \/ /\ ~resumed
            /\ cpu' = "wild"
            /\ saved_state' = frames
            /\ UNCHANGED running

\* switch_to_thread, the frame of old being `left`: a new quantum, and the
\* registers of the frame new points at.  Without a frame the core runs wild.
switch_to_thread(at, left) ==
  LET frames == [saved_state EXCEPT ![old] = left]
      resumed == new \in Node /\ frames[new] # "none"
  IN  /\ cpu = at
      /\ UNCHANGED <<listVars, heapVars, lock, free_pages, stack_page, pid,
                     next_proc_num, callVars, current_process, new, old, seg>>
      /\ timer' = TRUE
      /\ \/ /\ resumed
            /\ running' = new
            /\ saved_state' = [frames EXCEPT ![new] = "none"]
            /\ disabled' = (frames[new] = "saved")
            /\ cpu' = IF frames[new] = "built" THEN "thread" ELSE "return"
         \/ /\ ~resumed
            /\ cpu' = "wild"
            /\ saved_state' = frames
            /\ UNCHANGED <<running, disabled>>

ScheduleSwitch == switch_to_thread("switch", "saved")

\* The resumed thread is back in its own call of schedule.
ScheduleReturn ==
  /\ Handle("return", "thread")
  /\ disabled' = FALSE
  /\ UNCHANGED <<listVars, heapVars, lock, free_pages, memVars,
                 current_process, running, timer, new, old, seg>>

----------------------------------------------------------------------------
(* reap, entered when the thread's function returns. *)

ThreadReturns(t) ==
  /\ t \in MayExit
  /\ running = t /\ pc[t] = "work"
  /\ Handle("thread", "reap")
  /\ disabled' = TRUE
  /\ UNCHANGED <<listVars, heapVars, lock, free_pages, memVars,
                 current_process, running, timer, new, old, seg>>

ReapPop == next_thread("reap", "free_page")

\* MUTANT: the pcb's own address is freed instead of its page.
ReapFreePage_pcb ==
  /\ Handle("free_page", "kfree")
  /\ through(Pages)
  /\ free_pages' = Append(free_pages, old)
  /\ UNCHANGED <<listVars, heapVars, memVars,
                 current_process, running, disabled, timer, new, old, seg>>

ReapFreePage ==
  /\ Handle("free_page", "kfree")
  /\ through(Pages)
  /\ free_pages' = Append(free_pages, stack_page[old])
  /\ UNCHANGED <<listVars, heapVars, memVars,
                 current_process, running, disabled, timer, new, old, seg>>

\* kfree(old_thread): the loops of kfree, a step per turn.
ReapKfree ==
  /\ Handle("kfree", "left")
  /\ release(old)
  /\ seg' = old
  /\ UNCHANGED <<listVars, lock, free_pages, memVars,
                 current_process, running, disabled, timer, new, old>>

ReapLeft ==
  /\ cpu = "left"
  /\ \/ /\ free_on_left(seg)
        /\ Handle("left", "left")
        /\ merge_left(seg)
        /\ seg' = hprev[seg]
     \/ /\ ~free_on_left(seg)
        /\ Handle("left", "right")
        /\ UNCHANGED <<heapVars, seg>>
  /\ UNCHANGED <<listVars, lock, free_pages, memVars,
                 current_process, running, disabled, timer, new, old>>

ReapRight ==
  /\ cpu = "right"
  /\ \/ /\ free_on_right(seg) /\ hnext[hnext[seg]] # Nil
        /\ Handle("right", "right")
        /\ merge_right(seg)
        /\ seg' = hnext[hnext[seg]]
     \/ /\ free_on_right(seg) /\ hnext[hnext[seg]] = Nil
        /\ Handle("right", "wild")
        /\ UNCHANGED <<heapVars, seg>>
     \/ /\ ~free_on_right(seg)
        /\ Handle("right", "remove")
        /\ UNCHANGED <<heapVars, seg>>
  /\ UNCHANGED <<listVars, lock, free_pages, memVars,
                 current_process, running, disabled, timer, new, old>>

ReapRemove ==
  /\ Handle("remove", "reap_switch")
  /\ through(All)
  /\ remove_list(All, old)
  /\ UNCHANGED <<heapVars, free_pages, memVars,
                 current_process, running, disabled, timer, new, old, seg>>

\* The frame is left on a page, and its address in a pcb, that are free.
ReapSwitch == switch_to_thread("reap_switch", "none")

----------------------------------------------------------------------------
Create(t) ==
  \/ KmallocScan(t) \/ KmallocSplit(t) \/ KmallocReturn(t) \/ KmallocReuses(t) \/ KmallocFails(t)
  \/ PageCheck(t) \/ PageLock(t) \/ PagePop(t) \/ PagePopWild(t)
  \/ PidRead(t) \/ PidWrite(t)
  \/ AllLock(t) \/ AllLink(t) \/ AllRest(t)
  \/ RunLock(t) \/ RunLink(t) \/ RunCount(t) \/ RunUnlock(t)

Handler ==
  \/ ScheduleNone \/ SchedulePop \/ ScheduleAppend \/ ScheduleSwitch
  \/ ScheduleReturn
  \/ ReapPop \/ ReapFreePage \/ ReapKfree \/ ReapLeft \/ ReapRight \/ ReapRemove \/ ReapSwitch

Next ==
  \/ \E t \in Node : Create(t) \/ ThreadReturns(t)
  \/ TimerIrq
  \/ Handler

Spec == Init /\ [][Next]_vars

\* The core executes the thread that runs, the timer runs out, a handler goes on.
\* Nobody has to call create_kernel_thread or return from its function.
Fairness ==
  /\ WF_vars(\E t \in Node : pc[t] # "work" /\ Create(t))
  /\ WF_vars(TimerIrq)
  /\ WF_vars(Handler)

FairSpec == Spec /\ Fairness

----------------------------------------------------------------------------
(* Properties. *)

\* The steps at which a thread is between spin_lock and spin_unlock.
Critical == [k \in Locks |->
  CASE k = Pages -> {"pop_page"}
    [] k = All   -> {"link_all", "rest_all"}
    [] k = Run   -> {"link_run", "count_run", "unlock_run"}]

\* A lock word is 0 exactly while one thread is inside: no unlock is missed,
\* none comes from outside, and schedule and reap never enter with a thread.
LockHeldByOne ==
  \A k \in Locks :
    LET inside == {t \in Node : pc[t] \in Critical[k]} IN
    /\ lock[k] <=> inside = {}
    /\ \A t, u \in inside : t = u

\* A thread in control of the core is the one current_process names, can be
\* interrupted, and will be: preemption is never switched off for good.
ThreadIsPreemptible ==
  cpu = "thread" => current_process = running /\ ~disabled /\ timer

Free == {free_pages[i] : i \in DOMAIN free_pages}

\* No thread has the page of another for its stack, and a page is back on the
\* free list while its thread still stands on it only within reap, where
\* nothing can be allocated (process.c:82-83).  (A thread that got no page stands
\* at address 0, and nothing keeps others away from there.)
StackIsPrivate ==
  \A n \in Live : stack_page[n] # ZeroPage =>
    /\ \A m \in Live \ {n} : stack_page[m] # stack_page[n]
    /\ stack_page[n] \in Free => n = running /\ disabled

\* Threads that live have different process IDs, as long as one thread creates
\* all others.
OneCreator == \A t \in Node \ {Main} : pcb[t] = Null
PidIsUnique == OneCreator => \A n, m \in Live : pid[n] = pid[m] => n = m

\* As far as kernel_main goes: it creates one thread.
AsBooted == made <= 1

\* With the two threads of kernel_main no interleaving of creation, preemption and
\* reaping loses one, nor has the core follow a pointer that names nothing: a
\* suspended thread is on its way to run_queue, on it, or on its way off.
Suspended == {n \in Node : saved_state[n] # "none"}
NoThreadLost ==
  AsBooted => cpu # "wild" /\ Suspended \ {new} \subseteq Linked(Run) \cup InCreation

\* Each call of create_kernel_thread so far has its thread or is on the way to the
\* frame: no thread has been reaped yet.
Unframed == {t \in Node : pc[t] \in {"split", "mark", "alloc_page", "lock_pages", "pop_page",
                                     "read_pid", "write_pid"}}
NobodyReaped == Cardinality(Live) + Cardinality(Unframed) = made + 1

\* What is linked in run_queue can be switched to, also after the shared links
\* have cut threads off the queue, as long as no thread has been reaped.
\* A pcb that is used again still has its old link when append has made it the
\* last of all_proc_list, and that link may lead run_queue to the thread that runs.
QueuedHasFrame ==
  NobodyReaped /\ cpu \in {"thread", "schedule"} =>
    \A n \in Linked(Run) : n \in Node /\ saved_state[n] # "none"

\* The thread that kernel_main creates finds another to hand the core to when it
\* returns: reap's wait for run_queue, which nobody could end, is never entered.
ReapHasSuccessor == AsBooted /\ cpu = "reap" => size[Run] > 0

\* process_asm.S:7: "Old thread should be put back in run queue before this
\* is called" (switch_to_thread, by schedule).
OldIsQueued == cpu = "switch" => old \in Linked(Run)

\* process.c:118: "add the thread to the lists": a thread that lives is on
\* all_proc_list.
AllProcIsComplete == cpu = "thread" => Live \ InCreation \subseteq Linked(All)

\* process.c:82: "Free the resources used by the old process": those, and no
\* others; what kmalloc hands out next is not the pcb of a thread that lives.
PcbIsFresh ==
  \A t \in Node :
    cpu = "thread" /\ running = t /\ pc[t] = "mark" =>
      kmalloc_result(num[t]) \notin Live \cup InCreation

\* The core waits, with interrupts disabled, for a word only a suspended
\* thread would set, or for a thread that only a running thread would add.
Spinning ==
  \/ cpu = "schedule" /\ size[Run] # 0 /\ ~lock[Run]
  \/ cpu = "append" /\ ~lock[Run]
  \/ cpu = "reap" /\ (size[Run] = 0 \/ ~lock[Run])
  \/ cpu = "free_page" /\ ~lock[Pages]
  \/ cpu = "remove" /\ ~lock[All]

\* process.c:77: "For now we are using round-robin": a thread on the run queue
\* gets the core.
EveryThreadRuns == \A n \in Node : n \in Linked(Run) ~> running = n

\* Of the two threads of kernel_main it does, unless the core hangs: nothing else
\* starves a thread.
Second == pcb[Main]
Served(n) == ~AsBooted \/ running = n \/ Spinning \/ cpu = "wild"
EveryThreadRunsOrHang ==
  /\ AsBooted /\ Main \in Linked(Run) ~> Served(Main)
  /\ AsBooted /\ Second \in Linked(Run) ~> Served(Second)

=============================================================================
