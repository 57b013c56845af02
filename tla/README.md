# A verification development for BensOs

BensOs is a small kernel for the Raspberry Pi 2 (ARMv7, one core in use), some 2600
lines of C and assembly. This directory models its core in TLA+, checks the models
with TLC and proves the facts that matter most with TLAPS. Paths below are relative
to the root of the repository; `process.c` stands for `src/kernel/process.c`, and so on.

## 1. Inventory

| component | code | state | operations |
|---|---|---|---|
| intrusive lists | `include/kernel/list.h` | head, tail, size and lock of each list; one pair of links and one container in each struct | initialise, append, push, peek, pop, size, next, remove |
| spin locks | `spinlock.c`, `lock.S` | a word, 1 when free | `spin_init`, `spin_lock`, `spin_unlock` |
| kernel threads | `process.c`, `process_asm.S` | the pcbs, `run_queue`, `all_proc_list`, `current_process`, `next_proc_num` | `process_init`, `create_kernel_thread`, `schedule`, `reap`, `switch_to_thread` |
| timers | `timer.c` | one-shot quantum counter, counting or not; a free-running counter of 32 bits | `timer_set`, `handle_timer_irq`, `udelay` |
| interrupt dispatch | `exceptionHandlers.c`, `irqHandlers.c`, `interruptVectors.S` | `irqhandlers`, the I bit | `register_handler`, `irq_handler`, entry and exit |
| page allocator | `mem.c` 43-122 | `all_pages_array` with its flags, `free_pages` | `mem_init`, `alloc_page`, `free_page` |
| kernel heap | `mem.c` 125-199 | a chain of segment headers | `heap_init`, `kmalloc`, `kfree` |
| mailbox | `mailbox.c` | mailbox registers, a message in the heap | `send_messages`, `mailbox_send` |
| framebuffer set-up | `gpu.c` 67-125 | `fbinfo` | `gpu_init` |
| console | `gpu.c` 13-65, `kerio.c` 16-20 | cursor, screen memory | `putc`, `gpu_putc` |
| text input and output | `kerio.c` | the caller's buffer | `puts`, `puti`, `printf`, `gets` |
| number functions | `stdlib.c` | the static buffer of `itoa` | `itoa`, `atoi`, `integer_to_string` |
| uart | `uart.c` | two FIFOs | `uart_init`, `uart_putc`, `uart_getc` |
| paging | `early_init.c`, `mem.c` 202-, `virtual_mem_asm.S` | page directory and tables | `early_init`, `paging_enable_with_identitymapping` |
| boot code | `boot.S`, `kernel.c` | | zero `.bsss`, `early_init`, `kernel_main` |
| sd card, model-2 framebuffer | `sd_card_driver.c`, `model2/framebuffer.c` | | nothing calls them |

**How they interact.** `kernel_main` (`kernel.c`) calls `mem_init`, `gpu_init` (which
sends mailbox messages from heap blocks), installs the vectors, registers the timer,
calls `process_init` (first pcb from the heap, first quantum), creates one thread and
prints for ever; the created thread prints too. From `process_init` on, the timer
interrupt may come between any two instructions of a thread. It calls `schedule`,
which moves pcbs between `current_process` and `run_queue` and switches stacks. A
thread whose function returns falls into `reap`, which frees its page and its pcb and
switches away. Threads share the heap and `next_proc_num` (no lock), `free_pages`,
`run_queue` and `all_proc_list` (spin locks, interrupts left enabled), and the cursor, the
serial port and the buffer of `itoa` (no lock). The GPU is another actor: it reads and
writes messages in its own time. So is the terminal, which empties one FIFO and fills the other.

**What is hard.** Preemption inside operations that hold a spin lock; locks taken by a
handler that interrupted their holder; check-then-act without a lock (`alloc_page`,
`kmalloc`, `getNewPid`, the cursor, the full bit of the port); failures nobody looks at
(`kmalloc`, `alloc_page`, `gpu_init`); a pcb on two lists through one pair of links;
memory used after it was freed; a heap whose pointers name the segment behind the one
that is marked; offsets that count double, so that half of the screen is behind its buffer; answers that come after the buffer is gone; one-shot timers; edges of
integer comparisons. `PROJECT.json` lists each hazard at its line.

**What makes each component correct.** Lists: memory spells out one sequence per list
and each call is the queue operation of that name. Threads: none is lost, each queued
one gets the core, nobody shares a stack or a pid, a thread in control can always be
preempted. Locks: one holder, released again. Pages: one owner each, flags that agree,
no old data. Heap: segments tile it, blocks are disjoint. Mailbox: messages fit, a
success means that every value is an answer, the boot goes on. Console: the screen
shows the text and glyphs stay in its buffer. Serial line: it carries every numeral and echo, no
text leaves its buffer, a delay is long enough, calls return.

## 2. Modules

| module | models | built on |
|---|---|---|
| `ListOps` | every list operation as an action on `head`, `tail`, `size`, `next`, `prev`, `container` | |
| `Queue` | abstract: what `list.h` documents | |
| `IntrusiveList` | lists and a client that adds only unowned nodes and pops only non-empty lists; implements `Queue` | `ListOps` |
| `ListRemove` | the same with `remove` | `IntrusiveList` |
| `HeapOps` | `kmalloc` and `kfree` in their steps | |
| `Heap` | the heap and a client that writes into its blocks | `HeapOps` |
| `Process` | threads, scheduler, timer tick, locks, pcbs in the heap | `ListOps`, `HeapOps` |
| `PagePool` | abstract: a pool of pages that calls take from and give back to | |
| `PageAlloc` | `mem_init`, `alloc_page` called by threads, `free_page` with interrupts disabled; implements `PagePool` | `ListOps` |
| `Mailbox` | `send_messages`, `gpu_init`, the GPU, the heap under them | `HeapOps` |
| `Console` | `putc`, `gpu_putc` by threads | |
| `Stdlib` | what the conversions yield, and the numerals by place value | |
| `Uart` | the port and the terminal | `Stdlib` |
| `Kerio` | `printf`, `puts`, `gets`, `itoa`, `integer_to_string`, `atoi`, `udelay` by threads | `Uart` |
| `Paging` | `early_init`, its sibling in `mem.c`, `enable_mmu`, and the MMU's walk | |
| `Irq` | vectors, `irqhandlers`, `irq_handler` and its nesting, the timer | |
| `Boot` | `early_init`, then the steps of `kernel_main` that have to do with interrupts | `Paging`, `Irq` |
| `MC*` | definitions for TLC: sets of arrays, symmetry, list names | |
| `*Proofs` | theorems, section 4 | the module of that name; `MailboxProofs` takes the lemmas about `kmalloc` from `HeapProofs` |

Conventions: names are those of the code; `pc[t]` is the next step of thread `t`
inside a call; an operator marked `MUTANT` is a wrong version of the one that follows,
used by nothing and kept to show that a property can fail.

**State against code.** `Node` are addresses of structs; address zero is ordinary memory
on this machine (the vectors), so `Null` is a cell of the link functions that stores
through NULL reach. A heap pointer `a + 1` of the code is named by its header `a`.
In `Process` one action is one store or group of stores no other thread or handler can
come between with effect; `TimerIrq` may fire whenever `cpu = "thread"`. The handlers
(`schedule`, `reap`) run with interrupts disabled, their steps in a row. `ENABLE_INTERRUPTS`
at the end of `schedule` and the return from the exception are one step: the thread is
back and can be preempted. When code follows a pointer that names nothing, the core is
`"wild"` (`wild` in `PageAlloc`) and the model stops there: the properties about what must
not happen say `pc # "wild"` where that is claimed.

**Undefined behaviour.** `pop` stores through the new head before it compares it with
NULL (`list.h:99-101`), so a compiler may keep or drop the reset of the tail. `TailResets`
is the set of outcomes; `Process` and `PageAlloc` allow both. Memory nobody has written
is `Junk`, or is chosen in `Init`. `atoi` of a text without a digit walks down from below
it, and the thread does not come back; nor does one whose numeral in base 2 has led it out of
`intbuf` (`"away"` in `Kerio`). What `gpu_putc` writes behind the framebuffer either stays there
or meets what somebody else keeps (`behind` in `Console`).

**Granularity.** The stores of a thread that others can see are steps of their own, with one exception:
the split of `kmalloc` (`mem.c:162-168`, `KmallocSplit` of `Process`) is one step. A second `kmalloc` that
looks at the chain between the stores still chooses as before the first of them, or takes the rest: either
both threads get one block, and the core is `"wild"`, or each gets its own. The `kfree` of a `reap` between
them is not followed; with the one creation of the kernel, which the theorems about the heap of `Process`
are about, there is neither.

## 3. Runs

All runs use word sizes, heaps and headers scaled down; each ratio that a guard compares
(header to split threshold, alignment, request to heap) is kept.

| run | question | size and why it is enough |
|---|---|---|
| `list_deque` | do the structures always spell out queues, and do calls implement `Queue`? | 3 nodes, 2 lists: an empty, a one-element and a longer list, and a second list to be damaged |
| `process_spawn` | do the locks exclude, is a thread in control preemptible, are stacks private and pids unique, through creation by two threads, preemption and reaping? With one created thread, as in `kernel_main`: is nobody lost, does `reap` find a successor, is every queued thread run (or does the core hang)? Until a thread is reaped: can what is on the queue be switched to? | 4 pcbs, 3 creations, 2 creators, 2 threads that return, 2 free pages or none: both creators in one critical section, a page and a block used again, lists damaged as far as they get; `AsBooted` marks the part with one creation, `OneCreator` that with one creator, `NobodyReaped` that before the first reaping (the lists are cut there already); fairness below |
| `heap` | do links and sizes stay in range; do segments tile the heap and are blocks disjoint? | heap of 12 headers, 3 sizes, 6 calls: splitting, exact fits, failure, both coalescing loops, and a split of a segment whose size the merges have made too large, with a rest that begins behind the heap (`KmallocSplitOutside`; the model stops there) |
| `page_alloc` | is a page on the list or with one owner; flags, contents; is the lock released, unless `reap` waits for it; do calls implement `PagePool`? (Types are proved.) | 2 threads, 2 pages: enough to race for the last one, and to fail |
| `mailbox` | do messages fit, is 0 an answer, does the boot go on? | arrays of up to 3 tags of 3 lengths, `gpu_init`'s own two, and three that exhaust the heap |
| `console` | do the rows in the framebuffer spell the text; how long do glyphs stay in there? | 4 rows of 2 characters, 2 rows in the framebuffer and 2 behind, as half of the 60 rows are: texts of 8 fill lines, leave the framebuffer, scroll several times; 2 threads with 5 characters |
| `kerio` | does the serial line carry what was asked for; do texts stay in their buffers; is a delay long enough; do calls return? | ints of 5 bits and an `intbuf` of 5 bytes, as many bytes as bits as in the code; all four bases, in base 2 a numeral that fills it and one that does not fit; FIFOs of 2: full at once; buffers of up to 3: empty, partly filled and full lines; the counter at 29 of 32: it wraps during a delay of 5 |
| `boot` | do the tables lie apart and translate every address (those of the function that is not called: the lower half, and nothing of the upper); do interrupts find vectors and handlers, call nothing else, nest only behind a handler; does the tick go on? | 16 directory entries of 4 pages: both halves, the step at three quarters, and four tables to a page; every value of a 4-bit pending register; 3 nested handlers |
| `list_remove`, `process_hang`, `page_rest`, `gets` | disagreements with the documentation, section 5 | the smallest that show them |

Deadlock is checked in the runs that do not say otherwise. The others do: a bound on calls
or a wait with interrupts disabled stops them, and that wait is what the liveness
properties are about.

**Two clients in one run.** `Heap` chooses in `Init` whether the client keeps to what the
kernel does while it boots (`boot`); `Tiling` and `BlocksDisjoint` are about that one,
because any order of calls breaks them (section 5). `Mailbox` chooses whether the GPU
answers before the code looks (`prompt`), and `HasRoom` says whether the heap is large
enough for the program; the kernel's is 2^20 bytes against a few hundred. `Console`
chooses the set of threads that print; how far `gpu_init` came (`fbinfo`: `ready`, `failed` at the
first message with all fields 0, `no_buffer` at the second with only the address 0); whether the linker
has put `fbinfo` behind `irqhandlers` (`overlaid`), as in `buildLin/kernel.img`; and whether the memory
behind the framebuffer keeps what is drawn there (`behind`). The two properties about the screen are
about one thread, a sound `fbinfo`, and lines that fit the columns. `Kerio` chooses the threads (`Groups`); what the terminal should get is known
for one, the other properties are about both,
and `NumeralsStay` and `CallsReturn` say what a numeral in base 2 may break. `PageAlloc` chooses whether callers look for the
0 of a failed `alloc_page` (`checks`); `create_kernel_thread` does not, and then the page at 0 may
get on the list. `Process` chooses whether `mem_init` has left pages on the list, and how much the boot has left
of the heap (`HeapLeft`: for two pcbs, or for all of them). `Paging` chooses the function that builds the tables; `kernel_main` follows
`early_init` only. `Irq` chooses whether `.bss`, and so `irqhandlers`, was zeroed by whoever
loaded the image (`boot.S` zeroes `.bsss`).

**Fairness.** `Process`: the core executes the thread that runs as long as it is inside
`create_kernel_thread`, the timer runs out when it counts, a handler goes on; nobody is
obliged to create or to return. The core is never idle, so this is what the hardware does.
`PageAlloc`: a thread inside a call executes, which the round robin gives it as long as ticks come.
None comes while another thread is in `free_page`, which is `reap`'s with interrupts disabled: then nobody
else may take a step (`MayRun`), fairness owes none, and where that thread waits for a lock whose holder was
preempted all stop for good (`Hang`). Starting a call is not fair. `Mailbox`: the core runs, and the GPU gets round to its mail (it is
another processor; a GPU that never drains its mail stops the boot at `mailbox.c:46`). `Boot`:
the core goes on, takes an interrupt it may take, and the timer counts down; each of
these is the hardware's. `Kerio`: a thread inside a call executes, as in `PageAlloc`, and the
terminal reads; nobody is obliged to type or to start a call. Weak fairness is enough where two
threads wait for the same place in the FIFO because calls are bounded: each finite text
gets through.

## 4. Proofs

Every theorem is about the specification with any values of the constants that satisfy the
`ASSUME` of its module, which TLC evaluates in each run. All are safety properties, proved
by an inductive invariant that TLC had found to hold first.

| module | theorem | states | inductive invariant |
|---|---|---|---|
| `IntrusiveListProofs` | `TypeCorrect` | types | itself |
| | `ListsHold` | `ListInv` | `ListIInv == TypeOK /\ ListInv /\ TailInv` |
| | `ListsImplementQueue` | `Implements` | the same; refinement mapping `queue <- Contents` |
| `ProcessProofs` | `TypeCorrect`, `Preemptible` | `TypeOK`, `ThreadIsPreemptible` | `ProcessIInv == TypeOK /\ HandlerInv` |
| | `MutualExclusion` | `LockHeldByOne` | itself, with the types |
| | `PidsDiffer` | `PidIsUnique` | every pid in use is below what the one creator stores next |
| | `StacksApart` | `StackIsPrivate` | a page is free, some pcb's, or about to be, once |
| | `NobodyLost`, `SuccessorThere` | `NoThreadLost`, `ReapHasSuccessor` | `BootedInv`: `Alone \/ Creates \/ Both`, and what is in the heap |
| | `QueueResumes` | `QueuedHasFrame` | `StayInv`: `InsideInv`, and `OrderInv`, an order of the threads |
| `PageAllocProofs` | `TypeCorrect` | `TypeOK` | itself |
| | `PagesOnce`, `FlagsRight`, `PagesClean` | `EveryPageOnce`, `FlagsAgree`, `NoOldData` | the free list spells a sequence; owners; flags and contents by the step of the owner |
| | `PagesPooled` | `Implements` | the same; refinement mapping by the list and by who has, takes or returns a page |
| `HeapProofs` | `TypeCorrect` | `TypeOK` | itself |
| | `SegmentsTile`, `BlocksApart` | `Tiling`, `BlocksDisjoint` | the chain as a set of headers between 0 and the end |
| `BootProofs` | `TypeCorrect` | `TypeOK` | `BootIInv`, below |
| | `SpaceTranslated`, `NothingLost` | `AddressSpaceHolds`, `NothingIsOverwritten` | `PagingInv`: what the loop has stored so far, and where |
| | `VectorsThere`, `OnlyRegistered`, `NestedPastHandler` | `VectorsAreReached`, `NothingUnregisteredRuns`, `NestedBehindHandler` | `IrqInv`, `KernelRuns` |
| `ConsoleProofs` | `TypeCorrect` | `TypeOK` | itself |
| | `GlyphsStay` | `GlyphsInBuffer` | `ConsoleIInv`: where the cursor can be at each step of the one thread |
| | `TextInFramebuffer` | `ScreenShowsText` | `TextInv`: how much of the text the rows that keep it spell at each step, and from which line |
| `MailboxProofs` | `TypeCorrect` | `TypeOK` | itself, with `MailIInv` |
| | `NothingCoalesces` | `KfreeStopsAtOnce` | `MailIInv`: all segments are held but the last, and the message is that one |
| | `MessagesFit` | `MessageFits` | the same, and the room that is left (`Room`) |
| | `ZeroIsAnswered` | `ZeroMeansAnswered` | `Exchange`: what the words of the message hold at each step, and where the mail is |
| | `MessagesPlaced` | `MessageHasAPlace` | `InTime`: the GPU of a prompt machine has answered before the code looks; with `Room` |

*Lists.* `ListInv` alone is not inductive: `append` links from the old tail, so the tail
of an empty list must not be a node of another list (`TailInv`): it is NULL when the build
keeps the reset, and otherwise the append writes into a node no list owns. The steps are: append adds
at the back, push at the front, pop takes the front, each spares every other list
(`AppendSpares`, ...), and a list represents at most one sequence (`Unique`, by the least
disagreement), so `Contents` is that sequence. The assumption `SoundUse` of the theorems names
what they need: fewer nodes than a word counts, and either `TailResets = {TRUE}`,
or one list that is not pushed to. They hold for any number of
nodes and lists.

*Threads.* `HandlerInv` says what the handlers carry from step to step: who
`current_process`, `new` and `old` are at each step, and that IRQs and the quantum are on
whenever a thread is in control. It needs nothing of the lists, so it holds for any number
of creators, even where the shared links have been damaged. `LockHeldByOne`
then follows: threads enter and leave by `spin_lock` and `spin_unlock`, handlers only pass
through locks that are free. `PidIsUnique` and `StackIsPrivate` say something of the threads that
live; what makes them inductive is what a thread in creation has read and not yet
stored, and a page between `free_page` and the switch away from it. The pages on the list at
the start are distinct, which `EveryPageOnce` shows of `mem_init`.

*Two threads.* `NobodyLost` and `SuccessorThere` assume `RoomForTwo`: the boot has left room for the
second pcb and for the header behind it (without it `kmalloc` fails, which the vectors pay for). Until
`made = 2` the state is one of three: Main is `Alone`, before the creation and after the reaping; Main
`Creates`; `Both` are there, with one suspended. Each fixes what run_queue is (empty, or that one
thread), and the heap is one segment behind Main's, or two. `kmalloc`'s walk of such a heap is unfolded with
`WalkMeets` of `HeapProofs`. The `kfree` of `reap` is given the header that `kmalloc` returned, which is free
already and the last of the chain: it merges nothing and does not get wild. The run `process_spawn` is an instance of `RoomForTwo`.

*A cut queue.* The two lists share one pair of links, so a walk of run_queue may run into
all_proc_list; what does not happen, until a pcb is used again, is that it comes back to the thread that
runs, the one that lives and has no frame. `OrderInv`: there is an order of the nodes in which each link
leads up, and the head of run_queue is above the thread that runs (or that is about to run: `Resuming`).
It is kept because every append links to its node from a lower one and clears, or has not set, the link
of the node itself, so the node can be put on top; a pop moves the head and the thread that runs up
together. The walk then stays in the set of the threads above the one that runs (`LinkedStays`).
`InsideInv` is needed where the append to run_queue is preempted between its halves. `NobodyReaped`
counts: a call of `create_kernel_thread` has a thread, or has not built its frame yet, until `reap`
has switched away from one (`BalanceStep`). The theorem needs no assumption but those of `Process`.

*Pages.* `free_pages` is the one list of its nodes and only appended to and popped, so the list lemmas apply in
either build of `pop`, in the halves of an append that a preemption separates too. Each
user page is in the sequence or has one owner, which is what lets one step of a thread leave all
others alone. `num_pages <= MaxWord`: the size field counts all pages. `PagesPooled` maps the pages on the list to
the pool and gives a thread those it has, is about to have or is giving back; then the pop is `Take`, the append is
`Give`, a failure nobody looks at is `Refuse`, and all other steps stutter (`PoolKept`). The pool may break
only by a pop of the empty list or by the page at 0 given back (`Break`), and nothing is said of it from there on.

*Heap.* `Linked` and `Segments` are fixed points of a walk; a proof that reasons about them never
unfolds the walk but shows that a set that has the first node and is closed under the
link contains it (`WalkStays`), by the least step that leaves the set. `Tiling` then is: the segments
end where the next begins. It is kept by a split because the size that is compared is the size
that is cut (`splits`, with the unsigned difference read as signed), and by the kernel's `kfree`
because the header it is given has nothing free beside it.

*Boot.* `early_init` stores a descending or ascending run of entries per step; `PagingInv` says which
addresses hold which entry after each of them, from which both the walk of any address
and the fact that no store meets an earlier one follow, for any directory whose tables
fit. `WalkMisses` is about the upper half of the other function: the directory is looked up
at half its address, which is below the directories and above the tables, where nothing is stored. `IrqInv` says which frames can be on the stack of interrupts: at most one of them is in front of
its handler. An interrupt needs the I bit, which `KernelRuns` ties to the steps of `kernel_main`.

*Console.* `Alone` chooses one thread for good; the cursor is then where the last call left it, and the
step of `gpu_putc` says how far it may be off. `ScreenShowsText` speaks of the moments between calls.
`ScreenInv` fills in the rest: the screen spells the first n - 1 or n characters, the cursor is at the
place of the n-th or of the next, and both are counted from a first line that moves when the thread
has decided to scroll. Of a row it says so if the row is kept: its line was drawn in the framebuffer, or the memory behind that is
spare (`Whole`); scrolling takes kept rows to kept rows.
`TopFollows` says that the thread decides to scroll exactly when that line moves,
`SpellsScrolled` that the last line is empty afterwards, because lines only go down (`LinesGoDown`). That the places
of a text exist, and that a longer text does not move them, is shown of the recursion by the least place where it
would fail (`Followed`, `Alike`).

*Mailbox.* The kernel asks for messages and one pcb while it boots, and all of it but the last segment is
allocated (`Chain`). `kmalloc` returns the header behind the one it marks, that is the last segment:
`kfree` marks free what was free, and nothing coalesces. The lengths of a message are recursive sums
over its tags: `Laid` says that the words the loops of `send_messages` write follow each other
without a gap up to the end tag, which is why they come to `bufsize`, and `Places` and `ValuePlaces` where each
value of a tag lies. `HasRoom` pays for all the program asks for (`Sums(Asks)`); `Room` says that the last segment
begins no later than what has been paid so far, so each step of `kmalloc` finds it large enough, and the
message it gets ends before the heap does. `Exchange` follows the words: as long as
the mail is out the code is `REQUEST` and each value a request or an answer; once the mail is taken the code is a
response, and with a success all values are answers. It needs that the GPU finds the tags where they were laid, and that
no value lies on the code. So a late GPU does not lead to a 0, since the code it will change is not changed yet. `ArraysAssumption`: a message fits the heap.

Model-checked only, and why:

- liveness (`EveryThreadRunsOrHang`, `LockIsReleasedOrHang`, `BootGoesOn`, `TicksForEver`, `CallsReturn`): it
  rests on fairness, which TLAPS does not reason about;
- all of `Kerio`. What a call asks for is spelled by division until zero (`digits`), and so is how much of
  `intbuf` it takes: the types, `BuffersHold` and `LineIsFaithful` rest on how many digits a number has
  and on what they add up to, which are powers of a base that is not fixed, beyond the arithmetic of the
  provers. `DelayIsLongEnough` needs none of this and is left for later (section 6).

## 5. Where the code and its documentation disagree

Shown by runs:

- `process_hang`: the timer interrupts `append_pcb_list(&run_queue, ...)`; `schedule` waits
  for the lock with interrupts disabled and never ends (`process.c:77` round-robin).
- `page_rest`: `mem_init` takes the linked address of `__end` for its frame; the image of `buildLin` is
  linked 0xC0000000 above its frames, and no page gets on the free list (`mem.c:62`, `78`).
- `gets`: the NUL goes to `buf[buflen-1]` with `buflen` counted down (`kerio.c:42`, `kerio.h:9`).
- `list_remove`: `remove` rewrites the removed node's own links and keeps the size
  (`list.h:29`, `35`).

Stated as properties in the modules and violated, but without a run of their own. To see
one, put its name in a `.cfg` with the constants named:

| property | module, constants | what is seen |
|---|---|---|
| `AllProcIsComplete` | `Process`, as `process_hang` | a live thread drops off `all_proc_list` |
| `OldIsQueued` | `Process`, 3 pcbs, 2 creations | `append` to a cut queue loses the interrupted thread |
| `QueuedHasFrame` without `NobodyReaped` | `Process`, as `process_spawn` with 6 pcbs in a heap of 40 (`Word` = 128, `HeapLeft` = {36}, `MaxWord` = 15), 4 creations, `Creators` = {4}, `MayExit` = {8, 12, 16} | a pcb that is used again still has its old link: the queue leads to the thread that runs (`process.c:119`) |
| `PcbIsFresh` | `Process`, as `process_hang` with `Node` = {4, 8, 12, 16, 20}, `MayExit` = {8}, 4 creations | after a reap `kmalloc` hands out a pcb that is in use (`process.c:82`) |
| `StackIsPrivate` without its condition | `Process`, as `process_spawn` | two threads on page 0 |
| `PidIsUnique` without `OneCreator` | `Process`, as `process_spawn` | two threads with one pid |
| `PopGetsAPage` | `PageAlloc`, as `page_alloc` with `MemSize` = 16 | two threads pass the unlocked check for the last page (`mem.c:96`, `99`) |
| `FreeIsNotKernel` | `PageAlloc`, 1 thread | freed pages keep `kernel_page` |
| `LockIsReleased` | `PageAlloc`, as `page_alloc` | `reap` waits with interrupts disabled for a lock whose holder was preempted in `alloc_page` (`process.c:84`) |
| `BlockInItsSegment`, `CoalescingIsSafe` | `Heap`, as `heap` | a block in a free segment; `kfree` follows NULL |
| `AnswerIsAwaited`, `TriesAgain` | `Mailbox`, as `mailbox` | the answer comes after `kfree`; one try only |
| `TextInBuffer` | `Console`, as `console` | half of the rows are behind the framebuffer (`gpu.c:14`: an offset that counts double); see below |
| `FullLinesWrap` | `Console`, as `console` | the character behind a full line is drawn over its first (`gpu.c:55`: `>` for `>=`) |
| `RowsMoveWhole` | `Console`, as `console` | scrolling moves the upper half of a row |
| `GlyphsInBuffer` without `Alone` | `Console`, as `console` | two threads move the cursor below the last row |
| `GlyphsInBuffer` without `Ready` | `Console`, as `console` | glyphs drawn below a screen of the wrong height, or from address 0 up |
| `StoreHasRoom` | `Kerio`, as `gets` | a thread preempted behind its look at the port stores into a full FIFO (`uart.c:51`) |
| `NumeralIsLeftAlone` | `Kerio`, as `gets` | `itoa` of one thread overwrites the numeral another prints (`stdlib.c:112`) |
| `InIntbuf` | `Kerio`, as `gets` | a wide numeral in base 2 takes 32 digits, `b0` and the NUL, 35 bytes of the 32 of `intbuf` (`stdlib.c:143`); no caller asks for one |
| `AtoiReadsNumber` | `Kerio`, as `gets` | `atoi("7")` is 0: the first digit is left out (`stdlib.h:32`) |
| `UpperHalfHolds` | `Boot`, as `boot` | `mem.c:334`: TTBR1 is half the address of the directory, and no page of the upper half is translated |
| `PendingIsRaised` | `Boot`, as `boot` | `IRQ_IS_PENDING(2)` where nothing is pending: 0 + 4 has bit 2 |

*The lower half of the screen.* `fbinfo.buf` is a `uint16_t *`: `buf + y*pitch` is at byte `2*y*pitch`. At
640x480 with three bytes a pixel, row 30 of the 60 begins at byte 921600, where the framebuffer ends. `gpu_init`
clears 30 rows behind it (`gpu.c:119`), `gpu_putc` draws there from the 31st line on (`gpu.c:48`), and scrolling
copies and clears there (`gpu.c:30`, `34`). The 31st line of a text is seen when scrolling brings it into
the framebuffer, if that memory has kept it, and as upper halves only. After a failed second message all of it happens from address
0 up. `Console`
counts memory, not the display, where a row of pixels spreads over two rows, on every second pixel of them.

## 6. Not modelled, and the plan

Not modelled: the sd card driver and the model-2 framebuffer (nothing calls them, and
all the second one did is commented out), the rest of the boot's assembly (the other cores halt, a
stack pointer), the pixels of a glyph and their places on the display, the speed of the uart, the name in a
pcb, and the functions nothing calls: `mailbox_read`, `tlb_invalidate`, `disable_mmu`. `memcpy` and
`bzero` are part of their callers' steps. A format of `printf` that ends with `%` walks past its NUL; the kernel
has none. In `Irq` the thread that is interrupted is the
only one. `kmalloc` requests near 2^32 are excluded by `ClientAssumption`. What the loops of
`mem_init` write behind `all_pages_array` for an image that is linked high is not followed: nothing
uses that memory yet.

Done: every component of section 1 but those named above, and the theorems of section 4. Next, in this
order:

1. Proofs: `DelayIsLongEnough` for any width of the counter and number of threads (the time passed
   is below the delay while the loop runs); then the digits of a number of a given length.
2. Abstract specification: a round-robin scheduler that `Process` with one creation implements.
3. `mem_init` behind `early_init`: its free list has the frames at 0x10004000 that hold the
   tables, so `PagePool` composed with `Paging` should say when one is handed out.
4. `Irq` under `Process`: the tick of `Process` as the abstract specification of `Irq`, with a
   stack of interrupted handlers for each thread.
