-------------------------------- MODULE Irq --------------------------------
(***************************************************************************)
(* Interrupt dispatch (kernel/exceptionHandlers.c, irqHandlers.c and       *)
(* interruptVectors.S) and the quantum timer (kernel/timer.c), as the one  *)
(* thread sees them that runs while the run queue is empty: schedule sets  *)
(* another quantum and returns (ScheduleNone of Process).                  *)
(*                                                                         *)
(* irq_handler enables interrupts before it has returned, so a handler can *)
(* be entered while an earlier one is still on the stack.                  *)
(***************************************************************************)
EXTENDS Integers, Sequences

CONSTANTS
  Bits,      \* bits in a pending register, 32 in the code
  Timer,     \* the id of the timer, 73 in the code: the last that is looked at
  MaxDepth   \* bound: handlers on the stack

ASSUME IrqAssumption ==
  /\ Bits \in Nat \ {0, 1} /\ Timer \in Nat /\ Timer >= 2 * Bits /\ MaxDepth \in Nat \ {0}

Ids == 0..Timer

VARIABLES
  booted,       \* what kernel_main has done: "no", "vectors", "handler", "timer"
  clearer,      \* irqhandlers: that field of each element
  handler,      \*              and this one
  disabled,     \* the I bit
  cntv,         \* the timer: "off", "counting", "expired"; its line is up when expired
  word,         \* what is read at 0x3F00B000
  frames,       \* the calls of irq_handler on the stack: counter and next step
  lost          \* the core has called an address that is no function

irqVars == <<booted, clearer, handler, disabled, cntv, word, frames, lost>>

Functions == {"handle_timer_irq", "clear_timer_irq"}

IrqTypeOK ==
  /\ booted \in {"no", "vectors", "handler", "timer"}
  /\ clearer \in [Ids -> Functions \cup {"0", "junk"}]
  /\ handler \in [Ids -> Functions \cup {"0", "junk"}]
  /\ disabled \in BOOLEAN /\ lost \in BOOLEAN
  /\ cntv \in {"off", "counting", "expired"}
  /\ word \in 0 .. 2^Bits - 1
  /\ frames \in Seq([j : 0 .. Timer + 1, at : {"scan", "schedule", "enable"}])
  /\ Len(frames) <= MaxDepth

\* boot.S zeroes .bsss but not .bss, where the table is: a loader does it, or nobody.
IrqInit ==
  /\ booted = "no"
  /\ clearer \in {[id \in Ids |-> w] : w \in {"0", "junk"}}
  /\ handler = clearer
  /\ disabled = TRUE
  /\ cntv = "off"
  /\ word \in 0 .. 2^Bits - 1
  /\ frames = <<>>
  /\ lost = FALSE

----------------------------------------------------------------------------
(* The boot: kernel_main, with no thread but the first. *)

\* initExceptions: copy the vectors to address 0, enable interrupts.
initExceptions ==
  /\ booted = "no"
  /\ booted' = "vectors"
  /\ disabled' = FALSE
  /\ UNCHANGED <<clearer, handler, cntv, word, frames, lost>>

register_handler(id, h, c) ==
  /\ handler' = [handler EXCEPT ![id] = h]
  /\ clearer' = [clearer EXCEPT ![id] = c]

timer_init ==
  /\ booted = "vectors"
  /\ booted' = "handler"
  /\ register_handler(Timer, "handle_timer_irq", "clear_timer_irq")
  /\ UNCHANGED <<disabled, cntv, word, frames, lost>>

\* process_init ends with timer_set.
process_init ==
  /\ booted = "handler"
  /\ booted' = "timer"
  /\ cntv' = "counting"
  /\ UNCHANGED <<clearer, handler, disabled, word, frames, lost>>

----------------------------------------------------------------------------
\* The counter of the timer gets to zero.
Expire ==
  /\ cntv = "counting"
  /\ cntv' = "expired"
  /\ UNCHANGED <<booted, clearer, handler, disabled, word, frames, lost>>

\* MUTANT: the wrapper leaves interrupts enabled.
irq_handler_asm_wrapper_unmasked ==
  /\ cntv = "expired" /\ ~disabled /\ Len(frames) < MaxDepth
  /\ frames' = Append(frames, [j |-> 0, at |-> "scan"])
  /\ UNCHANGED <<booted, clearer, handler, disabled, cntv, word, lost>>

\* The core takes the interrupt between two instructions of whatever runs.
irq_handler_asm_wrapper ==
  /\ cntv = "expired" /\ ~disabled /\ Len(frames) < MaxDepth
  /\ frames' = Append(frames, [j |-> 0, at |-> "scan"])
  /\ disabled' = TRUE
  /\ UNCHANGED <<booted, clearer, handler, cntv, word, lost>>

offset(j) == IF j < Bits THEN 4 ELSE IF j < 2 * Bits THEN 8 ELSE 0

\* The offset is added to the word that is read and not to its address.
IRQ_IS_PENDING(j) ==
  IF j = Timer
  THEN cntv = "expired"
  ELSE (((word + offset(j)) % 2^Bits) \div 2^(j % Bits)) % 2 = 1

\* MUTANT: whether there is a handler is not looked at.
called_always(j) == IRQ_IS_PENDING(j)

called(j) == IRQ_IS_PENDING(j) /\ clearer[j] # "0"

\* MUTANT: as many turns as irqhandlers is declared with elements.
Turns_declared == Timer

Turns == Timer + 1

Top == frames[Len(frames)]

\* The innermost irq_handler is at its step `at`, and goes on as f.
Advance(at, f) ==
  /\ frames # <<>> /\ ~lost /\ Top.at = at
  /\ frames' = [frames EXCEPT ![Len(frames)] = f]

ScanOver ==
  /\ frames # <<>> /\ Top.j < Turns /\ ~called(Top.j)
  /\ Advance("scan", [j |-> Top.j + 1, at |-> "scan"])
  /\ UNCHANGED <<booted, clearer, handler, disabled, cntv, word, lost>>

\* The clearer, DISABLE_INTERRUPTS and the handler: handle_timer_irq stops the
\* timer and calls schedule.
CallTimer ==
  /\ frames # <<>> /\ Top.j < Turns /\ called(Top.j)
  /\ handler[Top.j] = "handle_timer_irq" /\ clearer[Top.j] = "clear_timer_irq"
  /\ Advance("scan", [Top EXCEPT !.at = "schedule"])
  /\ disabled' = TRUE
  /\ cntv' = "off"
  /\ UNCHANGED <<booted, clearer, handler, word, lost>>

CallLost ==
  /\ frames # <<>> /\ ~lost /\ Top.at = "scan" /\ Top.j < Turns /\ called(Top.j)
  /\ handler[Top.j] \notin Functions \/ clearer[Top.j] \notin Functions
  /\ lost' = TRUE
  /\ UNCHANGED <<booted, clearer, handler, disabled, cntv, word, frames>>

\* schedule with an empty run queue: timer_set, ENABLE_INTERRUPTS.
schedule ==
  /\ Advance("schedule", [Top EXCEPT !.at = "enable"])
  /\ cntv' = "counting"
  /\ disabled' = FALSE
  /\ UNCHANGED <<booted, clearer, handler, word, lost>>

EnableAfter ==
  /\ frames # <<>>
  /\ Advance("enable", [j |-> Top.j + 1, at |-> "scan"])
  /\ disabled' = FALSE
  /\ UNCHANGED <<booted, clearer, handler, cntv, word, lost>>

\* The loop is over and the exception returns: interrupts as they were when it
\* was taken, enabled.
Leave ==
  /\ frames # <<>> /\ ~lost
  /\ Top = [j |-> Turns, at |-> "scan"]
  /\ frames' = SubSeq(frames, 1, Len(frames) - 1)
  /\ disabled' = FALSE
  /\ UNCHANGED <<booted, clearer, handler, cntv, word, lost>>

irq_handler == ScanOver \/ CallTimer \/ CallLost \/ schedule \/ EnableAfter \/ Leave
boot_steps == initExceptions \/ timer_init \/ process_init

IrqNext == boot_steps \/ Expire \/ irq_handler_asm_wrapper \/ irq_handler

----------------------------------------------------------------------------
(* Properties. *)

\* An interrupt taken while another is handled finds that one past its handler:
\* schedule is never entered inside itself (exceptionHandlers.c:44-46).
NestedBehindHandler ==
  \A n \in 1 .. Len(frames) - 1 : frames[n].at = "enable" \/ frames[n].j = Timer + 1

\* Where .bss is zeroed, no interrupt calls an address that is no function, though
\* IRQ_IS_PENDING holds of interrupts that are not (the 4 or 8 it adds to what it
\* has read).
NothingUnregisteredRuns ==
  (\A id \in Ids : clearer[id] # "junk") => ~lost

\* What IRQ_IS_PENDING (exceptionHandlers.c:9) finds pending has been raised: nobody
\* raises an interrupt here but the timer, and the word it reads is 0.
PendingIsRaised == word = 0 => \A id \in Ids \ {Timer} : ~IRQ_IS_PENDING(id)

=============================================================================
