-------------------------------- MODULE Boot --------------------------------
(***************************************************************************)
(* From boot.S to the first ticks: early_init builds the tables and turns  *)
(* the MMU on, then kernel_main installs the vectors, registers the timer  *)
(* and starts it (kernel/boot.S, kernel/kernel.c).                         *)
(***************************************************************************)
EXTENDS Paging, Irq

vars == <<pagingVars, irqVars>>

TypeOK == PagingTypeOK /\ IrqTypeOK

Init == PagingInit /\ IrqInit

\* kernel_main follows early_init.  (The other builder of tables ends where it has
\* turned the MMU on.)
InKernel == stage = "on" /\ how = "early_init" /\ ~lost
Kernel(steps) == InKernel /\ steps /\ UNCHANGED pagingVars

Next ==
  \/ PagingNext /\ UNCHANGED irqVars
  \/ Kernel(IrqNext)

Spec == Init /\ [][Next]_vars

\* The core goes on with what it does and takes its interrupts; the timer counts.
Fairness ==
  /\ WF_vars(PagingNext /\ UNCHANGED irqVars)
  /\ WF_vars(Kernel(boot_steps \/ irq_handler))
  /\ WF_vars(Kernel(irq_handler_asm_wrapper))
  /\ WF_vars(Kernel(Expire))

FairSpec == Spec /\ Fairness

----------------------------------------------------------------------------
\* While an interrupt can be taken, the vectors are where the core fetches them,
\* at address 0, and what they name, linked above 0xC0000000, is translated.
VectorsAreReached ==
  ~disabled \/ frames # <<>> =>
    /\ booted # "no" /\ stage = "on"
    /\ walk(0).frame = 0
    /\ walk(KernelBase).frame = 0

\* The kernel gets as far as its first quantum, and from then on each that runs out
\* is followed by another, however interrupts are nested.
TicksForEver == []<>(cntv = "counting" \/ lost \/ how = "alloc_page")

=============================================================================
