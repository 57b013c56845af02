-------------------------------- MODULE Uart --------------------------------
(***************************************************************************)
(* The serial port (kernel/uart.c): two FIFOs between the kernel and a     *)
(* terminal that reads and types at its own pace.  A character written to  *)
(* a full FIFO, or typed into one, is lost.                                *)
(***************************************************************************)
EXTENDS Stdlib

CONSTANTS
  Fifo,      \* 16, the depth of a FIFO
  Keys,      \* the characters typed
  MaxTyped   \* bound: characters typed

ASSUME UartAssumption == Fifo \in Nat \ {0} /\ Keys \subseteq Char /\ MaxTyped \in Nat

VARIABLES
  tx, rx,  \* the FIFOs
  typed    \* characters typed so far
uartVars == <<tx, rx, typed>>

UartTypeOK ==
  /\ tx \in Seq(Char) /\ Len(tx) <= Fifo
  /\ rx \in Seq(Keys) /\ Len(rx) <= Fifo
  /\ typed \in 0..MaxTyped

\* uart_init switches the port on with its FIFOs enabled.
uart_init == tx = <<>> /\ rx = <<>> /\ typed = 0

\* Bits 5 and 4 of UART0_FR.
TxFull == Len(tx) = Fifo
RxEmpty == rx = <<>>

\* The store to UART0_DR.
write_DR(c) ==
  /\ tx' = IF TxFull THEN tx ELSE Append(tx, c)
  /\ UNCHANGED <<rx, typed>>

\* The terminal.
Drain ==
  /\ tx # <<>>
  /\ tx' = Tail(tx)
  /\ UNCHANGED <<rx, typed>>

Type ==
  /\ typed < MaxTyped
  /\ typed' = typed + 1
  /\ \E c \in Keys : rx' = IF Len(rx) = Fifo THEN rx ELSE Append(rx, c)
  /\ UNCHANGED tx

=============================================================================
