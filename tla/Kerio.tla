------------------------------- MODULE Kerio --------------------------------
(***************************************************************************)
(* printf, puts, puti and gets (kernel/kerio.c) on the serial port, the    *)
(* conversions of common/stdlib.c they use, and udelay (kernel/timer.c),   *)
(* called by threads that are preempted between any two steps.  itoa       *)
(* works in one static buffer, whoever calls it.  What putc does on the    *)
(* screen is in Console.                                                   *)
(*                                                                         *)
(* A call of printf is given by what its format asks for: characters [chr] *)
(* (of the format, a string, %%) and numbers [num, base].  The formats     *)
(* of the kernel do not end within a directive.                            *)
(***************************************************************************)
EXTENDS Uart, FiniteSets
LOCAL INSTANCE SequencesExt

CONSTANTS
  Thread,
  Groups,     \* the sets of threads that may make calls
  Prints(_),  \* what is printed by one thread (TRUE), by each of several (FALSE)
  Numbers,    \* the arguments of integer_to_string
  MaxBuf,     \* bound: the size of the caller's buffer
  Usecs,      \* the argument of udelay
  Starts,     \* values of the counter when udelay is called
  MaxGap,     \* bound: microseconds between two looks at the counter
  MaxCalls,   \* bound: calls of one thread alone
  MaxShared   \* bound: calls of all threads together

ASSUME KerioAssumption ==
  /\ Groups \subseteq SUBSET Thread \ {{}}
  /\ Numbers \subseteq int /\ MaxBuf \in Nat \ {0}
  /\ Usecs \in 0..Word - 1 /\ Starts \subseteq 0..Word - 1
  /\ MaxGap \in 1..Word - Usecs   \* a thread is back before the counter has gone round
  /\ MaxCalls \in Nat /\ MaxShared \in Nat

VARIABLES
  active,        \* the threads that make calls
  intbuf,        \* itoa's buffer
  pc,            \* per thread: "idle", or its next step
  back,          \* where putc returns to
  fmt,           \* what is left of the format
  base,          \* itoa's parameter
  stores,        \* what itoa has still to store
  i, j,          \* the locals of that name in itoa, puts and gets
  c,             \* the character on its way to the port
  tmp,           \* itoa's isneg in its last loop; what gets has read last
  curr, passed,  \* udelay: the first reading, the time passed since
  buf, buflen,   \* the caller's buffer of gets and integer_to_string, its free rest
  call, result,  \* the last call with that buffer, what it returned
  line,          \* what it was given: the keys gets has read, but for the "\r"
  sent,          \* with one thread: what has reached the terminal,
  asked,         \* and the text all calls so far should put on the serial line
  calls          \* calls so far

threadVars == <<pc, back, fmt, base, stores, i, j, c, tmp, curr, passed>>
bufVars == <<buf, buflen, call, result, line>>
lineVars == <<sent, asked>>
vars == <<uartVars, active, intbuf, threadVars, bufVars, lineVars, calls>>

Printing == {"next", "store", "swap", "swap_left", "swap_right", "puts", "wait", "write"}
Reading == {"getc", "read", "keep", "end"}
Text == Char \cup {NUL}

TypeOK ==
  /\ UartTypeOK
  /\ active \in Groups
  /\ intbuf \in [0..IntBuf - 1 -> Text]
  /\ pc \in [Thread -> Printing \cup Reading \cup {"idle", "poll", "away"}]
  /\ back \in [Thread -> {"next", "puts", "keep", "end"}]
  /\ base \in [Thread -> {2, 8, 10, 16}]
  /\ \A t \in Thread : stores[t] \in Seq(Text)
  /\ i \in [Thread -> 0..IntBuf + MaxBuf] /\ j \in [Thread -> 0..IntBuf]
  /\ c \in [Thread -> Char] /\ tmp \in [Thread -> Text]
  /\ curr \in [Thread -> 0..Word - 1] /\ passed \in [Thread -> 0..Word - 1]
  /\ buf \in [0..MaxBuf - 1 -> Text \cup {"junk"}] /\ buflen \in 0..MaxBuf
  /\ line \in Seq(Char) /\ sent \in Seq(Char) /\ asked \in Seq(Char)
  /\ calls \in 0..MaxCalls + MaxShared

Init ==
  /\ uart_init
  /\ active \in Groups
  /\ intbuf = [k \in 0..IntBuf - 1 |-> NUL]
  /\ pc = [t \in Thread |-> "idle"] /\ back = [t \in Thread |-> "next"]
  /\ fmt = [t \in Thread |-> <<>>]
  /\ base = [t \in Thread |-> 10] /\ stores = [t \in Thread |-> <<>>]
  /\ i = [t \in Thread |-> 0] /\ j = [t \in Thread |-> 0]
  /\ c = [t \in Thread |-> "0"] /\ tmp = [t \in Thread |-> NUL]
  /\ curr = [t \in Thread |-> 0] /\ passed = [t \in Thread |-> 0]
  /\ buf = [k \in 0..MaxBuf - 1 |-> "junk"] /\ buflen = 0
  /\ call = [op |-> "none"] /\ result = 0 /\ line = <<>>
  /\ sent = <<>> /\ asked = <<>> /\ calls = 0

Alone == Cardinality(active) = 1

Step(t, at, to) == pc[t] = at /\ pc' = [pc EXCEPT ![t] = to] /\ UNCHANGED active

Call(t, to) ==
  /\ t \in active
  /\ calls < (IF Alone THEN MaxCalls ELSE MaxShared) /\ calls' = calls + 1
  /\ Step(t, "idle", to)

----------------------------------------------------------------------------
(* Output. *)

IsChar(item) == "chr" \in DOMAIN item
TextOf(item) == IF IsChar(item) THEN <<item.chr>> ELSE Numeral(item.num, item.base)

Asked(items) == FlattenSeq([k \in DOMAIN items |-> TextOf(items[k])])

Printf(t) ==
  /\ Call(t, "next")
  /\ \E items \in Prints(Alone) :
       /\ fmt' = [fmt EXCEPT ![t] = items]
       /\ asked' = IF Alone THEN asked \o Asked(items) ELSE asked
  /\ UNCHANGED <<uartVars, intbuf, back, base, stores, i, j, c, tmp, curr, passed, bufVars, sent>>

\* putc(ch), which goes on at `to`.
putc(t, ch, to) == c' = [c EXCEPT ![t] = ch] /\ back' = [back EXCEPT ![t] = to]

Return(t) ==
  /\ fmt[t] = <<>>
  /\ Step(t, "next", "idle")
  /\ UNCHANGED <<uartVars, intbuf, back, fmt, base, stores, i, j, c, tmp, curr, passed, bufVars,
                 lineVars, calls>>

NextChar(t) ==
  /\ fmt[t] # <<>> /\ IsChar(Head(fmt[t]))
  /\ Step(t, "next", "wait")
  /\ putc(t, Head(fmt[t]).chr, "next")
  /\ fmt' = [fmt EXCEPT ![t] = Tail(@)]
  /\ UNCHANGED <<uartVars, intbuf, base, stores, i, j, tmp, curr, passed, bufVars, lineVars, calls>>

\* puts(itoa(va_arg(args, int), base))
NextNumber(t) ==
  /\ fmt[t] # <<>> /\ ~IsChar(Head(fmt[t]))
  /\ Step(t, "next", "store")
  /\ base' = [base EXCEPT ![t] = Head(fmt[t]).base]
  /\ stores' = [stores EXCEPT ![t] = itoa_stores(Head(fmt[t]).num, base'[t])]
  /\ j' = [j EXCEPT ![t] = 0]
  /\ fmt' = [fmt EXCEPT ![t] = Tail(@)]
  /\ UNCHANGED <<uartVars, intbuf, back, i, c, tmp, curr, passed, bufVars, lineVars, calls>>

\* itoa: intbuf[j++] = ..., the NUL last, which leaves j before it and i at 0.
Store(t) ==
  LET last == Len(stores[t]) = 1 IN
  /\ j[t] < IntBuf
  /\ Step(t, "store", IF last THEN "swap" ELSE "store")
  /\ intbuf' = [intbuf EXCEPT ![j[t]] = Head(stores[t])]
  /\ stores' = [stores EXCEPT ![t] = Tail(@)]
  /\ i' = [i EXCEPT ![t] = 0]
  /\ j' = [j EXCEPT ![t] = (IF last THEN @ - 1 ELSE @ + 1) % Word]
  /\ UNCHANGED <<uartVars, back, fmt, base, c, tmp, curr, passed, bufVars, lineVars, calls>>

\* while (i < j): the text is turned round.
Swap(t) ==
  /\ \/ /\ i[t] < j[t]
        /\ Step(t, "swap", "swap_left")
        /\ tmp' = [tmp EXCEPT ![t] = intbuf[i[t]]]
        /\ UNCHANGED i
     \/ /\ i[t] >= j[t]
        /\ Step(t, "swap", "puts")
        /\ i' = [i EXCEPT ![t] = 0]
        /\ UNCHANGED tmp
  /\ UNCHANGED <<uartVars, intbuf, back, fmt, base, stores, j, c, curr, passed, bufVars, lineVars, calls>>

SwapLeft(t) ==
  /\ Step(t, "swap_left", "swap_right")
  /\ intbuf' = [intbuf EXCEPT ![i[t]] = intbuf[j[t]]]
  /\ UNCHANGED <<uartVars, back, fmt, base, stores, i, j, c, tmp, curr, passed, bufVars, lineVars, calls>>

SwapRight(t) ==
  /\ Step(t, "swap_right", "swap")
  /\ intbuf' = [intbuf EXCEPT ![j[t]] = tmp[t]]
  /\ i' = [i EXCEPT ![t] = @ + 1]
  /\ j' = [j EXCEPT ![t] = @ - 1]
  /\ UNCHANGED <<uartVars, back, fmt, base, stores, c, tmp, curr, passed, bufVars, lineVars, calls>>

\* puts reads what is in intbuf by now.
Puts(t) ==
  LET ch == intbuf[i[t]] IN
  /\ i[t] < IntBuf
  /\ \/ ch = NUL /\ Step(t, "puts", "next") /\ UNCHANGED <<back, i, c>>
     \/ /\ ch # NUL
        /\ Step(t, "puts", "wait")
        /\ putc(t, ch, "puts")
        /\ i' = [i EXCEPT ![t] = @ + 1]
  /\ UNCHANGED <<uartVars, intbuf, fmt, base, stores, j, tmp, curr, passed, bufVars, lineVars, calls>>

\* A numeral in base 2 is up to 32 digits, two characters of prefix and the NUL:
\* itoa goes on behind intbuf, and puts after it when no NUL is left inside.
\* Neither is followed there.
LeaveIntbuf(t) ==
  /\ \/ j[t] >= IntBuf /\ Step(t, "store", "away")
     \/ i[t] >= IntBuf /\ Step(t, "puts", "away")
  /\ UNCHANGED <<uartVars, intbuf, back, fmt, base, stores, i, j, c, tmp, curr, passed, bufVars,
                 lineVars, calls>>

\* MUTANT: the loop waits for a full FIFO.
Wait_full(t) ==
  /\ TxFull
  /\ Step(t, "wait", "write")
  /\ UNCHANGED <<uartVars, intbuf, back, fmt, base, stores, i, j, c, tmp, curr, passed, bufVars,
                 lineVars, calls>>

\* MUTANT: the loop is missing.
Wait_not(t) ==
  /\ Step(t, "wait", "write")
  /\ UNCHANGED <<uartVars, intbuf, back, fmt, base, stores, i, j, c, tmp, curr, passed, bufVars,
                 lineVars, calls>>

\* uart_putc: the port is looked at, and then written.
Wait(t) ==
  /\ ~TxFull
  /\ Step(t, "wait", "write")
  /\ UNCHANGED <<uartVars, intbuf, back, fmt, base, stores, i, j, c, tmp, curr, passed, bufVars,
                 lineVars, calls>>

Write(t) ==
  /\ Step(t, "write", back[t])
  /\ write_DR(c[t])
  /\ UNCHANGED <<intbuf, back, fmt, base, stores, i, j, c, tmp, curr, passed, bufVars, lineVars, calls>>

----------------------------------------------------------------------------
(* Input, by one thread. *)

Gets(t) ==
  /\ Alone /\ Call(t, "getc")
  /\ \E n \in 1..MaxBuf : buflen' = n /\ call' = [op |-> "gets", size |-> n]
  /\ i' = [i EXCEPT ![t] = 0]
  /\ line' = <<>>
  /\ UNCHANGED <<uartVars, intbuf, back, fmt, base, stores, j, c, tmp, curr, passed, buf, result, lineVars>>

\* uart_getc
Getc(t) ==
  /\ ~RxEmpty
  /\ Step(t, "getc", "read")
  /\ UNCHANGED <<uartVars, intbuf, back, fmt, base, stores, i, j, c, tmp, curr, passed, bufVars,
                 lineVars, calls>>

\* MUTANT: no place is left for the NUL.
Room_all == buflen > 0

Room == buflen > 1

Read(t) ==
  LET ch == Head(rx)
      goes_on == ch # "\r" /\ Room
      echo == IF goes_on THEN ch ELSE "\n"
  IN  /\ Step(t, "read", "wait")
      /\ rx' = Tail(rx)
      /\ tmp' = [tmp EXCEPT ![t] = ch]
      /\ putc(t, echo, IF goes_on THEN "keep" ELSE "end")
      /\ line' = IF ch = "\r" THEN line ELSE Append(line, ch)
      /\ asked' = Append(asked, echo)
      /\ UNCHANGED <<tx, typed, intbuf, fmt, base, stores, i, j, curr, passed, buf, buflen, call,
                     result, sent, calls>>

Keep(t) ==
  /\ Step(t, "keep", "getc")
  /\ buf' = [buf EXCEPT ![i[t]] = tmp[t]]
  /\ i' = [i EXCEPT ![t] = @ + 1]
  /\ buflen' = buflen - 1
  /\ UNCHANGED <<uartVars, intbuf, back, fmt, base, stores, j, c, tmp, curr, passed, call, result, line,
                 lineVars, calls>>

\* Where gets puts the NUL.
End(t) == IF tmp[t] = "\n" THEN i[t] ELSE buflen - 1

Terminate(t) ==
  /\ Step(t, "end", "idle")
  /\ buf' = [buf EXCEPT ![End(t)] = NUL]
  /\ UNCHANGED <<uartVars, intbuf, back, fmt, base, stores, i, j, c, tmp, curr, passed, buflen, call,
                 result, line, lineVars, calls>>

----------------------------------------------------------------------------
(* The conversions in the caller's own buffer, which nobody else sees. *)

IntegerToString(t) ==
  /\ Alone /\ Call(t, "idle")
  /\ \E n \in Numbers, size \in 0..MaxBuf :
       LET r == integer_to_string(size, n) IN
       /\ call' = [op |-> "to_string", size |-> size, num |-> n]
       /\ result' = r.result
       /\ buf' = [k \in DOMAIN buf |-> IF k < Len(r.stored) THEN r.stored[k + 1] ELSE buf[k]]
       /\ buflen' = size - Len(r.stored)
  /\ UNCHANGED <<uartVars, intbuf, back, fmt, base, stores, i, j, c, tmp, curr, passed, line, lineVars>>

\* atoi of the text integer_to_string has left.
Atoi(t) ==
  LET len == CHOOSE k \in 0..MaxBuf - 1 :
               ~IsDigit(buf[k]) /\ \A m \in 0..k - 1 : IsDigit(buf[m])
  IN  /\ call.op = "to_string" /\ result = 0
      /\ call' = [call EXCEPT !.op = "atoi"]
      /\ \/ /\ len > 0
            /\ Alone /\ Call(t, "idle")
            /\ result' = atoi([k \in 1..len |-> buf[k - 1]], len)
         \* Without a digit the loop begins below the text and goes on downwards.
         \/ len = 0 /\ Alone /\ Call(t, "away") /\ UNCHANGED result
      /\ UNCHANGED <<uartVars, intbuf, back, fmt, base, stores, i, j, c, tmp, curr, passed, buf, buflen,
                     line, lineVars>>

----------------------------------------------------------------------------
(* udelay. *)

Udelay(t) ==
  /\ Call(t, "poll")
  /\ \E now \in Starts : curr' = [curr EXCEPT ![t] = now]
  /\ passed' = [passed EXCEPT ![t] = 0]
  /\ UNCHANGED <<uartVars, intbuf, back, fmt, base, stores, i, j, c, tmp, bufVars, lineVars>>

\* MUTANT: the counter is compared with the time at which it should be done.
Elapsed_until(now, start) == IF now < (start + Usecs) % Word THEN 0 ELSE Usecs

\* x = timer_regs->counter_low - curr
Elapsed(now, start) == (now - start) % Word

Poll(t) ==
  \E gap \in 0..MaxGap :
    LET now == (curr[t] + passed[t] + gap) % Word IN
    /\ Step(t, "poll", IF Elapsed(now, curr[t]) < Usecs THEN "poll" ELSE "idle")
    /\ passed' = [passed EXCEPT ![t] = @ + gap]
    /\ UNCHANGED <<uartVars, intbuf, back, fmt, base, stores, i, j, c, tmp, curr, bufVars, lineVars, calls>>

----------------------------------------------------------------------------
Calls(t) == Printf(t) \/ Gets(t) \/ IntegerToString(t) \/ Atoi(t) \/ Udelay(t)

Run(t) ==
  \/ Return(t) \/ NextChar(t) \/ NextNumber(t)
  \/ Store(t) \/ Swap(t) \/ SwapLeft(t) \/ SwapRight(t) \/ Puts(t)
  \/ LeaveIntbuf(t)
  \/ Wait(t) \/ Write(t)
  \/ Getc(t) \/ Read(t) \/ Keep(t) \/ Terminate(t)
  \/ Poll(t)

\* The terminal reads, and types once there is somebody to read it.
Reads ==
  /\ Drain
  /\ sent' = IF Alone THEN Append(sent, Head(tx)) ELSE sent
  /\ UNCHANGED <<active, intbuf, threadVars, bufVars, asked, calls>>
Types ==
  /\ call.op = "gets" /\ Type
  /\ UNCHANGED <<active, intbuf, threadVars, bufVars, lineVars, calls>>

Next == Reads \/ Types \/ \E t \in Thread : Calls(t) \/ Run(t)

Spec == Init /\ [][Next]_vars

\* Every thread gets the core again (Process), and the terminal reads.  Nobody
\* has to type, or to make a call.
Fairness ==
  /\ \A t \in Thread : WF_vars(Run(t))
  /\ WF_vars(Reads)

FairSpec == Spec /\ Fairness

----------------------------------------------------------------------------
(* Properties. *)

\* With one thread, the terminal gets what the calls ask for: every number by
\* its place value, whatever numeral intbuf held before, every character the
\* user typed and gets took, in order and none lost to a full FIFO.
LineIsFaithful ==
  Alone /\ (\A t \in Thread : pc[t] \in {"idle", "getc"}) => sent \o tx = asked

\* Inside intbuf, however threads overwrite each other's numerals.
InIntbuf ==
  \A t \in Thread :
    /\ pc[t] \in {"store", "swap_left", "swap_right"} => j[t] < IntBuf
    /\ pc[t] = "puts" => i[t] < IntBuf

\* itoa's fourth base, 2, which nothing in the kernel asks for: a numeral in it
\* need not fit.
NoBinary == \A t \in Thread : base[t] # 2

\* In bases 8, 10 and 16, itoa stores and puts reads inside the 32 bytes of
\* intbuf.  (InIntbuf alone fails.)
NumeralsStay == NoBinary => InIntbuf

\* gets writes inside the buffer and leaves a NUL there, for a text of any
\* length; integer_to_string writes no more than it may.
TextsStay ==
  /\ \A t \in Thread :
       /\ pc[t] = "keep" => i[t] < call.size
       /\ pc[t] = "end" => End(t) \in 0..call.size - 1
       /\ pc[t] = "idle" /\ call.op = "gets" /\ Alone /\ t \in active =>
            \E k \in 0..call.size - 1 : buf[k] = NUL
  /\ call.op = "to_string" => buflen >= 0

\* A text in a buffer: up to the first NUL.
TextIn(b) == LET n == CHOOSE k \in DOMAIN b : b[k] = NUL /\ \A m \in 0..k - 1 : b[m] # NUL
             IN  [k \in 1..n |-> b[k - 1]]

\* integer_to_string returns 0 exactly when number and NUL fit, and then they
\* are what is in the buffer.
ConversionIsExact ==
  call.op = "to_string" =>
    /\ (result = 0) = (Len(Numeral(call.num, 10)) < call.size)
    /\ result = 0 => TextIn(buf) = Numeral(call.num, 10)

BuffersHold == NumeralsStay /\ TextsStay /\ ConversionIsExact

\* udelay returns no earlier than asked, wherever the counter starts and however
\* late the thread looks at it.
DelayIsLongEnough ==
  [][\A t \in Thread : pc[t] = "poll" /\ pc'[t] = "idle" => passed'[t] >= Usecs]_vars

\* A call that prints or waits for time comes to an end, or to a read of what
\* nobody may ever type, unless somebody's numeral in base 2 led it out of intbuf.
CallsReturn ==
  \A t \in Thread :
    pc[t] \in Printing \cup {"poll"} ~>
      pc[t] \in {"idle", "getc"} \/ (pc[t] = "away" /\ ~NoBinary)

\* kerio.h:9: gets "copies until newline, replacing newline with null char, or
\* until buflen".
GetsCopiesLine ==
  Alone /\ call.op = "gets" /\ (\A t \in Thread : pc[t] = "idle") =>
    TextIn(buf) = SubSeq(line, 1, IF Len(line) < call.size THEN Len(line) ELSE call.size - 1)

\* uart.c:51: what is stored in the port has been waited for until there is room.
StoreHasRoom == \A t \in Thread : pc[t] = "write" => ~TxFull

\* kerio.c:56: puts prints the numeral itoa has made: no other thread makes one
\* in intbuf meanwhile.
NumeralIsLeftAlone ==
  \A t, u \in Thread :
    t # u /\ (pc[t] = "puts" \/ (pc[t] \in {"wait", "write"} /\ back[t] = "puts"))
      => pc[u] \notin {"store", "swap", "swap_left", "swap_right"}

\* stdlib.h:32: atoi of the text of a number is the number.
AtoiReadsNumber == call.op = "atoi" => result = call.num

=============================================================================
