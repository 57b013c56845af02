------------------------------ MODULE Console ------------------------------
(***************************************************************************)
(* The console: putc (kernel/kerio.c) and gpu_putc (kernel/gpu.c) on the   *)
(* shared cursor fbinfo.chars_x, fbinfo.chars_y and the screen memory,     *)
(* called by threads that are preempted between any two steps.             *)
(*                                                                         *)
(* fbinfo.buf is a uint16_t *, so every offset the code adds to it counts  *)
(* double.  A glyph is put together from pixels with doubled offsets and   *)
(* fills the upper and the lower half of its character row; the scrolling  *)
(* copies the bytes of a row from there, which is the upper half only, and *)
(* so is what it clears.  A character row takes twice its bytes: of the    *)
(* height / 8 rows only the first half lie in the framebuffer, the others  *)
(* in the memory behind it.  Row and column name a place in memory; which  *)
(* pixels of the display that place stands for is not modelled.            *)
(***************************************************************************)
EXTENDS Integers, Sequences, FiniteSets

CONSTANTS
  Thread,
  Char,        \* the characters that have a glyph
  BufRows,     \* the rows of characters that lie in the framebuffer
  Rows,        \* height / CHAR_HEIGHT, the rows the code counts on
  Columns,     \* the characters in a row
  Word,        \* 2^32: the cursor's uint32_t are modulo Word
  MaxOut,      \* bound: characters printed by one thread
  MaxShared    \* bound: characters printed by several

NewLine == "\n"
Blank == "blank"
NoGlyph == "no glyph"  \* the pieces of a glyph, or what somebody else keeps in memory

ASSUME ConsoleAssumption ==
  /\ IsFiniteSet(Thread)
  /\ BufRows \in Nat \ {0} /\ Rows = 2 * BufRows /\ Columns \in Nat \ {0}
  /\ Word \in Nat /\ Rows < Word - 1 /\ Columns < Word - 1
  /\ MaxOut \in Nat /\ MaxShared \in Nat
  /\ Char \cap {NewLine, Blank, NoGlyph} = {}

VARIABLES
  fbinfo,            \* "ready", or how far gpu_init came
  overlaid,          \* does fbinfo lie behind irqhandlers
  behind,            \* is the memory behind the framebuffer "spare" or "owned" by somebody
  active,            \* the threads that print
  chars_x, chars_y,  \* the cursor
  upper, lower,      \* the glyph in each half of each cell of the memory
  uart,              \* what has been sent to the serial line
  pc,                \* per thread: "idle", or the next step of gpu_putc
  ch,                \* per thread: the character it prints
  num                \* per thread: what it has read of the cursor

cursor == <<chars_x, chars_y>>
screen == <<upper, lower>>
given  == <<fbinfo, overlaid, behind, active>>
vars   == <<given, cursor, screen, uart, pc, ch, num>>

Row  == 0..Rows - 1
Col  == 0..Columns - 1
Cell == [Row -> [Col -> Char \cup {Blank, NoGlyph}]]

TypeOK ==
  /\ fbinfo \in {"ready", "no_buffer", "failed"}
  /\ overlaid \in BOOLEAN /\ behind \in {"spare", "owned"}
  /\ active \subseteq Thread
  /\ chars_x \in 0..Word - 1 /\ chars_y \in 0..Word - 1
  /\ upper \in Cell /\ lower \in Cell
  /\ uart \in Seq(Char \cup {NewLine})
  /\ pc \in [Thread -> {"idle", "check", "scroll", "read_dec", "dec", "char", "read_inc_y",
                        "inc_y", "draw", "read_x", "inc_x", "wrap"}]
  /\ ch \in [Thread -> Char \cup {NewLine}]
  /\ num \in [Thread -> 0..Word - 1]

----------------------------------------------------------------------------
\* fbinfo.height / CHAR_HEIGHT and fbinfo.chars_width.  When the first message of
\* gpu_init fails both are 0, when the second does they have been set; fbinfo.buf is 0
\* either way.  The image decides what lies behind the 73 elements of irqhandlers: where
\* it is fbinfo, timer_init has stored the address of clear_timer_irq in its height.
num_rows == IF overlaid THEN Word - 1 ELSE IF fbinfo = "failed" THEN 0 ELSE Rows
chars_width == IF fbinfo = "failed" THEN 0 ELSE Columns

\* The rows that keep what is stored there.
Kept(r) == r < BufRows \/ behind = "spare"

BlankRow == [c \in Col |-> Blank]

\* kernel_main has been through gpu_init, which clears as many rows as the code counts
\* on, and timer_init.  (Without a buffer there is nothing behind it to tell apart.)
Init ==
  /\ fbinfo \in {"ready", "no_buffer", "failed"}
  /\ overlaid \in BOOLEAN
  /\ behind \in {"spare", "owned"} /\ (behind = "owned" => fbinfo = "ready")
  /\ active \in (SUBSET Thread) \ {{}}
  /\ chars_x = 0 /\ chars_y = 0
  /\ upper = [r \in Row |-> IF Kept(r) THEN BlankRow ELSE [c \in Col |-> NoGlyph]]
  /\ lower = upper
  /\ uart = <<>>
  /\ pc = [t \in Thread |-> "idle"]
  /\ ch = [t \in Thread |-> NewLine]
  /\ num = [t \in Thread |-> 0]

Step(t, at, to) == pc[t] = at /\ pc' = [pc EXCEPT ![t] = to] /\ UNCHANGED given

Alone == Cardinality(active) = 1

\* putc: uart_putc, then gpu_putc.
Putc(t) ==
  /\ t \in active
  /\ Len(uart) < IF Alone THEN MaxOut ELSE MaxShared
  /\ Step(t, "idle", "check")
  /\ \E c \in Char \cup {NewLine} :
       /\ uart' = Append(uart, c)
       /\ ch' = [ch EXCEPT ![t] = c]
  /\ UNCHANGED <<cursor, screen, num>>

\* if (fbinfo.chars_y >= num_rows)
Check(t) ==
  /\ Step(t, "check", IF chars_y >= num_rows THEN "scroll" ELSE "char")
  /\ UNCHANGED <<cursor, screen, uart, ch, num>>

\* MUTANT: each row is copied onto itself.
scrolled_in_place ==
  [r \in Row |-> IF Kept(r) /\ r = Rows - 1 THEN BlankRow ELSE upper[r]]

\* The upper halves move up a row and the last is cleared, behind the framebuffer too.
scrolled ==
  [r \in Row |-> IF ~Kept(r) THEN upper[r] ELSE IF r = Rows - 1 THEN BlankRow ELSE upper[r + 1]]

\* Without a buffer the rows are copied from address 0 up, over the vectors and the
\* kernel, which is not followed; with a pitch of 0 all lengths are 0.
Scroll(t) ==
  /\ Step(t, "scroll", "read_dec")
  /\ upper' = IF fbinfo = "ready" THEN scrolled ELSE upper
  /\ UNCHANGED <<cursor, lower, uart, ch, num>>

\* fbinfo.chars_y--
ReadDec(t) ==
  /\ Step(t, "read_dec", "dec")
  /\ num' = [num EXCEPT ![t] = chars_y]
  /\ UNCHANGED <<cursor, screen, uart, ch>>

\* MUTANT: the cursor stays below the last row.
Dec_keeps(t) ==
  /\ Step(t, "dec", "char")
  /\ UNCHANGED <<cursor, screen, uart, ch, num>>

Dec(t) ==
  /\ Step(t, "dec", "char")
  /\ chars_y' = (num[t] - 1) % Word
  /\ UNCHANGED <<chars_x, screen, uart, ch, num>>

\* MUTANT: a newline is drawn too.
Glyph_any(t) ==
  /\ Step(t, "char", "draw")
  /\ UNCHANGED <<cursor, screen, uart, ch, num>>

\* A newline moves the cursor and that is all; anything else is drawn.
NewLine_(t) ==
  /\ ch[t] = NewLine
  /\ Step(t, "char", "read_inc_y")
  /\ chars_x' = 0
  /\ UNCHANGED <<chars_y, screen, uart, ch, num>>

Glyph(t) ==
  /\ ch[t] # NewLine
  /\ Step(t, "char", "draw")
  /\ UNCHANGED <<cursor, screen, uart, ch, num>>

ReadIncY(t) ==
  /\ Step(t, "read_inc_y", "inc_y")
  /\ num' = [num EXCEPT ![t] = chars_y]
  /\ UNCHANGED <<cursor, screen, uart, ch>>

IncY(t) ==
  /\ Step(t, "inc_y", "idle")
  /\ chars_y' = (num[t] + 1) % Word
  /\ UNCHANGED <<chars_x, screen, uart, ch, num>>

\* A half of the cells with a glyph at the cursor.  A row of pixels ends where the next
\* one begins: behind the last column the glyph lands in the first, one row of pixels
\* lower, and so on; there it makes pieces of what it covers, a bit of the upper half
\* of the row below included (`spills`).
drawn(half, glyph, spills) ==
  LET glyph_at(r, c)  == r = chars_y /\ c = chars_x
      pieces_at(r, c) == /\ chars_x >= Columns /\ c = chars_x % Columns
                         /\ \/ r = chars_y
                            \/ spills /\ r = chars_y + 1
  IN  [r \in Row |-> [c \in Col |->
         IF ~Kept(r) THEN half[r][c]
         ELSE IF glyph_at(r, c) THEN glyph
         ELSE IF pieces_at(r, c) THEN NoGlyph ELSE half[r][c]]]

\* Without a buffer the glyph lands on the vectors and the kernel.
Draw(t) ==
  /\ Step(t, "draw", "read_x")
  /\ \/ /\ fbinfo = "ready"
        /\ upper' = drawn(upper, ch[t], TRUE) /\ lower' = drawn(lower, ch[t], FALSE)
     \/ fbinfo # "ready" /\ UNCHANGED screen
  /\ UNCHANGED <<cursor, uart, ch, num>>

\* fbinfo.chars_x++
ReadX(t) ==
  /\ Step(t, "read_x", "inc_x")
  /\ num' = [num EXCEPT ![t] = chars_x]
  /\ UNCHANGED <<cursor, screen, uart, ch>>

IncX(t) ==
  /\ Step(t, "inc_x", IF (num[t] + 1) % Word > chars_width THEN "wrap" ELSE "idle")
  /\ chars_x' = (num[t] + 1) % Word
  /\ UNCHANGED <<chars_y, screen, uart, ch, num>>

Wrap(t) ==
  /\ Step(t, "wrap", "read_inc_y")
  /\ chars_x' = 0
  /\ UNCHANGED <<chars_y, screen, uart, ch, num>>

Gpu_putc(t) ==
  \/ Check(t) \/ Scroll(t) \/ ReadDec(t) \/ Dec(t)
  \/ NewLine_(t) \/ Glyph(t) \/ Draw(t)
  \/ ReadX(t) \/ IncX(t) \/ Wrap(t) \/ ReadIncY(t) \/ IncY(t)

Next == \E t \in Thread : Putc(t) \/ Gpu_putc(t)

Spec == Init /\ [][Next]_vars

----------------------------------------------------------------------------
(* What the framebuffer should show of the text on the serial line. *)

\* Where the character after one at a place goes.  Only a newline ends a line.
Behind(place, c) == IF c = NewLine THEN <<place[1] + 1, 0>> ELSE <<place[1], place[2] + 1>>

\* The line and column of each character of a text, and of the one to come.
Places(text) ==
  LET at[i \in 1..Len(text) + 1] == IF i = 1 THEN <<0, 0>> ELSE Behind(at[i - 1], text[i - 1])
  IN  at

Place(k) == Places(uart)[k]

\* Each line of the text fits in the columns.
LinesFit == \A k \in 1..Len(uart) : uart[k] # NewLine => Place(k)[2] < Columns

\* The line in the first row once the last character is there.
Top == LET last == Place(Len(uart))[1]
       IN  IF last < Rows THEN 0 ELSE last - (Rows - 1)

\* The characters whose glyph belongs in a cell, and the last of them; 0 for none.
CharsAt(r, c) == {k \in 1..Len(uart) : uart[k] # NewLine /\ Place(k) = <<Top + r, c>>}
Shown(r, c) ==
  IF CharsAt(r, c) = {} THEN 0
  ELSE CHOOSE k \in CharsAt(r, c) : \A j \in CharsAt(r, c) : j <= k

Text == [r \in Row |-> [c \in Col |->
           IF Shown(r, c) = 0 THEN Blank ELSE uart[Shown(r, c)]]]

Ready == fbinfo = "ready" /\ ~overlaid
Quiet == \A t \in Thread : pc[t] = "idle"

----------------------------------------------------------------------------
(* Properties. *)

\* With one thread printing, and fbinfo as gpu_init has set it, between calls the
\* upper halves of the rows in the framebuffer spell the text on the serial line from
\* line Top down: scrolling and the cursor agree.  A line that was first drawn behind
\* the framebuffer comes into it whole only if that memory is spare.
ScreenShowsText ==
  Ready /\ Alone /\ Quiet /\ uart # <<>> /\ LinesFit =>
    \A r \in 0..BufRows - 1 : behind = "spare" \/ Top + r < BufRows => upper[r] = Text[r]

\* What one thread prints in lines that fit is drawn in the columns and in the rows the
\* scrolling moves, and inside the framebuffer as long as the text has no more lines than
\* fit in there.
GlyphsInBuffer ==
  Ready /\ Alone /\ LinesFit => \A t \in Thread :
    pc[t] = "draw" =>
      /\ chars_x \in Col /\ chars_y \in Row
      /\ Place(Len(uart))[1] < BufRows => chars_y < BufRows

\* gpu.c:55: a line that is full goes on in the next.  (Fails: the glyph behind the last
\* column is drawn over the first.)
FullLinesWrap == Ready /\ Alone => \A t \in Thread : pc[t] = "draw" => chars_x \in Col

\* What one thread prints, however many lines of it, is drawn inside the framebuffer.
\* (Fails: half of the rows are behind it.)
TextInBuffer == Ready /\ Alone => \A t \in Thread : pc[t] = "draw" => chars_y < BufRows

\* gpu.c:28: "Copy a whole character row into the one above it": a glyph moves
\* in one piece.
RowsMoveWhole ==
  \A t \in Thread : pc[t] = "char" /\ ch[t] # NewLine => upper = lower

=============================================================================
