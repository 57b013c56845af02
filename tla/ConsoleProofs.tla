---------------------------- MODULE ConsoleProofs ----------------------------
(***************************************************************************)
(* Proofs about Console for any number of threads and a framebuffer of any *)
(* size: the cursor and the cells keep to their types whoever prints, and  *)
(* as long as one thread prints lines that fit, it draws them where the    *)
(* scrolling finds them, and the framebuffer spells the text.              *)
(***************************************************************************)
EXTENDS Console, FiniteSetTheorems, SequenceTheorems, WellFoundedInduction, TLAPS

\* What is drawn has a glyph, and only the active threads print.
GlyphInv ==
  /\ \A t \in Thread : pc[t] = "draw" => ch[t] \in Char
  /\ \A t \in Thread \ active : pc[t] = "idle"

\* Where the cursor is at each step of the one thread that prints.
CursorInv(t) ==
  /\ chars_y \in 0..Rows /\ chars_x \in 0..Columns + 1
  /\ pc[t] \in {"scroll", "read_dec", "dec"} => chars_y = Rows
  /\ pc[t] \notin {"idle", "check", "scroll", "read_dec", "dec"} => chars_y < Rows
  /\ pc[t] # "wrap" => chars_x <= Columns
  /\ pc[t] \in {"dec", "inc_y"} => num[t] = chars_y
  /\ pc[t] = "inc_x" => num[t] = chars_x

AloneInv == Ready /\ Alone => \A t \in active : CursorInv(t)

ConsoleIInv == TypeOK /\ GlyphInv /\ AloneInv

----------------------------------------------------------------------------
\* The cursor's arithmetic stays in a word, and is exact where it does not wrap.
LEMMA WordArithmetic ==
  /\ Word \in Nat /\ Word > 2
  /\ \A n \in 0..Word - 1 : (n + 1) % Word \in 0..Word - 1 /\ (n - 1) % Word \in 0..Word - 1
  /\ \A n \in 0..Word - 2 : (n + 1) % Word = n + 1
  /\ \A n \in 1..Word - 1 : (n - 1) % Word = n - 1
BY ConsoleAssumption

\* Threads that print alone are alone.
LEMMA OneThread ==
  ASSUME TypeOK, Alone
  PROVE  \E u \in Thread : active = {u}
<1>1. IsFiniteSet(active)
  BY ConsoleAssumption, FS_Subset DEF TypeOK
<1>2. PICK u : active = {u}
  BY <1>1, FS_Singleton DEF Alone
<1> QED
  BY <1>2 DEF TypeOK

LEMMA InitConsole == Init => ConsoleIInv
<1> SUFFICES ASSUME Init PROVE ConsoleIInv
  OBVIOUS
<1> USE ConsoleAssumption
<1>1. upper \in Cell /\ lower \in Cell
  BY DEF Init, Cell, BlankRow
<1>2. active \subseteq Thread /\ 0 \in 0..Word - 1
  BY WordArithmetic DEF Init
<1>3. TypeOK
  BY <1>1, <1>2 DEF Init, TypeOK
<1>4. GlyphInv
  BY <1>2 DEF Init, GlyphInv
<1>5. AloneInv
  BY <1>2 DEF Init, AloneInv, CursorInv
<1> QED
  BY <1>3, <1>4, <1>5 DEF ConsoleIInv

\* The rows are twice those of the framebuffer.
LEMMA RowsInBuffer == Rows \in Nat \ {0} /\ BufRows \in 1..Rows - 1
BY ConsoleAssumption

\* The cells after a glyph is drawn and after they are scrolled.
LEMMA DrawnCell ==
  ASSUME NEW half \in Cell, NEW glyph \in Char, NEW spills
  PROVE  drawn(half, glyph, spills) \in Cell
<1>1. ASSUME NEW r \in Row, NEW c \in Col
      PROVE  drawn(half, glyph, spills)[r][c] \in {glyph, NoGlyph, half[r][c]}
  BY DEF drawn
<1>2. ASSUME NEW r \in Row, NEW c \in Col PROVE half[r][c] \in Char \cup {Blank, NoGlyph}
  BY DEF Cell
<1>3. \A r \in Row : drawn(half, glyph, spills)[r] \in [Col -> Char \cup {Blank, NoGlyph}]
  <2> TAKE r \in Row
  <2>1. drawn(half, glyph, spills)[r] = [c \in Col |-> drawn(half, glyph, spills)[r][c]]
    BY DEF drawn
  <2>2. \A c \in Col : drawn(half, glyph, spills)[r][c] \in Char \cup {Blank, NoGlyph}
    BY <1>1, <1>2
  <2> QED
    BY <2>1, <2>2
<1>4. drawn(half, glyph, spills) = [r \in Row |-> drawn(half, glyph, spills)[r]]
  BY DEF drawn
<1> QED
  BY <1>3, <1>4 DEF Cell

LEMMA ScrolledCell == ASSUME upper \in Cell PROVE scrolled \in Cell
<1>1. ASSUME NEW r \in Row, r # Rows - 1
      PROVE  upper[r + 1] \in [Col -> Char \cup {Blank, NoGlyph}]
  BY <1>1, RowsInBuffer DEF Cell, Row
<1>2. ASSUME NEW r \in Row PROVE upper[r] \in [Col -> Char \cup {Blank, NoGlyph}]
  BY DEF Cell
<1>3. BlankRow \in [Col -> Char \cup {Blank, NoGlyph}]
  BY DEF BlankRow
<1> QED
  BY <1>1, <1>2, <1>3 DEF scrolled, Cell

\* What a step of gpu_putc or a call of it does to the types.
LEMMA TypeStep ==
  ASSUME TypeOK, GlyphInv, NEW t \in Thread, Putc(t) \/ Gpu_putc(t)
  PROVE  TypeOK' /\ GlyphInv' /\ UNCHANGED given /\ t \in active
<1> DEFINE Steps == {"idle", "check", "scroll", "read_dec", "dec", "char", "read_inc_y",
                     "inc_y", "draw", "read_x", "inc_x", "wrap"}
<1>0. /\ fbinfo \in {"ready", "no_buffer", "failed"} /\ active \subseteq Thread
      /\ overlaid \in BOOLEAN /\ behind \in {"spare", "owned"}
      /\ chars_x \in 0..Word - 1 /\ chars_y \in 0..Word - 1
      /\ upper \in Cell /\ lower \in Cell /\ uart \in Seq(Char \cup {NewLine})
      /\ pc \in [Thread -> Steps]
      /\ ch \in [Thread -> Char \cup {NewLine}] /\ num \in [Thread -> 0..Word - 1]
      /\ \A u \in Thread : pc[u] = "draw" => ch[u] \in Char
      /\ \A u \in Thread \ active : pc[u] = "idle"
  BY DEF TypeOK, GlyphInv
<1>1. ASSUME NEW at \in Steps, NEW to \in Steps, Step(t, at, to), at # "idle" \/ t \in active,
             chars_x' \in 0..Word - 1, chars_y' \in 0..Word - 1,
             upper' \in Cell, lower' \in Cell, uart' \in Seq(Char \cup {NewLine}),
             ch' \in [Thread -> Char \cup {NewLine}], num' \in [Thread -> 0..Word - 1],
             \A u \in Thread \ {t} : ch'[u] = ch[u],
             to = "draw" => ch'[t] \in Char
      PROVE  TypeOK' /\ GlyphInv' /\ UNCHANGED given /\ t \in active
  <2>1. /\ pc[t] = at /\ pc' = [pc EXCEPT ![t] = to] /\ UNCHANGED given
    BY <1>1 DEF Step
  <2>2. t \in active
    BY <1>0, <1>1, <2>1
  <2>3. pc' \in [Thread -> Steps]
    BY <1>0, <1>1, <2>1
  <2>4. GlyphInv'
    BY <1>0, <1>1, <2>1, <2>2, <2>3 DEF GlyphInv, given
  <2>5. TypeOK'
    BY <1>0, <1>1, <2>1, <2>3 DEF TypeOK, given
  <2> QED
    BY <2>1, <2>2, <2>4, <2>5
<1>2. ASSUME NEW n \in Nat, n \in 0..Word - 1
      PROVE  /\ [num EXCEPT ![t] = n] \in [Thread -> 0..Word - 1]
             /\ (n + 1) % Word \in 0..Word - 1 /\ (n - 1) % Word \in 0..Word - 1
  BY <1>0, <1>2, WordArithmetic
<1>3. num[t] \in 0..Word - 1 /\ num[t] \in Nat /\ chars_x \in Nat /\ chars_y \in Nat
      /\ 0 \in 0..Word - 1
  BY <1>0, WordArithmetic
<1> HIDE DEF Steps
<1>4. /\ "idle" \in Steps /\ "check" \in Steps /\ "scroll" \in Steps /\ "read_dec" \in Steps
      /\ "dec" \in Steps /\ "char" \in Steps /\ "read_inc_y" \in Steps /\ "inc_y" \in Steps
      /\ "draw" \in Steps /\ "read_x" \in Steps /\ "inc_x" \in Steps /\ "wrap" \in Steps
  BY DEF Steps
<1>5. CASE Putc(t)
  <2>1. PICK c \in Char \cup {NewLine} :
          uart' = Append(uart, c) /\ ch' = [ch EXCEPT ![t] = c]
    BY <1>5 DEF Putc
  <2>2. /\ t \in active /\ Step(t, "idle", "check") /\ UNCHANGED <<cursor, screen, num>>
    BY <1>5 DEF Putc
  <2>3. uart' \in Seq(Char \cup {NewLine}) /\ ch' \in [Thread -> Char \cup {NewLine}]
    BY <1>0, <2>1
  <2>4. \A u \in Thread \ {t} : ch'[u] = ch[u]
    BY <1>0, <2>1
  <2> QED
    BY <1>0, <1>1, <1>4, <2>2, <2>3, <2>4 DEF cursor, screen
<1>6. CASE Check(t)
  <2>1. PICK to \in {"scroll", "char"} : Step(t, "check", to)
    BY <1>6 DEF Check
  <2> QED
    BY <1>0, <1>1, <1>4, <1>6, <2>1 DEF Check, cursor, screen
<1>7. CASE Scroll(t)
  <2>1. upper' \in Cell
    BY <1>0, <1>7, ScrolledCell DEF Scroll
  <2> QED
    BY <1>0, <1>1, <1>4, <1>7, <2>1 DEF Scroll, cursor
<1>8. CASE ReadDec(t) \/ ReadIncY(t) \/ ReadX(t)
  <2>1. num' \in [Thread -> 0..Word - 1]
    BY <1>0, <1>2, <1>3, <1>8 DEF ReadDec, ReadIncY, ReadX
  <2>2. UNCHANGED <<cursor, screen, uart, ch>>
    BY <1>8 DEF ReadDec, ReadIncY, ReadX
  <2>3. Step(t, "read_dec", "dec") \/ Step(t, "read_inc_y", "inc_y") \/ Step(t, "read_x", "inc_x")
    BY <1>8 DEF ReadDec, ReadIncY, ReadX
  <2> QED
    BY <1>0, <1>1, <1>4, <2>1, <2>2, <2>3 DEF cursor, screen
<1>9. CASE Dec(t)
  BY <1>0, <1>1, <1>2, <1>3, <1>4, <1>9 DEF Dec, screen
<1>10. CASE NewLine_(t) \/ Wrap(t)
  <2>1. chars_x' = 0 /\ UNCHANGED <<chars_y, screen, uart, ch, num>>
    BY <1>10 DEF NewLine_, Wrap
  <2>2. Step(t, "char", "read_inc_y") \/ Step(t, "wrap", "read_inc_y")
    BY <1>10 DEF NewLine_, Wrap
  <2> QED
    BY <1>0, <1>1, <1>3, <1>4, <2>1, <2>2 DEF screen
<1>11. CASE Glyph(t)
  <2>1. ch[t] \in Char
    BY <1>0, <1>11 DEF Glyph
  <2> QED
    BY <1>0, <1>1, <1>4, <1>11, <2>1 DEF Glyph, cursor, screen
<1>12. CASE IncY(t)
  BY <1>0, <1>1, <1>2, <1>3, <1>4, <1>12 DEF IncY, screen
<1>13. CASE Draw(t)
  <2>1. pc[t] = "draw"
    BY <1>13 DEF Draw, Step
  <2>2. ch[t] \in Char
    BY <1>0, <2>1
  <2>3. upper' \in Cell /\ lower' \in Cell
    <3>1. CASE fbinfo = "ready"
      BY <1>0, <1>13, <2>2, <3>1, DrawnCell DEF Draw
    <3>2. CASE fbinfo # "ready"
      BY <1>0, <1>13, <3>2 DEF Draw, screen
    <3> QED
      BY <3>1, <3>2
  <2> QED
    BY <1>0, <1>1, <1>4, <1>13, <2>3 DEF Draw, cursor
<1>14. CASE IncX(t)
  <2>1. PICK to \in {"wrap", "idle"} : Step(t, "inc_x", to)
    BY <1>14 DEF IncX
  <2> QED
    BY <1>0, <1>1, <1>2, <1>3, <1>4, <1>14, <2>1 DEF IncX, screen
<1> QED
  BY <1>5, <1>6, <1>7, <1>8, <1>9, <1>10, <1>11, <1>12, <1>13, <1>14 DEF Gpu_putc

\* The one thread that prints moves the cursor by one step of gpu_putc.
LEMMA CursorStep ==
  ASSUME TypeOK, NEW t \in Thread, CursorInv(t), Ready, Putc(t) \/ Gpu_putc(t)
  PROVE  CursorInv(t)'
<1>0. /\ Rows \in Nat \ {0} /\ Columns \in Nat \ {0}
      /\ Word \in Nat /\ Rows < Word - 1 /\ Columns < Word - 1
      /\ chars_x \in Nat /\ chars_y \in Nat /\ num \in [Thread -> 0..Word - 1]
      /\ pc \in [Thread -> {"idle", "check", "scroll", "read_dec", "dec", "char", "read_inc_y",
                            "inc_y", "draw", "read_x", "inc_x", "wrap"}]
      /\ num_rows = Rows /\ chars_width = Columns
  BY ConsoleAssumption DEF TypeOK, Ready, num_rows, chars_width
<1>1. ASSUME NEW at, NEW to, Step(t, at, to) PROVE pc[t] = at /\ pc'[t] = to
  BY <1>0, <1>1 DEF Step
<1>2. CASE Putc(t)
  <2>1. Step(t, "idle", "check") /\ UNCHANGED <<chars_x, chars_y, num>>
    BY <1>2 DEF Putc, cursor
  <2> QED
    BY <1>0, <1>1, <2>1 DEF CursorInv
<1>3. CASE Check(t)
  <2>1. Step(t, "check", IF chars_y >= Rows THEN "scroll" ELSE "char")
        /\ UNCHANGED <<chars_x, chars_y, num>>
    BY <1>0, <1>3 DEF Check, cursor
  <2> QED
    BY <1>0, <1>1, <2>1 DEF CursorInv
<1>4. CASE Scroll(t)
  <2>1. Step(t, "scroll", "read_dec") /\ UNCHANGED <<chars_x, chars_y, num>>
    BY <1>4 DEF Scroll, cursor
  <2> QED
    BY <1>0, <1>1, <2>1 DEF CursorInv
<1>5. CASE ReadDec(t)
  <2>1. Step(t, "read_dec", "dec") /\ num'[t] = chars_y /\ UNCHANGED <<chars_x, chars_y>>
    BY <1>0, <1>5 DEF ReadDec, cursor
  <2> QED
    BY <1>0, <1>1, <2>1 DEF CursorInv
<1>6. CASE Dec(t)
  <2>1. Step(t, "dec", "char") /\ chars_y' = (num[t] - 1) % Word /\ UNCHANGED <<chars_x, num>>
    BY <1>6 DEF Dec
  <2>2. num[t] = Rows /\ chars_y = Rows
    BY <1>1, <2>1 DEF CursorInv
  <2>3. chars_y' = Rows - 1
    BY <1>0, <2>1, <2>2, WordArithmetic
  <2> QED
    BY <1>0, <1>1, <2>1, <2>2, <2>3 DEF CursorInv
<1>7. CASE NewLine_(t) \/ Wrap(t)
  <2>1. (Step(t, "char", "read_inc_y") \/ Step(t, "wrap", "read_inc_y"))
        /\ chars_x' = 0 /\ UNCHANGED <<chars_y, num>>
    BY <1>7 DEF NewLine_, Wrap
  <2> QED
    BY <1>0, <1>1, <2>1 DEF CursorInv
<1>8. CASE Glyph(t)
  <2>1. Step(t, "char", "draw") /\ UNCHANGED <<chars_x, chars_y, num>>
    BY <1>8 DEF Glyph, cursor
  <2> QED
    BY <1>0, <1>1, <2>1 DEF CursorInv
<1>9. CASE Draw(t)
  <2>1. Step(t, "draw", "read_x") /\ UNCHANGED <<chars_x, chars_y, num>>
    BY <1>9 DEF Draw, cursor
  <2> QED
    BY <1>0, <1>1, <2>1 DEF CursorInv
<1>10. CASE ReadX(t)
  <2>1. Step(t, "read_x", "inc_x") /\ num'[t] = chars_x /\ UNCHANGED <<chars_x, chars_y>>
    BY <1>0, <1>10 DEF ReadX, cursor
  <2> QED
    BY <1>0, <1>1, <2>1 DEF CursorInv
<1>11. CASE IncX(t)
  <2>1. Step(t, "inc_x", IF (num[t] + 1) % Word > Columns THEN "wrap" ELSE "idle")
        /\ chars_x' = (num[t] + 1) % Word /\ UNCHANGED <<chars_y, num>>
    BY <1>0, <1>11 DEF IncX
  <2>2. num[t] = chars_x /\ chars_x <= Columns
    BY <1>1, <2>1 DEF CursorInv
  <2>3. (num[t] + 1) % Word = chars_x + 1
    BY <1>0, <2>2, WordArithmetic
  <2> QED
    BY <1>0, <1>1, <2>1, <2>2, <2>3 DEF CursorInv
<1>12. CASE ReadIncY(t)
  <2>1. Step(t, "read_inc_y", "inc_y") /\ num'[t] = chars_y /\ UNCHANGED <<chars_x, chars_y>>
    BY <1>0, <1>12 DEF ReadIncY, cursor
  <2> QED
    BY <1>0, <1>1, <2>1 DEF CursorInv
<1>13. CASE IncY(t)
  <2>1. Step(t, "inc_y", "idle") /\ chars_y' = (num[t] + 1) % Word /\ UNCHANGED <<chars_x, num>>
    BY <1>13 DEF IncY
  <2>2. num[t] = chars_y /\ chars_y < Rows
    BY <1>1, <2>1 DEF CursorInv
  <2>3. chars_y' = chars_y + 1
    BY <1>0, <2>1, <2>2, WordArithmetic
  <2> QED
    BY <1>0, <1>1, <2>1, <2>2, <2>3 DEF CursorInv
<1> QED
  BY <1>2, <1>3, <1>4, <1>5, <1>6, <1>7, <1>8, <1>9, <1>10, <1>11, <1>12, <1>13 DEF Gpu_putc

LEMMA ConsoleStep == ConsoleIInv /\ [Next]_vars => ConsoleIInv'
<1> SUFFICES ASSUME ConsoleIInv, [Next]_vars PROVE ConsoleIInv'
  OBVIOUS
<1>0. TypeOK /\ GlyphInv /\ AloneInv
  BY DEF ConsoleIInv
<1>1. ASSUME NEW t \in Thread, Putc(t) \/ Gpu_putc(t) PROVE ConsoleIInv'
  <2>1. TypeOK' /\ GlyphInv' /\ UNCHANGED given /\ t \in active
    BY <1>0, <1>1, TypeStep
  <2>2. ASSUME Ready, Alone PROVE \A u \in active : CursorInv(u)'
    <3>1. active = {t} /\ active' = {t}
      BY <1>0, <2>1, <2>2, OneThread DEF given
    <3>2. CursorInv(t)
      BY <1>0, <2>1, <2>2 DEF AloneInv
    <3>3. CursorInv(t)'
      BY <1>0, <1>1, <2>2, <3>2, CursorStep
    <3> QED
      BY <3>1, <3>3
  <2>3. AloneInv'
    BY <2>1, <2>2 DEF AloneInv, Alone, Ready, given
  <2> QED
    BY <2>1, <2>3 DEF ConsoleIInv
<1>2. CASE UNCHANGED vars
  <2>1. UNCHANGED <<fbinfo, overlaid, behind, active, chars_x, chars_y, upper, lower, uart, pc,
                      ch, num>>
    BY <1>2 DEF vars, given, cursor, screen
  <2> QED
    BY <1>0, <2>1 DEF ConsoleIInv, TypeOK, GlyphInv, AloneInv, CursorInv, Alone, Ready
<1> QED
  BY <1>1, <1>2 DEF Next

LEMMA ConsoleInvariant == Spec => []ConsoleIInv
BY InitConsole, ConsoleStep, PTL DEF Spec

\* However several threads race for the cursor, and whatever fbinfo holds, the
\* cursor and what a thread has read of it are words, and the cells hold glyphs.
THEOREM TypeCorrect == Spec => []TypeOK
<1>1. ConsoleIInv => TypeOK
  BY DEF ConsoleIInv
<1> QED
  BY <1>1, ConsoleInvariant, PTL

----------------------------------------------------------------------------
(* The places of a text: the recursion is well defined, and goes down. *)

Written == Seq(Char \cup {NewLine})
PlaceSet == Nat \X Nat

\* f is the places of the first m characters of a text, and of the one behind them.
Goes(f, text, m) == f[1] = <<0, 0>> /\ \A i \in 1..m : f[i + 1] = Behind(f[i], text[i])
Follows(f, text, m) == f \in [1..m + 1 -> PlaceSet] /\ Goes(f, text, m)

\* A set of numbers that is not empty has a least element.
LEMMA Least ==
  ASSUME NEW T \in SUBSET Nat, T # {}
  PROVE  \E x \in T : \A y \in T : ~ (y < x)
<1>1. PICK x \in T : \A y \in T : <<y, x>> \notin OpToRel(<, Nat)
  BY WFMin, NatLessThanWellFounded, Zenon
<1> QED
  BY <1>1, Zenon DEF OpToRel

LEMMA BehindPlace ==
  ASSUME NEW p \in PlaceSet, NEW c
  PROVE  Behind(p, c) \in PlaceSet /\ p[1] \in Nat /\ Behind(p, c)[1] \in Nat
         /\ p[1] <= Behind(p, c)[1]
BY ConsoleAssumption DEF PlaceSet, Behind

\* There are such places: there is no least m where they stop.
LEMMA Followed ==
  ASSUME NEW s \in Written, NEW n \in 0..Len(s)
  PROVE  \E f : Follows(f, s, n)
<1> DEFINE Bad == {m \in 0..Len(s) : \A f : ~Follows(f, s, m)}
<1>0. Len(s) \in Nat
  BY LenProperties DEF Written
<1>1. SUFFICES ASSUME Bad # {} PROVE FALSE
  BY <1>1
<1>2. PICK m \in Bad : \A k \in Bad : ~ (k < m)
  <2>1. Bad \in SUBSET Nat
    BY <1>0
  <2> HIDE DEF Bad
  <2> QED
    BY <1>1, <2>1, Least, Zenon
<1>3. CASE m = 0
  <2> DEFINE f == [i \in 1..1 |-> <<0, 0>>]
  <2>1. f \in [1..0 + 1 -> PlaceSet] /\ f[1] = <<0, 0>>
    BY ConsoleAssumption DEF PlaceSet
  <2> HIDE DEF f
  <2>2. Follows(f, s, 0)
    BY <2>1 DEF Follows, Goes
  <2> QED
    BY <1>2, <1>3, <2>2
<1>4. CASE m # 0
  <2>1. m \in Nat /\ m \in 1..Len(s) /\ m - 1 \in 0..Len(s) /\ m - 1 < m
    BY <1>0, <1>2, <1>4
  <2>2. m - 1 \notin Bad
    BY <1>2, <2>1
  <2>3. PICK g : Follows(g, s, m - 1)
    BY <2>1, <2>2
  <2>4. /\ g \in [1..m -> PlaceSet] /\ g[1] = <<0, 0>>
        /\ \A i \in 1..m - 1 : g[i + 1] = Behind(g[i], s[i])
    <3>1. (m - 1) + 1 = m
      BY <2>1
    <3> QED
      BY <2>3, <3>1 DEF Follows, Goes
  <2> DEFINE f == [i \in 1..m + 1 |-> IF i = m + 1 THEN Behind(g[m], s[m]) ELSE g[i]]
  <2>5. Behind(g[m], s[m]) \in PlaceSet
    BY <2>1, <2>4, BehindPlace
  <2>6. f \in [1..m + 1 -> PlaceSet]
    <3>1. \A i \in 1..m + 1 : i # m + 1 => i \in 1..m
      BY <2>1
    <3> QED
      BY <2>4, <2>5, <3>1
  <2>7. f[1] = <<0, 0>>
    BY <2>1, <2>4
  <2>8. ASSUME NEW i \in 1..m PROVE f[i + 1] = Behind(f[i], s[i])
    <3>1. i + 1 \in 1..m + 1 /\ i \in 1..m + 1 /\ i # m + 1 /\ (i # m => i \in 1..m - 1 /\ i + 1 # m + 1)
      BY <2>1
    <3>2. f[i] = g[i]
      BY <3>1
    <3>3. CASE i = m
      BY <3>1, <3>2, <3>3
    <3>4. CASE i # m
      <4>1. f[i + 1] = g[i + 1]
        BY <3>1, <3>4
      <4> QED
        BY <2>4, <3>1, <3>2, <3>4, <4>1
    <3> QED
      BY <3>3, <3>4
  <2> HIDE DEF f
  <2>9. Follows(f, s, m)
    BY <2>6, <2>7, <2>8 DEF Follows, Goes
  <2> QED
    BY <1>2, <2>9
<1> QED
  BY <1>3, <1>4

\* And they are the only ones: there is no least i where two such differ.
LEMMA Alike ==
  ASSUME NEW n \in Nat, NEW s, NEW f, NEW g,
         Goes(f, s, n), Goes(g, s, n)
  PROVE  \A i \in 1..n + 1 : f[i] = g[i]
<1> DEFINE Bad == {i \in 1..n + 1 : f[i] # g[i]}
<1>1. SUFFICES ASSUME Bad # {} PROVE FALSE
  BY <1>1
<1>2. PICK i \in Bad : \A k \in Bad : ~ (k < i)
  <2>1. Bad \in SUBSET Nat
    OBVIOUS
  <2> HIDE DEF Bad
  <2> QED
    BY <1>1, <2>1, Least, Zenon
<1>3. i - 1 \in 1..n /\ i - 1 \in 1..n + 1 /\ i - 1 < i /\ (i - 1) + 1 = i
  <2>1. f[1] = g[1]
    BY DEF Goes
  <2> QED
    BY <1>2, <2>1
<1>4. f[i - 1] = g[i - 1]
  BY <1>2, <1>3
<1>5. f[(i - 1) + 1] = Behind(f[i - 1], s[i - 1]) /\ g[(i - 1) + 1] = Behind(g[i - 1], s[i - 1])
  BY <1>3 DEF Goes
<1> QED
  BY <1>2, <1>3, <1>4, <1>5

\* The places of a text are what they are called.
LEMMA PlacesFollow ==
  ASSUME NEW s \in Written
  PROVE  Follows(Places(s), s, Len(s))
<1> DEFINE n == Len(s)
           rec(f) == [i \in 1..n + 1 |-> IF i = 1 THEN <<0, 0>> ELSE Behind(f[i - 1], s[i - 1])]
           at == CHOOSE f : f = rec(f)
<1>0. n \in Nat /\ n \in 0..Len(s)
  BY LenProperties DEF Written
<1>1. PICK f : Follows(f, s, n)
  BY <1>0, Followed
<1>2. f = rec(f)
  <2>1. ASSUME NEW i \in 1..n + 1 PROVE f[i] = rec(f)[i]
    <3>1. i = 1 \/ (i # 1 /\ i - 1 \in 1..n /\ (i - 1) + 1 = i)
      BY <1>0
    <3> QED
      BY <1>1, <3>1 DEF Follows, Goes
  <2>2. f = [i \in 1..n + 1 |-> f[i]]
    BY <1>1 DEF Follows, Goes
  <2> HIDE DEF n
  <2> QED
    BY <2>1, <2>2
<1>3. at = rec(at)
  BY <1>2
<1>4. Places(s) = at
  BY DEF Places
<1> HIDE DEF at
<1>5. at[1] = <<0, 0>>
  <2>1. 1 \in 1..n + 1
    BY <1>0
  <2> QED
    BY <1>3, <2>1
<1>6. \A i \in 1..n : at[i + 1] = Behind(at[i], s[i])
  <2> TAKE i \in 1..n
  <2>1. i + 1 \in 1..n + 1 /\ i + 1 # 1 /\ (i + 1) - 1 = i
    BY <1>0
  <2> QED
    BY <1>3, <2>1
<1>7. f \in [1..n + 1 -> PlaceSet] /\ f[1] = <<0, 0>> /\ \A i \in 1..n : f[i + 1] = Behind(f[i], s[i])
  BY <1>1 DEF Follows, Goes
<1>8. \A i \in 1..n + 1 : f[i] = at[i]
  <2>2. Goes(f, s, n) /\ Goes(at, s, n)
    BY <1>5, <1>6, <1>7 DEF Goes
  <2>3. n \in Nat
    BY <1>0
  <2> HIDE DEF n
  <2> QED
    BY <2>2, <2>3, Alike
<1>9. at = f
  <2>1. at = [i \in 1..n + 1 |-> at[i]]
    BY <1>3
  <2>2. f = [i \in 1..n + 1 |-> f[i]]
    BY <1>7
  <2> QED
    BY <1>8, <2>1, <2>2
<1> QED
  BY <1>1, <1>4, <1>9

\* What is written later moves nothing that is there.
LEMMA PlacesStay ==
  ASSUME NEW s \in Written, NEW c \in Char \cup {NewLine}
  PROVE  /\ Append(s, c) \in Written /\ Len(Append(s, c)) = Len(s) + 1
         /\ \A i \in 1..Len(s) : Append(s, c)[i] = s[i]
         /\ Append(s, c)[Len(s) + 1] = c
         /\ \A i \in 1..Len(s) + 1 : Places(Append(s, c))[i] = Places(s)[i]
<1> DEFINE r == Append(s, c)
           n == Len(s)
<1>1. /\ n \in Nat /\ r \in Written /\ Len(r) = n + 1
      /\ \A i \in 1..n : r[i] = s[i]
      /\ r[n + 1] = c
  BY DEF Written
<1> HIDE DEF r, n
<1>2. /\ Places(s)[1] = <<0, 0>> /\ Places(r)[1] = <<0, 0>>
      /\ \A i \in 1..n : Places(s)[i + 1] = Behind(Places(s)[i], s[i])
      /\ \A i \in 1..n + 1 : Places(r)[i + 1] = Behind(Places(r)[i], r[i])
  BY <1>1, PlacesFollow DEF Follows, Goes, n
<1>3. \A i \in 1..n : Places(r)[i + 1] = Behind(Places(r)[i], s[i])
  BY <1>1, <1>2
<1>4. Goes(Places(r), s, n) /\ Goes(Places(s), s, n)
  BY <1>2, <1>3 DEF Goes
<1>5. \A i \in 1..n + 1 : Places(r)[i] = Places(s)[i]
  BY <1>1, <1>2, <1>4, Alike
<1> QED
  BY <1>1, <1>5 DEF r, n

\* A later character is on no earlier line.
LEMMA LinesGoDown ==
  ASSUME NEW s \in Written, NEW n \in 1..Len(s) + 1, NEW k \in 1..n
  PROVE  /\ Places(s)[n] \in PlaceSet /\ Places(s)[k] \in PlaceSet
         /\ Places(s)[k][1] <= Places(s)[n][1]
<1> DEFINE line(i) == Places(s)[i][1]
           Bad == {i \in k..Len(s) + 1 : ~(line(k) <= line(i))}
<1>1. /\ Len(s) \in Nat
      /\ \A i \in 1..Len(s) + 1 : Places(s)[i] \in PlaceSet
      /\ \A i \in 1..Len(s) : Places(s)[i + 1] = Behind(Places(s)[i], s[i])
  BY PlacesFollow, LenProperties DEF Follows, Goes, Written
<1>2. \A i \in 1..Len(s) : line(i) <= line(i + 1)
  BY <1>1, BehindPlace
<1>3. \A i \in 1..Len(s) + 1 : line(i) \in Nat
  BY <1>1 DEF PlaceSet
<1>4. n \in k..Len(s) + 1 /\ k \in 1..Len(s) + 1 /\ n \in 1..Len(s) + 1
  BY <1>1
<1> HIDE DEF line
<1>5. ASSUME Bad # {} PROVE FALSE
  <2>1. PICK i \in Bad : \A j \in Bad : ~ (j < i)
    <3>1. Bad \in SUBSET Nat
      BY <1>1
    <3> HIDE DEF Bad
    <3> QED
      BY <1>5, <3>1, Least, Zenon
  <2>2. i \in k..Len(s) + 1 /\ ~(line(k) <= line(i))
    BY <2>1
  <2>3. i # k
    BY <1>3, <1>4, <2>2
  <2>4. i - 1 \in k..Len(s) + 1 /\ i - 1 < i /\ i - 1 \in 1..Len(s) /\ (i - 1) + 1 = i
        /\ i - 1 \in 1..Len(s) + 1 /\ i \in 1..Len(s) + 1
    BY <1>1, <1>4, <2>2, <2>3
  <2>5. line(k) <= line(i - 1)
    BY <2>1, <2>4
  <2>6. line(i - 1) <= line(i)
    BY <1>2, <2>4
  <2> QED
    BY <1>3, <1>4, <2>2, <2>4, <2>5, <2>6
<1> QED
  BY <1>1, <1>4, <1>5 DEF line

----------------------------------------------------------------------------
(* What the screen spells of a text. *)

Line(s, k) == Places(s)[k][1]
Column(s, k) == Places(s)[k][2]

\* The line in the first row once the n-th character is there.
FirstLine(s, n) ==
  IF n = 0 THEN 0 ELSE IF Line(s, n) < Rows THEN 0 ELSE Line(s, n) - (Rows - 1)

\* Those of the first n characters whose glyph belongs in a cell.
Here(s, n, l, c) == {k \in 1..n : s[k] # NewLine /\ Line(s, k) = l /\ Column(s, k) = c}

\* The glyph is the last one's, or there is none.
IsLast(glyph, s, here) ==
  \/ here = {} /\ glyph = Blank
  \/ \E k \in here : glyph = s[k] /\ \A j \in here : j <= k

\* A row whose line has not been behind the framebuffer, or lost nothing there.
Whole(memory, top, r) == memory = "spare" \/ top + r < BufRows

\* One half of the cells spells the first n characters, from line `top` down.
Spells(half, memory, s, n, top) ==
  \A r \in Row : Whole(memory, top, r) =>
    \A c \in Col : IsLast(half[r][c], s, Here(s, n, top + r, c))

LEMMA LineBehind ==
  ASSUME NEW s \in Written
  PROVE  /\ Len(s) \in Nat
         /\ Line(s, 1) = 0 /\ Column(s, 1) = 0
         /\ \A k \in 1..Len(s) + 1 : Line(s, k) \in Nat /\ Column(s, k) \in Nat
         /\ \A k \in 1..Len(s) :
              IF s[k] = NewLine
              THEN Line(s, k + 1) = Line(s, k) + 1 /\ Column(s, k + 1) = 0
              ELSE Line(s, k + 1) = Line(s, k) /\ Column(s, k + 1) = Column(s, k) + 1
         /\ \A n \in 1..Len(s) + 1 : \A k \in 1..n : Line(s, k) <= Line(s, n)
         /\ \A n \in 0..Len(s) : FirstLine(s, n) \in Nat
<1>1. Follows(Places(s), s, Len(s)) /\ Len(s) \in Nat
  BY PlacesFollow, LenProperties DEF Written
<1>2. /\ Places(s)[1] = <<0, 0>>
      /\ \A k \in 1..Len(s) + 1 : Places(s)[k] \in PlaceSet
  BY <1>1 DEF Follows, Goes
<1>3. \A k \in 1..Len(s) : Places(s)[k + 1] = Behind(Places(s)[k], s[k])
  BY <1>1 DEF Follows, Goes
<1>4. Line(s, 1) = 0 /\ Column(s, 1) = 0
  BY <1>2 DEF Line, Column
<1>5. \A k \in 1..Len(s) + 1 : Line(s, k) \in Nat /\ Column(s, k) \in Nat
  BY <1>2 DEF Line, Column, PlaceSet
<1>6. ASSUME NEW k \in 1..Len(s)
      PROVE  IF s[k] = NewLine
             THEN Line(s, k + 1) = Line(s, k) + 1 /\ Column(s, k + 1) = 0
             ELSE Line(s, k + 1) = Line(s, k) /\ Column(s, k + 1) = Column(s, k) + 1
  <2>1. Places(s)[k + 1] = Behind(Places(s)[k], s[k])
    BY <1>3
  <2>2. CASE s[k] = NewLine
    <3>1. Places(s)[k + 1] = <<Line(s, k) + 1, 0>>
      BY <2>1, <2>2 DEF Behind, Line, Column
    <3> QED
      BY <2>2, <3>1 DEF Line, Column
  <2>3. CASE s[k] # NewLine
    <3>1. Places(s)[k + 1] = <<Line(s, k), Column(s, k) + 1>>
      BY <2>1, <2>3 DEF Behind, Line, Column
    <3> QED
      BY <2>3, <3>1 DEF Line, Column
  <2> QED
    BY <2>2, <2>3
<1>7. ASSUME NEW n \in 1..Len(s) + 1, NEW k \in 1..n PROVE Line(s, k) <= Line(s, n)
  BY LinesGoDown DEF Line
<1>8. ASSUME NEW n \in 0..Len(s) PROVE FirstLine(s, n) \in Nat
  <2>1. n = 0 \/ n \in 1..Len(s) + 1
    BY <1>1
  <2>2. n # 0 => Line(s, n) \in Nat
    BY <1>5, <2>1
  <2> QED
    BY <2>2, ConsoleAssumption DEF FirstLine
<1> HIDE DEF Line
<1> QED
  BY <1>1, <1>4, <1>5, <1>6, <1>7, <1>8

\* The screen scrolls when the next character would come below it, and only then.
LEMMA TopFollows ==
  ASSUME NEW s \in Written, NEW n \in 1..Len(s), NEW y \in 0..Rows,
         Line(s, n) = y + FirstLine(s, n - 1)
  PROVE  FirstLine(s, n) = FirstLine(s, n - 1) + (IF y = Rows THEN 1 ELSE 0)
<1>1. /\ n \in Nat /\ Rows \in Nat \ {0} /\ Line(s, n) \in Nat
      /\ n # 1 => Line(s, n - 1) \in Nat /\ Line(s, n - 1) <= Line(s, n)
  <2>1. n # 1 => n - 1 \in 1..n /\ n - 1 \in 1..Len(s) + 1
    BY LineBehind
  <2>2. n \in Nat /\ n \in 1..Len(s) + 1
    BY LineBehind
  <2> QED
    BY <2>1, <2>2, LineBehind, ConsoleAssumption
<1> QED
  BY <1>1 DEF FirstLine

\* What is written later leaves the screen as it is.
LEMMA SpellsStill ==
  ASSUME NEW s \in Written, NEW c \in Char \cup {NewLine}
  PROVE  LET r == Append(s, c) IN
         /\ r \in Written /\ Len(r) = Len(s) + 1 /\ r[Len(r)] = c
         /\ \A k \in 1..Len(s) + 1 : Line(r, k) = Line(s, k) /\ Column(r, k) = Column(s, k)
         /\ \A n \in 0..Len(s) :
              /\ FirstLine(r, n) = FirstLine(s, n)
              /\ \A half, memory, top :
                   Spells(half, memory, s, n, top) => Spells(half, memory, r, n, top)
<1> DEFINE r == Append(s, c)
<1>1. /\ r \in Written /\ Len(r) = Len(s) + 1
      /\ \A i \in 1..Len(s) : r[i] = s[i]
      /\ r[Len(s) + 1] = c
      /\ \A i \in 1..Len(s) + 1 : Places(r)[i] = Places(s)[i]
  BY PlacesStay
<1>0. Len(s) \in Nat
  BY LineBehind
<1> HIDE DEF r
<1>2. \A k \in 1..Len(s) + 1 : Line(r, k) = Line(s, k) /\ Column(r, k) = Column(s, k)
  BY <1>1 DEF Line, Column
<1>3. ASSUME NEW n \in 0..Len(s) PROVE FirstLine(r, n) = FirstLine(s, n)
  <2>1. n = 0 \/ n \in 1..Len(s) + 1
    BY <1>0
  <2> QED
    BY <1>2, <2>1 DEF FirstLine
<1>4. ASSUME NEW n \in 0..Len(s), NEW half, NEW memory, NEW top,
             Spells(half, memory, s, n, top)
      PROVE  Spells(half, memory, r, n, top)
  <2> SUFFICES ASSUME NEW i \in Row, Whole(memory, top, i), NEW j \in Col
               PROVE  IsLast(half[i][j], r, Here(r, n, top + i, j))
    BY DEF Spells
  <2>1. IsLast(half[i][j], s, Here(s, n, top + i, j))
    BY <1>4 DEF Spells
  <2>2. \A k \in 1..n : k \in 1..Len(s) /\ k \in 1..Len(s) + 1
    BY <1>0
  <2>3. Here(r, n, top + i, j) = Here(s, n, top + i, j)
    BY <1>1, <1>2, <2>2 DEF Here
  <2>4. \A k \in Here(s, n, top + i, j) : r[k] = s[k]
    BY <1>1, <2>2 DEF Here
  <2> QED
    BY <2>1, <2>3, <2>4 DEF IsLast
<1> QED
  BY <1>1, <1>2, <1>3, <1>4 DEF r

\* Scrolling shows the same text from one line further down.
LEMMA SpellsScrolled ==
  ASSUME NEW s \in Written, NEW n \in 0..Len(s), NEW top \in Nat, upper \in Cell,
         behind \in {"spare", "owned"},
         Spells(upper, behind, s, n, top),
         \A k \in 1..n : Line(s, k) < top + Rows
  PROVE  Spells(scrolled, behind, s, n, top + 1)
<1> SUFFICES ASSUME NEW r \in Row, Whole(behind, top + 1, r), NEW c \in Col
             PROVE  IsLast(scrolled[r][c], s, Here(s, n, (top + 1) + r, c))
  BY DEF Spells
<1>0. Rows \in Nat \ {0} /\ r \in Nat /\ BufRows \in 1..Rows - 1
  BY RowsInBuffer DEF Row
<1>3. Kept(r)
  BY <1>0 DEF Whole, Kept
<1>1. CASE r = Rows - 1
  <2>1. scrolled[r] = BlankRow
    BY <1>1, <1>3 DEF scrolled
  <2>2. (top + 1) + r = top + Rows
    BY <1>0, <1>1
  <2>3. \A k \in 1..n : Line(s, k) # top + Rows
    <3>1. \A k \in 1..n : k \in 1..Len(s) + 1
      BY LineBehind
    <3>2. \A k \in 1..n : Line(s, k) \in Nat
      BY <3>1, LineBehind
    <3> QED
      BY <1>0, <3>2
  <2>4. Here(s, n, top + Rows, c) = {}
    BY <2>3 DEF Here
  <2> QED
    BY <2>1, <2>2, <2>4 DEF IsLast, BlankRow
<1>2. CASE r # Rows - 1
  <2>1. r + 1 \in Row /\ (top + 1) + r = top + (r + 1)
    BY <1>0, <1>2 DEF Row
  <2>2. scrolled[r] = upper[r + 1]
    BY <1>2, <1>3 DEF scrolled
  <2>3. IsLast(upper[r + 1][c], s, Here(s, n, top + (r + 1), c))
    BY <2>1 DEF Spells, Whole
  <2> QED
    BY <2>1, <2>2, <2>3
<1> QED
  BY <1>1, <1>2

\* A newline has no glyph.
LEMMA SpellsNewLine ==
  ASSUME NEW s \in Written, NEW n \in 1..Len(s), NEW half, NEW memory, NEW top,
         s[n] = NewLine, Spells(half, memory, s, n - 1, top)
  PROVE  Spells(half, memory, s, n, top)
<1>1. \A k \in 1..n : k = n \/ k \in 1..n - 1
  BY LineBehind
<1>2. \A k \in 1..n - 1 : k \in 1..n
  BY LineBehind
<1>3. \A l, c : Here(s, n, l, c) = Here(s, n - 1, l, c)
  BY <1>1, <1>2 DEF Here
<1> QED
  BY <1>3 DEF Spells

\* A half with a glyph in one cell, unless that is behind the framebuffer and not kept.
GlyphAt(new, half, memory, y, x, glyph) ==
  \A r \in Row : \A c \in Col :
    memory = "spare" \/ r < BufRows => new[r][c] = IF r = y /\ c = x THEN glyph ELSE half[r][c]

\* A glyph is drawn in the cell of its character, over what is there.
LEMMA SpellsDrawn ==
  ASSUME NEW s \in Written, NEW n \in 1..Len(s), NEW half, NEW new, NEW memory, NEW top \in Nat,
         NEW y \in Row, NEW x \in Col, s[n] # NewLine,
         Line(s, n) = y + top, Column(s, n) = x,
         GlyphAt(new, half, memory, y, x, s[n]),
         Spells(half, memory, s, n - 1, top)
  PROVE  Spells(new, memory, s, n, top)
<1> SUFFICES ASSUME NEW r \in Row, Whole(memory, top, r), NEW c \in Col
             PROVE  IsLast(new[r][c], s, Here(s, n, top + r, c))
  BY DEF Spells
<1>0. r \in Nat /\ y \in Nat /\ c \in Nat /\ n \in Nat /\ n \in 1..n
  BY ConsoleAssumption, LineBehind DEF Row, Col
<1>1. IsLast(half[r][c], s, Here(s, n - 1, top + r, c))
  BY DEF Spells
<1>2. \A k \in 1..n : k = n \/ k \in 1..n - 1
  BY <1>0
<1>3. \A k \in 1..n - 1 : k \in 1..n
  BY <1>0
<1>4. memory = "spare" \/ r < BufRows
  BY <1>0, RowsInBuffer DEF Whole
<1>5. CASE r = y /\ c = x
  <2>1. new[r][c] = s[n]
    BY <1>4, <1>5 DEF GlyphAt
  <2>2. n \in Here(s, n, top + r, c)
    BY <1>0, <1>5 DEF Here
  <2>3. \A k \in Here(s, n, top + r, c) : k <= n
    BY <1>0 DEF Here
  <2> QED
    BY <2>1, <2>2, <2>3 DEF IsLast
<1>6. CASE ~(r = y /\ c = x)
  <2>1. new[r][c] = half[r][c]
    BY <1>4, <1>6 DEF GlyphAt
  <2>2. Line(s, n) # top + r \/ Column(s, n) # c
    BY <1>0, <1>6
  <2>3. Here(s, n, top + r, c) = Here(s, n - 1, top + r, c)
    BY <1>2, <1>3, <2>2 DEF Here
  <2> QED
    BY <1>1, <2>1, <2>3
<1> QED
  BY <1>5, <1>6

\* Such a glyph is what Draw leaves in a column of the row.
LEMMA DrawnGlyph ==
  ASSUME NEW half, NEW glyph, NEW spills, chars_x \in Col, behind \in {"spare", "owned"}
  PROVE  GlyphAt(drawn(half, glyph, spills), half, behind, chars_y, chars_x, glyph)
<1> SUFFICES ASSUME NEW r \in Row, NEW c \in Col, behind = "spare" \/ r < BufRows
             PROVE  drawn(half, glyph, spills)[r][c]
                      = IF r = chars_y /\ c = chars_x THEN glyph ELSE half[r][c]
  BY DEF GlyphAt
<1>1. ~(chars_x >= Columns)
  BY ConsoleAssumption DEF Col
<1>2. Kept(r)
  BY DEF Kept
<1> QED
  BY <1>1, <1>2 DEF drawn

----------------------------------------------------------------------------
(* The one thread that prints keeps the rows and the cursor together. *)

\* The cursor is at the place of the k-th character, with line `top` in the first row.
CursorAt(k, top) == Line(uart, k) = chars_y + top /\ Column(uart, k) = chars_x

\* What the rows spell and where the cursor is at each step: up to the scrolling the rows
\* start where they did for the character before, and the cursor is decremented after it;
\* up to the drawing they lack the last character.  As long as the lines fit, no glyph is
\* behind the last column, and none wraps.
ScreenInv(t) ==
  LET n   == Len(uart)
      top == FirstLine(uart, n)
  IN  /\ pc[t] # "idle" => n # 0 /\ ch[t] = uart[n]
      /\ pc[t] = "idle" => Spells(upper, behind, uart, n, top) /\ CursorAt(n + 1, top)
      /\ pc[t] \in {"check", "scroll"} =>
           Spells(upper, behind, uart, n - 1, FirstLine(uart, n - 1))
           /\ CursorAt(n, FirstLine(uart, n - 1))
      /\ pc[t] \in {"read_dec", "dec"} =>
           Spells(upper, behind, uart, n - 1, top) /\ CursorAt(n, top - 1)
      /\ pc[t] \in {"char", "draw"} => Spells(upper, behind, uart, n - 1, top) /\ CursorAt(n, top)
      /\ pc[t] \in {"draw", "read_x", "inc_x"} => ch[t] # NewLine
      /\ pc[t] \in {"read_x", "inc_x"} => Spells(upper, behind, uart, n, top) /\ CursorAt(n, top)
      /\ pc[t] \in {"draw", "read_x", "inc_x"} => chars_x < Columns
      /\ pc[t] # "wrap"
      /\ pc[t] \in {"read_inc_y", "inc_y"} =>
           Spells(upper, behind, uart, n, top) /\ chars_x = 0
           /\ Line(uart, n + 1) = chars_y + 1 + top /\ Column(uart, n + 1) = 0

\* The lines of a text fit in the columns.
Fits(s) == \A k \in 1..Len(s) : s[k] # NewLine => Column(s, k) < Columns

TextInv == Ready /\ Alone /\ Fits(uart) => \A t \in active : ScreenInv(t)

\* They have to fit before one more character does.
LEMMA FitsBefore ==
  ASSUME NEW s \in Written, NEW c \in Char \cup {NewLine}, Fits(Append(s, c))
  PROVE  Fits(s)
<1> DEFINE r == Append(s, c)
<1>1. /\ Len(r) = Len(s) + 1 /\ Len(s) \in Nat
      /\ \A k \in 1..Len(s) : r[k] = s[k]
      /\ \A k \in 1..Len(s) + 1 : Column(r, k) = Column(s, k)
  BY PlacesStay, SpellsStill, LineBehind
<1>2. Fits(r)
  OBVIOUS
<1> HIDE DEF r
<1>3. \A k \in 1..Len(s) : k \in 1..Len(r) /\ k \in 1..Len(s) + 1
  BY <1>1
<1> QED
  BY <1>1, <1>2, <1>3 DEF Fits

\* Every step of that thread keeps them together.
LEMMA ScreenStep ==
  ASSUME TypeOK, NEW t \in Thread, CursorInv(t), ScreenInv(t), Ready, Fits(uart),
         Putc(t) \/ Gpu_putc(t)
  PROVE  ScreenInv(t)'
<1> DEFINE n == Len(uart)
           top == FirstLine(uart, n)
           before == FirstLine(uart, n - 1)
<1>0. /\ Rows \in Nat \ {0} /\ Columns \in Nat \ {0}
      /\ Word \in Nat /\ Rows < Word - 1 /\ Columns < Word - 1
      /\ chars_x \in Nat /\ chars_y \in Nat /\ num \in [Thread -> 0..Word - 1]
      /\ pc \in [Thread -> {"idle", "check", "scroll", "read_dec", "dec", "char", "read_inc_y",
                            "inc_y", "draw", "read_x", "inc_x", "wrap"}]
      /\ num_rows = Rows /\ chars_width = Columns
      /\ uart \in Written /\ upper \in Cell
      /\ ch \in [Thread -> Char \cup {NewLine}]
      /\ fbinfo = "ready" /\ behind \in {"spare", "owned"}
  BY ConsoleAssumption DEF TypeOK, Ready, num_rows, chars_width, Written
<1>1. ASSUME NEW at, NEW to, Step(t, at, to) PROVE pc[t] = at /\ pc'[t] = to /\ behind' = behind
  BY <1>0, <1>1 DEF Step, given
<1>a. n # 0 /\ uart[n] # NewLine => Column(uart, n) < Columns
  BY <1>0, LineBehind DEF Fits
<1>2. /\ n \in Nat /\ top \in Nat
      /\ n # 0 => /\ before \in Nat /\ n \in 1..Len(uart) /\ n - 1 \in 0..Len(uart)
                  /\ n \in 1..Len(uart) + 1
                  /\ Line(uart, n) \in Nat /\ Column(uart, n) \in Nat
                  /\ IF uart[n] = NewLine
                     THEN Line(uart, n + 1) = Line(uart, n) + 1 /\ Column(uart, n + 1) = 0
                     ELSE /\ Line(uart, n + 1) = Line(uart, n)
                          /\ Column(uart, n + 1) = Column(uart, n) + 1
  <2>1. n \in Nat /\ n \in 0..Len(uart) /\ n + 1 \in 1..Len(uart) + 1
    BY <1>0, LineBehind
  <2>2. n # 0 => n \in 1..Len(uart) /\ n - 1 \in 0..Len(uart) /\ n \in 1..Len(uart) + 1
    BY <2>1
  <2> HIDE DEF n
  <2> QED
    BY <1>0, <2>1, <2>2, LineBehind
<1>3. CASE Putc(t)
  <2>1. PICK c \in Char \cup {NewLine} :
          uart' = Append(uart, c) /\ ch' = [ch EXCEPT ![t] = c]
    BY <1>3 DEF Putc
  <2>2. Step(t, "idle", "check") /\ UNCHANGED <<chars_x, chars_y, upper>>
    BY <1>3 DEF Putc, cursor, screen
  <2>3. pc[t] = "idle" /\ pc'[t] = "check" /\ behind' = behind
    BY <1>1, <2>2
  <2>4. Spells(upper, behind, uart, n, top) /\ CursorAt(n + 1, top)
    BY <2>3 DEF ScreenInv
  <2>5. /\ Len(uart') = n + 1 /\ uart'[n + 1] = c
        /\ Line(uart', n + 1) = Line(uart, n + 1) /\ Column(uart', n + 1) = Column(uart, n + 1)
        /\ FirstLine(uart', n) = top /\ Spells(upper, behind, uart', n, top)
    <3>1. n \in 0..Len(uart) /\ n + 1 \in 1..Len(uart) + 1
      BY <1>2
    <3> QED
      BY <1>0, <2>1, <2>4, <3>1, SpellsStill
  <2>6. Line(uart', n + 1) = chars_y + top /\ Column(uart', n + 1) = chars_x
    BY <2>4, <2>5 DEF CursorAt
  <2>7. ch'[t] = c
    BY <1>0, <2>1
  <2>8. n + 1 # 0 /\ (n + 1) - 1 = n
    BY <1>2
  <2> HIDE DEF n, top
  <2> QED
    BY <2>2, <2>3, <2>5, <2>6, <2>7, <2>8 DEF ScreenInv, CursorAt
<1>4. CASE Check(t)
  <2>1. /\ Step(t, "check", IF chars_y >= Rows THEN "scroll" ELSE "char")
        /\ UNCHANGED <<chars_x, chars_y, upper, uart, ch>>
    BY <1>0, <1>4 DEF Check, cursor, screen
  <2>2. pc[t] = "check" /\ pc'[t] = (IF chars_y >= Rows THEN "scroll" ELSE "char") /\ behind' = behind
    BY <1>1, <2>1
  <2>3. n # 0 /\ ch[t] = uart[n] /\ Spells(upper, behind, uart, n - 1, before) /\ CursorAt(n, before)
    BY <2>2 DEF ScreenInv
  <2>4. chars_y \in 0..Rows
    BY DEF CursorInv
  <2>5. top = before + (IF chars_y = Rows THEN 1 ELSE 0)
    BY <1>0, <1>2, <2>3, <2>4, TopFollows DEF CursorAt
  <2>6. chars_y >= Rows \/ top = before
    BY <1>0, <1>2, <2>3, <2>4, <2>5
  <2> QED
    BY <2>1, <2>2, <2>3, <2>6 DEF ScreenInv, CursorAt
<1>5. CASE Scroll(t)
  <2>1. /\ Step(t, "scroll", "read_dec") /\ upper' = scrolled
        /\ UNCHANGED <<chars_x, chars_y, uart, ch>>
    BY <1>0, <1>5 DEF Scroll, cursor
  <2>2. pc[t] = "scroll" /\ pc'[t] = "read_dec" /\ behind' = behind
    BY <1>1, <2>1
  <2>3. n # 0 /\ ch[t] = uart[n] /\ Spells(upper, behind, uart, n - 1, before) /\ CursorAt(n, before)
    BY <2>2 DEF ScreenInv
  <2>4. chars_y = Rows
    BY <2>2 DEF CursorInv
  <2>5. Rows \in 0..Rows /\ Line(uart, n) = Rows + before
    BY <1>0, <2>3, <2>4 DEF CursorAt
  <2>6. top = before + 1
    BY <1>0, <1>2, <2>3, <2>5, TopFollows
  <2>7. \A k \in 1..n - 1 : Line(uart, k) < before + Rows
    <3>0. n \in Nat \ {0} /\ Len(uart) = n
      BY <1>2, <2>3
    <3> HIDE DEF n
    <3>1. CASE n - 1 = 0
      BY <3>0, <3>1
    <3>2. CASE n - 1 # 0
      <4>1. /\ n - 1 \in 1..Len(uart) + 1
            /\ \A k \in 1..n - 1 : k \in 1..Len(uart) + 1
        BY <3>0, <3>2
      <4>2. /\ Line(uart, n - 1) \in Nat
            /\ \A k \in 1..n - 1 : Line(uart, k) \in Nat /\ Line(uart, k) <= Line(uart, n - 1)
        BY <1>0, <4>1, LineBehind
      <4>3. Line(uart, n - 1) < before + Rows
        BY <1>0, <3>2, <4>2 DEF FirstLine
      <4>4. before + Rows \in Nat
        BY <1>0, <1>2, <2>3
      <4> QED
        BY <4>2, <4>3, <4>4
    <3> QED
      BY <3>1, <3>2
  <2>8. Spells(scrolled, behind, uart, n - 1, before + 1)
    BY <1>0, <1>2, <2>3, <2>7, SpellsScrolled
  <2>9. top - 1 = before
    BY <1>2, <2>3, <2>6
  <2> QED
    BY <2>1, <2>2, <2>3, <2>6, <2>8, <2>9 DEF ScreenInv, CursorAt
<1>6. CASE ReadDec(t)
  <2>1. Step(t, "read_dec", "dec") /\ UNCHANGED <<chars_x, chars_y, upper, uart, ch>>
    BY <1>6 DEF ReadDec, cursor, screen
  <2> QED
    BY <1>1, <2>1 DEF ScreenInv, CursorAt
<1>7. CASE Dec(t)
  <2>1. Step(t, "dec", "char") /\ chars_y' = (num[t] - 1) % Word
        /\ UNCHANGED <<chars_x, upper, uart, ch>>
    BY <1>7 DEF Dec, screen
  <2>2. pc[t] = "dec" /\ pc'[t] = "char" /\ behind' = behind
    BY <1>1, <2>1
  <2>3. chars_y = Rows /\ chars_y' = Rows - 1
    <3>1. num[t] = Rows /\ chars_y = Rows
      BY <2>2 DEF CursorInv
    <3> QED
      BY <1>0, <2>1, <3>1, WordArithmetic
  <2>4. n # 0 /\ ch[t] = uart[n] /\ Spells(upper, behind, uart, n - 1, top) /\ CursorAt(n, top - 1)
    BY <2>2 DEF ScreenInv
  <2>5. Line(uart, n) = chars_y' + top /\ Column(uart, n) = chars_x'
    BY <1>0, <1>2, <2>1, <2>3, <2>4 DEF CursorAt
  <2> QED
    BY <2>1, <2>2, <2>4, <2>5 DEF ScreenInv, CursorAt
<1>8. CASE NewLine_(t)
  <2>1. Step(t, "char", "read_inc_y") /\ chars_x' = 0 /\ ch[t] = NewLine
        /\ UNCHANGED <<chars_y, upper, uart, ch>>
    BY <1>8 DEF NewLine_, screen
  <2>2. pc[t] = "char" /\ pc'[t] = "read_inc_y" /\ behind' = behind
    BY <1>1, <2>1
  <2>3. n # 0 /\ ch[t] = uart[n] /\ Spells(upper, behind, uart, n - 1, top) /\ CursorAt(n, top)
    BY <2>2 DEF ScreenInv
  <2>4. Spells(upper, behind, uart, n, top)
    BY <1>0, <1>2, <2>1, <2>3, SpellsNewLine
  <2>5. Line(uart, n + 1) = chars_y + 1 + top /\ Column(uart, n + 1) = 0
    BY <1>0, <1>2, <2>1, <2>3 DEF CursorAt
  <2> QED
    BY <2>1, <2>2, <2>3, <2>4, <2>5 DEF ScreenInv, CursorAt
<1>9. CASE Glyph(t)
  <2>1. Step(t, "char", "draw") /\ ch[t] # NewLine /\ UNCHANGED <<chars_x, chars_y, upper, uart, ch>>
    BY <1>9 DEF Glyph, cursor, screen
  <2>2. pc[t] = "char" /\ pc'[t] = "draw" /\ behind' = behind
    BY <1>1, <2>1
  <2>3. n # 0 /\ ch[t] = uart[n] /\ Spells(upper, behind, uart, n - 1, top) /\ CursorAt(n, top)
    BY <2>2 DEF ScreenInv
  <2>4. chars_x < Columns
    BY <1>a, <2>1, <2>3 DEF CursorAt
  <2> QED
    BY <2>1, <2>2, <2>3, <2>4 DEF ScreenInv, CursorAt
<1>10. CASE Draw(t)
  <2>1. Step(t, "draw", "read_x") /\ UNCHANGED <<chars_x, chars_y, uart, ch>>
    BY <1>10 DEF Draw, cursor
  <2>2. pc[t] = "draw" /\ pc'[t] = "read_x" /\ behind' = behind
    BY <1>1, <2>1
  <2>3. /\ n # 0 /\ ch[t] = uart[n] /\ Spells(upper, behind, uart, n - 1, top) /\ CursorAt(n, top)
        /\ ch[t] # NewLine /\ chars_x < Columns
    BY <2>2 DEF ScreenInv
  <2>4. chars_y \in Row /\ chars_x \in Col
    <3>1. chars_y < Rows
      BY <1>0, <2>2 DEF CursorInv
    <3> QED
      BY <1>0, <2>3, <3>1 DEF Row, Col
  <2>5. upper' = drawn(upper, uart[n], TRUE)
    BY <1>0, <1>10, <2>3 DEF Draw
  <2>6. Line(uart, n) = chars_y + top /\ Column(uart, n) = chars_x
    BY <2>3 DEF CursorAt
  <2>7. GlyphAt(upper', upper, behind, chars_y, chars_x, uart[n])
    BY <1>0, <2>4, <2>5, DrawnGlyph
  <2>8. Spells(upper', behind, uart, n, top)
    BY <1>0, <1>2, <2>3, <2>4, <2>6, <2>7, SpellsDrawn
  <2> QED
    BY <2>1, <2>2, <2>3, <2>8 DEF ScreenInv, CursorAt
<1>11. CASE ReadX(t)
  <2>1. Step(t, "read_x", "inc_x") /\ UNCHANGED <<chars_x, chars_y, upper, uart, ch>>
    BY <1>11 DEF ReadX, cursor, screen
  <2> QED
    BY <1>1, <2>1 DEF ScreenInv, CursorAt
<1>12. CASE IncX(t)
  <2>1. /\ Step(t, "inc_x", IF (num[t] + 1) % Word > Columns THEN "wrap" ELSE "idle")
        /\ chars_x' = (num[t] + 1) % Word /\ UNCHANGED <<chars_y, upper, uart, ch>>
    BY <1>0, <1>12 DEF IncX, screen
  <2>2. num[t] = chars_x /\ chars_x < Columns
    BY <1>1, <2>1 DEF CursorInv, ScreenInv
  <2>3. (num[t] + 1) % Word = chars_x + 1
    BY <1>0, <2>2, WordArithmetic
  <2>4. pc[t] = "inc_x" /\ pc'[t] = "idle" /\ behind' = behind
    BY <1>0, <1>1, <2>1, <2>2, <2>3
  <2>5. /\ n # 0 /\ ch[t] = uart[n] /\ Spells(upper, behind, uart, n, top) /\ CursorAt(n, top)
        /\ ch[t] # NewLine
    BY <2>4 DEF ScreenInv
  <2>6. Line(uart, n + 1) = chars_y + top /\ Column(uart, n + 1) = chars_x'
    BY <1>0, <1>2, <2>1, <2>3, <2>5 DEF CursorAt
  <2> QED
    BY <2>1, <2>4, <2>5, <2>6 DEF ScreenInv, CursorAt
<1>13. CASE Wrap(t)
  BY <1>1, <1>13 DEF Wrap, ScreenInv
<1>14. CASE ReadIncY(t)
  <2>1. Step(t, "read_inc_y", "inc_y") /\ UNCHANGED <<chars_x, chars_y, upper, uart, ch>>
    BY <1>14 DEF ReadIncY, cursor, screen
  <2> QED
    BY <1>1, <2>1 DEF ScreenInv
<1>15. CASE IncY(t)
  <2>1. /\ Step(t, "inc_y", "idle") /\ chars_y' = (num[t] + 1) % Word
        /\ UNCHANGED <<chars_x, upper, uart, ch>>
    BY <1>15 DEF IncY, screen
  <2>2. pc[t] = "inc_y" /\ pc'[t] = "idle" /\ behind' = behind
    BY <1>1, <2>1
  <2>3. chars_y' = chars_y + 1
    <3>1. num[t] = chars_y /\ chars_y < Rows
      BY <2>2 DEF CursorInv
    <3> QED
      BY <1>0, <2>1, <3>1, WordArithmetic
  <2>4. /\ Spells(upper, behind, uart, n, top)
        /\ Line(uart, n + 1) = chars_y + 1 + top /\ Column(uart, n + 1) = 0 /\ chars_x = 0
    BY <2>2 DEF ScreenInv
  <2> QED
    BY <2>1, <2>2, <2>3, <2>4 DEF ScreenInv, CursorAt
<1> QED
  BY <1>3, <1>4, <1>5, <1>6, <1>7, <1>8, <1>9, <1>10, <1>11, <1>12, <1>13, <1>14, <1>15
     DEF Gpu_putc

\* Rows that spell all of the text show what they should.
LEMMA SpellsText ==
  ASSUME TypeOK, uart # <<>>, Spells(upper, behind, uart, Len(uart), FirstLine(uart, Len(uart))),
         NEW r \in Row, Whole(behind, Top, r)
  PROVE  upper[r] = Text[r]
<1> DEFINE here(c) == Here(uart, Len(uart), Top + r, c)
<1>1. uart \in Written /\ upper \in Cell /\ Len(uart) \in Nat /\ Len(uart) # 0
  BY DEF TypeOK, Written
<1>2. Top = FirstLine(uart, Len(uart))
  BY <1>1 DEF Top, Place, FirstLine, Line
<1>3. ASSUME NEW c \in Col
      PROVE  upper[r][c] = IF Shown(r, c) = 0 THEN Blank ELSE uart[Shown(r, c)]
  <2>1. IsLast(upper[r][c], uart, here(c))
    BY <1>2 DEF Spells
  <2>2. Shown(r, c) = IF here(c) = {} THEN 0
                      ELSE CHOOSE k \in here(c) : \A j \in here(c) : j <= k
    <3>1. \A k \in 1..Len(uart) : Places(uart)[k] \in PlaceSet
      BY <1>1, LinesGoDown
    <3>2. \A k \in 1..Len(uart) : Place(k) = <<Top + r, c>> <=>
            Line(uart, k) = Top + r /\ Column(uart, k) = c
      BY <3>1 DEF Place, Line, Column, PlaceSet
    <3>3. CharsAt(r, c) = here(c)
      BY <3>2 DEF CharsAt, Here
    <3> QED
      BY <3>3 DEF Shown
  <2>3. \A k \in here(c) : k \in 1..Len(uart)
    BY DEF Here
  <2> HIDE DEF here
  <2>4. CASE here(c) = {}
    BY <2>1, <2>2, <2>4 DEF IsLast
  <2>5. CASE here(c) # {}
    <3>1. PICK k \in here(c) : upper[r][c] = uart[k] /\ \A j \in here(c) : j <= k
      BY <2>1, <2>5 DEF IsLast
    <3>2. Shown(r, c) \in here(c) /\ \A j \in here(c) : j <= Shown(r, c)
      BY <2>2, <2>5, <3>1
    <3>3. Shown(r, c) = k /\ k # 0
      BY <1>1, <2>3, <3>1, <3>2
    <3> QED
      BY <3>1, <3>3
  <2> QED
    BY <2>4, <2>5
<1>4. upper[r] \in [Col -> Char \cup {Blank, NoGlyph}]
  BY <1>1 DEF Cell
<1>5. Text[r] = [c \in Col |-> IF Shown(r, c) = 0 THEN Blank ELSE uart[Shown(r, c)]]
  BY DEF Text
<1>6. upper[r] = [c \in Col |-> upper[r][c]]
  BY <1>4
<1> QED
  BY <1>3, <1>5, <1>6

LEMMA InitText == Init => TextInv
<1> SUFFICES ASSUME Init, NEW t \in active PROVE ScreenInv(t)
  BY DEF TextInv
<1>1. /\ uart = <<>> /\ pc[t] = "idle" /\ chars_x = 0 /\ chars_y = 0
      /\ \A r \in Row : Kept(r) => upper[r] = BlankRow
  BY DEF Init
<1>2. uart \in Written /\ Len(uart) = 0
  BY <1>1 DEF Written
<1>3. FirstLine(uart, 0) = 0 /\ Line(uart, 1) = 0 /\ Column(uart, 1) = 0
  BY <1>2, LineBehind DEF FirstLine
<1>4. Spells(upper, behind, uart, 0, 0)
  <2>1. \A l, c : Here(uart, 0, l, c) = {}
    BY DEF Here
  <2>2. \A r \in Row : Whole(behind, 0, r) => \A c \in Col : upper[r][c] = Blank
    <3>1. \A r \in Row : 0 + r = r
      BY DEF Row
    <3> QED
      BY <1>1, <3>1 DEF BlankRow, Whole, Kept
  <2> QED
    BY <2>1, <2>2 DEF Spells, IsLast
<1> QED
  BY <1>1, <1>2, <1>3, <1>4 DEF ScreenInv, CursorAt

LEMMA TextStep == ConsoleIInv /\ TextInv /\ [Next]_vars => TextInv'
<1> SUFFICES ASSUME ConsoleIInv, TextInv, [Next]_vars PROVE TextInv'
  OBVIOUS
<1>0. TypeOK /\ GlyphInv /\ AloneInv
  BY DEF ConsoleIInv
<1>1. ASSUME NEW t \in Thread, Putc(t) \/ Gpu_putc(t) PROVE TextInv'
  <2>1. UNCHANGED given /\ t \in active
    BY <1>0, <1>1, TypeStep
  <2>2. Fits(uart') => Fits(uart)
    <3>1. uart \in Written
      BY <1>0 DEF TypeOK, Written
    <3>2. CASE Putc(t)
      BY <3>1, <3>2, FitsBefore DEF Putc
    <3>3. CASE Gpu_putc(t)
      <4>1. uart' = uart
        BY <3>3 DEF Gpu_putc, Check, Scroll, ReadDec, Dec, NewLine_, Glyph, Draw, ReadX, IncX,
                    Wrap, ReadIncY, IncY
      <4> QED
        BY <4>1
    <3> QED
      BY <1>1, <3>2, <3>3
  <2>3. ASSUME Ready, Alone, Fits(uart) PROVE \A u \in active' : ScreenInv(u)'
    <3>1. active' = {t}
      BY <1>0, <2>1, <2>3, OneThread DEF given
    <3>2. CursorInv(t) /\ ScreenInv(t)
      BY <1>0, <2>1, <2>3 DEF AloneInv, TextInv
    <3>3. ScreenInv(t)'
      BY <1>0, <1>1, <2>3, <3>2, ScreenStep
    <3> QED
      BY <3>1, <3>3
  <2> QED
    BY <2>1, <2>2, <2>3 DEF TextInv, Alone, Ready, given
<1>2. CASE UNCHANGED vars
  <2>1. UNCHANGED <<fbinfo, overlaid, behind, active, chars_x, chars_y, upper, uart, pc, ch>>
    BY <1>2 DEF vars, given, cursor, screen
  <2> QED
    BY <2>1 DEF TextInv, ScreenInv, CursorAt, Alone, Ready
<1> QED
  BY <1>1, <1>2 DEF Next

LEMMA TextInvariant == Spec => [](TypeOK /\ GlyphInv /\ AloneInv /\ TextInv)
<1>1. ConsoleIInv => TypeOK /\ GlyphInv /\ AloneInv
  BY DEF ConsoleIInv
<1> QED
  BY <1>1, InitText, TextStep, ConsoleInvariant, PTL DEF Spec

\* Lines that fit are the same by either name.
LEMMA FitsIsLinesFit == LinesFit <=> Fits(uart)
BY DEF LinesFit, Fits, Place, Column

\* Between two calls of the one thread that prints lines that fit, the upper halves of the
\* rows in the framebuffer spell what it has sent from line Top down, as far as those lines
\* were drawn in the framebuffer or the memory behind it keeps them, however long the text
\* and however large the framebuffer.
THEOREM TextInFramebuffer == Spec => []ScreenShowsText
<1>1. TypeOK /\ TextInv => ScreenShowsText
  <2> SUFFICES ASSUME TypeOK, TextInv, Ready, Alone, Quiet, uart # <<>>, LinesFit,
                      NEW r \in 0..BufRows - 1, behind = "spare" \/ Top + r < BufRows
               PROVE  upper[r] = Text[r]
    BY DEF ScreenShowsText
  <2>1. PICK t \in Thread : active = {t}
    BY OneThread
  <2>2. ScreenInv(t) /\ pc[t] = "idle"
    BY <2>1, FitsIsLinesFit DEF TextInv, Quiet
  <2>3. Spells(upper, behind, uart, Len(uart), FirstLine(uart, Len(uart)))
    BY <2>2 DEF ScreenInv
  <2>4. r \in Row /\ Whole(behind, Top, r)
    BY RowsInBuffer DEF Row, Whole
  <2> QED
    BY <2>3, <2>4, SpellsText
<1> QED
  BY <1>1, TextInvariant, PTL

\* One thread draws what it prints in lines that fit in the columns and the rows the
\* scrolling moves, and as long as there are no more lines than rows in the framebuffer,
\* draws nothing behind that, however large it is.
THEOREM GlyphsStay == Spec => []GlyphsInBuffer
<1>1. TypeOK /\ GlyphInv /\ AloneInv /\ TextInv => GlyphsInBuffer
  <2> SUFFICES ASSUME TypeOK, GlyphInv, AloneInv, TextInv, Ready, Alone, LinesFit,
                      NEW t \in Thread, pc[t] = "draw"
               PROVE  /\ chars_x \in Col /\ chars_y \in Row
                      /\ Place(Len(uart))[1] < BufRows => chars_y < BufRows
    BY DEF GlyphsInBuffer
  <2>1. CursorInv(t) /\ ScreenInv(t)
    BY FitsIsLinesFit DEF GlyphInv, AloneInv, TextInv
  <2> DEFINE n == Len(uart)
             top == FirstLine(uart, n)
  <2>2. chars_x < Columns /\ CursorAt(n, top)
    BY <2>1 DEF ScreenInv
  <2>3. chars_y < Rows
    BY <2>1 DEF CursorInv
  <2>4. chars_x \in Nat /\ chars_y \in Nat /\ uart \in Written
    BY DEF TypeOK, Written
  <2>5. n \in 0..Len(uart) /\ top \in Nat
    BY <2>4, LineBehind
  <2>6. Place(n)[1] = chars_y + top
    BY <2>2 DEF CursorAt, Place, Line
  <2> HIDE DEF n, top
  <2>7. Place(n)[1] < BufRows => chars_y < BufRows
    BY <2>4, <2>5, <2>6, RowsInBuffer
  <2> QED
    BY <2>2, <2>3, <2>4, <2>7, RowsInBuffer, ConsoleAssumption DEF Row, Col, n
<1> QED
  BY <1>1, TextInvariant, PTL

=============================================================================
