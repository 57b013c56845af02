------------------------------ MODULE MCKerio -------------------------------
(* Kerio on 5-bit ints and an intbuf of 5 bytes, as many as bits as there. *)
EXTENDS Kerio

SomeKeys == {"a", "\n", "\r"}

Chr(c1) == [chr |-> c1]
Dec(n) == [num |-> n, base |-> 10]
Hex(n) == [num |-> n, base |-> 16]
Oct(n) == [num |-> n, base |-> 8]
Bin(n) == [num |-> n, base |-> 2]

Some == {-16, -10, -1, 0, 7, 15}

\* Alone: numbers in all bases, and a format with two of them.  Three and -1 are
\* the widest numbers in base 2 that fit and do not.
Formats(alone) ==
  IF alone THEN {<<Dec(n)>> : n \in Some} \cup {<<Hex(n)>> : n \in Some}
                \cup {<<Oct(-1)>>, <<Oct(8)>>, <<Bin(0)>>, <<Bin(3)>>, <<Bin(-1)>>}
                \cup {<<Chr("%"), Dec(-12), Chr("x"), Hex(9), Chr("\n")>>}
           ELSE {<<Dec(7)>>, <<Chr("a"), Hex(-1)>>, <<Bin(-1)>>}
=============================================================================
