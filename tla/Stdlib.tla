------------------------------- MODULE Stdlib -------------------------------
(***************************************************************************)
(* The number conversions of common/stdlib.c, and the numerals they should *)
(* yield.  A text is a sequence of characters that ends with NUL.          *)
(***************************************************************************)
EXTENDS Integers, Sequences
LOCAL INSTANCE SequencesExt

CONSTANTS
  Word,    \* 2^32: an int is one of Word values
  IntBuf   \* 32, the size of intbuf: as many bytes as an int has bits

ASSUME StdlibAssumption == Word \in Nat \ {0} /\ Word % 2 = 0 /\ IntBuf \in Nat \ {0}

NUL == "NUL"
Digit == <<"0", "1", "2", "3", "4", "5", "6", "7", "8", "9", "a", "b", "c", "d", "e", "f">>
Char == {Digit[k] : k \in DOMAIN Digit} \cup {"x", "-", "%", "\n", "\r"}
int == -(Word \div 2) .. Word \div 2 - 1

\* The digits that repeated divmod yields: the last one first, none for 0.
digits[i \in 0..Word - 1, base \in {2, 8, 10, 16}] ==
  IF i = 0 THEN <<>> ELSE <<Digit[(i % base) + 1]>> \o digits[i \div base, base]

isneg(num, base) == base = 10 /\ num < 0

prefix(base) == CASE base = 16 -> <<"x", "0">>
                  [] base = 8  -> <<"0">>
                  [] base = 2  -> <<"b", "0">>
                  [] OTHER     -> <<>>

\* MUTANT: zero is not treated apart, and has no digit.
itoa_stores_zero(num, base) ==
  LET i == (IF isneg(num, base) THEN -num ELSE num) % Word
  IN  digits[i, base] \o (IF isneg(num, base) THEN <<"-">> ELSE <<>>)
                      \o prefix(base) \o <<NUL>>

\* What itoa stores in intbuf from the left before it turns the text round.
itoa_stores(num, base) ==
  LET i == (IF isneg(num, base) THEN -num ELSE num) % Word IN
  IF num = 0 THEN <<"0", NUL>>
  ELSE digits[i, base] \o (IF isneg(num, base) THEN <<"-">> ELSE <<>>)
                       \o prefix(base) \o <<NUL>>

\* integer_to_string: without room for all of it, what there was room for, the
\* last digit first, and -1.
integer_to_string(bufsize, n) ==
  LET sign == IF n < 0 THEN <<"-">> ELSE <<>>
      ds == IF n = 0 THEN <<"0">> ELSE digits[IF n < 0 THEN -n ELSE n, 10]
      backwards == sign \o ds
  IN  IF Len(backwards) >= bufsize
      THEN [result |-> -1, stored |-> SubSeq(backwards, 1, bufsize)]
      ELSE [result |-> 0, stored |-> sign \o Reverse(ds) \o <<NUL>>]

Value(c) == (CHOOSE k \in 1..10 : Digit[k] = c) - 1
IsDigit(c) == \E k \in 1..10 : Digit[k] = c

\* atoi of a text that begins with `len` digits: the loop stops at the first
\* of them without adding it.
atoi(text, len) ==
  LET res[k \in 1..len] == IF k = 1 THEN 0 ELSE Value(text[k]) * 10^(len - k) + res[k - 1]
  IN  res[len]

----------------------------------------------------------------------------
(* The numerals, by place value.  Zero has no prefix in any base. *)

Numeral(n, base) ==
  LET m == IF base = 10 /\ n < 0 THEN -n ELSE n % Word
      len == CHOOSE k \in 1..32 : m < base^k /\ (k = 1 \/ base^(k - 1) <= m)
  IN  (IF base = 10 /\ n < 0 THEN <<"-">> ELSE <<>>)
      \o (IF n = 0 THEN <<>> ELSE Reverse(prefix(base)))
      \o [k \in 1..len |-> Digit[((m \div base^(len - k)) % base) + 1]]

=============================================================================
