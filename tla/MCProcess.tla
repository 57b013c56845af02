----------------------------- MODULE MCProcess -----------------------------
(* Process on small sets of pcbs and pages. *)
EXTENDS Process

CONSTANTS p1, p2

Either == {TRUE, FALSE}
Lists == {Run, All}
OnePage == <<p1>>
TwoPages == <<p1, p2>>
=============================================================================
