----------------------------- MODULE MCMailbox -----------------------------
(* Mailbox with the arrays of gpu_init, and with every short array. *)
EXTENDS Mailbox

GpuInitProgram ==
  << <<"FB_SET_PHYSICAL_DIMENSIONS", "FB_SET_VIRTUAL_DIMENSIONS", "FB_SET_BITS_PER_PIXEL">>,
     <<"FB_ALLOCATE_BUFFER">> >>

SomeTags == {"FB_ALLOCATE_BUFFER", "FB_SET_BITS_PER_PIXEL", "FB_RELESE_BUFFER"}

\* More messages than a small heap has room for: the last one finds no segment,
\* is given a block too short for it, or is given one at NULL.
Bits == <<"FB_SET_BITS_PER_PIXEL">>
Draining == << GpuInitProgram[1], Bits, Bits, Bits, GpuInitProgram[1] >>
Filling  == << GpuInitProgram[1], Bits, GpuInitProgram[1] >>
Ending   == << GpuInitProgram[1], GpuInitProgram[1], GpuInitProgram[1] >>

AnyArrays == {GpuInitProgram, Draining, Filling, Ending}
               \cup {<<a>> : a \in UNION {[1..n -> SomeTags] : n \in 0..3}}

=============================================================================
