------------------------------ MODULE Mailbox ------------------------------
(***************************************************************************)
(* The property mailbox (kernel/mailbox.c) and its one user, gpu_init      *)
(* (kernel/gpu.c), while the kernel boots.  send_messages builds a message *)
(* in a block of the heap, gives its address to the GPU, looks for the     *)
(* answer and frees the block; then kernel_main goes on to process_init,   *)
(* whose first act is another kmalloc.                                     *)
(*                                                                         *)
(* Nothing interrupts the core yet, but the GPU answers in its own time.   *)
(* Memory is counted in words of 4 bytes, and a word is named by what it   *)
(* holds.  When a store goes through NULL or the GPU's answer meets other  *)
(* data the machine is "wild" and nothing after that is modelled.          *)
(***************************************************************************)
EXTENDS HeapOps, Sequences

CONSTANTS
  Programs,  \* what gpu_init may send: sequences of arrays of tags
  PcbBytes,  \* sizeof(process_control_block_t), what process_init asks for
  Machines   \* is a GPU one that has always answered when send_messages looks

ASSUME MailboxAssumption ==
  /\ Machines \subseteq BOOLEAN
  /\ PcbBytes \in 0..HeapSize
  /\ HeapSize + 2 * Header <= Word \div 2   \* 2^20 + 32 and 2^31 in the code
  /\ Programs \subseteq Seq(Seq(STRING)) \ {<<>>}

VARIABLES
  prompt,         \* is this GPU one
  program, call,  \* the arrays, and the number of the one being sent
  mem,            \* the words of the heap outside its headers
  values,         \* the value buffers of the caller's tags
  msg,            \* send_messages' local of that name
  seg,            \* kmalloc's best
  result,         \* what send_messages returns
  full,           \* can the mailbox take no mail
  mail,           \* the message the GPU has been sent and not answered
  main_pcb,
  pc, gpu         \* the next step of each side

cpuVars == <<prompt, program, call, values, msg, seg, result, main_pcb, pc>>
vars == <<heapVars, cpuVars, mem, full, mail, gpu>>

Codes == {"REQUEST", "RESPONSE_SUCCESS", "RESPONSE_ERROR"}
Words == Codes \cup {"junk", "size", "tag", "length", "zero", "end", "request", "answer"}

TypeOK ==
  /\ HeapTypeOK
  /\ prompt \in Machines /\ program \in Programs /\ call \in 1..Len(program) + 1
  /\ mem \in [Addr -> Words]
  /\ \A i \in DOMAIN values : values[i] \in Seq(Words)
  /\ msg \in Addr \cup {Nil} /\ seg \in Addr \cup {Nil}
  /\ result \in {-1, 0, 1, 2}
  /\ full \in BOOLEAN /\ mail \in Addr \cup {Nil}
  /\ main_pcb \in Addr \cup {Nil}
  /\ pc \in {"kmalloc", "split", "mark", "compose", "send", "check", "returned", "up", "wild"}
  /\ gpu \in {"idle", "answered"}

----------------------------------------------------------------------------
(* The layout of a message. *)

\* In words of four bytes.
get_value_buffer_len(tag) ==
  CASE tag \in {"FB_ALLOCATE_BUFFER",
                "FB_GET_PHYSICAL_DIMENSIONS", "FB_SET_PHYSICAL_DIMENSIONS",
                "FB_GET_VIRTUAL_DIMENSIONS", "FB_SET_VIRTUAL_DIMENSIONS"} -> 2
    [] tag \in {"FB_GET_BITS_PER_PIXEL", "FB_SET_BITS_PER_PIXEL",
                "FB_GET_BYTES_PER_ROW"} -> 1
    [] OTHER -> 0

\* The sums of the first 0, 1, ... numbers of a sequence.
Sums(s) ==
  LET sum[n \in 0..Len(s)] == IF n = 0 THEN 0 ELSE sum[n - 1] + s[n]
  IN  sum

\* A tag takes three words and its value buffer.
TagWords(array) == [i \in 1..Len(array) |-> 3 + get_value_buffer_len(array[i])]
TagsEnd(array, i) == Sums(TagWords(array))[i]

\* MUTANT: the word of the end tag is not counted.
bufsize_no_end(array) ==
  LET words == TagsEnd(array, Len(array)) + 2
  IN  words + (IF (words % 4) = 0 THEN 0 ELSE 4 - (words % 4))

\* All tags, the size, the code and the end tag, rounded up to 16 bytes.
bufsize(array) ==
  LET words == TagsEnd(array, Len(array)) + 3
  IN  words + (IF (words % 4) = 0 THEN 0 ELSE 4 - (words % 4))

\* No array of gpu_init is longer than the heap.
ASSUME ArraysAssumption ==
  \A p \in Programs : \A i \in 1..Len(p) : bufsize(p[i]) \in 0..HeapSize

\* The words send_messages writes, for tags with value buffers `bufs`.
Message(bufs) ==
  LET upto[i \in 0..Len(bufs)] ==
        IF i = 0 THEN <<"size", "REQUEST">>
        ELSE upto[i - 1] \o <<"tag", "length", "zero">> \o bufs[i]
  IN  Append(upto[Len(bufs)], "end")

\* Where it writes them, given the pointer p, and where it looks for the answer:
\* the code, and the j-th word of the i-th value buffer.
MessageAt(p, bufs) == p + Header .. p + Header + Len(Message(bufs)) - 1
CodeAt(p) == p + Header + 1
ValueAt(p, array, i, j) == p + Header + 2 + TagsEnd(array, i - 1) + 3 + j - 1

\* The array being sent, and what its tags hold before the call.
tags == program[call]
Requested(array) == [i \in 1..Len(array) |->
                       [j \in 1..get_value_buffer_len(array[i]) |-> "request"]]

----------------------------------------------------------------------------
Init ==
  /\ heap_init
  /\ prompt \in Machines /\ program \in Programs /\ call = 1
  /\ mem = [a \in Addr |-> "junk"]
  /\ values = Requested(program[1])
  /\ msg = Nil /\ seg = Nil /\ result = 0 /\ main_pcb = Nil
  /\ full \in BOOLEAN /\ mail = Nil
  /\ pc = "kmalloc" /\ gpu = "idle"

\* Is it send_messages that asks for memory, or process_init?
Sending == call <= Len(program)
Asked   == IF Sending THEN bufsize(tags) ELSE PcbBytes

KmallocScan ==
  /\ pc = "kmalloc"
  /\ \E b \in best(needed(Asked)) :
       /\ seg' = b
       /\ pc' = IF splits(b, needed(Asked)) THEN "split" ELSE "mark"
  /\ UNCHANGED <<heapVars, mem, prompt, program, call, values, msg, result, full, mail,
                 main_pcb, gpu>>

KmallocSplit ==
  /\ pc = "split"
  /\ split(seg, needed(Asked))
  /\ pc' = "mark"
  /\ UNCHANGED <<mem, prompt, program, call, values, msg, seg, result, full, mail, main_pcb, gpu>>

\* A block behind the last segment is at NULL + 1.
KmallocReturn ==
  LET p == kmalloc_result(seg) IN
  /\ pc = "mark"
  /\ mark(seg)
  /\ IF Sending THEN msg' = p /\ UNCHANGED main_pcb
                ELSE main_pcb' = p /\ UNCHANGED msg
  /\ pc' = CASE p = Nil -> "wild" [] p # Nil /\ Sending -> "compose"
             [] OTHER -> "up"
  /\ UNCHANGED <<mem, prompt, program, call, values, seg, result, full, mail, gpu>>

\* send_messages looks at what it got, process_init does not.
KmallocFails ==
  /\ pc = "kmalloc" /\ best(needed(Asked)) = {}
  /\ \/ Sending /\ pc' = "returned" /\ result' = -1
     \/ ~Sending /\ pc' = "wild" /\ UNCHANGED result
  /\ UNCHANGED <<heapVars, mem, prompt, program, call, values, msg, seg, full, mail, main_pcb, gpu>>

\* The space behind the next header may be smaller than what was asked for: at
\* the end of the heap the message runs over it.
Compose ==
  /\ pc = "compose"
  /\ \/ /\ MessageAt(msg, values) \subseteq Addr
        /\ mem' = [a \in Addr |-> IF a \in MessageAt(msg, values)
                                  THEN Message(values)[a - (msg + Header) + 1] ELSE mem[a]]
        /\ pc' = "send"
     \/ ~(MessageAt(msg, values) \subseteq Addr) /\ pc' = "wild" /\ UNCHANGED mem
  /\ UNCHANGED <<heapVars, prompt, program, call, values, msg, seg, result, full, mail,
                 main_pcb, gpu>>

\* MUTANT: the test of the full bit is the wrong way round.
MailboxSend_inverted ==
  /\ pc = "send" /\ full
  /\ mail' = msg
  /\ pc' = "check"
  /\ UNCHANGED <<heapVars, mem, prompt, program, call, values, msg, seg, result, full,
                 main_pcb, gpu>>

\* mailbox_send waits until the mailbox takes the mail.
MailboxSend ==
  /\ pc = "send" /\ ~full
  /\ mail' = msg
  /\ pc' = "check"
  /\ UNCHANGED <<heapVars, mem, prompt, program, call, values, msg, seg, result, full,
                 main_pcb, gpu>>

----------------------------------------------------------------------------
(* The answer.  mailbox_read is commented out: the code is looked at once. *)

Looks == pc = "check" /\ (prompt => mail = Nil)

\* kfree(msg): the loops of kfree stop at once (KfreeStopsAtOnce).
Return(res) ==
  /\ release(msg)
  /\ result' = res
  /\ pc' = "returned"
  /\ UNCHANGED <<mem, prompt, program, call, msg, seg, full, mail, main_pcb, gpu>>

\* MUTANT: only an error is looked for.
NoAnswer_skipped ==
  /\ Looks /\ mem[CodeAt(msg)] = "REQUEST"
  /\ values' = [i \in DOMAIN values |-> [j \in DOMAIN values[i] |->
                  mem[ValueAt(msg, tags, i, j)]]]
  /\ Return(0)

NoAnswer ==
  /\ Looks /\ mem[CodeAt(msg)] = "REQUEST"
  /\ Return(1)
  /\ UNCHANGED values

ErrorAnswer ==
  /\ Looks /\ mem[CodeAt(msg)] = "RESPONSE_ERROR"
  /\ Return(2)
  /\ UNCHANGED values

\* The value buffers are copied back into the caller's tags.
CopyBack ==
  /\ Looks /\ mem[CodeAt(msg)] = "RESPONSE_SUCCESS"
  /\ values' = [i \in DOMAIN values |-> [j \in DOMAIN values[i] |->
                  mem[ValueAt(msg, tags, i, j)]]]
  /\ Return(0)

\* gpu_init sends the next array after a success and gives up otherwise.
GpuInit ==
  /\ pc = "returned"
  /\ pc' = "kmalloc"
  /\ call' = IF result = 0 THEN call + 1 ELSE Len(program) + 1
  /\ values' = IF call' <= Len(program) THEN Requested(program[call']) ELSE values
  /\ UNCHANGED <<heapVars, mem, prompt, program, msg, seg, result, full, mail, main_pcb, gpu>>

----------------------------------------------------------------------------
(* The GPU. *)

\* The words of the message at p, up to its end tag.
MailWords(p) ==
  LET ends == {a \in Addr : a > CodeAt(p) /\ mem[a] = "end"}
  IN  p + Header .. (CHOOSE a \in ends : \A b \in ends : a <= b)

\* Words that belong to headers of the heap, or to blocks other than mail's.
Occupied ==
  UNION {a..a + Header - 1 : a \in Segments}
    \cup (IF main_pcb = Nil THEN {}
          ELSE main_pcb + Header .. main_pcb + Header + PcbBytes - 1)

GpuDrains == full /\ full' = FALSE /\ UNCHANGED <<heapVars, cpuVars, mem, mail, gpu>>

\* The value buffers are filled in, and only then the code is set.
GpuFills ==
  /\ pc # "wild" /\ mail # Nil /\ gpu = "idle"
  /\ \/ /\ MailWords(mail) \cap Occupied = {}
        /\ mem' = [a \in Addr |-> IF a \in MailWords(mail) /\ mem[a] = "request"
                                  THEN "answer" ELSE mem[a]]
        /\ gpu' = "answered"
        /\ UNCHANGED cpuVars
     \/ /\ MailWords(mail) \cap Occupied # {}
        /\ pc' = "wild"
        /\ UNCHANGED <<mem, prompt, program, call, values, msg, seg, result, main_pcb, gpu>>
  /\ UNCHANGED <<heapVars, full, mail>>

GpuAnswers ==
  /\ pc # "wild" /\ mail # Nil
  /\ \/ gpu = "answered" /\ mem' = [mem EXCEPT ![CodeAt(mail)] = "RESPONSE_SUCCESS"]
     \/ gpu = "idle" /\ mem' = [mem EXCEPT ![CodeAt(mail)] = "RESPONSE_ERROR"]
  /\ mail' = Nil
  /\ gpu' = "idle"
  /\ UNCHANGED <<heapVars, cpuVars, full>>

Cpu ==
  \/ KmallocScan \/ KmallocSplit \/ KmallocReturn \/ KmallocFails
  \/ Compose \/ MailboxSend \/ NoAnswer \/ ErrorAnswer \/ CopyBack \/ GpuInit

Gpu == GpuDrains \/ GpuFills \/ GpuAnswers

Next == Cpu \/ Gpu

Spec == Init /\ [][Next]_vars

\* The core runs, and the GPU gets round to its mail.
FairSpec == Spec /\ WF_vars(Cpu) /\ WF_vars(Gpu)

----------------------------------------------------------------------------
(* Properties. *)

\* Whatever the program asks for, there is room for it and as much again: the
\* kernel's heap is 2^20 bytes.
Asks == [i \in 1..Len(program) + 1 |->
           needed(IF i <= Len(program) THEN bufsize(program[i]) ELSE PcbBytes)]
HasRoom ==
  \A i \in DOMAIN Asks :
    LET left == HeapSize - Sums(Asks)[i] IN left > 2 * Header /\ left >= Asks[i]

\* The loops of send_messages agree on the size of the buffer: nothing of the
\* message, its end tag included, lies outside the block it was given.
MessageFits ==
  HasRoom /\ pc \in {"compose", "send", "check"} =>
    /\ Len(Message(values)) <= bufsize(tags)
    /\ MessageAt(msg, values) \subseteq Addr

\* A call that returns 0 has put the GPU's answer, and nothing else, into every
\* value of the caller's array, however late the GPU is.
ZeroMeansAnswered ==
  pc = "returned" /\ result = 0 =>
    \A i \in DOMAIN values : \A j \in DOMAIN values[i] : values[i][j] = "answer"

\* What kfree gets is the header of the last segment behind an allocated one:
\* it has nothing to coalesce, and what it marks free is free already, so the
\* memory of every message is lost.
KfreeStopsAtOnce ==
  pc = "check" => ~free_on_left(msg) /\ ~free_on_right(msg) /\ ~is_allocated[msg]

\* While the kernel boots with room in its heap and a GPU that is in time, no
\* message lies at NULL or past the end of the heap, and no answer meets the
\* header of a segment or the block of somebody else.
MessageHasAPlace == prompt /\ HasRoom => pc # "wild"

\* On such a machine, whatever the GPU answers, the kernel goes on to
\* process_init and past it.
BootGoesOn == (prompt /\ HasRoom) ~> (pc = "up")

\* mailbox.h:106: send_messages "will send all of the tags given, and will
\* populate that array with the responses": an answer finds it waiting.
AnswerIsAwaited == [][GpuAnswers => pc = "check"]_vars

\* gpu.c:69: "this sometimes does not work, so try in a loop".
TriesAgain == prompt /\ pc = "up" => result = 0

=============================================================================
