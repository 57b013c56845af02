-------------------------------- MODULE Heap --------------------------------
(***************************************************************************)
(* The kernel heap (kernel/mem.c) and a client that asks for blocks, fills *)
(* them with data and gives them back.  The loops of kfree take one step   *)
(* per turn.                                                               *)
(***************************************************************************)
EXTENDS HeapOps, FiniteSets

CONSTANTS
  Requests,  \* the sizes the client asks for
  Clients,   \* is a client one that keeps to what the kernel does while it boots
  MaxCalls   \* bound: calls of kmalloc

\* No request is so large that its size with the header wraps around.
ASSUME ClientAssumption ==
  Requests \subseteq 0..Word - 2 * Header /\ Clients \subseteq BOOLEAN /\ MaxCalls \in Nat

VARIABLES
  boot,    \* is this client one
  blocks,  \* what the client holds: [ptr, bytes], by number of the call
  calls,   \* calls of kmalloc so far
  req,     \* the size asked for, while kmalloc runs
  seg,     \* kmalloc's best, kfree's seg
  pc       \* "idle", the next step of kmalloc or kfree, or "wild"

vars == <<heapVars, boot, blocks, calls, req, seg, pc>>

Block == [ptr : Addr \cup {Nil}, bytes : Requests]

TypeOK ==
  /\ HeapTypeOK /\ boot \in Clients
  /\ \A i \in DOMAIN blocks : i \in 1..calls /\ blocks[i] \in Block
  /\ calls \in 0..MaxCalls
  /\ req \in Requests \cup {0}
  /\ seg \in Addr \cup {Nil}
  /\ pc \in {"idle", "split", "mark", "left", "right", "wild"}

Init ==
  /\ heap_init
  /\ boot \in Clients
  /\ blocks = <<>>
  /\ calls = 0
  /\ req = 0
  /\ seg = Nil
  /\ pc = "idle"

\* The addresses of a header, and those of a block.
HeaderBytes(a) == a .. a + Header - 1
BlockBytes(b) == b.ptr + Header .. b.ptr + Header + b.bytes - 1

\* A block that stays in the heap and off the headers.
Intact(b) ==
  /\ b.ptr # Nil
  /\ b.ptr + Header + b.bytes <= HeapSize
  /\ \A a \in Segments : BlockBytes(b) \cap HeaderBytes(a) = {}

----------------------------------------------------------------------------
\* The kernel's own calls while it boots: the heap is so large that after a block
\* another of its size would fit; a request is at least as large as every block
\* that is held (mailbox buffers come first and are given back before the pcbs are
\* asked for); and only the last block is given back.
MayRequest(bytes) ==
  boot => /\ \E b \in best(needed(bytes)) :
               /\ splits(b, needed(bytes))
               /\ diff(b, needed(bytes)) >= needed(bytes)
          /\ \A i \in DOMAIN blocks : blocks[i].bytes <= bytes
MayFree(i) == boot => i = calls

\* kmalloc as far as its search for the best segment.
KmallocScan(bytes) ==
  LET n == needed(bytes) IN
  /\ pc = "idle" /\ calls < MaxCalls
  /\ MayRequest(bytes)
  /\ \E b \in best(n) :
       /\ seg' = b
       /\ pc' = IF splits(b, n) THEN "split" ELSE "mark"
  /\ req' = bytes
  /\ UNCHANGED <<heapVars, boot, blocks, calls>>

KmallocSplit ==
  /\ pc = "split"
  /\ seg + needed(req) \in Addr
  /\ split(seg, needed(req))
  /\ pc' = "mark"
  /\ UNCHANGED <<boot, blocks, calls, req, seg>>

\* Once the merges have made a size too large, the rest may begin behind the heap.
KmallocSplitOutside ==
  /\ pc = "split"
  /\ seg + needed(req) \notin Addr
  /\ pc' = "wild"
  /\ UNCHANGED <<heapVars, boot, blocks, calls, req, seg>>

KmallocReturn ==
  /\ pc = "mark"
  /\ mark(seg)
  /\ calls' = calls + 1
  /\ blocks' = [i \in DOMAIN blocks \cup {calls'} |->
                  IF i = calls' THEN [ptr |-> kmalloc_result(seg), bytes |-> req]
                                ELSE blocks[i]]
  /\ req' = 0 /\ seg' = Nil /\ pc' = "idle"
  /\ UNCHANGED boot

\* "No free memory!"
KmallocFails(bytes) ==
  /\ pc = "idle" /\ calls < MaxCalls
  /\ MayRequest(bytes)
  /\ best(needed(bytes)) = {}
  /\ calls' = calls + 1
  /\ UNCHANGED <<heapVars, boot, blocks, req, seg, pc>>

\* The client fills its block; over a header, the chain is lost.
Overwrite(i) ==
  /\ pc = "idle"
  /\ ~Intact(blocks[i])
  /\ pc' = "wild"
  /\ UNCHANGED <<heapVars, boot, blocks, calls, req, seg>>

\* kfree up to its loops.  The pointer NULL + 1 has the vectors for a header.
Kfree(i) ==
  LET b == blocks[i] IN
  /\ pc = "idle"
  /\ MayFree(i)
  /\ blocks' = [j \in DOMAIN blocks \ {i} |-> blocks[j]]
  /\ \/ b.ptr # Nil /\ release(b.ptr) /\ pc' = "left" /\ seg' = b.ptr
     \/ b.ptr = Nil /\ pc' = "wild" /\ UNCHANGED <<heapVars, seg>>
  /\ UNCHANGED <<boot, calls, req>>

CoalesceLeft ==
  /\ pc = "left" /\ free_on_left(seg)
  /\ merge_left(seg)
  /\ seg' = hprev[seg]
  /\ UNCHANGED <<boot, blocks, calls, req, pc>>

LeftDone ==
  /\ pc = "left" /\ ~free_on_left(seg)
  /\ pc' = "right"
  /\ UNCHANGED <<heapVars, boot, blocks, calls, req, seg>>

\* Without a segment behind the next one the loop follows NULL.
CoalesceRight ==
  /\ pc = "right" /\ free_on_right(seg)
  /\ \/ /\ hnext[hnext[seg]] # Nil
        /\ merge_right(seg)
        /\ seg' = hnext[hnext[seg]]
        /\ UNCHANGED pc
     \/ /\ hnext[hnext[seg]] = Nil
        /\ pc' = "wild"
        /\ UNCHANGED <<heapVars, seg>>
  /\ UNCHANGED <<boot, blocks, calls, req>>

KfreeReturn ==
  /\ pc = "right" /\ ~free_on_right(seg)
  /\ pc' = "idle" /\ seg' = Nil
  /\ UNCHANGED <<heapVars, boot, blocks, calls, req>>

Loops == CoalesceLeft \/ LeftDone \/ CoalesceRight \/ KfreeReturn

Next ==
  \/ \E bytes \in Requests : KmallocScan(bytes) \/ KmallocFails(bytes)
  \/ \E i \in DOMAIN blocks : Overwrite(i) \/ Kfree(i)
  \/ KmallocSplit \/ KmallocSplitOutside \/ KmallocReturn
  \/ Loops

Spec == Init /\ [][Next]_vars

----------------------------------------------------------------------------
(* Properties.  The first two hold of the client that keeps to what the    *)
(* kernel does while it boots; any other client can break them (see README).   *)

\* The segments follow one another from the start of the heap to its end, each
\* where the one before it ends: nothing is lost and nothing counted twice
\* (mem.c:23, "Includes this header").
Tiling ==
  boot /\ pc = "idle" =>
    \A a \in Segments :
      IF hnext[a] = Nil THEN a + segment_size[a] = HeapSize
                        ELSE hnext[a] = a + segment_size[a]

\* What the client holds is its own: in the heap, apart from the headers and
\* from every other block.
BlocksDisjoint ==
  boot => \A i \in DOMAIN blocks :
    /\ Intact(blocks[i])
    /\ \A j \in DOMAIN blocks :
         i # j => BlockBytes(blocks[i]) \cap BlockBytes(blocks[j]) = {}

\* mem.c:15-16: "impliment kmalloc as a linked list of allocated segments": a
\* block lies in the space of a segment that is allocated.
BlockInItsSegment ==
  pc = "idle" => \A i \in DOMAIN blocks : is_allocated[blocks[i].ptr]

\* mem.c:185, 192: "try to coalesce" free neighbours: kfree only ever follows
\* links of the chain.
CoalescingIsSafe == [][Loops => pc' # "wild"]_vars

=============================================================================
