--------------------------- MODULE ProcessProofs ---------------------------
(***************************************************************************)
(* Proofs about Process for any number of threads, pages and calls of      *)
(* create_kernel_thread, any thread being allowed to create and to return: *)
(* the lock words tell who is inside, the tick survives, no two threads    *)
(* share a page, and with one creator no two share a process ID.  For the  *)
(* two threads of kernel_main: none of them is lost.  Until a thread is    *)
(* reaped: what run_queue links to can be switched to.                     *)
(***************************************************************************)
EXTENDS Process, ListOpsProofs, SequenceTheorems, FiniteSetTheorems

\* What the handlers carry in their locals from one step to the next.
HandlerInv ==
  /\ cpu \in {"thread", "schedule", "reap", "return"} => current_process = running
  /\ cpu \in {"append", "switch", "free_page", "kfree", "left", "right", "remove",
              "reap_switch"}
       => current_process = new /\ old = running
  /\ cpu = "thread" => ~disabled /\ timer
  /\ cpu = "return" => timer

ProcessIInv == TypeOK /\ HandlerInv

----------------------------------------------------------------------------
LEMMA ConstantTypes ==
  /\ Run \in List /\ All \in List
  /\ Run \in Locks /\ All \in Locks /\ Pages \in Locks
  /\ Run # All /\ Run # Pages /\ All # Pages
  /\ Node \subseteq Ref /\ Null \in Ref
BY ProcessAssumption DEF Run, All, Pages, Locks, Ref

LEMMA InitTypes == Init => ProcessIInv
<1> SUFFICES ASSUME Init PROVE ProcessIInv
  OBVIOUS
<1> USE ProcessAssumption, ListAssumption, ConstantTypes
<1>1. ListTypeOK
  <2>1. Main \in Ref /\ Junk \in Ref /\ Null \in Owner /\ Junk \in Owner
        /\ All \in Owner
    BY DEF Ref, Owner
  <2>2. PICK word \in {Null, Junk} :
          /\ next = [[r \in Ref |-> word] EXCEPT ![Null] = Main, ![Main] = Null]
          /\ prev = [[r \in Ref |-> word] EXCEPT ![Null] = Junk, ![Main] = Null]
          /\ container = [[r \in Ref |-> word] EXCEPT ![Null] = Junk, ![Main] = All]
    BY DEF Init
  <2>3. /\ next \in [Ref -> Ref] /\ prev \in [Ref -> Ref]
        /\ container \in [Ref -> Owner]
    BY <2>1, <2>2
  <2>4. /\ head \in [List -> Ref] /\ tail \in [List -> Ref]
        /\ size \in [List -> 0..MaxWord]
    BY <2>1 DEF Init
  <2> QED
    BY <2>3, <2>4 DEF ListTypeOK
<1>2. free_pages \in Seq(Page \cup {ZeroPage, EndPage})
  <2> DEFINE P == Page \cup {ZeroPage, EndPage}
  <2>1. free_pages \in {FirstPages, <<>>}
    BY DEF Init
  <2>2. FirstPages \in Seq(P)
    BY SeqMonotonic
  <2>3. <<>> \in Seq(P)
    OBVIOUS
  <2> QED
    BY <2>1, <2>2, <2>3
<1>3. /\ lock \in [Locks -> BOOLEAN]
      /\ stack_page \in [Node -> Page \cup {ZeroPage, EndPage}]
      /\ pid \in [Node -> Nat] /\ next_proc_num \in Nat
      /\ saved_state \in [Node -> {"none", "built", "saved"}]
      /\ pc \in [Node -> Creating \cup {"work"}]
      /\ pcb \in [Node -> Ref] /\ num \in [Node -> Nat] /\ made \in 0..MaxCreates
  BY DEF Init
<1>4. /\ current_process = Main /\ running = Main
      /\ disabled = FALSE /\ timer = TRUE
      /\ cpu = "thread" /\ new = Null /\ old = Null
  BY DEF Init
<1>5. TypeOK
  BY <1>1, <1>2, <1>3, <1>4 DEF TypeOK
<1> QED
  BY <1>4, <1>5 DEF ProcessIInv, HandlerInv

\* create_kernel_thread leaves the core to its thread.
LEMMA StepKeepsCpu ==
  ASSUME ProcessIInv, NEW t \in Node, NEW at, NEW to \in Creating \cup {"work"},
         Step(t, at, to)
  PROVE  HandlerInv' /\ pc' \in [Node -> Creating \cup {"work"}]
         /\ UNCHANGED cpuVars
BY DEF ProcessIInv, HandlerInv, TypeOK, Step, cpuVars

LEMMA CreateTypes ==
  ASSUME ProcessIInv, NEW t \in Node, Create(t) PROVE ProcessIInv'
<1> USE ConstantTypes
<1> DEFINE P == Page \cup {ZeroPage, EndPage}
<1>0. TypeOK /\ pcb[t] \in Ref /\ num[t] \in Nat
  BY DEF ProcessIInv, TypeOK
<1>1. CASE KmallocScan(t) \/ KmallocSplit(t) \/ KmallocReturn(t)
  <2>1. HandlerInv' /\ pc' \in [Node -> Creating \cup {"work"}]
        /\ UNCHANGED cpuVars
    <3>1. \E at \in {"work", "split", "mark"} : \E to \in {"split", "mark", "alloc_page"} :
            Step(t, at, to)
      BY <1>1 DEF KmallocScan, KmallocSplit, KmallocReturn
    <3>2. PICK at \in {"work", "split", "mark"}, to \in {"split", "mark", "alloc_page"} :
            Step(t, at, to)
      BY <3>1
    <3>3. to \in Creating \cup {"work"}
      BY DEF Creating
    <3> QED
      BY <3>2, <3>3, StepKeepsCpu
  <2>2. made' \in 0..MaxCreates
    BY <1>0, <1>1, ProcessAssumption
    DEF KmallocScan, KmallocSplit, KmallocReturn, TypeOK
  <2>4. num' \in [Node -> Nat]
    <3>1. CASE KmallocScan(t)
      <4>1. PICK b \in best(needed(PcbBytes)) : num' = [num EXCEPT ![t] = b]
        BY <3>1 DEF KmallocScan
      <4>2. b \in Nat
        BY <4>1, HeapAssumption DEF best, Addr
      <4> QED
        BY <1>0, <4>1, <4>2 DEF TypeOK
    <3> QED
      BY <1>0, <1>1, <3>1 DEF KmallocSplit, KmallocReturn, TypeOK
  <2>5. pcb' \in [Node -> Ref]
    BY <1>0, <1>1 DEF KmallocScan, KmallocSplit, KmallocReturn, TypeOK
  <2> QED
    BY <1>0, <1>1, <2>1, <2>2, <2>4, <2>5
    DEF KmallocScan, KmallocSplit, KmallocReturn, ProcessIInv, TypeOK, ListTypeOK,
        listVars, cpuVars, memVars
<1>2. CASE PageCheck(t)
  <2>1. HandlerInv' /\ pc' \in [Node -> Creating \cup {"work"}]
        /\ UNCHANGED cpuVars
    BY <1>2, StepKeepsCpu DEF PageCheck, Creating
  <2>2. stack_page' \in [Node -> P]
    BY <1>0, <1>2 DEF PageCheck, TypeOK
  <2> QED
    BY <1>0, <1>2, <2>1, <2>2
    DEF PageCheck, ProcessIInv, TypeOK, ListTypeOK, listVars, cpuVars
<1>3. CASE PageLock(t)
  <2>1. HandlerInv' /\ pc' \in [Node -> Creating \cup {"work"}]
        /\ UNCHANGED cpuVars
    BY <1>3, StepKeepsCpu DEF PageLock, Creating
  <2> QED
    BY <1>0, <1>3, <2>1
    DEF PageLock, spin_lock, ProcessIInv, TypeOK, ListTypeOK, listVars, cpuVars,
        memVars
<1>4. CASE PagePop(t)
  <2>1. HandlerInv' /\ pc' \in [Node -> Creating \cup {"work"}]
        /\ UNCHANGED cpuVars
    BY <1>4, StepKeepsCpu DEF PagePop, Creating
  <2>2. free_pages \in Seq(P) /\ free_pages # <<>>
    BY <1>0, <1>4 DEF PagePop, PageAtHead, TypeOK
  <2>3. Head(free_pages) \in P /\ Tail(free_pages) \in Seq(P)
    BY <2>2, HeadTailProperties
  <2>4. stack_page' \in [Node -> P] /\ free_pages' \in Seq(P)
    BY <1>0, <1>4, <2>3 DEF PagePop, TypeOK
  <2> QED
    BY <1>0, <1>4, <2>1, <2>4
    DEF PagePop, spin_unlock, ProcessIInv, TypeOK, ListTypeOK, listVars, cpuVars
<1>5. CASE PagePopWild(t) \/ KmallocReuses(t) \/ KmallocFails(t)
  BY <1>5 DEF PagePopWild, KmallocReuses, KmallocFails, ProcessIInv, HandlerInv, TypeOK, ListTypeOK,
              listVars, memVars, callVars
<1>6. CASE PidRead(t)
  <2>1. HandlerInv' /\ pc' \in [Node -> Creating \cup {"work"}]
        /\ UNCHANGED cpuVars
    BY <1>6, StepKeepsCpu DEF PidRead, Creating
  <2> QED
    BY <1>0, <1>6, <2>1
    DEF PidRead, ProcessIInv, TypeOK, ListTypeOK, listVars, cpuVars, memVars
<1>7. CASE PidWrite(t)
  <2>1. HandlerInv' /\ pc' \in [Node -> Creating \cup {"work"}]
        /\ UNCHANGED cpuVars
    BY <1>7, StepKeepsCpu DEF PidWrite, Creating
  <2>2. next_proc_num' \in Nat
    BY <1>0, <1>7 DEF PidWrite
  <2>3. pid' \in [Node -> Nat]
    BY <1>0, <1>7 DEF PidWrite, TypeOK
  <2>4. saved_state' \in [Node -> {"none", "built", "saved"}]
    BY <1>0, <1>7 DEF PidWrite, TypeOK
  <2> QED
    BY <1>0, <1>7, <2>1, <2>2, <2>3, <2>4
    DEF PidWrite, ProcessIInv, TypeOK, ListTypeOK, listVars, cpuVars
<1>8. CASE AllLock(t)
  <2>1. HandlerInv' /\ pc' \in [Node -> Creating \cup {"work"}]
        /\ UNCHANGED cpuVars
    BY <1>8, StepKeepsCpu DEF AllLock, Creating
  <2> QED
    BY <1>0, <1>8, <2>1
    DEF AllLock, spin_lock, ProcessIInv, TypeOK, ListTypeOK, listVars, cpuVars,
        memVars
<1>9. CASE AllLink(t)
  <2>1. HandlerInv' /\ pc' \in [Node -> Creating \cup {"work"}]
        /\ UNCHANGED cpuVars
    BY <1>9, StepKeepsCpu DEF AllLink, Creating
  <2>2. ListTypeOK'
    BY <1>0, <1>9, AppendBehindType DEF AllLink, TypeOK
  <2> QED
    BY <1>0, <1>9, <2>1, <2>2
    DEF AllLink, ProcessIInv, TypeOK, cpuVars, memVars
<1>10. CASE AllRest(t)
  <2>1. HandlerInv' /\ pc' \in [Node -> Creating \cup {"work"}]
        /\ UNCHANGED cpuVars
    BY <1>10, StepKeepsCpu DEF AllRest, Creating
  <2>2. ListTypeOK'
    BY <1>0, <1>10, AppendRestType DEF AllRest, TypeOK
  <2> QED
    BY <1>0, <1>10, <2>1, <2>2
    DEF AllRest, spin_unlock, ProcessIInv, TypeOK, cpuVars, memVars
<1>11. CASE RunLock(t)
  <2>1. HandlerInv' /\ pc' \in [Node -> Creating \cup {"work"}]
        /\ UNCHANGED cpuVars
    BY <1>11, StepKeepsCpu DEF RunLock, Creating
  <2> QED
    BY <1>0, <1>11, <2>1
    DEF RunLock, spin_lock, ProcessIInv, TypeOK, ListTypeOK, listVars, cpuVars,
        memVars
<1>12. CASE RunLink(t)
  <2>1. HandlerInv' /\ pc' \in [Node -> Creating \cup {"work"}]
        /\ UNCHANGED cpuVars
    BY <1>12, StepKeepsCpu DEF RunLink, Creating
  <2>2. ListTypeOK'
    BY <1>0, <1>12, AppendLinksType DEF RunLink, TypeOK
  <2> QED
    BY <1>0, <1>12, <2>1, <2>2
    DEF RunLink, ProcessIInv, TypeOK, cpuVars, memVars
<1>13. CASE RunCount(t)
  <2>1. HandlerInv' /\ pc' \in [Node -> Creating \cup {"work"}]
        /\ UNCHANGED cpuVars
    BY <1>13, StepKeepsCpu DEF RunCount, Creating
  <2>2. ListTypeOK'
    BY <1>0, <1>13, AppendCountType DEF RunCount, TypeOK
  <2> QED
    BY <1>0, <1>13, <2>1, <2>2
    DEF RunCount, ProcessIInv, TypeOK, cpuVars, memVars
<1>14. CASE RunUnlock(t)
  <2>1. HandlerInv' /\ pc' \in [Node -> Creating \cup {"work"}]
        /\ UNCHANGED cpuVars
    BY <1>14, StepKeepsCpu DEF RunUnlock, Creating
  <2> QED
    BY <1>0, <1>14, <2>1
    DEF RunUnlock, spin_unlock, ProcessIInv, TypeOK, ListTypeOK, listVars,
        cpuVars, memVars
<1> QED
  BY <1>1, <1>2, <1>3, <1>4, <1>5, <1>6, <1>7, <1>8, <1>9, <1>10, <1>11, <1>12,
     <1>13, <1>14 DEF Create

LEMMA HandlerTypes ==
  ASSUME ProcessIInv, Handler \/ TimerIrq \/ \E t \in Node : ThreadReturns(t)
  PROVE  ProcessIInv'
<1> USE ConstantTypes
<1> DEFINE P == Page \cup {ZeroPage, EndPage}
<1>0. TypeOK /\ HandlerInv
  BY DEF ProcessIInv
<1>1. CASE TimerIrq
  BY <1>0, <1>1
  DEF TimerIrq, Handle, ProcessIInv, HandlerInv, TypeOK, ListTypeOK, Handling,
      listVars, memVars, callVars
<1>2. CASE \E t \in Node : ThreadReturns(t)
  BY <1>0, <1>2
  DEF ThreadReturns, Handle, ProcessIInv, HandlerInv, TypeOK, ListTypeOK,
      Handling, listVars, memVars, callVars
<1>3. CASE ScheduleNone
  BY <1>0, <1>3
  DEF ScheduleNone, Handle, ProcessIInv, HandlerInv, TypeOK, ListTypeOK,
      Handling, listVars, memVars, callVars
<1>4. ASSUME NEW at \in {"schedule", "reap"}, NEW to \in {"append", "free_page"},
             next_thread(at, to)
      PROVE  ProcessIInv'
  <2>1. ListTypeOK' /\ head[Run] \in Ref
    BY <1>0, <1>4, PopType DEF next_thread, TypeOK, ListTypeOK
  <2>2. current_process = running /\ cpu = at
    BY <1>0, <1>4 DEF next_thread, Handle, HandlerInv
  <2>3. TypeOK'
    BY <1>0, <1>4, <2>1, <2>2
    DEF next_thread, through, Handle, TypeOK, Handling, memVars, callVars
  <2>4. HandlerInv'
    BY <1>4, <2>2 DEF next_thread, Handle, HandlerInv
  <2> QED
    BY <2>3, <2>4 DEF ProcessIInv
<1>5. CASE ScheduleAppend
  <2>1. ListTypeOK'
    BY <1>0, <1>5, AppendType DEF ScheduleAppend, TypeOK
  <2>2. TypeOK'
    BY <1>0, <1>5, <2>1
    DEF ScheduleAppend, through, Handle, TypeOK, Handling, memVars, callVars
  <2>3. HandlerInv'
    BY <1>0, <1>5 DEF ScheduleAppend, Handle, HandlerInv
  <2> QED
    BY <2>2, <2>3 DEF ProcessIInv
<1>6. ASSUME NEW at \in {"switch", "reap_switch"}, NEW left \in {"saved", "none"},
             switch_to_thread(at, left)
      PROVE  ProcessIInv'
  <2> DEFINE frames == [saved_state EXCEPT ![old] = left]
  <2>1. frames \in [Node -> {"none", "built", "saved"}]
    BY <1>0 DEF TypeOK
  <2>2. current_process = new
    BY <1>0, <1>6 DEF switch_to_thread, HandlerInv
  <2>3. CASE /\ new \in Node
             /\ running' = new
             /\ saved_state' = [frames EXCEPT ![new] = "none"]
             /\ disabled' = (frames[new] = "saved")
             /\ cpu' = IF frames[new] = "built" THEN "thread" ELSE "return"
    <3>1. /\ running' \in Node
          /\ saved_state' \in [Node -> {"none", "built", "saved"}]
          /\ cpu' \in {"thread", "return"}
      BY <2>1, <2>3
    <3>2. disabled' \in BOOLEAN /\ timer' = TRUE /\ timer' \in BOOLEAN
      BY <1>6, <2>3 DEF switch_to_thread
    <3>3. cpu' = "thread" => ~disabled'
      BY <2>3
    <3>4. current_process' = running'
      BY <1>6, <2>2, <2>3 DEF switch_to_thread
    <3>5. TypeOK'
      BY <1>0, <1>6, <3>1, <3>2
      DEF switch_to_thread, TypeOK, ListTypeOK, Handling, listVars, callVars
    <3>6. HandlerInv'
      BY <3>1, <3>2, <3>3, <3>4 DEF HandlerInv
    <3> QED
      BY <3>5, <3>6 DEF ProcessIInv
  <2>4. CASE /\ cpu' = "wild"
             /\ saved_state' = frames
             /\ UNCHANGED <<running, disabled>>
    <3>1. TypeOK'
      BY <1>0, <1>6, <2>1, <2>4
      DEF switch_to_thread, TypeOK, ListTypeOK, listVars, callVars
    <3>2. HandlerInv'
      BY <2>4 DEF HandlerInv
    <3> QED
      BY <3>1, <3>2 DEF ProcessIInv
  <2> QED
    BY <1>6, <2>3, <2>4 DEF switch_to_thread
<1>7. CASE ScheduleReturn
  BY <1>0, <1>7
  DEF ScheduleReturn, Handle, ProcessIInv, HandlerInv, TypeOK, ListTypeOK,
      Handling, listVars, memVars, callVars
<1>8. CASE ReapFreePage
  <2>1. old \in Node
    BY <1>0, <1>8 DEF ReapFreePage, Handle, HandlerInv, TypeOK
  <2>2. stack_page[old] \in P /\ free_pages \in Seq(P)
    BY <1>0, <2>1 DEF TypeOK
  <2>3. free_pages' \in Seq(P)
    BY <1>8, <2>2, AppendProperties DEF ReapFreePage
  <2>4. TypeOK'
    BY <1>0, <1>8, <2>3
    DEF ReapFreePage, through, Handle, TypeOK, ListTypeOK, Handling, listVars,
        memVars, callVars
  <2>5. HandlerInv'
    BY <1>0, <1>8 DEF ReapFreePage, Handle, HandlerInv
  <2> QED
    BY <2>4, <2>5 DEF ProcessIInv
<1>9. CASE ReapKfree
  <2>1. TypeOK'
    BY <1>0, <1>9
    DEF ReapKfree, Handle, TypeOK, ListTypeOK, Handling, listVars, callVars, memVars
  <2>2. HandlerInv'
    BY <1>0, <1>9 DEF ReapKfree, Handle, HandlerInv
  <2> QED
    BY <2>1, <2>2 DEF ProcessIInv
<1>10. CASE ReapRemove
  <2>1. ListTypeOK'
    BY <1>0, <1>10, RemoveType DEF ReapRemove, TypeOK
  <2>2. TypeOK'
    BY <1>0, <1>10, <2>1
    DEF ReapRemove, through, Handle, TypeOK, Handling, memVars, callVars
  <2>3. HandlerInv'
    BY <1>0, <1>10 DEF ReapRemove, Handle, HandlerInv
  <2> QED
    BY <2>2, <2>3 DEF ProcessIInv
<1>11. CASE ReapLeft \/ ReapRight
  <2>1. TypeOK'
    BY <1>0, <1>11
    DEF ReapLeft, ReapRight, Handle, TypeOK, ListTypeOK, Handling, listVars,
        callVars, memVars
  <2>2. HandlerInv'
    BY <1>0, <1>11 DEF ReapLeft, ReapRight, Handle, HandlerInv
  <2> QED
    BY <2>1, <2>2 DEF ProcessIInv
<1> QED
  BY <1>1, <1>2, <1>3, <1>4, <1>5, <1>6, <1>7, <1>8, <1>9, <1>10, <1>11
  DEF Handler, SchedulePop, ReapPop, ScheduleSwitch, ReapSwitch

LEMMA TypeStep == ProcessIInv /\ [Next]_vars => ProcessIInv'
<1> SUFFICES ASSUME ProcessIInv, [Next]_vars PROVE ProcessIInv'
  OBVIOUS
<1>1. CASE UNCHANGED vars
  BY <1>1 DEF vars, ProcessIInv, HandlerInv, TypeOK, ListTypeOK, listVars,
              memVars, cpuVars, callVars
<1> QED
  BY <1>1, CreateTypes, HandlerTypes DEF Next

\* Every variable keeps its type, however the threads interleave and however
\* damaged the lists are.
THEOREM TypeCorrect == Spec => []TypeOK
<1>1. ProcessIInv => TypeOK
  BY DEF ProcessIInv
<1> QED
  BY <1>1, InitTypes, TypeStep, PTL DEF Spec

\* The timer interrupt always comes again: whoever controls the core, fresh or
\* resumed, is the current process, has IRQs enabled and a quantum running.
THEOREM Preemptible == Spec => []ThreadIsPreemptible
<1>1. ProcessIInv => ThreadIsPreemptible
  BY DEF ProcessIInv, HandlerInv, ThreadIsPreemptible
<1> QED
  BY <1>1, InitTypes, TypeStep, PTL DEF Spec

----------------------------------------------------------------------------
(* The locks. *)

LEMMA CriticalSteps ==
  /\ Locks = {Run, All, Pages}
  /\ Critical[Pages] = {"pop_page"}
  /\ Critical[All] = {"link_all", "rest_all"}
  /\ Critical[Run] = {"link_run", "count_run", "unlock_run"}
BY ConstantTypes DEF Critical, Locks

\* A step that neither takes nor releases a lock.
LEMMA Moves ==
  ASSUME TypeOK, LockHeldByOne, NEW t \in Node, NEW at, NEW to, Step(t, at, to),
         \A k \in Locks : at \in Critical[k] <=> to \in Critical[k],
         UNCHANGED lock
  PROVE  LockHeldByOne'
<1>1. \A u \in Node : pc'[u] = IF u = t THEN to ELSE pc[u]
  BY DEF Step, TypeOK
<1>2. pc[t] = at
  BY DEF Step
<1>3. \A k \in Locks : \A u \in Node : pc'[u] \in Critical[k] <=> pc[u] \in Critical[k]
  BY <1>1, <1>2
<1> QED
  BY <1>3 DEF LockHeldByOne

\* spin_lock(k): k was free, so nobody was inside.
LEMMA Enters ==
  ASSUME TypeOK, LockHeldByOne, NEW t \in Node, NEW at, NEW to, Step(t, at, to),
         NEW k \in Locks, spin_lock(k),
         \A j \in Locks : at \notin Critical[j],
         \A j \in Locks : to \in Critical[j] <=> j = k
  PROVE  LockHeldByOne'
<1>1. \A u \in Node : pc'[u] = IF u = t THEN to ELSE pc[u]
  BY DEF Step, TypeOK
<1>2. pc[t] = at
  BY DEF Step
<1>3. \A j \in Locks : lock'[j] <=> j # k /\ lock[j]
  BY DEF spin_lock, TypeOK
<1>4. \A u \in Node : pc'[u] \in Critical[k] <=> u = t
  BY <1>1 DEF LockHeldByOne, spin_lock
<1>5. \A j \in Locks \ {k} : \A u \in Node :
        pc'[u] \in Critical[j] <=> pc[u] \in Critical[j]
  BY <1>1, <1>2
<1> QED
  BY <1>3, <1>4, <1>5 DEF LockHeldByOne

\* spin_unlock(k) by the thread inside.
LEMMA Leaves ==
  ASSUME TypeOK, LockHeldByOne, NEW t \in Node, NEW at, NEW to, Step(t, at, to),
         NEW k \in Locks, spin_unlock(k),
         \A j \in Locks : at \in Critical[j] <=> j = k,
         \A j \in Locks : to \notin Critical[j]
  PROVE  LockHeldByOne'
<1>1. \A u \in Node : pc'[u] = IF u = t THEN to ELSE pc[u]
  BY DEF Step, TypeOK
<1>2. pc[t] = at
  BY DEF Step
<1>3. \A j \in Locks : lock'[j] <=> j = k \/ lock[j]
  BY DEF spin_unlock, TypeOK
<1>4. \A u \in Node : pc'[u] \notin Critical[k]
  BY <1>1, <1>2 DEF LockHeldByOne
<1>5. \A j \in Locks \ {k} : \A u \in Node :
        pc'[u] \in Critical[j] <=> pc[u] \in Critical[j]
  BY <1>1, <1>2
<1> QED
  BY <1>3, <1>4, <1>5 DEF LockHeldByOne

LEMMA LockStep ==
  ProcessIInv /\ LockHeldByOne /\ [Next]_vars => LockHeldByOne'
<1> SUFFICES ASSUME ProcessIInv, LockHeldByOne, [Next]_vars
             PROVE  LockHeldByOne'
  OBVIOUS
<1> USE ConstantTypes, CriticalSteps
<1>0. TypeOK
  BY DEF ProcessIInv
<1>1. ASSUME UNCHANGED <<pc, lock>> PROVE LockHeldByOne'
  BY <1>1 DEF LockHeldByOne
<1>2. ASSUME NEW t \in Node, Create(t) PROVE LockHeldByOne'
  <2>1. CASE KmallocScan(t) \/ KmallocSplit(t) \/ KmallocReturn(t)
    <3>1. PICK at \in {"work", "split", "mark"}, to \in {"split", "mark", "alloc_page"} :
            Step(t, at, to)
      BY <2>1 DEF KmallocScan, KmallocSplit, KmallocReturn
    <3> QED
      BY <1>0, <2>1, <3>1, Moves DEF KmallocScan, KmallocSplit, KmallocReturn
  <2>2. CASE PageCheck(t)
    BY <1>0, <2>2, Moves DEF PageCheck
  <2>3. CASE PageLock(t)
    BY <1>0, <2>3, Enters DEF PageLock
  <2>4. CASE PagePop(t)
    BY <1>0, <2>4, Leaves DEF PagePop
  <2>5. CASE PagePopWild(t) \/ KmallocReuses(t) \/ KmallocFails(t)
    BY <1>1, <2>5 DEF PagePopWild, KmallocReuses, KmallocFails, callVars
  <2>6. CASE PidRead(t)
    BY <1>0, <2>6, Moves DEF PidRead
  <2>7. CASE PidWrite(t)
    BY <1>0, <2>7, Moves DEF PidWrite
  <2>8. CASE AllLock(t)
    BY <1>0, <2>8, Enters DEF AllLock
  <2>9. CASE AllLink(t)
    BY <1>0, <2>9, Moves DEF AllLink
  <2>10. CASE AllRest(t)
    BY <1>0, <2>10, Leaves DEF AllRest
  <2>11. CASE RunLock(t)
    BY <1>0, <2>11, Enters DEF RunLock
  <2>12. CASE RunLink(t)
    BY <1>0, <2>12, Moves DEF RunLink
  <2>13. CASE RunCount(t)
    BY <1>0, <2>13, Moves DEF RunCount
  <2>14. CASE RunUnlock(t)
    BY <1>0, <2>14, Leaves DEF RunUnlock
  <2> QED
    BY <1>2, <2>1, <2>2, <2>3, <2>4, <2>5, <2>6, <2>7, <2>8, <2>9, <2>10, <2>11,
       <2>12, <2>13, <2>14 DEF Create
<1>3. ASSUME TimerIrq \/ Handler \/ \E t \in Node : ThreadReturns(t)
      PROVE  UNCHANGED <<pc, lock>>
  BY <1>3
  DEF TimerIrq, ThreadReturns, Handler, ScheduleNone, SchedulePop, ScheduleAppend,
      ScheduleSwitch, ScheduleReturn, ReapPop, ReapFreePage, ReapKfree, ReapLeft, ReapRight,
      ReapRemove, ReapSwitch, next_thread, switch_to_thread, through, Handle, callVars
<1>4. CASE UNCHANGED vars
  BY <1>1, <1>4 DEF vars, callVars
<1> QED
  BY <1>1, <1>2, <1>3, <1>4 DEF Next

\* The words of the locks and the positions of the threads agree throughout:
\* a lock word that is 0 belongs to exactly one thread between spin_lock and
\* spin_unlock, whatever preempts it and for however long.
THEOREM MutualExclusion == Spec => []LockHeldByOne
<1>1. Init => LockHeldByOne
  BY ConstantTypes, CriticalSteps DEF Init, LockHeldByOne
<1> QED
  BY <1>1, InitTypes, TypeStep, LockStep, PTL DEF Spec

----------------------------------------------------------------------------
(* What create_kernel_thread has in hand: the pcbs it fills belong to nobody  *)
(* else, from kmalloc until the frame is built.                               *)

\* The steps of create_kernel_thread before the frame is there; at the last two
\* of them the new pcb has a page.
Filling == {"alloc_page", "lock_pages", "pop_page", "read_pid", "write_pid"}
Paged == {"read_pid", "write_pid"}
InHand == Creating \ {"split", "mark"}

PcbsInHand ==
  /\ \A t \in Node : pc[t] \in InHand => pcb[t] \in Node
  /\ \A t, u \in Node : pc[t] \in InHand /\ pc[u] \in InHand /\ pcb[t] = pcb[u] => t = u
  /\ \A t \in Node : pc[t] \in Filling => pcb[t] \notin Live

\* What any step but one of create_kernel_thread does to the threads that live:
\* it adds none.
LEMMA HandlerLive ==
  ASSUME ProcessIInv, Handler \/ TimerIrq \/ \E t \in Node : ThreadReturns(t)
  PROVE  /\ Live' \subseteq Live
         /\ UNCHANGED <<stack_page, pid, next_proc_num, pc, pcb, num>>
<1>0. TypeOK /\ HandlerInv
  BY DEF ProcessIInv
<1>1. CASE \/ TimerIrq \/ \E t \in Node : ThreadReturns(t)
           \/ ScheduleNone \/ SchedulePop \/ ScheduleAppend \/ ScheduleReturn
           \/ ReapPop \/ ReapFreePage \/ ReapKfree \/ ReapLeft \/ ReapRight \/ ReapRemove
  BY <1>1
  DEF TimerIrq, ThreadReturns, ScheduleNone, SchedulePop, ScheduleAppend,
      ScheduleReturn, ReapPop, ReapFreePage, ReapKfree, ReapLeft, ReapRight, ReapRemove,
      next_thread, Handle, callVars, memVars, Live
<1>2. ASSUME NEW at \in {"switch", "reap_switch"}, NEW left \in {"saved", "none"},
             switch_to_thread(at, left)
      PROVE  /\ Live' \subseteq Live
             /\ UNCHANGED <<stack_page, pid, next_proc_num, pc, pcb, num>>
  <2>1. old = running /\ running \in Node
    BY <1>0, <1>2 DEF switch_to_thread, HandlerInv, TypeOK
  <2> DEFINE frames == [saved_state EXCEPT ![old] = left]
  <2>2. \A n \in Node : frames[n] # "none" => n \in Live
    BY <1>0, <2>1 DEF TypeOK, Live
  <2>3. ASSUME new \in Node, frames[new] # "none", running' = new,
               saved_state' = [frames EXCEPT ![new] = "none"]
        PROVE  Live' \subseteq Live
    BY <1>0, <2>2, <2>3 DEF Live, TypeOK
  <2>4. ASSUME saved_state' = frames, UNCHANGED running
        PROVE  Live' \subseteq Live
    BY <2>1, <2>2, <2>4 DEF Live
  <2>5. Live' \subseteq Live
    BY <1>2, <2>3, <2>4 DEF switch_to_thread
  <2> QED
    BY <1>2, <2>5 DEF switch_to_thread, callVars
<1> QED
  BY <1>1, <1>2 DEF Handler, ScheduleSwitch, ReapSwitch

\* What a step of create_kernel_thread does to the threads that live: the one
\* that builds the frame adds the new one.
LEMMA CreateLive ==
  ASSUME ProcessIInv, NEW t \in Node, Create(t)
  PROVE  /\ running' = running
         /\ PidWrite(t) => Live' \subseteq Live \cup {pcb[t]}
         /\ ~PidWrite(t) => Live' = Live /\ UNCHANGED <<pid, next_proc_num>>
<1>0. TypeOK
  BY DEF ProcessIInv
<1>1. running' = running
  BY DEF Create, KmallocScan, KmallocSplit, KmallocReturn, KmallocReuses, KmallocFails,
         PageCheck, PageLock, PagePop, PagePopWild, PidRead, PidWrite, AllLock, AllLink,
         AllRest, RunLock, RunLink, RunCount, RunUnlock, Step, cpuVars
<1>2. CASE PidWrite(t)
  BY <1>0, <1>1, <1>2 DEF PidWrite, Live, TypeOK
<1>3. CASE ~PidWrite(t)
  <2>1. UNCHANGED <<saved_state, pid, next_proc_num>>
    BY <1>3
    DEF Create, KmallocScan, KmallocSplit, KmallocReturn, KmallocReuses, KmallocFails,
        PageCheck, PageLock, PagePop, PagePopWild, PidRead, AllLock, AllLink,
        AllRest, RunLock, RunLink, RunCount, RunUnlock, memVars
  <2> QED
    BY <1>1, <1>3, <2>1 DEF Live
<1> QED
  BY <1>1, <1>2, <1>3

\* The program counters and the pcbs in hand: they move on together, and the only
\* pcb that comes in hand is one that was nobody's.
LEMMA CreateHand ==
  ASSUME ProcessIInv, NEW t \in Node, Create(t)
  PROVE  /\ \A u \in Node \ {t} : pc'[u] = pc[u] /\ pcb'[u] = pcb[u]
         /\ \/ UNCHANGED <<pc, pcb>>
            \/ pc'[t] \notin InHand /\ pcb' = pcb
            \/ /\ pc'[t] = "alloc_page"
               /\ pcb'[t] \in Node \ (Live \cup InCreation)
            \/ /\ pc[t] \in Filling /\ pc'[t] \in Filling /\ pcb' = pcb
               /\ ~PidWrite(t)
            \/ pc[t] \in InHand /\ pc'[t] \in InHand \ Filling /\ pcb' = pcb
<1>0. TypeOK
  BY DEF ProcessIInv
<1> USE DEF Step, InHand, Filling, Creating
<1>1. CASE KmallocScan(t) \/ KmallocSplit(t)
  BY <1>0, <1>1 DEF KmallocScan, KmallocSplit, TypeOK
<1>2. CASE KmallocReturn(t)
  <2>1. /\ pc' = [pc EXCEPT ![t] = "alloc_page"]
        /\ pcb' = [pcb EXCEPT ![t] = kmalloc_result(num[t])]
        /\ kmalloc_result(num[t]) \in Node \ (Live \cup InCreation)
    BY <1>2 DEF KmallocReturn
  <2> QED
    BY <1>0, <2>1 DEF TypeOK
<1>3. CASE PagePopWild(t) \/ KmallocReuses(t) \/ KmallocFails(t)
  BY <1>3 DEF PagePopWild, KmallocReuses, KmallocFails, callVars
<1>4. CASE PageCheck(t) \/ PageLock(t) \/ PagePop(t) \/ PidRead(t)
  <2>1. /\ pc[t] \in Filling /\ pcb' = pcb
        /\ \E to \in Filling : pc' = [pc EXCEPT ![t] = to]
        /\ pc[t] # "write_pid"
    BY <1>4 DEF PageCheck, PageLock, PagePop, PidRead
  <2> QED
    BY <1>0, <2>1 DEF TypeOK, PidWrite
<1>5. CASE PidWrite(t) \/ AllLock(t) \/ AllLink(t) \/ AllRest(t) \/ RunLock(t)
           \/ RunLink(t) \/ RunCount(t)
  <2>1. /\ pc[t] \in InHand /\ pcb' = pcb
        /\ \E to \in InHand \ Filling : pc' = [pc EXCEPT ![t] = to]
    BY <1>5 DEF PidWrite, AllLock, AllLink, AllRest, RunLock, RunLink, RunCount
  <2> QED
    BY <1>0, <2>1 DEF TypeOK
<1>6. CASE RunUnlock(t)
  BY <1>0, <1>6 DEF RunUnlock, TypeOK
<1> QED
  BY <1>1, <1>2, <1>3, <1>4, <1>5, <1>6 DEF Create

LEMMA HandStep ==
  ASSUME ProcessIInv, PcbsInHand, [Next]_vars
  PROVE  PcbsInHand'
<1>0. TypeOK
  BY DEF ProcessIInv
<1>1. CASE UNCHANGED vars
  BY <1>1 DEF vars, PcbsInHand, Live, callVars, memVars, cpuVars
<1>2. CASE TimerIrq \/ Handler \/ \E t \in Node : ThreadReturns(t)
  BY <1>2, HandlerLive DEF PcbsInHand
<1>3. ASSUME NEW t \in Node, Create(t) PROVE PcbsInHand'
  <2>1. \A u \in Node \ {t} : pc'[u] = pc[u] /\ pcb'[u] = pcb[u]
    BY <1>3, CreateHand
  <2>2. \A n \in Node : n \in Live' => n \in Live \/ (n = pcb[t] /\ PidWrite(t))
    BY <1>3, CreateLive
  <2>3. CASE UNCHANGED <<pc, pcb>>
    <3>1. ~PidWrite(t)
      BY <1>0, <2>3 DEF PidWrite, Step, TypeOK
    <3>2. Live' \subseteq Live
      BY <2>2, <3>1 DEF Live
    <3> QED
      BY <2>3, <3>2 DEF PcbsInHand
  <2>4. CASE pc'[t] \notin InHand /\ pcb' = pcb
    <3>1. ~PidWrite(t)
      BY <1>0, <2>4 DEF PidWrite, Step, TypeOK, InHand, Creating
    <3>2. Filling \subseteq InHand
      BY DEF Filling, InHand, Creating
    <3> QED
      BY <2>1, <2>2, <2>4, <3>1, <3>2 DEF PcbsInHand
  <2>5. CASE pc'[t] = "alloc_page" /\ pcb'[t] \in Node \ (Live \cup InCreation)
    <3>1. ~PidWrite(t)
      BY <1>0, <2>5 DEF PidWrite, Step, TypeOK
    <3>2. \A u \in Node : pc[u] \in InHand => pcb[u] # pcb'[t]
      BY <2>5 DEF InCreation, InHand
    <3> QED
      BY <2>1, <2>2, <2>5, <3>1, <3>2 DEF PcbsInHand, Filling, InHand, Creating
  <2>6. CASE pc[t] \in Filling /\ pc'[t] \in Filling /\ pcb' = pcb /\ ~PidWrite(t)
    <3>1. Filling \subseteq InHand
      BY DEF Filling, InHand, Creating
    <3> QED
      BY <2>1, <2>2, <2>6, <3>1 DEF PcbsInHand
  <2>7. CASE pc[t] \in InHand /\ pc'[t] \in InHand \ Filling /\ pcb' = pcb
    <3>1. Filling \subseteq InHand
      BY DEF Filling, InHand, Creating
    <3> QED
      BY <2>1, <2>2, <2>7, <3>1 DEF PcbsInHand
  <2> QED
    BY <1>3, CreateHand, <2>3, <2>4, <2>5, <2>6, <2>7
<1> QED
  BY <1>1, <1>2, <1>3 DEF Next

----------------------------------------------------------------------------
(* Process IDs. *)

PidInv ==
  OneCreator =>
    /\ \A n \in Live : pid[n] < next_proc_num
    /\ \A n, m \in Live : pid[n] = pid[m] => n = m
    /\ pc[Main] = "write_pid" => num[Main] = next_proc_num

\* A thread that has created one stays a creator.
LEMMA CreatorsStay ==
  ASSUME ProcessIInv, [Next]_vars, OneCreator'
  PROVE  OneCreator
<1>1. CASE UNCHANGED vars
  BY <1>1 DEF vars, callVars, OneCreator
<1>2. CASE TimerIrq \/ Handler \/ \E t \in Node : ThreadReturns(t)
  BY <1>2, HandlerLive DEF OneCreator
<1>3. ASSUME NEW t \in Node, Create(t) PROVE OneCreator
  BY <1>3, CreateHand, ListAssumption DEF OneCreator
<1> QED
  BY <1>1, <1>2, <1>3 DEF Next

LEMMA PidStep ==
  ASSUME ProcessIInv, PcbsInHand, PidInv, [Next]_vars
  PROVE  PidInv'
<1> SUFFICES ASSUME OneCreator'
             PROVE  /\ \A n \in Live' : pid'[n] < next_proc_num'
                    /\ \A n, m \in Live' : pid'[n] = pid'[m] => n = m
                    /\ pc'[Main] = "write_pid" => num'[Main] = next_proc_num'
  BY DEF PidInv
<1>0. TypeOK /\ Main \in Node
  BY ProcessAssumption DEF ProcessIInv
<1>1. /\ \A n \in Live : pid[n] < next_proc_num
      /\ \A n, m \in Live : pid[n] = pid[m] => n = m
      /\ pc[Main] = "write_pid" => num[Main] = next_proc_num
  BY CreatorsStay DEF PidInv
<1>2. CASE UNCHANGED vars
  BY <1>1, <1>2 DEF vars, Live, callVars, memVars, cpuVars
<1>3. CASE TimerIrq \/ Handler \/ \E t \in Node : ThreadReturns(t)
  BY <1>1, <1>3, HandlerLive
<1>4. ASSUME NEW t \in Node, Create(t), PidWrite(t)
      PROVE  /\ \A n \in Live' : pid'[n] < next_proc_num'
             /\ \A n, m \in Live' : pid'[n] = pid'[m] => n = m
             /\ pc'[Main] = "write_pid" => num'[Main] = next_proc_num'
  <2>1. /\ pc[t] = "write_pid" /\ pc' = [pc EXCEPT ![t] = "lock_all"]
        /\ next_proc_num' = num[t] + 1
        /\ pid' = [pid EXCEPT ![pcb[t]] = num[t]]
        /\ UNCHANGED <<pcb, num>>
    BY <1>4 DEF PidWrite, Step
  <2>2. pcb[t] \in Node \ Live
    BY <2>1 DEF PcbsInHand, InHand, Filling, Creating
  <2>3. t = Main
    BY <2>1, <2>2, ListAssumption DEF OneCreator
  <2>4. num[t] = next_proc_num /\ next_proc_num \in Nat
    BY <1>0, <1>1, <2>1, <2>3 DEF TypeOK
  <2>5. Live' \subseteq Live \cup {pcb[t]}
    BY <1>4, CreateLive
  <2>6. \A n \in Live : n # pcb[t] /\ pid'[n] = pid[n]
    BY <1>0, <2>1, <2>2 DEF TypeOK, Live
  <2>7. pid'[pcb[t]] = next_proc_num
    BY <1>0, <2>1, <2>2, <2>4 DEF TypeOK
  <2>8. \A n \in Live : pid[n] \in Nat
    BY <1>0 DEF TypeOK, Live
  <2>9. \A n \in Live' : pid'[n] < next_proc_num'
    BY <1>1, <2>1, <2>4, <2>5, <2>6, <2>7, <2>8
  <2>10. \A n, m \in Live' : pid'[n] = pid'[m] => n = m
    BY <1>1, <2>4, <2>5, <2>6, <2>7, <2>8
  <2>11. pc'[Main] # "write_pid"
    BY <1>0, <2>1, <2>3 DEF TypeOK
  <2> QED
    BY <2>9, <2>10, <2>11
<1>5. ASSUME NEW t \in Node, Create(t), ~PidWrite(t)
      PROVE  /\ \A n \in Live' : pid'[n] < next_proc_num'
             /\ \A n, m \in Live' : pid'[n] = pid'[m] => n = m
             /\ pc'[Main] = "write_pid" => num'[Main] = next_proc_num'
  <2>1. Live' = Live /\ UNCHANGED <<pid, next_proc_num>>
    BY <1>5, CreateLive
  <2>2. CASE KmallocScan(t)
    <3>1. PICK to \in {"split", "mark"} : pc' = [pc EXCEPT ![t] = to]
      BY <2>2 DEF KmallocScan, Step
    <3>2. \A u \in Node \ {t} : num'[u] = num[u]
      BY <1>0, <2>2 DEF KmallocScan, TypeOK
    <3> QED
      BY <1>0, <1>1, <2>1, <3>1, <3>2 DEF TypeOK
  <2>3. CASE PidRead(t)
    <3>1. num' = [num EXCEPT ![t] = next_proc_num] /\ pc' = [pc EXCEPT ![t] = "write_pid"]
      BY <2>3 DEF PidRead, Step
    <3> QED
      BY <1>0, <1>1, <2>1, <3>1 DEF TypeOK
  <2>4. CASE ~KmallocScan(t) /\ ~PidRead(t)
    <3>1. num' = num
      BY <1>5, <2>4
      DEF Create, KmallocSplit, KmallocReturn, KmallocReuses, KmallocFails, PageCheck,
          PageLock, PagePop, PagePopWild, AllLock, AllLink, AllRest, RunLock, RunLink,
          RunCount, RunUnlock, callVars
    <3>2. pc' = pc \/ \E to \in (Creating \cup {"work"}) \ {"write_pid"} :
                        pc' = [pc EXCEPT ![t] = to]
      BY <1>5, <2>4
      DEF Create, KmallocSplit, KmallocReturn, KmallocReuses, KmallocFails, PageCheck,
          PageLock, PagePop, PagePopWild, AllLock, AllLink, AllRest, RunLock, RunLink,
          RunCount, RunUnlock, callVars, Step, Creating
    <3>3. pc'[Main] = "write_pid" => pc[Main] = "write_pid"
      BY <1>0, <3>2 DEF TypeOK
    <3> QED
      BY <1>1, <2>1, <3>1, <3>3
  <2> QED
    BY <2>2, <2>3, <2>4
<1> QED
  BY <1>2, <1>3, <1>4, <1>5 DEF Next

LEMMA InitHand == Init => PcbsInHand /\ PidInv
<1> SUFFICES ASSUME Init PROVE PcbsInHand /\ PidInv
  OBVIOUS
<1>1. /\ pc = [n \in Node |-> "work"] /\ Main \in Node
      /\ pid = [n \in Node |-> IF n = Main THEN 1 ELSE 0]
      /\ next_proc_num = 2
      /\ saved_state = [n \in Node |-> "none"] /\ running = Main
  BY ProcessAssumption DEF Init
<1>2. Live = {Main}
  BY <1>1 DEF Live
<1>3. PcbsInHand
  BY <1>1 DEF PcbsInHand, InHand, Filling, Creating
<1>4. PidInv
  BY <1>1, <1>2 DEF PidInv
<1> QED
  BY <1>3, <1>4

\* Two threads that live never share a process ID, as long as one thread
\* creates all others: getNewPid's load, add and store may then be cut by any
\* number of switches.
THEOREM PidsDiffer == Spec => []PidIsUnique
<1>1. PidInv => PidIsUnique
  BY DEF PidInv, PidIsUnique
<1>2. ProcessIInv /\ PcbsInHand /\ PidInv /\ [Next]_vars
        => ProcessIInv' /\ PcbsInHand' /\ PidInv'
  BY TypeStep, HandStep, PidStep
<1> QED
  BY <1>1, <1>2, InitTypes, InitHand, PTL DEF Spec

----------------------------------------------------------------------------
(* Stack pages. *)

\* A handler runs with IRQs disabled.
Masked == cpu \in Handling => disabled

\* The threads and the pcbs in hand that have a page.
Holders == Live \cup {pcb[t] : t \in {u \in Node : pc[u] \in Paged}}

\* reap has freed the page it runs on.
Leaving == disabled /\ cpu \in {"kfree", "left", "right", "remove", "reap_switch", "wild"}

StackInv ==
  /\ \A i, j \in DOMAIN free_pages :
       free_pages[i] = free_pages[j] /\ free_pages[i] # ZeroPage => i = j
  /\ \A n, m \in Holders :
       stack_page[n] = stack_page[m] /\ stack_page[n] # ZeroPage => n = m
  /\ \A n \in Holders :
       stack_page[n] \in Free /\ stack_page[n] # ZeroPage => n = running /\ Leaving

LEMMA MaskedStep ==
  ASSUME TypeOK, Masked, [Next]_vars
  PROVE  Masked'
<1>1. CASE UNCHANGED vars
  BY <1>1 DEF vars, cpuVars, Masked
<1>2. ASSUME NEW t \in Node, Create(t) PROVE Masked'
  <2>1. CASE KmallocReuses(t) \/ KmallocFails(t) \/ PagePopWild(t)
    BY <2>1 DEF KmallocReuses, KmallocFails, PagePopWild, Masked, Handling
  <2>2. CASE ~(KmallocReuses(t) \/ KmallocFails(t) \/ PagePopWild(t))
    <3>1. UNCHANGED cpuVars
      BY <1>2, <2>2
      DEF Create, KmallocScan, KmallocSplit, KmallocReturn, PageCheck, PageLock, PagePop,
          PidRead, PidWrite, AllLock, AllLink, AllRest, RunLock, RunLink, RunCount,
          RunUnlock, Step
    <3> QED
      BY <3>1 DEF cpuVars, Masked
  <2> QED
    BY <2>1, <2>2
<1>3. CASE TimerIrq \/ ScheduleNone \/ ScheduleReturn \/ \E t \in Node : ThreadReturns(t)
  BY <1>3 DEF TimerIrq, ScheduleNone, ScheduleReturn, ThreadReturns, Handle, Masked, Handling
<1>4. CASE SchedulePop \/ ScheduleAppend \/ ReapPop \/ ReapFreePage \/ ReapKfree
           \/ ReapLeft \/ ReapRight \/ ReapRemove
  <2>1. cpu \in Handling /\ UNCHANGED disabled
    BY <1>4
    DEF SchedulePop, ScheduleAppend, ReapPop, ReapFreePage, ReapKfree, ReapLeft, ReapRight,
        ReapRemove, next_thread, Handle, Handling
  <2> QED
    BY <2>1 DEF Masked
<1>5. ASSUME NEW at \in {"switch", "reap_switch"}, NEW left \in {"saved", "none"},
             switch_to_thread(at, left)
      PROVE  Masked'
  <2> DEFINE frames == [saved_state EXCEPT ![old] = left]
  <2>1. frames \in [Node -> {"none", "built", "saved"}]
    BY DEF TypeOK
  <2>2. ASSUME new \in Node, frames[new] # "none", disabled' = (frames[new] = "saved"),
               cpu' = IF frames[new] = "built" THEN "thread" ELSE "return"
        PROVE  Masked'
    BY <2>1, <2>2 DEF Masked, Handling
  <2>3. ASSUME cpu' = "wild" PROVE Masked'
    BY <2>3 DEF Masked, Handling
  <2> QED
    BY <1>5, <2>2, <2>3 DEF switch_to_thread
<1> QED
  BY <1>1, <1>2, <1>3, <1>4, <1>5 DEF Next, Handler, ScheduleSwitch, ReapSwitch

\* A handler gives up pages only where it says so, and the thread that gave up
\* its own keeps the core until it stops living.
LEMMA HandlerPages ==
  ASSUME ProcessIInv, PcbsInHand, StackInv, Masked,
         Handler \/ TimerIrq \/ \E t \in Node : ThreadReturns(t)
  PROVE  StackInv'
<1>0. TypeOK /\ HandlerInv /\ running \in Node
  BY DEF ProcessIInv, TypeOK
<1>1. /\ Live' \subseteq Live
      /\ UNCHANGED <<stack_page, pc, pcb>>
  BY HandlerLive
<1>2. Holders' \subseteq Holders
  BY <1>1 DEF Holders
<1>3. CASE ReapFreePage
  <2>1. /\ cpu = "free_page" /\ cpu' = "kfree" /\ disabled /\ disabled' = disabled
        /\ old = running /\ running' = running
        /\ free_pages' = Append(free_pages, stack_page[running])
    BY <1>0, <1>3 DEF ReapFreePage, Handle, HandlerInv, Masked, Handling
  <2> DEFINE p == stack_page[running]
  <2>2. ~Leaving /\ Leaving'
    BY <2>1 DEF Leaving
  <2>3. running \in Holders
    BY <1>0 DEF Holders, Live
  <2>4. \A i \in DOMAIN free_pages : free_pages[i] = p => p = ZeroPage
    BY <2>2, <2>3 DEF StackInv, Free
  <2>5. free_pages \in Seq(Page \cup {ZeroPage, EndPage}) /\ p \in Page \cup {ZeroPage, EndPage}
    BY <1>0 DEF TypeOK
  <2>6. /\ DOMAIN free_pages = 1..Len(free_pages)
        /\ DOMAIN free_pages' = 1..Len(free_pages) + 1
        /\ \A i \in 1..Len(free_pages) : free_pages'[i] = free_pages[i]
        /\ free_pages'[Len(free_pages) + 1] = p
        /\ Len(free_pages) \in Nat
    BY <2>1, <2>5, AppendProperties, LenProperties
  <2>7. \A i, j \in DOMAIN free_pages' :
          free_pages'[i] = free_pages'[j] /\ free_pages'[i] # ZeroPage => i = j
    BY <2>4, <2>6 DEF StackInv
  <2>8. Free' = Free \cup {p}
    <3>1. \A x : x \in Free' <=> \E i \in DOMAIN free_pages' : x = free_pages'[i]
      BY DEF Free
    <3>2. \A x : x \in Free <=> \E i \in DOMAIN free_pages : x = free_pages[i]
      BY DEF Free
    <3>3. \A i \in DOMAIN free_pages' : i \in DOMAIN free_pages \/ i = Len(free_pages) + 1
      BY <2>6
    <3>4. \A i \in DOMAIN free_pages : i \in DOMAIN free_pages'
      BY <2>6
    <3>5. Len(free_pages) + 1 \in DOMAIN free_pages'
      BY <2>6
    <3> QED
      BY <2>6, <3>1, <3>2, <3>3, <3>4, <3>5
  <2>9. \A n \in Holders' :
          stack_page'[n] \in Free' /\ stack_page'[n] # ZeroPage => n = running'
    BY <1>1, <1>2, <2>1, <2>2, <2>3, <2>8 DEF StackInv
  <2> QED
    BY <1>1, <1>2, <2>2, <2>7, <2>9 DEF StackInv
<1>4. CASE ~ReapFreePage
  <2>1. free_pages' = free_pages
    BY <1>4
    DEF Handler, TimerIrq, ThreadReturns, ScheduleNone, SchedulePop, ScheduleAppend,
        ScheduleSwitch, ScheduleReturn, ReapPop, ReapKfree, ReapLeft, ReapRight, ReapRemove,
        ReapSwitch, next_thread, switch_to_thread
  <2>2. ASSUME Leaving
        PROVE  \/ Leaving' /\ running' = running
               \/ running \notin Holders'
    <3>1. CASE ReapKfree \/ ReapLeft \/ ReapRight \/ ReapRemove
      BY <2>2, <3>1 DEF ReapKfree, ReapLeft, ReapRight, ReapRemove, Handle, Leaving
    <3>2. CASE ReapSwitch
      <4>1. /\ cpu = "reap_switch" /\ old = running /\ timer' = TRUE
        BY <1>0, <3>2 DEF ReapSwitch, switch_to_thread, HandlerInv
      <4> DEFINE frames == [saved_state EXCEPT ![old] = "none"]
      <4>2. frames[running] = "none"
        BY <1>0, <4>1 DEF TypeOK
      <4>3. CASE /\ new \in Node /\ frames[new] # "none"
                 /\ running' = new
                 /\ saved_state' = [frames EXCEPT ![new] = "none"]
        <5>1. running \notin Live'
          BY <1>0, <4>1, <4>2, <4>3 DEF Live, TypeOK
        <5>2. running \in Live
          BY <1>0 DEF Live
        <5>3. \A t \in Node : pc[t] \in Paged => pcb[t] # running
          BY <5>2 DEF PcbsInHand, Paged, Filling
        <5> QED
          BY <1>1, <5>1, <5>3 DEF Holders
      <4>4. CASE cpu' = "wild" /\ UNCHANGED <<running, disabled>>
        BY <2>2, <4>4 DEF Leaving
      <4> QED
        BY <3>2, <4>3, <4>4 DEF ReapSwitch, switch_to_thread
    <3>3. ReapKfree \/ ReapLeft \/ ReapRight \/ ReapRemove \/ ReapSwitch
      BY <1>4, <2>2
      DEF Leaving, Handler, TimerIrq, ThreadReturns, ScheduleNone, SchedulePop,
          ScheduleAppend, ScheduleSwitch, ScheduleReturn, ReapPop, next_thread,
          switch_to_thread, Handle
    <3> QED
      BY <3>1, <3>2, <3>3
  <2>3. Free' = Free
    BY <2>1 DEF Free
  <2>4. \A n \in Holders' :
          stack_page'[n] \in Free' /\ stack_page'[n] # ZeroPage => n = running' /\ Leaving'
    BY <1>1, <1>2, <2>2, <2>3 DEF StackInv
  <2> QED
    BY <1>1, <1>2, <2>1, <2>4 DEF StackInv
<1> QED
  BY <1>3, <1>4

\* alloc_page: the page leaves the list, and the new pcb alone has it.
LEMMA PopPages ==
  ASSUME ProcessIInv, PcbsInHand, StackInv, NEW t \in Node, PagePop(t)
  PROVE  StackInv'
<1>0. TypeOK
  BY DEF ProcessIInv
<1>1. /\ cpu = "thread" /\ pc[t] = "pop_page"
      /\ pc' = [pc EXCEPT ![t] = "read_pid"]
      /\ free_pages # <<>> /\ Head(free_pages) # ZeroPage
      /\ stack_page' = [stack_page EXCEPT ![pcb[t]] = Head(free_pages)]
      /\ free_pages' = Tail(free_pages)
      /\ UNCHANGED <<pcb, saved_state, running>>
  BY DEF PagePop, PageAtHead, Step, cpuVars
<1>2. free_pages \in Seq(Page \cup {ZeroPage, EndPage})
  BY <1>0 DEF TypeOK
<1> DEFINE p == Head(free_pages)
<1>3. /\ p = free_pages[1] /\ Len(free_pages) \in Nat \ {0}
      /\ DOMAIN free_pages = 1..Len(free_pages)
      /\ DOMAIN free_pages' = 1..Len(free_pages) - 1
      /\ \A i \in DOMAIN free_pages' : free_pages'[i] = free_pages[i + 1]
  BY <1>1, <1>2, HeadTailProperties, LenProperties, EmptySeq
<1>4. /\ p \in Free /\ p \notin Free' /\ Free' \subseteq Free
  <2>1. \A x : x \in Free' <=> \E i \in DOMAIN free_pages' : x = free_pages'[i]
    BY DEF Free
  <2>2. \A x : x \in Free <=> \E i \in DOMAIN free_pages : x = free_pages[i]
    BY DEF Free
  <2>3. 1 \in DOMAIN free_pages
        /\ \A i \in DOMAIN free_pages' : i + 1 \in DOMAIN free_pages /\ i + 1 # 1
    BY <1>3
  <2>4. \A i \in DOMAIN free_pages' : free_pages'[i] # p
    BY <1>1, <1>3, <2>3 DEF StackInv
  <2> QED
    BY <1>3, <2>1, <2>2, <2>3, <2>4
<1>5. \A i, j \in DOMAIN free_pages' :
        free_pages'[i] = free_pages'[j] /\ free_pages'[i] # ZeroPage => i = j
  <2>1. \A i \in DOMAIN free_pages' : i \in Nat /\ i + 1 \in DOMAIN free_pages
    BY <1>3
  <2> QED
    BY <1>3, <2>1 DEF StackInv
<1>6. pcb[t] \in Node /\ pcb[t] \notin Holders
  <2>1. pc[t] \in InHand /\ pc[t] \in Filling /\ pc[t] \notin Paged
    BY <1>1 DEF InHand, Creating, Filling, Paged
  <2>2. Paged \subseteq InHand
    BY DEF Paged, InHand, Creating
  <2> QED
    BY <2>1, <2>2 DEF PcbsInHand, Holders
<1>7. Live' = Live
  BY <1>1 DEF Live
<1>8. Holders' \subseteq Holders \cup {pcb[t]}
  <2>1. \A u \in Node : pc'[u] \in Paged => pc[u] \in Paged \/ u = t
    BY <1>0, <1>1 DEF TypeOK
  <2> QED
    BY <1>1, <1>7, <2>1 DEF Holders
<1>9. /\ stack_page'[pcb[t]] = p
      /\ \A n \in Holders : n # pcb[t] /\ stack_page'[n] = stack_page[n]
  <2>1. \A n \in Node \ {pcb[t]} : stack_page'[n] = stack_page[n]
    BY <1>0, <1>1, <1>6 DEF TypeOK
  <2>2. Holders \subseteq Node
    BY DEF Holders, Live, PcbsInHand, Paged, InHand, Creating
  <2> QED
    BY <1>0, <1>1, <1>6, <2>1, <2>2 DEF TypeOK
<1>10. \A n \in Holders : stack_page[n] \in Free => stack_page[n] = ZeroPage
  BY <1>1 DEF StackInv, Leaving
<1>11. \A n, m \in Holders' :
         stack_page'[n] = stack_page'[m] /\ stack_page'[n] # ZeroPage => n = m
  BY <1>1, <1>4, <1>8, <1>9, <1>10 DEF StackInv
<1>12. \A n \in Holders' : stack_page'[n] \in Free' => stack_page'[n] = ZeroPage
  BY <1>4, <1>8, <1>9, <1>10
<1> QED
  BY <1>5, <1>11, <1>12 DEF StackInv

\* The other steps of create_kernel_thread give nobody a page.
LEMMA CreatePages ==
  ASSUME ProcessIInv, PcbsInHand, StackInv, NEW t \in Node, Create(t), ~PagePop(t)
  PROVE  StackInv'
<1>0. TypeOK
  BY DEF ProcessIInv
<1>1. /\ free_pages' = free_pages /\ running' = running
      /\ \/ stack_page' = stack_page
         \/ stack_page' = [stack_page EXCEPT ![pcb[t]] = ZeroPage]
      /\ \/ UNCHANGED <<cpu, disabled>>
         \/ cpu = "thread"
  BY DEF Create, KmallocScan, KmallocSplit, KmallocReturn, KmallocReuses, KmallocFails,
         PageCheck, PageLock, PagePopWild, PidRead, PidWrite, AllLock, AllLink,
         AllRest, RunLock, RunLink, RunCount, RunUnlock, Step, cpuVars, memVars
<1>2. Free' = Free
  BY <1>1 DEF Free
<1>3. Leaving => Leaving'
  BY <1>1 DEF Leaving
<1>4. \A n \in Node : stack_page'[n] = stack_page[n] \/ stack_page'[n] = ZeroPage
  BY <1>0, <1>1 DEF TypeOK
<1>5. Holders \subseteq Node
  BY DEF Holders, Live, PcbsInHand, Paged, InHand, Creating
<1>6. \A n \in Holders' : n \in Holders \/ (n \in Node /\ stack_page'[n] = ZeroPage)
  <2>1. ASSUME PageCheck(t)
        PROVE  \A n \in Holders' : n \in Holders \/ (n \in Node /\ stack_page'[n] = ZeroPage)
    <3>1. pc[t] = "alloc_page" /\ pcb[t] \in Node /\ UNCHANGED <<pcb, saved_state>>
      BY <2>1 DEF PageCheck, Step, PcbsInHand, InHand, Creating
    <3>2. Live' = Live
      BY <1>1, <3>1 DEF Live
    <3>3. CASE /\ pc' = [pc EXCEPT ![t] = "read_pid"]
               /\ stack_page' = [stack_page EXCEPT ![pcb[t]] = ZeroPage]
      <4>1. \A u \in Node : pc'[u] \in Paged => pc[u] \in Paged \/ u = t
        BY <1>0, <3>3 DEF TypeOK
      <4>2. stack_page'[pcb[t]] = ZeroPage
        BY <1>0, <3>1, <3>3 DEF TypeOK
      <4> QED
        BY <3>1, <3>2, <4>1, <4>2 DEF Holders
    <3>4. CASE pc' = [pc EXCEPT ![t] = "lock_pages"]
      <4>1. \A u \in Node : pc'[u] \in Paged => pc[u] \in Paged
        BY <1>0, <3>4 DEF TypeOK, Paged
      <4> QED
        BY <3>1, <3>2, <4>1 DEF Holders
    <3> QED
      BY <2>1, <3>3, <3>4 DEF PageCheck, Step
  <2>2. ASSUME PidWrite(t)
        PROVE  Holders' \subseteq Holders
    <3>1. /\ pc[t] = "write_pid" /\ pc' = [pc EXCEPT ![t] = "lock_all"] /\ pcb' = pcb
      BY <2>2 DEF PidWrite, Step
    <3>2. \A u \in Node : pc'[u] \in Paged => pc[u] \in Paged
      BY <1>0, <3>1 DEF TypeOK, Paged
    <3>3. pcb[t] \in Holders
      BY <3>1 DEF Holders, Paged
    <3>4. Live' \subseteq Live \cup {pcb[t]}
      BY <2>2, CreateLive
    <3> QED
      BY <3>1, <3>2, <3>3, <3>4 DEF Holders
  <2>3. ASSUME ~PageCheck(t), ~PidWrite(t)
        PROVE  Holders' \subseteq Holders
    <3>1. Live' = Live
      BY <2>3, CreateLive
    <3>2. CASE KmallocReturn(t)
      <4>1. pc' = [pc EXCEPT ![t] = "alloc_page"]
            /\ pcb' = [pcb EXCEPT ![t] = kmalloc_result(num[t])]
        BY <3>2 DEF KmallocReturn, Step
      <4>2. \A u \in Node : pc'[u] \in Paged => pc[u] \in Paged /\ pcb'[u] = pcb[u]
        BY <1>0, <4>1 DEF TypeOK, Paged
      <4> QED
        BY <3>1, <4>2 DEF Holders
    <3>3. CASE PidRead(t)
      <4>1. /\ pc[t] = "read_pid" /\ pc' = [pc EXCEPT ![t] = "write_pid"] /\ pcb' = pcb
        BY <3>3 DEF PidRead, Step
      <4>2. \A u \in Node : pc'[u] \in Paged => pc[u] \in Paged
        BY <1>0, <4>1 DEF TypeOK, Paged
      <4> QED
        BY <3>1, <4>1, <4>2 DEF Holders
    <3>4. CASE ~KmallocReturn(t) /\ ~PidRead(t)
      <4>1. pcb' = pcb
        BY <2>3, <3>4
        DEF Create, KmallocScan, KmallocSplit, KmallocReuses, KmallocFails, PageLock,
            PagePopWild, AllLock, AllLink, AllRest, RunLock, RunLink, RunCount, RunUnlock,
            callVars
      <4>2. pc' = pc \/ \E to \in (Creating \cup {"work"}) \ Paged :
                          pc' = [pc EXCEPT ![t] = to]
        BY <2>3, <3>4
        DEF Create, KmallocScan, KmallocSplit, KmallocReuses, KmallocFails, PageLock,
            PagePopWild, AllLock, AllLink, AllRest, RunLock, RunLink, RunCount, RunUnlock,
            callVars, Step, Creating, Paged
      <4>3. \A u \in Node : pc'[u] \in Paged => pc[u] \in Paged
        BY <1>0, <4>2 DEF TypeOK
      <4> QED
        BY <3>1, <4>1, <4>3 DEF Holders
    <3> QED
      BY <3>2, <3>3, <3>4
  <2> QED
    BY <2>1, <2>2, <2>3
<1> QED
  BY <1>1, <1>2, <1>3, <1>4, <1>5, <1>6 DEF StackInv

LEMMA StackStep ==
  ASSUME ProcessIInv, PcbsInHand, StackInv, Masked, [Next]_vars
  PROVE  StackInv'
<1>1. CASE UNCHANGED vars
  BY <1>1 DEF vars, StackInv, Holders, Live, Free, Leaving, memVars, cpuVars, callVars
<1> QED
  BY <1>1, HandlerPages, PopPages, CreatePages DEF Next

LEMMA InitStack == Init => StackInv /\ Masked
<1> SUFFICES ASSUME Init PROVE StackInv /\ Masked
  OBVIOUS
<1>1. /\ pc = [n \in Node |-> "work"] /\ Main \in Node /\ cpu = "thread"
      /\ saved_state = [n \in Node |-> "none"] /\ running = Main
      /\ stack_page = [n \in Node |-> IF n = Main THEN EndPage ELSE ZeroPage]
      /\ free_pages \in {FirstPages, <<>>}
  BY ProcessAssumption DEF Init
<1>2. Live = {Main}
  BY <1>1 DEF Live
<1>3. Holders = {Main}
  BY <1>1, <1>2 DEF Holders, Paged
<1>4. Free \subseteq Page
  BY <1>1 DEF Free, Page
<1>5. \A i, j \in DOMAIN free_pages : free_pages[i] = free_pages[j] => i = j
  BY <1>1, ProcessAssumption
<1> QED
  BY <1>1, <1>3, <1>4, <1>5, ProcessAssumption DEF StackInv, Masked, Handling

\* No two threads that live stand on the same page, and a page is free while a
\* thread stands on it only in reap, between the free and the switch away, where
\* IRQs are disabled and nobody can allocate.
THEOREM StacksApart == Spec => []StackIsPrivate
<1>1. StackInv => StackIsPrivate
  BY DEF StackInv, StackIsPrivate, Holders, Leaving
<1>2. ProcessIInv /\ PcbsInHand /\ StackInv /\ Masked /\ [Next]_vars
        => ProcessIInv' /\ PcbsInHand' /\ StackInv' /\ Masked'
  BY TypeStep, HandStep, StackStep, MaskedStep DEF ProcessIInv
<1> QED
  BY <1>1, <1>2, InitTypes, InitHand, InitStack, PTL DEF Spec

----------------------------------------------------------------------------
(* The two threads of kernel_main: their queue, their segments of the heap.  *)

\* What is known of kmalloc and its chain, whoever calls it.
Kernel == INSTANCE HeapProofs
  WITH Requests <- {0}, MaxCalls <- 0, Clients <- {TRUE},
       boot <- TRUE, blocks <- <<>>, calls <- 0, req <- 0, seg <- Nil, pc <- "idle"

\* The pcb of the thread that kernel_main creates: behind the header that cuts the
\* segment behind Main's.
Child == 2 * Main

\* What the boot has left of the heap holds a pcb and the header behind it, and
\* a request for another pcb finds room.
RoomForTwo ==
  /\ Child \in Node
  /\ \A left \in HeapLeft : left >= 2 * Main /\ left - Main > 2 * Header

\* run_queue with no thread, and with one.
QueueEmpty ==
  size[Run] = 0 /\ head[Run] = Null /\ \A n \in Node : container[n] # Run
QueueHas(n) ==
  /\ size[Run] = 1 /\ head[Run] = n /\ tail[Run] = n /\ next[n] = Null
  /\ \A m \in Node : container[m] = Run <=> m = n

\* The chain as process_init leaves it, and with the segment cut.
Uncut == ~is_allocated[Main] /\ hnext[Main] = Nil /\ segment_size[Main] \in HeapLeft
Cut ==
  /\ hnext[Main] = Child /\ (is_allocated[Main] <=> pc[Main] # "mark")
  /\ ~is_allocated[Child] /\ hnext[Child] = Nil /\ hprev[Child] = Main
  /\ segment_size[Child] + Main \in HeapLeft
HeapIs ==
  /\ HeapTypeOK /\ is_allocated[0] /\ hnext[0] = Main
  /\ pc[Main] \in {"split", "mark"} => num[Main] = Main
  /\ IF made = 0 \/ pc[Main] = "split" THEN Uncut ELSE Cut

\* Main is the only thread: the other does not exist yet, or no more.
Alone ==
  /\ pc[Main] = "work" /\ running = Main /\ cpu \in {"thread", "schedule", "return"}
  /\ Suspended = {} /\ QueueEmpty
  /\ made = 0 => free_pages \in {FirstPages, <<>>}

\* Main is in create_kernel_thread; the pcb is a thread once it has a frame.
Unpaged == {"split", "mark", "alloc_page", "lock_pages", "pop_page"}
Creates ==
  /\ made = 1 /\ running = Main /\ cpu \in {"thread", "schedule"}
  /\ pc[Main] \in Creating
  /\ pc[Main] \in InHand => pcb[Main] = Child
  /\ pc[Main] \in Unpaged => free_pages \in {FirstPages, <<>>}
  /\ pc[Main] \in {"lock_pages", "pop_page"} => free_pages # <<>>
  /\ Suspended = IF pc[Main] \in Unpaged \cup Paged THEN {} ELSE {Child}
  /\ pc[Main] = "count_run" => tail[Run] = Child /\ next[Child] = Null
  /\ IF pc[Main] = "unlock_run" THEN QueueHas(Child) ELSE QueueEmpty

\* Both threads are there: one runs, and the other is suspended, on the queue
\* until a handler takes it off.
Other == IF running = Main THEN Child ELSE Main
Both ==
  /\ made = 1 /\ pc[Main] = "work" /\ running \in {Main, Child} /\ Suspended = {Other}
  /\ \/ cpu \in {"thread", "schedule", "return"} /\ QueueHas(Other)
     \/ cpu = "reap" /\ running = Child /\ QueueHas(Other)
     \/ cpu = "append" /\ new = Other /\ QueueEmpty
     \/ cpu = "switch" /\ new = Other /\ QueueHas(running)
     \/ /\ cpu \in {"free_page", "kfree", "left", "right", "remove", "reap_switch"}
        /\ running = Child /\ new = Other /\ QueueEmpty
        /\ cpu \in {"left", "right"} => seg = Child
  /\ container[Child] # All

BootedInv ==
  AsBooted =>
    /\ \A t \in Node \ {Main} : pc[t] = "work"
    /\ HeapIs
    /\ Alone \/ Creates \/ Both

LEMMA FiniteNodes == IsFiniteSet(Node)
<1>1. HeapSize \in Nat /\ Node \subseteq 0..HeapSize - 1
  BY HeapAssumption, ProcessAssumption DEF Addr
<1>2. 0 \in Int /\ HeapSize - 1 \in Int
  BY <1>1
<1>3. IsFiniteSet(0..HeapSize - 1)
  BY <1>2, FS_Interval, Zenon
<1> QED
  BY <1>1, <1>3, FS_Subset

\* The addresses that the two pcbs and the first segment have.
LEMMA Places ==
  ASSUME RoomForTwo
  PROVE  /\ Word \in Nat \ {0} /\ MaxInt \in Nat /\ 2 * MaxInt < Word /\ Header \in Nat \ {0}
         /\ HeapSize \in Nat /\ HeapSize >= 2 /\ HeapSize <= MaxInt
         /\ Main \in Nat \ {0} /\ Main \in Node /\ Child \in Node /\ Child = Main + Main
         /\ Child # Main /\ Child # 0
         /\ 0 \in Addr /\ Main \in Addr /\ Child \in Addr /\ Nil \notin Addr
         /\ \A left \in HeapLeft : left \in Nat /\ left + Main <= HeapSize
         /\ needed(PcbBytes) = Main
         /\ IsFiniteSet(Node)
<1>1. /\ Word \in Nat \ {0} /\ MaxInt \in Nat /\ HeapSize <= MaxInt /\ 2 * MaxInt < Word
  BY HeapAssumption, Kernel!WordType DEF MaxInt, Kernel!MaxInt
<1>2. /\ Header \in Nat \ {0} /\ HeapSize \in Nat /\ Addr = 0..HeapSize - 1 /\ Nil \notin Addr
  BY HeapAssumption DEF Addr
<1>3. Main \in Node /\ Child \in Node /\ Node \subseteq Addr \ {0} /\ needed(PcbBytes) = Main
  BY ProcessAssumption DEF RoomForTwo
<1>4. /\ Main \in Nat \ {0} /\ HeapSize >= 2 /\ 0 \in Addr /\ Main \in Addr /\ Child \in Addr
      /\ Child # 0
  BY <1>2, <1>3
<1>5. Child = Main + Main /\ Child # Main
  BY <1>4 DEF Child
<1>6. \A left \in HeapLeft : left \in Nat /\ left + Main <= HeapSize
  BY <1>2, <1>4, ProcessAssumption
<1>7. IsFiniteSet(Node)
  BY FiniteNodes
<1> QED
  BY <1>1, <1>2, <1>3, <1>4, <1>5, <1>6, <1>7

\* The difference that kmalloc computes for a segment that is large enough.
LEMMA DiffSmall ==
  ASSUME RoomForTwo, NEW a, NEW s \in Nat, s <= HeapSize, segment_size[a] = s,
         NEW n \in Nat \ {0}, n <= s
  PROVE  diff(a, n) = s - n /\ (s - n) % Word = s - n /\ diff(a, n) >= 0 /\ diff(a, n) < MaxInt
<1>1. /\ Word \in Nat \ {0} /\ MaxInt \in Nat /\ 2 * MaxInt < Word
      /\ HeapSize \in Nat /\ HeapSize <= MaxInt
  BY Places
<1>2. s - n \in Nat /\ s - n < Word /\ s - n < MaxInt
  BY <1>1
<1> DEFINE d == (s - n) % Word
<1>3. d = s - n
  BY <1>1, <1>2
<1>4. diff(a, n) = IF d > MaxInt THEN d - Word ELSE d
  BY DEF diff
<1> HIDE DEF d
<1>5. diff(a, n) = s - n
  BY <1>1, <1>2, <1>3, <1>4
<1> QED
  BY <1>2, <1>3, <1>5 DEF d

\* kmalloc finds the one segment that is free, the last.
LEMMA BestIs ==
  ASSUME RoomForTwo, HeapIs, made \in {0, 1}, pc[Main] = "work"
  PROVE  best(Main) = {IF made = 0 THEN Main ELSE Child}
<1> DEFINE e == IF made = 0 THEN Main ELSE Child
           C == {0, Main, e}
<1>0. /\ 0 \in Addr /\ Main \in Addr /\ Child \in Addr /\ Nil \notin Addr
      /\ Main \in Nat \ {0} /\ Child = Main + Main /\ HeapSize >= 2 /\ HeapSize \in Nat
      /\ \A left \in HeapLeft : left \in Nat /\ left + Main <= HeapSize /\ left >= Main + Main
  BY Places DEF RoomForTwo
<1>1. /\ HeapTypeOK /\ hnext[0] = Main /\ is_allocated[0]
      /\ made = 0 => hnext[Main] = Nil
      /\ made = 1 => hnext[Main] = Child /\ hnext[Child] = Nil /\ is_allocated[Main]
      /\ ~is_allocated[e]
  BY DEF HeapIs, Cut, Uncut
<1>2. Kernel!HeapTypeOK
  BY <1>1 DEF HeapTypeOK, Kernel!HeapTypeOK, Addr, Kernel!Addr
<1>3. Segments \subseteq C
  <2>1. C \in SUBSET Kernel!Addr /\ 0 \in C
    BY <1>0 DEF Addr, Kernel!Addr
  <2>2. \A a \in C : hnext[a] # Nil => hnext[a] \in C
    BY <1>1
  <2> HIDE DEF C
  <2>3. Kernel!Segments \subseteq C
    BY <1>2, <2>1, <2>2, HeapAssumption, Kernel!WalkStays
  <2> QED
    BY <2>3 DEF Segments, Kernel!Segments
<1>4. e \in Segments
  <2>1. Main \in Kernel!Addr /\ hnext[Main] \in Kernel!Addr \cup {Nil}
    BY <1>0, <1>1 DEF Addr, Kernel!Addr
  <2>2. PICK m, b : m = Main /\ b = hnext[Main]
    OBVIOUS
  <2>3. /\ m \in Kernel!Addr /\ b \in Kernel!Addr \cup {Nil}
        /\ hnext[0] = m /\ hnext[m] = b /\ HeapSize >= 2
    BY <1>0, <1>1, <2>1, <2>2
  <2>4. {0, m} \subseteq Kernel!Segments /\ (b # Nil => b \in Kernel!Segments)
    BY <1>2, <2>3, HeapAssumption, Kernel!WalkMeets
  <2>5. Main \in Segments /\ (hnext[Main] # Nil => hnext[Main] \in Segments)
    BY <2>2, <2>4 DEF Segments, Kernel!Segments
  <2> QED
    BY <1>0, <1>1, <2>5
<1>5. diff(e, Main) >= 0 /\ diff(e, Main) < MaxInt
  <2>1. \E s \in Nat : s <= HeapSize /\ segment_size[e] = s /\ Main <= s
    <3>1. CASE made = 0
      BY <1>0, <3>1 DEF HeapIs, Uncut
    <3>2. CASE made = 1
      <4>1. segment_size[Child] \in Nat /\ segment_size[Child] + Main \in HeapLeft
        <5>1. segment_size[Child] \in 0..Word - 1 /\ Word \in Nat \ {0}
          BY <1>0, <1>1, Places DEF HeapTypeOK
        <5> QED
          BY <3>2, <5>1 DEF HeapIs, Cut
      <4> QED
        BY <1>0, <3>2, <4>1
    <3> QED
      BY <3>1, <3>2
  <2> HIDE DEF e
  <2> QED
    BY <1>0, <2>1, DiffSmall
<1>6. candidates(Main) = {e}
  <2>1. \A a \in C : ~is_allocated[a] => a = e
    BY <1>1
  <2>2. \A a \in Segments : ~is_allocated[a] => a = e
    BY <1>3, <2>1
  <2> HIDE DEF e, C
  <2> QED
    BY <1>1, <1>4, <1>5, <2>2 DEF candidates
<1>7. best(Main) = {e}
  BY <1>0, <1>6 DEF best
<1> QED
  BY <1>7

LEMMA InitBooted ==
  ASSUME RoomForTwo, Init PROVE BootedInv
<1> USE ConstantTypes
<1>0. /\ 0 \in Addr /\ Main \in Addr /\ Child \in Addr /\ Nil \notin Addr /\ Main # 0
      /\ Word \in Nat \ {0} /\ HeapSize \in Nat /\ HeapSize <= MaxInt /\ MaxInt \in Nat
      /\ 2 * MaxInt < Word /\ Main \in Nat /\ Main \in Node
      /\ \A left \in HeapLeft : left \in Nat /\ left + Main <= HeapSize
  BY Places
<1>1. PICK left \in HeapLeft :
        segment_size = [a \in Addr |-> CASE a = 0 -> Main [] a = Main -> left [] OTHER -> 0]
  BY DEF Init, HeapInit
<1>2. HeapIs
  <2>1. /\ hnext = [a \in Addr |-> IF a = 0 THEN Main ELSE Nil]
        /\ hprev = [a \in Addr |-> IF a = Main THEN 0 ELSE Nil]
        /\ is_allocated = [a \in Addr |-> a = 0]
        /\ pc = [n \in Node |-> "work"] /\ made = 0
    BY DEF Init, HeapInit
  <2>2. left \in 0..Word - 1 /\ Main \in 0..Word - 1 /\ 0 \in 0..Word - 1
    BY <1>0
  <2>3. HeapTypeOK
    <3>1. segment_size \in [Addr -> 0..Word - 1]
      BY <1>1, <2>2
    <3> QED
      BY <1>0, <2>1, <3>1 DEF HeapTypeOK
  <2>4. segment_size[Main] = left
    BY <1>0, <1>1
  <2> QED
    BY <1>0, <2>1, <2>3, <2>4 DEF HeapIs, Uncut
<1>3. QueueEmpty
  <2>1. head[Run] = Null /\ size[Run] = 0
    BY DEF Init
  <2>2. PICK word \in {Null, Junk} :
          container = [[r \in Ref |-> word] EXCEPT ![Null] = Junk, ![Main] = All]
    BY DEF Init
  <2>3. \A n \in Node : container[n] \in {Null, Junk, All}
    BY <2>2
  <2> QED
    BY <2>1, <2>3, ListAssumption DEF QueueEmpty
<1>4. Alone
  BY <1>0, <1>3 DEF Init, Alone, Suspended
<1> QED
  BY <1>2, <1>4 DEF Init, BootedInv

\* A step that leaves the chain alone.
LEMMA SameHeap ==
  ASSUME HeapIs, UNCHANGED <<hnext, hprev, is_allocated, segment_size, made>>,
         \/ pc'[Main] = pc[Main] /\ num'[Main] = num[Main]
         \/ pc[Main] \notin {"split", "mark"} /\ pc'[Main] \notin {"split", "mark"}
  PROVE  HeapIs'
BY DEF HeapIs, HeapTypeOK, Cut, Uncut

\* A step that leaves the links alone.
LEMMA SameQueue ==
  ASSUME UNCHANGED <<head, tail, size, next, container>>
  PROVE  /\ QueueEmpty' = QueueEmpty
         /\ \A n : QueueHas(n)' = QueueHas(n)
BY DEF QueueEmpty, QueueHas

\* Who is inside create_kernel_thread is Main.
LEMMA CreatorIs ==
  ASSUME BootedInv, AsBooted, NEW t \in Node, running = t, cpu = "thread", pc[t] # "work"
  PROVE  t = Main /\ Creates /\ HeapIs
BY DEF BootedInv, Alone, Both

\* Main goes on within create_kernel_thread.
LEMMA MainGoesOn ==
  ASSUME RoomForTwo, TypeOK, BootedInv, AsBooted, NEW at, NEW to, Step(Main, at, to),
         made' = made, HeapIs', Alone' \/ Creates' \/ Both'
  PROVE  BootedInv'
<1>1. \A t \in Node \ {Main} : pc'[t] = "work"
  BY Places DEF Step, BootedInv, TypeOK
<1> QED
  BY <1>1 DEF BootedInv

\* kmalloc finds the last segment, and cuts it; a second call is not one of the
\* program's.
LEMMA ScanStep ==
  ASSUME RoomForTwo, TypeOK, BootedInv, AsBooted, NEW t \in Node,
         KmallocScan(t) \/ KmallocFails(t)
  PROVE  BootedInv'
<1>0. made \in {0, 1} /\ needed(PcbBytes) = Main /\ Main \in Node /\ Main \in Nat \ {0}
  BY Places DEF TypeOK, AsBooted
<1>1. running = t /\ cpu = "thread" /\ pc[t] = "work"
  BY DEF KmallocScan, KmallocFails, Step
<1>2. HeapIs /\ (Alone \/ Both) /\ pc[Main] = "work"
  BY <1>1 DEF BootedInv, Alone, Both, Creates, Creating
<1>3. best(Main) = {IF made = 0 THEN Main ELSE Child}
  BY <1>0, <1>2, BestIs
<1>4. CASE KmallocFails(t)
  BY <1>0, <1>3, <1>4 DEF KmallocFails
<1>5. CASE KmallocScan(t) /\ made = 1
  BY <1>5 DEF KmallocScan, BootedInv, AsBooted
<1>6. CASE KmallocScan(t) /\ made = 0
  <2>1. Alone /\ t = Main
    BY <1>1, <1>2, <1>6 DEF Alone, Both
  <2>2. /\ Step(Main, "work", IF splits(Main, Main) THEN "split" ELSE "mark")
        /\ num' = [num EXCEPT ![Main] = Main] /\ made' = 1
        /\ UNCHANGED <<listVars, heapVars, free_pages, memVars, pcb>>
    BY <1>0, <1>3, <1>6, <2>1 DEF KmallocScan
  <2>3. splits(Main, Main)
    <3>1. segment_size[Main] \in HeapLeft
      BY <1>2, <1>6 DEF HeapIs, Uncut
    <3>2. PICK s \in HeapLeft : segment_size[Main] = s
      BY <3>1
    <3>3. s \in Nat /\ s <= HeapSize /\ Main <= s /\ s - Main > 2 * Header
      BY <1>0, Places DEF RoomForTwo
    <3>4. diff(Main, Main) = s - Main
      BY <1>0, <3>2, <3>3, DiffSmall
    <3> QED
      BY <3>3, <3>4 DEF splits
  <2>4. pc' = [pc EXCEPT ![Main] = "split"] /\ UNCHANGED <<running, cpu>>
    BY <2>2, <2>3 DEF Step, cpuVars
  <2>5. pc'[Main] = "split" /\ \A u \in Node \ {Main} : pc'[u] = "work"
    BY <1>0, <2>4 DEF TypeOK, BootedInv
  <2>6. num'[Main] = Main
    BY <1>0, <2>2 DEF TypeOK
  <2>7. HeapIs'
    BY <1>2, <1>6, <2>2, <2>5, <2>6 DEF HeapIs, HeapTypeOK, Uncut, heapVars
  <2>8. QueueEmpty' /\ Suspended' = {}
    BY <2>1, <2>2, SameQueue DEF Alone, Suspended, listVars, memVars
  <2>9. Creates'
    BY <1>1, <1>6, <2>1, <2>2, <2>4, <2>5, <2>8 DEF Creates, Alone, Creating, InHand, Unpaged
  <2> QED
    BY <2>5, <2>7, <2>9 DEF BootedInv
<1> QED
  BY <1>0, <1>4, <1>5, <1>6

\* The segment is cut behind the room for a pcb, marked, and the space behind the
\* header of the rest is the child's pcb, which nobody uses.
LEMMA KmallocSteps ==
  ASSUME RoomForTwo, TypeOK, BootedInv, AsBooted, NEW t \in Node,
         KmallocSplit(t) \/ KmallocReturn(t) \/ KmallocReuses(t)
  PROVE  BootedInv'
<1>0. /\ needed(PcbBytes) = Main /\ Main \in Node /\ Child \in Node /\ Child = Main + Main
      /\ Child # Main /\ 0 \in Addr /\ Main \in Addr /\ Child \in Addr /\ Nil \notin Addr
      /\ Main \in Nat \ {0} /\ Child # 0
  BY Places
<1>1. t = Main /\ Creates /\ HeapIs /\ pc[Main] \in {"split", "mark"} /\ num[Main] = Main
  <2>1. running = t /\ cpu = "thread" /\ pc[t] \in {"split", "mark"}
    BY DEF KmallocSplit, KmallocReturn, KmallocReuses, Step
  <2> QED
    BY <2>1, CreatorIs DEF HeapIs
<1>2. /\ made = 1 /\ running = Main /\ Suspended = {} /\ QueueEmpty
      /\ free_pages \in {FirstPages, <<>>} /\ cpu \in {"thread", "schedule"}
  BY <1>1 DEF Creates, Unpaged
<1>3. CASE KmallocSplit(t)
  <2>1. /\ Step(Main, "split", "mark") /\ split(Main, Main)
        /\ UNCHANGED <<listVars, free_pages, memVars, pcb, num, made>>
    BY <1>0, <1>1, <1>3 DEF KmallocSplit
  <2>2. pc[Main] = "split" /\ pc'[Main] = "mark" /\ UNCHANGED <<running, cpu>>
    BY <1>0, <2>1 DEF Step, TypeOK, cpuVars
  <2>3. PICK s \in HeapLeft : segment_size[Main] = s
    BY <1>1, <2>2 DEF HeapIs, Uncut
  <2>4. s \in Nat /\ s <= HeapSize /\ Main <= s
    BY <1>0, Places DEF RoomForTwo
  <2>5. (segment_size[Main] - Main) % Word = s - Main
    BY <1>0, <2>3, <2>4, DiffSmall
  <2>6. s - Main \in 0..Word - 1 /\ Main \in 0..Word - 1
    BY <1>0, <2>4, Places
  <2>7. /\ hnext' = [hnext EXCEPT ![Main] = Child, ![Child] = hnext[Main]]
        /\ hprev' = [hprev EXCEPT ![Child] = Main]
        /\ is_allocated' = [is_allocated EXCEPT ![Child] = FALSE]
        /\ segment_size' = [segment_size EXCEPT ![Main] = Main, ![Child] = s - Main]
    BY <1>0, <2>1, <2>5 DEF split
  <2>8. /\ HeapTypeOK /\ hnext[0] = Main /\ hnext[Main] = Nil /\ is_allocated[0]
        /\ ~is_allocated[Main]
    BY <1>1, <2>2 DEF HeapIs, Uncut
  <2>9. HeapTypeOK'
    BY <1>0, <2>6, <2>7, <2>8 DEF HeapTypeOK
  <2>10. /\ hnext'[0] = Main /\ hnext'[Main] = Child /\ hnext'[Child] = Nil
         /\ hprev'[Child] = Main /\ is_allocated'[0] /\ ~is_allocated'[Main]
         /\ ~is_allocated'[Child] /\ segment_size'[Child] = s - Main
    BY <1>0, <2>7, <2>8 DEF HeapTypeOK
  <2>11. segment_size'[Child] + Main \in HeapLeft
    <3>1. s - Main + Main = s
      BY <1>0, <2>4
    <3> QED
      BY <2>10, <3>1
  <2>12. HeapIs'
    BY <1>1, <1>2, <2>1, <2>2, <2>9, <2>10, <2>11 DEF HeapIs, Cut
  <2>13. QueueEmpty' /\ Suspended' = {}
    BY <1>2, <2>1, SameQueue DEF Suspended, listVars, memVars
  <2>14. Creates'
    BY <1>2, <2>1, <2>2, <2>13 DEF Creates, Creating, InHand, Unpaged
  <2> QED
    BY <2>1, <2>12, <2>14, MainGoesOn
<1>4. ASSUME pc[Main] = "mark"
      PROVE  hnext[Main] = Child /\ Child \in Node \ (Live \cup InCreation)
  <2>1. hnext[Main] = Child
    BY <1>1, <1>2, <1>4 DEF HeapIs, Cut
  <2>2. Child \notin Live
    BY <1>0, <1>2 DEF Live, Suspended
  <2>3. InCreation = {}
    BY <1>4, AsBooted DEF InCreation, Creating, BootedInv
  <2> QED
    BY <1>0, <2>1, <2>2, <2>3
<1>5. CASE KmallocReturn(t)
  <2>1. /\ Step(Main, "mark", "alloc_page") /\ mark(Main)
        /\ pcb' = [pcb EXCEPT ![Main] = hnext[Main]]
        /\ UNCHANGED <<listVars, free_pages, memVars, num, made>>
    BY <1>1, <1>5 DEF KmallocReturn, kmalloc_result
  <2>2. pc[Main] = "mark" /\ pc'[Main] = "alloc_page" /\ UNCHANGED <<running, cpu>>
    BY <1>0, <2>1 DEF Step, TypeOK, cpuVars
  <2>3. pcb'[Main] = Child
    BY <1>0, <1>4, <2>1, <2>2 DEF TypeOK
  <2>4. /\ is_allocated' = [is_allocated EXCEPT ![Main] = TRUE]
        /\ UNCHANGED <<hnext, hprev, segment_size>>
    BY <2>1 DEF mark
  <2>5. HeapIs'
    BY <1>0, <1>1, <1>2, <2>1, <2>2, <2>4 DEF HeapIs, HeapTypeOK, Cut
  <2>6. QueueEmpty' /\ Suspended' = {}
    BY <1>2, <2>1, SameQueue DEF Suspended, listVars, memVars
  <2>7. Creates'
    BY <1>2, <2>1, <2>2, <2>3, <2>6 DEF Creates, Creating, InHand, Unpaged
  <2> QED
    BY <2>1, <2>5, <2>7, MainGoesOn
<1>6. CASE KmallocReuses(t)
  BY <1>1, <1>4, <1>6 DEF KmallocReuses, kmalloc_result
<1> QED
  BY <1>3, <1>5, <1>6

\* A page is on the list when alloc_page looks, and when it takes one: nobody
\* else takes pages.
LEMMA PageSteps ==
  ASSUME RoomForTwo, TypeOK, BootedInv, AsBooted, NEW t \in Node,
         PageCheck(t) \/ PageLock(t) \/ PagePop(t) \/ PagePopWild(t)
  PROVE  BootedInv'
<1>1. t = Main /\ Creates /\ HeapIs /\ pc[Main] \in {"alloc_page", "lock_pages", "pop_page"}
  <2>1. running = t /\ cpu = "thread" /\ pc[t] \in {"alloc_page", "lock_pages", "pop_page"}
    BY DEF PageCheck, PageLock, PagePop, PagePopWild, Step
  <2> QED
    BY <2>1, CreatorIs
<1>2. /\ made = 1 /\ running = Main /\ cpu \in {"thread", "schedule"} /\ pcb[Main] = Child
      /\ Suspended = {} /\ QueueEmpty /\ free_pages \in {FirstPages, <<>>}
      /\ pc[Main] # "alloc_page" => free_pages # <<>>
  BY <1>1 DEF Creates, Creating, InHand, Unpaged
<1>3. CASE PagePopWild(t)
  <2>1. free_pages = FirstPages /\ free_pages # <<>>
    BY <1>2, <1>3 DEF PagePopWild
  <2>2. Head(free_pages) \in Page
    BY <2>1, ProcessAssumption, HeadTailProperties
  <2> QED
    BY <1>3, <2>1, <2>2, ProcessAssumption DEF PagePopWild, PageAtHead
<1>4. CASE ~PagePopWild(t)
  <2>1. /\ \E to \in {"lock_pages", "pop_page", "read_pid"} : Step(Main, pc[Main], to)
        /\ UNCHANGED <<listVars, heapVars, saved_state, pcb, num, made>>
        /\ pc'[Main] \in {"lock_pages", "pop_page"} => free_pages' = free_pages /\ free_pages # <<>>
    <3>1. CASE PageCheck(t)
      BY <1>1, <3>1 DEF PageCheck, Step, TypeOK
    <3>2. CASE PageLock(t)
      BY <1>1, <1>2, <3>2 DEF PageLock, Step, memVars
    <3>3. CASE PagePop(t)
      BY <1>1, <3>3 DEF PagePop, Step, TypeOK
    <3> QED
      BY <1>4, <3>1, <3>2, <3>3
  <2>2. PICK to \in {"lock_pages", "pop_page", "read_pid"} : Step(Main, pc[Main], to)
    BY <2>1
  <2>3. pc'[Main] = to /\ UNCHANGED <<running, cpu>>
    BY <2>2, Places DEF Step, TypeOK, cpuVars
  <2>4. HeapIs'
    BY <1>1, <2>1, <2>3, SameHeap DEF heapVars
  <2>5. QueueEmpty' /\ Suspended' = {}
    BY <1>2, <2>1, SameQueue DEF Suspended, listVars
  <2>6. Creates'
    BY <1>2, <2>1, <2>3, <2>5 DEF Creates, Creating, InHand, Unpaged, Paged
  <2> QED
    BY <2>1, <2>2, <2>4, <2>6, MainGoesOn
<1> QED
  BY <1>3, <1>4

\* The child is suspended from the moment it has a frame.
LEMMA PidSteps ==
  ASSUME RoomForTwo, TypeOK, BootedInv, AsBooted, NEW t \in Node,
         PidRead(t) \/ PidWrite(t)
  PROVE  BootedInv'
<1>1. t = Main /\ Creates /\ HeapIs /\ pc[Main] \in {"read_pid", "write_pid"}
  <2>1. running = t /\ cpu = "thread" /\ pc[t] \in {"read_pid", "write_pid"}
    BY DEF PidRead, PidWrite, Step
  <2> QED
    BY <2>1, CreatorIs
<1>2. /\ made = 1 /\ running = Main /\ cpu \in {"thread", "schedule"} /\ pcb[Main] = Child
      /\ Suspended = {} /\ QueueEmpty
  BY <1>1 DEF Creates, Creating, InHand, Unpaged, Paged
<1>3. /\ \/ Step(Main, "read_pid", "write_pid") /\ saved_state' = saved_state
         \/ Step(Main, "write_pid", "lock_all")
            /\ saved_state' = [saved_state EXCEPT ![Child] = "built"]
      /\ UNCHANGED <<listVars, heapVars, pcb, made>>
  BY <1>1, <1>2 DEF PidRead, PidWrite, memVars
<1>4. /\ pc'[Main] \in {"write_pid", "lock_all"} /\ UNCHANGED <<running, cpu>>
      /\ pc'[Main] = "write_pid" => saved_state' = saved_state
      /\ pc'[Main] = "lock_all" => saved_state' = [saved_state EXCEPT ![Child] = "built"]
  BY <1>3, Places DEF Step, TypeOK, cpuVars
<1>5. HeapIs'
  BY <1>1, <1>3, <1>4, SameHeap DEF heapVars
<1>6. QueueEmpty'
  BY <1>2, <1>3, SameQueue DEF listVars
<1>7. Suspended' = IF pc'[Main] = "write_pid" THEN {} ELSE {Child}
  BY <1>2, <1>4, Places DEF Suspended, TypeOK
<1>8. Creates'
  BY <1>2, <1>3, <1>4, <1>6, <1>7 DEF Creates, Creating, InHand, Unpaged, Paged
<1>9. \E at, to : Step(Main, at, to)
  BY <1>3
<1> QED
  BY <1>3, <1>5, <1>8, <1>9, MainGoesOn

\* The child goes on all_proc_list, which run_queue does not notice while it is
\* empty, and then on run_queue.
LEMMA ListSteps ==
  ASSUME RoomForTwo, TypeOK, BootedInv, AsBooted, NEW t \in Node,
         \/ AllLock(t) \/ AllLink(t) \/ AllRest(t)
         \/ RunLock(t) \/ RunLink(t) \/ RunCount(t) \/ RunUnlock(t)
  PROVE  BootedInv'
<1> USE ConstantTypes
<1> DEFINE Listing == {"lock_all", "link_all", "rest_all",
                       "lock_run", "link_run", "count_run", "unlock_run"}
<1>1. t = Main /\ Creates /\ HeapIs /\ pc[Main] \in Listing
  <2>1. running = t /\ cpu = "thread" /\ pc[t] \in Listing
    BY DEF AllLock, AllLink, AllRest, RunLock, RunLink, RunCount, RunUnlock, Step
  <2> QED
    BY <2>1, CreatorIs
<1>2. /\ made = 1 /\ running = Main /\ cpu = "thread" /\ pcb[Main] = Child
      /\ Suspended = {Child}
      /\ pc[Main] # "unlock_run" => QueueEmpty
      /\ pc[Main] = "unlock_run" => QueueHas(Child)
      /\ pc[Main] = "count_run" => tail[Run] = Child /\ next[Child] = Null
  BY <1>1 DEF Creates, Creating, InHand, Unpaged, Paged, AllLock, AllLink, AllRest, RunLock,
              RunLink, RunCount, RunUnlock, Step
<1>3. /\ Main \in Node /\ Child \in Node /\ Child # Main /\ ListTypeOK
      /\ Run \notin {Null, Junk} /\ All # Run /\ MaxWord \in Nat \ {0}
  BY Places, ListAssumption DEF TypeOK
<1>4. UNCHANGED <<heapVars, saved_state, pcb, num, made>>
  BY DEF AllLock, AllLink, AllRest, RunLock, RunLink, RunCount, RunUnlock, memVars
<1>5. Suspended' = {Child}
  BY <1>2, <1>4 DEF Suspended
<1>6. ASSUME NEW at, NEW to \in Listing \cup {"work"}, Step(Main, at, to)
      PROVE  pc[Main] = at /\ pc'[Main] = to /\ UNCHANGED <<running, cpu>> /\ HeapIs'
  <2>1. pc[Main] = at /\ pc'[Main] = to /\ UNCHANGED <<running, cpu>>
    BY <1>3, <1>6 DEF Step, TypeOK, cpuVars
  <2> QED
    BY <1>1, <1>4, <2>1, SameHeap DEF heapVars
<1>7. ASSUME NEW at, NEW to \in Listing \ {"count_run", "unlock_run"}, Step(Main, at, to),
             QueueEmpty'
      PROVE  BootedInv'
  <2>1. pc[Main] = at /\ pc'[Main] = to /\ UNCHANGED <<running, cpu>> /\ HeapIs'
    BY <1>6, <1>7
  <2>2. Creates'
    BY <1>2, <1>4, <1>5, <1>7, <2>1 DEF Creates, Creating, InHand, Unpaged, Paged
  <2> QED
    BY <1>4, <1>7, <2>1, <2>2, MainGoesOn
<1>8. CASE AllLock(t) \/ RunLock(t)
  <2>1. /\ \/ Step(Main, "lock_all", "link_all") \/ Step(Main, "lock_run", "link_run")
        /\ UNCHANGED listVars
    BY <1>1, <1>8 DEF AllLock, RunLock
  <2>2. QueueEmpty'
    BY <1>2, <2>1, SameQueue DEF Step, listVars
  <2> QED
    BY <1>7, <2>1, <2>2
<1>9. CASE AllLink(t)
  <2>1. Step(Main, "link_all", "rest_all") /\ UNCHANGED <<head, tail, size, prev, container>>
    BY <1>1, <1>9 DEF AllLink, append_behind
  <2>2. QueueEmpty'
    BY <1>2, <2>1 DEF Step, QueueEmpty
  <2> QED
    BY <1>7, <2>1, <2>2
<1>10. CASE AllRest(t)
  <2>1. /\ Step(Main, "rest_all", "lock_run")
        /\ size' = [size EXCEPT ![All] = Inc(@)]
        /\ head' = [head EXCEPT ![All] = IF @ = Null THEN Child ELSE @]
        /\ container' = [container EXCEPT ![Child] = All]
    BY <1>1, <1>2, <1>10 DEF AllRest, append_rest, append_count
  <2>2. QueueEmpty'
    BY <1>2, <1>3, <2>1 DEF Step, QueueEmpty, ListTypeOK
  <2> QED
    BY <1>7, <2>1, <2>2
<1>11. CASE RunLink(t)
  <2>1. /\ Step(Main, "link_run", "count_run") /\ UNCHANGED <<head, size, container>>
        /\ next' = [next EXCEPT ![tail[Run]] = Child, ![Child] = Null]
        /\ tail' = [tail EXCEPT ![Run] = Child]
    BY <1>1, <1>2, <1>11 DEF RunLink, append_links
  <2>2. QueueEmpty' /\ tail'[Run] = Child /\ next'[Child] = Null
    BY <1>2, <1>3, <2>1 DEF Step, QueueEmpty, ListTypeOK, Ref
  <2>3. pc'[Main] = "count_run" /\ UNCHANGED <<running, cpu>> /\ HeapIs'
    BY <1>6, <2>1
  <2>4. Creates'
    BY <1>2, <1>4, <1>5, <2>2, <2>3 DEF Creates, Creating, InHand, Unpaged, Paged
  <2> QED
    BY <1>4, <2>1, <2>3, <2>4, MainGoesOn
<1>12. CASE RunCount(t)
  <2>1. /\ Step(Main, "count_run", "unlock_run") /\ UNCHANGED <<tail, next>>
        /\ size' = [size EXCEPT ![Run] = Inc(@)]
        /\ head' = [head EXCEPT ![Run] = IF @ = Null THEN Child ELSE @]
        /\ container' = [container EXCEPT ![Child] = Run]
    BY <1>1, <1>2, <1>12 DEF RunCount, append_count
  <2>2. QueueEmpty /\ tail[Run] = Child /\ next[Child] = Null
    BY <1>2, <2>1 DEF Step
  <2>3. QueueHas(Child)'
    BY <1>3, <2>1, <2>2 DEF QueueEmpty, QueueHas, ListTypeOK, Inc, Ref
  <2>4. pc'[Main] = "unlock_run" /\ UNCHANGED <<running, cpu>> /\ HeapIs'
    BY <1>6, <2>1
  <2>5. Creates'
    BY <1>2, <1>4, <1>5, <2>3, <2>4 DEF Creates, Creating, InHand, Unpaged, Paged
  <2> QED
    BY <1>4, <2>1, <2>4, <2>5, MainGoesOn
<1>13. CASE RunUnlock(t)
  <2>1. Step(Main, "unlock_run", "work") /\ UNCHANGED listVars
    BY <1>1, <1>13 DEF RunUnlock
  <2>2. QueueHas(Child)' /\ container'[Child] # All
    BY <1>2, <1>3, <2>1, SameQueue DEF Step, QueueHas, listVars
  <2>3. pc'[Main] = "work" /\ UNCHANGED <<running, cpu>> /\ HeapIs'
    BY <1>6, <2>1
  <2>4. Both'
    BY <1>2, <1>4, <1>5, <2>2, <2>3 DEF Both, Other
  <2> QED
    BY <1>4, <2>1, <2>3, <2>4, MainGoesOn
<1> QED
  BY <1>8, <1>9, <1>10, <1>11, <1>12, <1>13

\* pop takes the one thread off the queue.
LEMMA PopOne ==
  ASSUME ListTypeOK, NEW n \in Node, QueueHas(n), pop_list(Run)
  PROVE  QueueEmpty' /\ head[Run] = n /\ \A m \in Node : container'[m] \in {container[m], Null}
<1>1. /\ Run \in List /\ Node \subseteq Ref /\ MaxWord \in Nat \ {0}
      /\ Run \notin {Null, Junk}
  BY ConstantTypes, ListAssumption
<1>2. /\ head' = [head EXCEPT ![Run] = next[head[Run]]]
      /\ size' = [size EXCEPT ![Run] = Dec(@)]
      /\ container' = [container EXCEPT ![head[Run]] = Null]
  BY DEF pop_list
<1> QED
  BY <1>1, <1>2 DEF QueueHas, QueueEmpty, ListTypeOK, Dec

\* append puts one on it.
LEMMA AppendOne ==
  ASSUME ListTypeOK, NEW n \in Node, QueueEmpty, append_list(Run, n)
  PROVE  QueueHas(n)' /\ \A m \in Node : container'[m] \in {container[m], Run}
<1>1. /\ Run \in List /\ Node \subseteq Ref /\ MaxWord \in Nat \ {0}
      /\ Run \notin {Null, Junk}
  BY ConstantTypes, ListAssumption
<1>2. /\ next' = [next EXCEPT ![tail[Run]] = n, ![n] = Null]
      /\ tail' = [tail EXCEPT ![Run] = n]
      /\ head' = [head EXCEPT ![Run] = IF @ = Null THEN n ELSE @]
      /\ size' = [size EXCEPT ![Run] = Inc(@)]
      /\ container' = [container EXCEPT ![n] = Run]
  BY DEF append_list, append_links, append_count
<1> QED
  BY <1>1, <1>2 DEF QueueHas, QueueEmpty, ListTypeOK, Inc

\* A handler of the interrupt or of reap goes on.
LEMMA HandlerGoesOn ==
  ASSUME BootedInv, AsBooted, UNCHANGED callVars, HeapIs', Alone' \/ Creates' \/ Both'
  PROVE  BootedInv'
BY DEF BootedInv, callVars

\* The interrupt, or the return of the child's function, starts a handler; one
\* that finds the queue empty ends at once.
LEMMA HandlerStarts ==
  ASSUME RoomForTwo, ProcessIInv, BootedInv, AsBooted,
         TimerIrq \/ ScheduleNone \/ ScheduleReturn \/ \E t \in Node : ThreadReturns(t)
  PROVE  BootedInv'
<1>0. HeapIs /\ (Alone \/ Creates \/ Both)
  BY DEF BootedInv
<1>1. /\ UNCHANGED <<listVars, heapVars, free_pages, memVars, callVars, running, new, seg>>
  BY DEF TimerIrq, ScheduleNone, ScheduleReturn, ThreadReturns, Handle
<1>2. HeapIs'
  BY <1>0, <1>1, SameHeap DEF heapVars, callVars
<1>3. /\ QueueEmpty' = QueueEmpty /\ (\A n : QueueHas(n)' = QueueHas(n))
      /\ Suspended' = Suspended /\ Other' = Other
  BY <1>1, SameQueue DEF listVars, memVars, Suspended, Other
<1>4. CASE TimerIrq
  <2>1. cpu = "thread" /\ cpu' = "schedule"
    BY <1>4 DEF TimerIrq, Handle
  <2> QED
    BY <1>0, <1>1, <1>2, <1>3, <2>1, HandlerGoesOn
    DEF Alone, Creates, Both, callVars, listVars
<1>5. CASE ScheduleNone
  <2>1. cpu = "schedule" /\ cpu' = "thread"
    BY <1>5 DEF ScheduleNone, Handle
  <2> QED
    BY <1>0, <1>1, <1>2, <1>3, <2>1, HandlerGoesOn
    DEF Alone, Creates, Both, callVars, listVars
<1>6. CASE ScheduleReturn
  <2>1. cpu = "return" /\ cpu' = "thread"
    BY <1>6 DEF ScheduleReturn, Handle
  <2> QED
    BY <1>0, <1>1, <1>2, <1>3, <2>1, HandlerGoesOn
    DEF Alone, Creates, Both, callVars, listVars
<1>7. CASE \E t \in Node : ThreadReturns(t)
  <2>1. running # Main /\ cpu = "thread" /\ cpu' = "reap"
    BY <1>7, ProcessAssumption DEF ThreadReturns, Handle
  <2> QED
    BY <1>0, <1>1, <1>2, <1>3, <2>1, HandlerGoesOn
    DEF Alone, Creates, Both, callVars, listVars
<1> QED
  BY <1>4, <1>5, <1>6, <1>7

\* The handlers that take a thread off the queue find the other one, and only when
\* Main is not inside append.
LEMMA PopSteps ==
  ASSUME RoomForTwo, ProcessIInv, LockHeldByOne, BootedInv, AsBooted,
         SchedulePop \/ ReapPop
  PROVE  BootedInv'
<1>0. /\ HeapIs /\ (Alone \/ Creates \/ Both) /\ Main \in Node /\ Child \in Node /\ ListTypeOK
      /\ Child # Main
  BY Places DEF BootedInv, ProcessIInv, TypeOK
<1>1. /\ size[Run] # 0 /\ lock[Run] /\ pop_list(Run) /\ new' = head[Run]
      /\ UNCHANGED <<heapVars, memVars, callVars, running, seg>>
      /\ \/ cpu = "schedule" /\ cpu' = "append"
         \/ cpu = "reap" /\ cpu' = "free_page"
  BY DEF SchedulePop, ReapPop, next_thread, through, Handle
<1>2. ~Alone
  BY <1>1 DEF Alone, QueueEmpty
<1>3. ~Creates
  <2>1. pc[Main] # "unlock_run"
    BY <1>0, <1>1, CriticalSteps, ConstantTypes DEF LockHeldByOne
  <2> QED
    BY <1>1, <2>1 DEF Creates, QueueEmpty
<1>4. Both /\ QueueHas(Other) /\ (cpu = "reap" => running = Child) /\ Other \in Node
  BY <1>0, <1>1, <1>2, <1>3 DEF Both, Other
<1>5. QueueEmpty' /\ new' = Other /\ container'[Child] \in {container[Child], Null}
  BY <1>0, <1>1, <1>4, PopOne
<1>6. container'[Child] # All
  BY <1>4, <1>5, ProcessAssumption, ListAssumption DEF Both, All
<1>7. HeapIs' /\ Suspended' = Suspended /\ Other' = Other
  BY <1>0, <1>1, SameHeap DEF heapVars, callVars, memVars, Suspended, Other
<1>8. Both'
  BY <1>1, <1>4, <1>5, <1>6, <1>7 DEF Both, callVars
<1> QED
  BY <1>1, <1>7, <1>8, HandlerGoesOn

\* schedule puts back the thread that ran and changes over to the other.
LEMMA ScheduleSteps ==
  ASSUME RoomForTwo, ProcessIInv, BootedInv, AsBooted,
         ScheduleAppend \/ ScheduleSwitch
  PROVE  BootedInv'
<1>0. /\ HeapIs /\ (Alone \/ Creates \/ Both) /\ Main \in Node /\ Child \in Node /\ ListTypeOK
      /\ Child # Main /\ old = running /\ cpu \in {"append", "switch"}
  BY Places
  DEF BootedInv, ProcessIInv, TypeOK, HandlerInv, ScheduleAppend, ScheduleSwitch,
      switch_to_thread, Handle
<1>1. /\ Both /\ new = Other /\ made = 1 /\ pc[Main] = "work" /\ running \in {Main, Child}
      /\ Suspended = {Other} /\ container[Child] # All
      /\ cpu = "append" => QueueEmpty
      /\ cpu = "switch" => QueueHas(running)
  BY <1>0 DEF Alone, Creates, Both
<1>2. CASE ScheduleAppend
  <2>1. /\ append_list(Run, running) /\ cpu = "append" /\ cpu' = "switch"
        /\ UNCHANGED <<heapVars, memVars, callVars, running, new>>
    BY <1>0, <1>2 DEF ScheduleAppend, Handle
  <2>2. QueueHas(running)' /\ container'[Child] \in {container[Child], Run}
    <3>1. PICK r \in Node : r = running
      BY <1>0, <1>1
    <3>2. QueueHas(r)' /\ \A m \in Node : container'[m] \in {container[m], Run}
      BY <1>0, <1>1, <2>1, <3>1, AppendOne
    <3> QED
      BY <1>0, <2>1, <3>1, <3>2 DEF QueueHas
  <2>3. HeapIs' /\ Suspended' = Suspended /\ Other' = Other
    BY <1>0, <2>1, SameHeap DEF heapVars, callVars, memVars, Suspended, Other
  <2>4. Both'
    BY <1>1, <2>1, <2>2, <2>3, ConstantTypes DEF Both, callVars
  <2> QED
    BY <2>1, <2>3, <2>4, HandlerGoesOn
<1>3. CASE ScheduleSwitch
  <2> DEFINE frames == [saved_state EXCEPT ![running] = "saved"]
  <2>1. /\ cpu = "switch" /\ UNCHANGED <<listVars, heapVars, callVars, new>>
        /\ \/ /\ new \in Node /\ frames[new] # "none" /\ running' = new
              /\ saved_state' = [frames EXCEPT ![new] = "none"]
              /\ cpu' \in {"thread", "return"}
           \/ ~(new \in Node /\ frames[new] # "none")
    BY <1>0, <1>3 DEF ScheduleSwitch, switch_to_thread
  <2>2. saved_state \in [Node -> {"none", "built", "saved"}]
    BY DEF ProcessIInv, TypeOK
  <2>3. PICK r \in {Main, Child}, o \in {Main, Child} :
          r = running /\ o = Other /\ r # o /\ o = new /\ {r, o} = {Main, Child}
    BY <1>0, <1>1 DEF Other
  <2>4. /\ saved_state[o] # "none" /\ \A n \in Node \ {o} : saved_state[n] = "none"
    BY <1>0, <1>1, <2>3 DEF Suspended
  <2>5. frames[o] # "none"
    BY <1>0, <2>2, <2>3, <2>4
  <2>6. /\ running' = o /\ cpu' \in {"thread", "return"}
        /\ saved_state' = [[saved_state EXCEPT ![r] = "saved"] EXCEPT ![o] = "none"]
    BY <1>0, <2>1, <2>3, <2>5
  <2>7. Suspended' = {r}
    BY <1>0, <2>2, <2>3, <2>4, <2>6 DEF Suspended
  <2>8. Other' = r
    BY <1>0, <2>3, <2>6 DEF Other
  <2>9. HeapIs' /\ QueueHas(r)'
    BY <1>0, <1>1, <2>1, <2>3, SameHeap, SameQueue DEF heapVars, listVars, callVars
  <2>10. Both'
    BY <1>1, <2>1, <2>3, <2>6, <2>7, <2>8, <2>9 DEF Both, callVars, listVars
  <2> QED
    BY <2>1, <2>9, <2>10, HandlerGoesOn
<1> QED
  BY <1>2, <1>3

\* reap frees the child, whose header is free already and has nothing free beside
\* it, and changes over to Main for good.
LEMMA ReapSteps ==
  ASSUME RoomForTwo, ProcessIInv, BootedInv, AsBooted,
         ReapFreePage \/ ReapKfree \/ ReapLeft \/ ReapRight \/ ReapRemove \/ ReapSwitch
  PROVE  BootedInv'
<1>0. /\ HeapIs /\ (Alone \/ Creates \/ Both) /\ Main \in Node /\ Child \in Node /\ ListTypeOK
      /\ Child # Main /\ old = running /\ Child \in Addr /\ Main \in Addr
      /\ cpu \in {"free_page", "kfree", "left", "right", "remove", "reap_switch"}
  BY Places
  DEF BootedInv, ProcessIInv, TypeOK, HandlerInv, ReapFreePage, ReapKfree, ReapLeft, ReapRight,
      ReapRemove, ReapSwitch, switch_to_thread, Handle
<1>1. /\ Both /\ new = Main /\ running = Child /\ old = Child /\ made = 1 /\ pc[Main] = "work"
      /\ Suspended = {Main} /\ QueueEmpty /\ container[Child] # All
      /\ cpu \in {"left", "right"} => seg = Child
  BY <1>0 DEF Alone, Creates, Both, Other
<1>2. HeapTypeOK /\ Cut /\ is_allocated[Main]
  BY <1>0, <1>1 DEF HeapIs, Cut
<1>3. ASSUME UNCHANGED <<heapVars, callVars, running, new, saved_state>>, QueueEmpty',
             container'[Child] # All,
             cpu' \in {"free_page", "kfree", "left", "right", "remove", "reap_switch"},
             cpu' \in {"left", "right"} => seg' = Child
      PROVE  BootedInv'
  <2>1. HeapIs' /\ Suspended' = Suspended /\ Other' = Other
    BY <1>0, <1>3, SameHeap DEF heapVars, callVars, Suspended, Other
  <2>2. Both'
    BY <1>1, <1>3, <2>1 DEF Both, Other, callVars
  <2> QED
    BY <1>3, <2>1, <2>2, HandlerGoesOn
<1>4. CASE ReapFreePage
  <2>1. /\ UNCHANGED <<listVars, heapVars, callVars, running, new, saved_state>> /\ cpu' = "kfree"
    BY <1>4 DEF ReapFreePage, Handle, memVars
  <2> QED
    BY <1>1, <1>3, <2>1, SameQueue DEF listVars
<1>5. CASE ReapKfree
  <2>1. /\ UNCHANGED <<listVars, callVars, running, new, saved_state>> /\ cpu' = "left"
        /\ release(Child) /\ seg' = Child
    BY <1>1, <1>5 DEF ReapKfree, Handle, memVars
  <2>2. UNCHANGED heapVars
    BY <1>0, <1>2, <2>1 DEF release, heapVars, HeapTypeOK, Cut
  <2> QED
    BY <1>1, <1>3, <2>1, <2>2, SameQueue DEF listVars
<1>6. CASE ReapLeft
  <2>1. cpu = "left"
    BY <1>6 DEF ReapLeft
  <2>2. ~free_on_left(seg)
    BY <1>1, <1>2, <2>1 DEF free_on_left, Cut
  <2>3. /\ UNCHANGED <<listVars, heapVars, callVars, running, new, saved_state, seg>>
        /\ cpu' = "right"
    BY <1>6, <2>2 DEF ReapLeft, Handle, memVars
  <2> QED
    BY <1>1, <1>3, <2>1, <2>3, SameQueue DEF listVars
<1>7. CASE ReapRight
  <2>1. cpu = "right"
    BY <1>7 DEF ReapRight
  <2>2. ~free_on_right(seg)
    BY <1>1, <1>2, <2>1 DEF free_on_right, Cut
  <2>3. /\ UNCHANGED <<listVars, heapVars, callVars, running, new, saved_state>>
        /\ cpu' = "remove"
    BY <1>7, <2>2 DEF ReapRight, Handle, memVars
  <2> QED
    BY <1>1, <1>3, <2>3, SameQueue DEF listVars
<1>8. CASE ReapRemove
  <2>1. /\ UNCHANGED <<heapVars, callVars, running, new, saved_state>>
        /\ cpu' = "reap_switch" /\ remove_list(All, Child)
    BY <1>1, <1>8 DEF ReapRemove, Handle, memVars
  <2>2. /\ UNCHANGED <<head, size>>
        /\ container' = [container EXCEPT ![Child] = Null]
    BY <1>1, <2>1 DEF remove_list
  <2>3. QueueEmpty' /\ container'[Child] # All
    BY <1>0, <1>1, <2>2, ProcessAssumption, ListAssumption
    DEF QueueEmpty, ListTypeOK, Ref, Run, All
  <2> QED
    BY <1>3, <2>1, <2>3
<1>9. CASE ReapSwitch
  <2> DEFINE frames == [saved_state EXCEPT ![Child] = "none"]
  <2>1. /\ UNCHANGED <<listVars, heapVars, callVars>>
        /\ \/ /\ Main \in Node /\ frames[Main] # "none" /\ running' = Main
              /\ saved_state' = [frames EXCEPT ![Main] = "none"]
              /\ cpu' \in {"thread", "return"}
           \/ ~(Main \in Node /\ frames[Main] # "none")
    BY <1>1, <1>9 DEF ReapSwitch, switch_to_thread
  <2>2. saved_state \in [Node -> {"none", "built", "saved"}]
    BY DEF ProcessIInv, TypeOK
  <2>3. saved_state[Main] # "none" /\ \A n \in Node \ {Main} : saved_state[n] = "none"
    BY <1>0, <1>1 DEF Suspended
  <2>4. frames[Main] # "none"
    BY <1>0, <2>2, <2>3
  <2>5. /\ running' = Main /\ cpu' \in {"thread", "return"}
        /\ saved_state' = [frames EXCEPT ![Main] = "none"]
    BY <1>0, <2>1, <2>4
  <2>6. Suspended' = {}
    BY <1>0, <2>2, <2>3, <2>5 DEF Suspended
  <2>7. HeapIs' /\ QueueEmpty'
    BY <1>0, <1>1, <2>1, SameHeap, SameQueue DEF heapVars, listVars, callVars
  <2>8. Alone'
    BY <1>1, <2>1, <2>5, <2>6, <2>7 DEF Alone, callVars
  <2> QED
    BY <2>1, <2>7, <2>8, HandlerGoesOn
<1> QED
  BY <1>4, <1>5, <1>6, <1>7, <1>8, <1>9

LEMMA BootedStep ==
  ASSUME RoomForTwo, ProcessIInv, LockHeldByOne, BootedInv, [Next]_vars
  PROVE  BootedInv'
<1>0. TypeOK
  BY DEF ProcessIInv
<1>1. CASE ~AsBooted
  <2>1. made' \in {made, made + 1}
    BY DEF Next, Create, KmallocScan, KmallocSplit, KmallocReturn, KmallocReuses, KmallocFails,
           PageCheck, PageLock, PagePop, PagePopWild, PidRead, PidWrite, AllLock, AllLink,
           AllRest, RunLock, RunLink, RunCount, RunUnlock, ThreadReturns, TimerIrq, Handler,
           ScheduleNone, SchedulePop, ScheduleAppend, ScheduleSwitch, ScheduleReturn, ReapPop,
           ReapFreePage, ReapKfree, ReapLeft, ReapRight, ReapRemove, ReapSwitch, next_thread,
           switch_to_thread, Handle, callVars, vars
  <2> QED
    BY <1>0, <1>1, <2>1 DEF BootedInv, AsBooted, TypeOK
<1>2. CASE AsBooted /\ UNCHANGED vars
  BY <1>2 DEF vars, BootedInv, AsBooted, HeapIs, HeapTypeOK, Cut, Uncut, Alone, Creates, Both,
              Other, QueueEmpty, QueueHas, Suspended, listVars, heapVars, memVars, cpuVars,
              callVars
<1>3. CASE AsBooted /\ Next
  BY <1>0, <1>3, ScanStep, KmallocSteps, PageSteps, PidSteps, ListSteps, HandlerStarts,
     PopSteps, ScheduleSteps, ReapSteps DEF Next, Create, Handler
<1> QED
  BY <1>1, <1>2, <1>3

LEMMA BootedInvariant ==
  ASSUME RoomForTwo
  PROVE  Spec => [](ProcessIInv /\ BootedInv)
<1>1. Init => LockHeldByOne
  BY ConstantTypes, CriticalSteps DEF Init, LockHeldByOne
<1>2. ProcessIInv /\ LockHeldByOne /\ BootedInv /\ [Next]_vars
        => ProcessIInv' /\ LockHeldByOne' /\ BootedInv'
  BY TypeStep, LockStep, BootedStep
<1>3. Init => ProcessIInv /\ BootedInv
  BY InitTypes, InitBooted
<1> QED
  BY <1>1, <1>2, <1>3, PTL DEF Spec

\* Whatever preempts the creation of the second thread, its reaping or the change
\* of one thread for the other: no thread drops out of the queue, and the core
\* follows no pointer that names nothing.
THEOREM NobodyLost == ASSUME RoomForTwo PROVE Spec => []NoThreadLost
<1>1. ProcessIInv /\ BootedInv => NoThreadLost
  <2> SUFFICES ASSUME ProcessIInv, BootedInv, AsBooted
               PROVE  cpu # "wild" /\ Suspended \ {new} \subseteq Linked(Run) \cup InCreation
    BY DEF NoThreadLost
  <2>0. Main \in Node /\ Child \in Node /\ IsFiniteSet(Node)
    BY Places
  <2>1. CASE Alone
    BY <2>1 DEF Alone
  <2>2. CASE Creates
    <3>1. pc[Main] \in Unpaged \cup Paged \/ Child \in InCreation
      BY <2>0, <2>2 DEF Creates, InHand, Creating, Unpaged, Paged, InCreation
    <3> QED
      BY <2>2, <3>1 DEF Creates
  <2>3. CASE Both
    <3>1. cpu # "wild" /\ (new = Other \/ QueueHas(Other)) /\ Suspended = {Other} /\ Other \in Node
      BY <2>0, <2>3 DEF Both, Other
    <3>2. ASSUME QueueHas(Other) PROVE Other \in Linked(Run)
      <4> DEFINE q == <<Other>>
      <4>1. q \in Seq(Node) /\ Len(q) = 1 /\ q[1] = Other /\ q # <<>>
        BY <3>1
      <4> HIDE DEF q
      <4>2. Represents(Run, q)
        BY <3>2, <4>1 DEF Represents, QueueHas
      <4>3. Linked(Run) = {q[j] : j \in 1..Len(q)}
        BY <2>0, <4>1, <4>2, ConstantTypes, LinkedIs
      <4> QED
        BY <4>1, <4>3
    <3> QED
      BY <3>1, <3>2
  <2> QED
    BY <2>1, <2>2, <2>3 DEF BootedInv
<1> QED
  BY <1>1, BootedInvariant, PTL

\* When the thread that kernel_main created returns, Main is on the queue: reap does
\* not wait, with IRQs disabled, for a thread that nobody could add.
THEOREM SuccessorThere == ASSUME RoomForTwo PROVE Spec => []ReapHasSuccessor
<1>1. BootedInv => ReapHasSuccessor
  BY DEF BootedInv, ReapHasSuccessor, Alone, Creates, Both, QueueHas
<1> QED
  BY <1>1, BootedInvariant, PTL

----------------------------------------------------------------------------
(* Any number of threads, until the first is reaped: the links between the   *)
(* nodes, whatever lists they belong to, never lead back to the thread that  *)
(* runs.                                                                     *)

\* The steps from the frame on, and the pcbs that have a frame but that no list
\* has been linked to yet.
Listing == InHand \ Filling
Unlinked == {pcb[t] : t \in {u \in Node : pc[u] \in {"lock_all", "link_all"}}}
Known == Live \ Unlinked

\* schedule holds a thread that it took off the queue, not what a NULL head is.
Resuming == {"append", "switch"}
Sane == cpu \in {"thread", "schedule", "return"} \/ (cpu \in Resuming /\ new \in Node)

\* Every node has a rank, the later the higher, and a link leads to a higher one:
\* append gives its node the highest.  The queue starts above the thread that
\* runs, or that is about to run.
Ordered(rank) ==
  /\ \A n \in Node : next[n] \in Node =>
       n \in Known /\ next[n] \in Known /\ rank[n] < rank[next[n]]
  /\ \A l \in List : tail[l] \in Node => tail[l] \in Known
  /\ running \in Known
  /\ cpu \in Resuming => new \in Known /\ new # running
  /\ head[Run] \in Node =>
       /\ head[Run] \in Known
       /\ cpu \in Resuming => rank[new] < rank[head[Run]]
       /\ cpu \notin Resuming => rank[running] < rank[head[Run]]
  /\ \A t \in Node : pc[t] = "count_run" => rank[t] < rank[pcb[t]]
OrderInv == Sane => \E top \in Nat : \E rank \in [Node -> 0..top] : Ordered(rank)

\* A thread inside the lock of run_queue keeps the core until it is interrupted, and
\* a pcb that has its frame keeps it as long as nobody leaves.
InsideInv ==
  /\ cpu \in {"thread", "schedule", "return", "append", "switch", "wild"}
  /\ \A t \in Node : pc[t] \in Critical[Run] =>
       running = t /\ cpu \in {"thread", "schedule", "wild"}
  /\ \A t \in Node : pc[t] \in InHand => pcb[t] # t
  /\ \A t \in Node : pc[t] \in Listing => pcb[t] \in Live

\* The thread that creates has the core, and keeps it unless the core runs wild.
LEMMA CreateCpu ==
  ASSUME NEW t \in Node, Create(t)
  PROVE  /\ cpu = "thread" /\ running = t /\ running' = running
         /\ cpu' \in {"thread", "wild"}
         /\ cpu' = "thread" => UNCHANGED <<cpu, new>>
BY DEF Create, KmallocScan, KmallocSplit, KmallocReturn, KmallocReuses, KmallocFails,
       PageCheck, PageLock, PagePop, PagePopWild, PidRead, PidWrite, AllLock, AllLink,
       AllRest, RunLock, RunLink, RunCount, RunUnlock, Step, cpuVars

\* A switch to another thread leaves the threads that live as they are.
LEMMA SwitchLive ==
  ASSUME ProcessIInv, ScheduleSwitch PROVE Live' = Live
<1>0. TypeOK /\ old = running /\ running \in Node
  BY DEF ScheduleSwitch, switch_to_thread, ProcessIInv, HandlerInv, TypeOK
<1> DEFINE frames == [saved_state EXCEPT ![old] = "saved"]
<1>1. \A n \in Node : frames[n] # "none" <=> n \in Live
  BY <1>0 DEF TypeOK, Live
<1>2. ASSUME new \in Node, frames[new] # "none", running' = new,
             saved_state' = [frames EXCEPT ![new] = "none"]
      PROVE  Live' = Live
  BY <1>0, <1>1, <1>2 DEF Live, TypeOK
<1>3. ASSUME saved_state' = frames, UNCHANGED running
      PROVE  Live' = Live
  BY <1>0, <1>1, <1>3 DEF Live
<1> QED
  BY <1>2, <1>3 DEF ScheduleSwitch, switch_to_thread

LEMMA InsideStep ==
  ASSUME ProcessIInv, LockHeldByOne, PcbsInHand, InsideInv, [Next]_vars, cpu' # "reap"
  PROVE  InsideInv'
<1> USE ConstantTypes, CriticalSteps
<1>0. TypeOK
  BY DEF ProcessIInv
<1>1. CASE UNCHANGED vars
  BY <1>1 DEF vars, InsideInv, Live, callVars, memVars, cpuVars
<1>2. ASSUME NEW t \in Node, Create(t) PROVE InsideInv'
  <2>1. /\ cpu = "thread" /\ running = t /\ running' = running
        /\ cpu' \in {"thread", "wild"}
    BY <1>2, CreateCpu
  <2>2. /\ \A u \in Node \ {t} : pc'[u] = pc[u] /\ pcb'[u] = pcb[u]
        /\ t \in Live
    BY <1>2, <2>1, CreateHand DEF Live
  <2>3. Live \subseteq Live' /\ (PidWrite(t) => pcb[t] \in Live' \/ pcb[t] \notin Node)
    <3>1. CASE PidWrite(t)
      BY <1>0, <2>1, <3>1 DEF PidWrite, Live, TypeOK
    <3>2. CASE ~PidWrite(t)
      BY <1>2, <3>2, CreateLive
    <3> QED
      BY <3>1, <3>2
  <2>4. \A u \in Node : pc'[u] \in Critical[Run] => running' = u
    BY <2>1, <2>2 DEF InsideInv
  <2>5. /\ pc'[t] \in InHand => pcb'[t] # t
        /\ pc'[t] \in Listing => pcb'[t] \in Live'
    <3>1. CASE UNCHANGED <<pc, pcb>>
      BY <2>3, <3>1 DEF InsideInv
    <3>2. CASE pc'[t] \notin InHand /\ pcb' = pcb
      BY <3>2 DEF Listing
    <3>3. CASE pc'[t] = "alloc_page" /\ pcb'[t] \in Node \ (Live \cup InCreation)
      BY <2>2, <3>3 DEF Listing, Filling
    <3>4. CASE /\ pc[t] \in Filling /\ pc'[t] \in Filling /\ pcb' = pcb
               /\ ~PidWrite(t)
      BY <3>4 DEF InsideInv, Listing, Filling, InHand, Creating
    <3>5. CASE pc[t] \in InHand /\ pc'[t] \in InHand \ Filling /\ pcb' = pcb
      <4>1. pcb[t] \in Node /\ pcb[t] # t
        BY <3>5 DEF InsideInv, PcbsInHand
      <4>2. pc[t] \in Listing \/ PidWrite(t)
        BY <1>0, <1>2, <3>5
        DEF Create, KmallocScan, KmallocSplit, KmallocReturn, KmallocReuses, KmallocFails,
            PageCheck, PageLock, PagePop, PagePopWild, PidRead, AllLock, AllLink,
            AllRest, RunLock, RunLink, RunCount, RunUnlock, Step, TypeOK, Listing, InHand,
            Filling, Creating, callVars
      <4> QED
        BY <2>3, <3>5, <4>1, <4>2 DEF InsideInv
    <3> QED
      BY <1>2, <3>1, <3>2, <3>3, <3>4, <3>5, CreateHand
  <2>6. \A u \in Node \ {t} : /\ pc'[u] \in InHand => pcb'[u] # u
                              /\ pc'[u] \in Listing => pcb'[u] \in Live'
    BY <2>2, <2>3 DEF InsideInv
  <2> QED
    BY <2>1, <2>4, <2>5, <2>6 DEF InsideInv
<1>3. CASE TimerIrq \/ ScheduleNone \/ ScheduleReturn \/ ScheduleAppend
  <2>1. /\ UNCHANGED <<pc, pcb, running, saved_state>>
        /\ \/ cpu = "thread" /\ cpu' = "schedule"
           \/ cpu = "schedule" /\ cpu' = "thread"
           \/ cpu = "return" /\ cpu' = "thread"
           \/ cpu = "append" /\ cpu' = "switch"
    BY <1>3 DEF TimerIrq, ScheduleNone, ScheduleReturn, ScheduleAppend, Handle, callVars, memVars
  <2>2. Live' = Live
    BY <2>1 DEF Live
  <2> QED
    BY <2>1, <2>2 DEF InsideInv
<1>4. CASE SchedulePop
  <2>1. /\ UNCHANGED <<pc, pcb, running, saved_state>> /\ cpu' = "append" /\ lock[Run]
    BY <1>4 DEF SchedulePop, next_thread, through, Handle, callVars, memVars
  <2>2. Live' = Live
    BY <2>1 DEF Live
  <2>3. \A t \in Node : pc[t] \notin Critical[Run]
    BY <2>1 DEF LockHeldByOne
  <2> QED
    BY <2>1, <2>2, <2>3 DEF InsideInv
<1>5. CASE ScheduleSwitch
  <2>1. /\ UNCHANGED <<pc, pcb>> /\ cpu = "switch" /\ cpu' \in {"thread", "return", "wild"}
    BY <1>5 DEF ScheduleSwitch, switch_to_thread, callVars
  <2>2. Live' = Live
    BY <1>5, SwitchLive
  <2>3. \A t \in Node : pc[t] \notin Critical[Run]
    BY <2>1 DEF InsideInv
  <2> QED
    BY <2>1, <2>2, <2>3 DEF InsideInv
<1>6. ~(ReapPop \/ ReapFreePage \/ ReapKfree \/ ReapLeft \/ ReapRight \/ ReapRemove \/ ReapSwitch)
  BY DEF ReapPop, ReapFreePage, ReapKfree, ReapLeft, ReapRight, ReapRemove, ReapSwitch,
         next_thread, switch_to_thread, Handle, InsideInv
<1>7. \A t \in Node : ~ThreadReturns(t)
  BY DEF ThreadReturns, Handle
<1> QED
  BY <1>1, <1>2, <1>3, <1>4, <1>5, <1>6, <1>7 DEF Next, Handler

\* Which threads the lists can know: create_kernel_thread adds its own when it links
\* it to all_proc_list.
LEMMA CreateKnown ==
  ASSUME ProcessIInv, PcbsInHand, InsideInv, NEW t \in Node, Create(t)
  PROVE  /\ ~AllLink(t) => Known' = Known
         /\ AllLink(t) => /\ Known' = Known \cup {pcb[t]}
                          /\ pcb[t] \in Node \ Known
<1>0. TypeOK
  BY DEF ProcessIInv
<1>1. \A u \in Node \ {t} : pc'[u] = pc[u] /\ pcb'[u] = pcb[u]
  BY CreateHand
<1> USE DEF Known
<1>2. CASE AllLink(t)
  <2>1. pc[t] = "link_all" /\ pc'[t] = "rest_all" /\ pcb' = pcb /\ Live' = Live
    BY <1>0, <1>2, CreateLive DEF AllLink, Step, TypeOK, PidWrite
  <2>2. pcb[t] \in Node /\ pcb[t] \in Live
    BY <2>1 DEF InsideInv, PcbsInHand, Listing, InHand, Filling, Creating
  <2>3. pcb[t] \in Unlinked
    BY <2>1 DEF Unlinked
  <2>4. Unlinked' = Unlinked \ {pcb[t]}
    <3>1. \A u \in Node \ {t} : pc[u] \in {"lock_all", "link_all"} => pcb[u] # pcb[t]
      BY <2>1 DEF PcbsInHand, InHand, Creating
    <3> QED
      BY <1>1, <2>1, <3>1 DEF Unlinked
  <2>5. ~(~AllLink(t))
    BY <1>2
  <2> QED
    BY <2>1, <2>2, <2>3, <2>4, <2>5
<1>3. CASE PidWrite(t)
  <2>1. /\ pc[t] = "write_pid" /\ pc'[t] = "lock_all" /\ pcb' = pcb /\ ~AllLink(t)
        /\ running' = running
    BY <1>0, <1>3 DEF PidWrite, Step, TypeOK, AllLink, cpuVars
  <2>2. pcb[t] \in Node /\ pcb[t] \notin Live
    BY <2>1 DEF PcbsInHand, Filling, InHand, Creating
  <2>3. Live' = Live \cup {pcb[t]}
    BY <1>0, <1>3, <2>1, <2>2 DEF PidWrite, Live, TypeOK
  <2>4. Unlinked' = Unlinked \cup {pcb[t]}
    BY <1>1, <2>1 DEF Unlinked
  <2> QED
    BY <2>1, <2>2, <2>3, <2>4
<1>4. CASE ~AllLink(t) /\ ~PidWrite(t)
  <2>1. Live' = Live
    BY <1>4, CreateLive
  <2>2. \/ pc[t] \notin {"lock_all", "link_all"} /\ pc'[t] \notin {"lock_all", "link_all"}
        \/ pc[t] \in {"lock_all", "link_all"} /\ pc'[t] \in {"lock_all", "link_all"} /\ pcb' = pcb
    BY <1>0, <1>4
    DEF Create, KmallocScan, KmallocSplit, KmallocReturn, KmallocReuses, KmallocFails,
        PageCheck, PageLock, PagePop, PagePopWild, PidRead, AllLock, AllRest, RunLock, RunLink,
        RunCount, RunUnlock, Step, TypeOK, callVars
  <2>3. Unlinked' = Unlinked
    BY <1>1, <2>2 DEF Unlinked
  <2> QED
    BY <1>4, <2>1, <2>3
<1> QED
  BY <1>2, <1>3, <1>4

\* append's node gets the highest rank.
LEMMA Raised ==
  ASSUME NEW top \in Nat, NEW rank \in [Node -> 0..top], NEW n \in Node
  PROVE  \E r \in [Node -> 0..top + 1] :
           /\ \A m \in Node : m # n => r[m] = rank[m] /\ r[m] < r[n]
           /\ \A m \in Node : rank[m] <= r[m] /\ rank[m] \in Nat /\ r[m] \in Nat
<1> DEFINE r == [rank EXCEPT ![n] = top + 1]
<1>1. r \in [Node -> 0..top + 1] /\ r[n] = top + 1
  OBVIOUS
<1>2. \A m \in Node : rank[m] \in Nat /\ rank[m] <= top /\ (m # n => r[m] = rank[m])
  OBVIOUS
<1> HIDE DEF r
<1>3. \A m \in Node : m # n => r[m] = rank[m] /\ r[m] < r[n]
  BY <1>1, <1>2
<1>4. \A m \in Node : rank[m] <= r[m] /\ r[m] \in Nat
  BY <1>1, <1>2
<1> QED
  BY <1>1, <1>2, <1>3, <1>4

\* A step that leaves the lists alone.
LEMMA QuietOrder ==
  ASSUME OrderInv, Sane, UNCHANGED <<next, tail, head, running, new>>, Known' = Known,
         (cpu \in Resuming) <=> (cpu' \in Resuming),
         \A t \in Node : pc'[t] = "count_run" => pc[t] = "count_run" /\ pcb'[t] = pcb[t]
  PROVE  OrderInv'
<1>1a. PICK top \in Nat : \E rank \in [Node -> 0..top] : Ordered(rank)
  BY DEF OrderInv
<1>1. PICK rank \in [Node -> 0..top] : Ordered(rank)
  BY <1>1a
<1>2. Ordered(rank)'
  BY <1>1 DEF Ordered
<1> QED
  BY <1>2 DEF OrderInv

\* create_kernel_thread links its pcb behind the last of all_proc_list.
LEMMA AllLinkOrder ==
  ASSUME ProcessIInv, PcbsInHand, InsideInv, OrderInv, NEW t \in Node, AllLink(t)
  PROVE  OrderInv'
<1>0. TypeOK
  BY DEF ProcessIInv
<1>1. /\ cpu = "thread" /\ cpu' = "thread" /\ running = t /\ UNCHANGED <<running, new, head, tail>>
      /\ pc[t] = "link_all" /\ pc' = [pc EXCEPT ![t] = "rest_all"] /\ pcb' = pcb
      /\ next' = [next EXCEPT ![tail[All]] = pcb[t]]
  BY DEF AllLink, append_behind, Step, cpuVars
<1>2. /\ Known' = Known \cup {pcb[t]} /\ pcb[t] \in Node /\ pcb[t] \notin Known
  BY CreateKnown DEF Create
<1>3. PICK n \in Node, last \in Ref : n = pcb[t] /\ last = tail[All]
  BY <1>0, <1>2, ConstantTypes DEF TypeOK, ListTypeOK
<1>4a. PICK top \in Nat : \E rank \in [Node -> 0..top] : Ordered(rank)
  BY <1>1 DEF OrderInv, Sane
<1>4. PICK rank \in [Node -> 0..top] : Ordered(rank)
  BY <1>4a
<1>5. PICK r \in [Node -> 0..top + 1] :
           /\ \A m \in Node : m # n => r[m] = rank[m] /\ r[m] < r[n]
           /\ \A m \in Node : rank[m] <= r[m] /\ rank[m] \in Nat /\ r[m] \in Nat
  BY Raised
<1>6. /\ \A m \in Ref : next'[m] = IF m = last THEN n ELSE next[m]
      /\ n \notin Known /\ Known' = Known \cup {n} /\ (last \in Node => last \in Known)
      /\ running \in Known /\ running # n
  BY <1>0, <1>1, <1>2, <1>3, <1>4, ConstantTypes DEF TypeOK, ListTypeOK, Ordered
<1>7. ASSUME NEW m \in Node, next'[m] \in Node
      PROVE  m \in Known' /\ next'[m] \in Known' /\ r[m] < r[next'[m]]
  <2>1. CASE m = last
    BY <1>5, <1>6, <2>1, ConstantTypes
  <2>2. CASE m # last
    <3>1. next'[m] = next[m] /\ m \in Known /\ next[m] \in Known /\ rank[m] < rank[next[m]]
      BY <1>4, <1>6, <1>7, <2>2, ConstantTypes DEF Ordered
    <3> QED
      BY <1>5, <1>6, <1>7, <3>1
  <2> QED
    BY <2>1, <2>2
<1>8. \A u \in Node : pc'[u] # "count_run"
  <2>1. \A u \in Node : pc[u] \in Critical[Run] => u = t
    BY <1>1 DEF InsideInv
  <2> QED
    BY <1>0, <1>1, <2>1, CriticalSteps DEF TypeOK
<1>9. head[Run] \in Node => head[Run] \in Known' /\ r[running] < r[head[Run]]
  BY <1>1, <1>4, <1>5, <1>6 DEF Ordered, Resuming
<1>10. Ordered(r)'
  BY <1>1, <1>4, <1>6, <1>7, <1>8, <1>9 DEF Ordered, Resuming
<1> QED
  BY <1>10 DEF OrderInv

\* create_kernel_thread makes its pcb the last of all_proc_list.
LEMMA AllRestOrder ==
  ASSUME ProcessIInv, PcbsInHand, InsideInv, OrderInv, NEW t \in Node, AllRest(t)
  PROVE  OrderInv'
<1>0. TypeOK
  BY DEF ProcessIInv
<1>1. /\ cpu = "thread" /\ cpu' = "thread" /\ running = t /\ UNCHANGED <<running, new>>
      /\ pc[t] = "rest_all" /\ pc' = [pc EXCEPT ![t] = "lock_run"] /\ pcb' = pcb
      /\ next' = [next EXCEPT ![pcb[t]] = Null]
      /\ tail' = [tail EXCEPT ![All] = pcb[t]]
      /\ head'[Run] = head[Run]
  BY <1>0, ConstantTypes
  DEF AllRest, append_rest, append_count, Step, cpuVars, TypeOK, ListTypeOK
<1>2. /\ Known' = Known /\ pcb[t] \in Node /\ pcb[t] \in Live
  <2>1. ~AllLink(t)
    BY <1>1 DEF AllLink, Step
  <2> QED
    BY <1>1, <2>1, CreateKnown DEF Create, InsideInv, PcbsInHand, Listing, InHand, Filling, Creating
<1>3. pcb[t] \in Known
  BY <1>1, <1>2 DEF Known, Unlinked, PcbsInHand, InHand, Creating
<1>4a. PICK top \in Nat : \E rank \in [Node -> 0..top] : Ordered(rank)
  BY <1>1 DEF OrderInv, Sane
<1>4. PICK rank \in [Node -> 0..top] : Ordered(rank)
  BY <1>4a
<1>5. \A m \in Node : next'[m] \in Node => next'[m] = next[m]
  BY <1>0, <1>1, <1>2, ListAssumption, ConstantTypes DEF TypeOK, ListTypeOK
<1>6. \A u \in Node : pc'[u] # "count_run"
  <2>1. \A u \in Node : pc[u] \in Critical[Run] => u = t
    BY <1>1 DEF InsideInv
  <2> QED
    BY <1>0, <1>1, <2>1, CriticalSteps DEF TypeOK
<1>7. \A l \in List : tail'[l] \in Node => tail'[l] \in Known
  BY <1>0, <1>1, <1>3, <1>4 DEF Ordered, TypeOK, ListTypeOK
<1>8. Ordered(rank)'
  BY <1>1, <1>2, <1>4, <1>5, <1>6, <1>7 DEF Ordered, Resuming
<1> QED
  BY <1>8 DEF OrderInv

\* create_kernel_thread links its pcb behind the last of run_queue.
LEMMA RunLinkOrder ==
  ASSUME ProcessIInv, PcbsInHand, InsideInv, OrderInv, NEW t \in Node, RunLink(t)
  PROVE  OrderInv'
<1>0. TypeOK
  BY DEF ProcessIInv
<1>1. /\ cpu = "thread" /\ cpu' = "thread" /\ running = t /\ UNCHANGED <<running, new, head>>
      /\ pc[t] = "link_run" /\ pc' = [pc EXCEPT ![t] = "count_run"] /\ pcb' = pcb
      /\ next' = [next EXCEPT ![tail[Run]] = pcb[t], ![pcb[t]] = Null]
      /\ tail' = [tail EXCEPT ![Run] = pcb[t]]
  BY DEF RunLink, append_links, Step, cpuVars
<1>2. /\ Known' = Known /\ pcb[t] \in Node /\ pcb[t] \in Live /\ pcb[t] # t
  <2>1. ~AllLink(t)
    BY <1>1 DEF AllLink, Step
  <2> QED
    BY <1>1, <2>1, CreateKnown DEF Create, InsideInv, PcbsInHand, Listing, InHand, Filling, Creating
<1>3. pcb[t] \in Known
  BY <1>1, <1>2 DEF Known, Unlinked, PcbsInHand, InHand, Creating
<1>4. PICK n \in Node, last \in Ref : n = pcb[t] /\ last = tail[Run]
  BY <1>0, <1>2, ConstantTypes DEF TypeOK, ListTypeOK
<1>5a. PICK top \in Nat : \E rank \in [Node -> 0..top] : Ordered(rank)
  BY <1>1 DEF OrderInv, Sane
<1>5. PICK rank \in [Node -> 0..top] : Ordered(rank)
  BY <1>5a
<1>6. PICK r \in [Node -> 0..top + 1] :
           /\ \A m \in Node : m # n => r[m] = rank[m] /\ r[m] < r[n]
           /\ \A m \in Node : rank[m] <= r[m] /\ rank[m] \in Nat /\ r[m] \in Nat
  BY Raised
<1>7. /\ \A m \in Ref : next'[m] = IF m = n THEN Null ELSE IF m = last THEN n ELSE next[m]
      /\ n \in Known /\ (last \in Node => last \in Known)
      /\ running \in Known /\ running # n
  BY <1>0, <1>1, <1>2, <1>3, <1>4, <1>5, ConstantTypes DEF TypeOK, ListTypeOK, Ordered
<1>8. ASSUME NEW m \in Node, next'[m] \in Node
      PROVE  m \in Known' /\ next'[m] \in Known' /\ r[m] < r[next'[m]]
  <2>1. m # n
    BY <1>7, <1>8, ListAssumption, ConstantTypes
  <2>2. CASE m = last
    BY <1>2, <1>6, <1>7, <2>1, <2>2, ConstantTypes
  <2>3. CASE m # last
    <3>1. next'[m] = next[m] /\ m \in Known /\ next[m] \in Known /\ rank[m] < rank[next[m]]
      BY <1>5, <1>7, <1>8, <2>1, <2>3, ConstantTypes DEF Ordered
    <3> QED
      BY <1>2, <1>6, <1>8, <2>1, <3>1
  <2> QED
    BY <2>2, <2>3
<1>9. \A u \in Node : pc'[u] = "count_run" => r[u] < r[pcb'[u]]
  <2>1. \A u \in Node : pc[u] \in Critical[Run] => u = t
    BY <1>1 DEF InsideInv
  <2>2. \A u \in Node : pc'[u] = "count_run" => u = t
    BY <1>0, <1>1, <2>1, CriticalSteps DEF TypeOK
  <2> QED
    BY <1>1, <1>4, <1>6, <1>7, <2>2
<1>10. head[Run] \in Node => head[Run] \in Known /\ r[running] < r[head[Run]]
  <2>1. head[Run] \in Node => head[Run] \in Known /\ rank[running] < rank[head[Run]]
    BY <1>1, <1>5 DEF Ordered, Resuming
  <2>2. running \in Node /\ r[running] = rank[running]
    BY <1>0, <1>6, <1>7 DEF TypeOK
  <2> QED
    BY <1>6, <2>1, <2>2
<1>11. \A l \in List : tail'[l] \in Node => tail'[l] \in Known
  BY <1>0, <1>1, <1>3, <1>5 DEF Ordered, TypeOK, ListTypeOK
<1>12. Ordered(r)'
  BY <1>1, <1>2, <1>7, <1>8, <1>9, <1>10, <1>11 DEF Ordered, Resuming
<1> QED
  BY <1>12 DEF OrderInv

\* create_kernel_thread counts its pcb, which may become the head of run_queue.
LEMMA RunCountOrder ==
  ASSUME ProcessIInv, PcbsInHand, InsideInv, OrderInv, NEW t \in Node, RunCount(t)
  PROVE  OrderInv'
<1>0. TypeOK
  BY DEF ProcessIInv
<1>1. /\ cpu = "thread" /\ cpu' = "thread" /\ running = t /\ UNCHANGED <<running, new, next, tail>>
      /\ pc[t] = "count_run" /\ pc' = [pc EXCEPT ![t] = "unlock_run"] /\ pcb' = pcb
      /\ head'[Run] \in {head[Run], pcb[t]}
  BY <1>0, ConstantTypes
  DEF RunCount, append_count, Step, cpuVars, TypeOK, ListTypeOK
<1>2. /\ Known' = Known /\ pcb[t] \in Node /\ pcb[t] \in Live
  <2>1. ~AllLink(t)
    BY <1>1 DEF AllLink, Step
  <2> QED
    BY <1>1, <2>1, CreateKnown DEF Create, InsideInv, PcbsInHand, Listing, InHand, Filling, Creating
<1>3. pcb[t] \in Known
  BY <1>1, <1>2 DEF Known, Unlinked, PcbsInHand, InHand, Creating
<1>4a. PICK top \in Nat : \E rank \in [Node -> 0..top] : Ordered(rank)
  BY <1>1 DEF OrderInv, Sane
<1>4. PICK rank \in [Node -> 0..top] : Ordered(rank)
  BY <1>4a
<1>5. head'[Run] \in Node => head'[Run] \in Known /\ rank[running] < rank[head'[Run]]
  BY <1>1, <1>3, <1>4 DEF Ordered, Resuming
<1>6. \A u \in Node : pc'[u] # "count_run"
  <2>1. \A u \in Node : pc[u] \in Critical[Run] => u = t
    BY <1>1 DEF InsideInv
  <2> QED
    BY <1>0, <1>1, <2>1, CriticalSteps DEF TypeOK
<1>7. Ordered(rank)'
  BY <1>1, <1>2, <1>4, <1>5, <1>6 DEF Ordered, Resuming
<1> QED
  BY <1>7 DEF OrderInv

\* schedule takes the head of run_queue, which is above the thread that runs; the
\* next one is above it.
LEMMA PopOrder ==
  ASSUME ProcessIInv, LockHeldByOne, InsideInv, OrderInv, SchedulePop
  PROVE  OrderInv'
<1>0. TypeOK
  BY DEF ProcessIInv
<1>1. /\ cpu = "schedule" /\ cpu' = "append" /\ UNCHANGED <<running, next, pc, pcb, saved_state>>
      /\ new' = head[Run] /\ head'[Run] = next[head[Run]] /\ lock[Run]
  BY <1>0, ConstantTypes
  DEF SchedulePop, next_thread, through, Handle, pop_list, callVars, memVars, TypeOK, ListTypeOK
<1>2. Known' = Known
  BY <1>1 DEF Known, Live, Unlinked
<1>3. CASE head[Run] \notin Node
  BY <1>1, <1>3 DEF OrderInv, Sane, Resuming
<1>4. CASE head[Run] \in Node
  <2>1a. PICK top \in Nat : \E rank \in [Node -> 0..top] : Ordered(rank)
    BY <1>1 DEF OrderInv, Sane
  <2>1. PICK rank \in [Node -> 0..top] : Ordered(rank)
    BY <2>1a
  <2>2. head[Run] \in Known /\ rank[running] < rank[head[Run]] /\ running \in Node
    BY <1>0, <1>1, <1>4, <2>1 DEF Ordered, Resuming, TypeOK
  <2>3. new' # running
    BY <1>1, <2>2
  <2>4. head'[Run] \in Node => head'[Run] \in Known /\ rank[new'] < rank[head'[Run]]
    BY <1>1, <1>4, <2>1 DEF Ordered
  <2>5. \A l \in List : tail'[l] \in Node => tail'[l] \in Known
    <3>1. \A l \in List : tail'[l] \in {tail[l], Null}
      BY <1>0 DEF SchedulePop, next_thread, pop_list, pop_tail, TypeOK, ListTypeOK
    <3> QED
      BY <2>1, <3>1, ListAssumption DEF Ordered
  <2>6. \A t \in Node : pc'[t] # "count_run"
    BY <1>1, CriticalSteps, ConstantTypes DEF LockHeldByOne
  <2>7. Ordered(rank)'
    BY <1>1, <1>2, <2>1, <2>2, <2>3, <2>4, <2>5, <2>6 DEF Ordered, Resuming
  <2> QED
    BY <2>7 DEF OrderInv
<1> QED
  BY <1>3, <1>4

\* schedule puts the interrupted thread behind the last of run_queue.
LEMMA AppendOrder ==
  ASSUME ProcessIInv, InsideInv, OrderInv, ScheduleAppend
  PROVE  OrderInv'
<1>0. TypeOK
  BY DEF ProcessIInv
<1>1. /\ cpu = "append" /\ cpu' = "switch" /\ UNCHANGED <<running, new, pc, pcb, saved_state>>
      /\ old = running
      /\ next' = [next EXCEPT ![tail[Run]] = old, ![old] = Null]
      /\ tail' = [tail EXCEPT ![Run] = old]
      /\ head'[Run] = IF head[Run] = Null THEN old ELSE head[Run]
  BY <1>0, ConstantTypes
  DEF ScheduleAppend, append_list, append_links, append_count, Handle, callVars, memVars, TypeOK,
      ListTypeOK, ProcessIInv, HandlerInv
<1>2. Known' = Known
  BY <1>1 DEF Known, Live, Unlinked
<1>3. CASE new \notin Node
  BY <1>1, <1>3 DEF OrderInv, Sane, Resuming
<1>4. CASE new \in Node
  <2>1a. PICK top \in Nat : \E rank \in [Node -> 0..top] : Ordered(rank)
    BY <1>1, <1>4 DEF OrderInv, Sane, Resuming
  <2>1. PICK rank \in [Node -> 0..top] : Ordered(rank)
    BY <2>1a
  <2>2. PICK n \in Node, last \in Ref : n = running /\ last = tail[Run]
    BY <1>0, ConstantTypes DEF TypeOK, ListTypeOK
  <2>3. PICK r \in [Node -> 0..top + 1] :
             /\ \A m \in Node : m # n => r[m] = rank[m] /\ r[m] < r[n]
             /\ \A m \in Node : rank[m] <= r[m] /\ rank[m] \in Nat /\ r[m] \in Nat
    BY Raised
  <2>4. /\ \A m \in Ref : next'[m] = IF m = n THEN Null ELSE IF m = last THEN n ELSE next[m]
        /\ n \in Known /\ (last \in Node => last \in Known)
        /\ new \in Known /\ new # n /\ running = n
    BY <1>0, <1>1, <2>1, <2>2, ConstantTypes DEF TypeOK, ListTypeOK, Ordered, Resuming
  <2>5. ASSUME NEW m \in Node, next'[m] \in Node
        PROVE  m \in Known' /\ next'[m] \in Known' /\ r[m] < r[next'[m]]
    <3>1. m # n
      BY <2>4, <2>5, ListAssumption, ConstantTypes
    <3>2. CASE m = last
      BY <1>2, <2>3, <2>4, <3>1, <3>2, ConstantTypes
    <3>3. CASE m # last
      <4>1. next'[m] = next[m] /\ m \in Known /\ next[m] \in Known /\ rank[m] < rank[next[m]]
        BY <2>1, <2>4, <2>5, <3>1, <3>3, ConstantTypes DEF Ordered
      <4> QED
        BY <1>2, <2>3, <2>5, <3>1, <4>1
    <3> QED
      BY <3>2, <3>3
  <2>6. head'[Run] \in Node => head'[Run] \in Known /\ r[new] < r[head'[Run]]
    <3>1. head[Run] \in Node => head[Run] \in Known /\ rank[new] < rank[head[Run]]
      BY <1>1, <2>1 DEF Ordered, Resuming
    <3>2. r[new] = rank[new] /\ r[new] < r[n]
      BY <1>4, <2>3, <2>4
    <3> QED
      BY <1>1, <2>3, <2>4, <3>1, <3>2
  <2>7. \A t \in Node : pc'[t] # "count_run"
    BY <1>1, CriticalSteps DEF InsideInv
  <2>8. \A l \in List : tail'[l] \in Node => tail'[l] \in Known
    BY <1>0, <1>1, <2>1, <2>4 DEF Ordered, TypeOK, ListTypeOK
  <2>9. Ordered(r)'
    BY <1>1, <1>2, <2>4, <2>5, <2>6, <2>7, <2>8 DEF Ordered, Resuming
  <2> QED
    BY <2>9 DEF OrderInv
<1> QED
  BY <1>3, <1>4

\* switch_to_thread: the thread that schedule took off the queue runs.
LEMMA SwitchOrder ==
  ASSUME ProcessIInv, InsideInv, OrderInv, ScheduleSwitch
  PROVE  OrderInv'
<1>0. TypeOK
  BY DEF ProcessIInv
<1>1. /\ cpu = "switch" /\ UNCHANGED <<new, next, head, tail, pc, pcb>>
      /\ cpu' = "wild" \/ (cpu' \in {"thread", "return"} /\ new \in Node /\ running' = new)
  BY DEF ScheduleSwitch, switch_to_thread, listVars, callVars
<1>2. Known' = Known
  BY <1>1, SwitchLive DEF Known, Unlinked
<1>3. CASE cpu' = "wild"
  BY <1>3 DEF OrderInv, Sane, Resuming
<1>4. CASE cpu' \in {"thread", "return"} /\ new \in Node /\ running' = new
  <2>1a. PICK top \in Nat : \E rank \in [Node -> 0..top] : Ordered(rank)
    BY <1>1, <1>4 DEF OrderInv, Sane, Resuming
  <2>1. PICK rank \in [Node -> 0..top] : Ordered(rank)
    BY <2>1a
  <2>2. \A t \in Node : pc'[t] # "count_run"
    BY <1>1, CriticalSteps DEF InsideInv
  <2>3. Ordered(rank)'
    BY <1>1, <1>2, <1>4, <2>1, <2>2 DEF Ordered, Resuming
  <2> QED
    BY <2>3 DEF OrderInv
<1> QED
  BY <1>1, <1>3, <1>4

LEMMA OrderStep ==
  ASSUME ProcessIInv, LockHeldByOne, PcbsInHand, InsideInv, OrderInv, [Next]_vars,
         cpu' # "reap"
  PROVE  OrderInv'
<1>0. TypeOK
  BY DEF ProcessIInv
<1>1. CASE UNCHANGED vars
  <2>1. UNCHANGED <<next, tail, head, running, new, cpu, pc, pcb>> /\ Known' = Known
    BY <1>1 DEF vars, listVars, cpuVars, callVars, memVars, Known, Live, Unlinked
  <2>2. CASE Sane
    BY <2>1, <2>2, QuietOrder
  <2>3. CASE ~Sane
    BY <2>1, <2>3 DEF OrderInv, Sane
  <2> QED
    BY <2>2, <2>3
<1>2. ASSUME NEW t \in Node, Create(t) PROVE OrderInv'
  <2>1. CASE AllLink(t) \/ AllRest(t) \/ RunLink(t) \/ RunCount(t)
    BY <2>1, AllLinkOrder, AllRestOrder, RunLinkOrder, RunCountOrder
  <2>2. CASE ~(AllLink(t) \/ AllRest(t) \/ RunLink(t) \/ RunCount(t))
    <3>1. /\ UNCHANGED <<next, tail, head>>
          /\ pc[t] # "count_run" \/ UNCHANGED <<pc, pcb>>
          /\ pc'[t] # "count_run" \/ UNCHANGED <<pc, pcb>>
      BY <1>0, <1>2, <2>2
      DEF Create, KmallocScan, KmallocSplit, KmallocReturn, KmallocReuses, KmallocFails,
          PageCheck, PageLock, PagePop, PagePopWild, PidRead, PidWrite, AllLock, RunLock,
          RunUnlock, Step, TypeOK, listVars, callVars
    <3>2. /\ cpu = "thread" /\ running' = running /\ cpu' \in {"thread", "wild"}
          /\ cpu' = "thread" => new' = new
      BY <1>2, CreateCpu
    <3>3. Known' = Known
      BY <1>2, <2>2, CreateKnown
    <3>4. \A u \in Node : pc'[u] = "count_run" => pc[u] = "count_run" /\ pcb'[u] = pcb[u]
      BY <1>2, <3>1, CreateHand
    <3>5. CASE cpu' = "thread"
      BY <3>1, <3>2, <3>3, <3>4, <3>5, QuietOrder DEF Sane, Resuming
    <3>6. CASE cpu' = "wild"
      BY <3>6 DEF OrderInv, Sane, Resuming
    <3> QED
      BY <3>2, <3>5, <3>6
  <2> QED
    BY <2>1, <2>2
<1>3. CASE TimerIrq \/ ScheduleNone \/ ScheduleReturn
  <2>1. /\ UNCHANGED <<next, tail, head, running, new, pc, pcb, saved_state>>
        /\ cpu \in {"thread", "schedule", "return"} /\ cpu' \in {"thread", "schedule"}
    BY <1>3 DEF TimerIrq, ScheduleNone, ScheduleReturn, Handle, callVars, memVars, listVars
  <2>2. Known' = Known
    BY <2>1 DEF Known, Live, Unlinked
  <2> QED
    BY <2>1, <2>2, QuietOrder DEF Sane, Resuming
<1>4. ~(ReapPop \/ ReapFreePage \/ ReapKfree \/ ReapLeft \/ ReapRight \/ ReapRemove \/ ReapSwitch)
  BY DEF ReapPop, ReapFreePage, ReapKfree, ReapLeft, ReapRight, ReapRemove, ReapSwitch,
         next_thread, switch_to_thread, Handle, InsideInv
<1>5. \A t \in Node : ~ThreadReturns(t)
  BY DEF ThreadReturns, Handle
<1> QED
  BY <1>1, <1>2, <1>3, <1>4, <1>5, PopOrder, AppendOrder, SwitchOrder DEF Next, Handler

LEMMA InitOrder == Init => InsideInv /\ OrderInv
<1> SUFFICES ASSUME Init PROVE InsideInv /\ OrderInv
  OBVIOUS
<1> USE ProcessAssumption, ListAssumption, ConstantTypes, CriticalSteps
<1>1. InsideInv
  BY DEF Init, InsideInv, InHand, Creating, Listing
<1>2. /\ running = Main /\ Main \in Node /\ cpu = "thread" /\ Known = {Main}
      /\ head[Run] = Null /\ \A t \in Node : pc[t] = "work"
      /\ \A l \in List : tail[l] \in {Main, Null}
  BY DEF Init, Known, Live, Unlinked
<1>3. \A n \in Node : next[n] \notin Node
  <2>1. PICK word \in {Null, Junk} :
          next = [[r \in Ref |-> word] EXCEPT ![Null] = Main, ![Main] = Null]
    BY DEF Init
  <2> QED
    BY <2>1
<1> DEFINE rank == [n \in Node |-> 0]
<1>4. rank \in [Node -> 0..0] /\ 0 \in Nat
  OBVIOUS
<1>5. Ordered(rank)
  BY <1>2, <1>3 DEF Ordered, Resuming
<1> QED
  BY <1>1, <1>4, <1>5 DEF OrderInv

\* The balance of create_kernel_thread and reap: a call in its first steps, or a
\* thread that lives, for each call so far and for Main, or fewer.
Balance == Cardinality(Live) + Cardinality(Unframed) <= made + 1

LEMMA OneMore ==
  ASSUME NEW S, IsFiniteSet(S), NEW x
  PROVE  /\ IsFiniteSet(S \cup {x}) /\ Cardinality(S \cup {x}) \in Nat
         /\ Cardinality(S \cup {x}) <= Cardinality(S) + 1
<1>1. /\ IsFiniteSet(S \cup {x}) /\ Cardinality(S) \in Nat
      /\ Cardinality(S \cup {x}) = IF x \in S THEN Cardinality(S) ELSE Cardinality(S) + 1
  BY FS_AddElement, FS_CardinalityType
<1> QED
  BY <1>1

\* The balance never rises, and falls with each thread that is reaped.
LEMMA BalanceStep ==
  ASSUME ProcessIInv, PcbsInHand, Balance, [Next]_vars
  PROVE  /\ Balance' /\ (NobodyReaped' => NobodyReaped)
         /\ NobodyReaped' => ~(cpu = "reap_switch" /\ cpu' # "reap_switch" /\ cpu' # "wild")
<1>0. /\ TypeOK /\ made \in Nat /\ IsFiniteSet(Live) /\ IsFiniteSet(Unframed)
      /\ Cardinality(Live) \in Nat /\ Cardinality(Unframed) \in Nat
  <2>1. Live \subseteq Node /\ Unframed \subseteq Node
    BY DEF Live, Unframed
  <2>2. IsFiniteSet(Live) /\ IsFiniteSet(Unframed)
    BY <2>1, FiniteNodes, FS_Subset
  <2> QED
    BY <2>2, FS_CardinalityType, ProcessAssumption DEF ProcessIInv, TypeOK
<1>1. SUFFICES /\ made' \in Nat /\ Cardinality(Live') \in Nat /\ Cardinality(Unframed') \in Nat
               /\ Cardinality(Live') + Cardinality(Unframed') - made'
                    <= Cardinality(Live) + Cardinality(Unframed) - made
               /\ cpu = "reap_switch" /\ cpu' \notin {"reap_switch", "wild"}
                    => Cardinality(Live') + Cardinality(Unframed') - made'
                         < Cardinality(Live) + Cardinality(Unframed) - made
  BY <1>0 DEF Balance, NobodyReaped
<1>2. CASE UNCHANGED vars
  BY <1>0, <1>2 DEF vars, Live, Unframed, callVars, memVars, cpuVars
<1>3. CASE TimerIrq \/ Handler \/ \E t \in Node : ThreadReturns(t)
  <2>1. /\ Live' \subseteq Live /\ UNCHANGED pc
    BY <1>3, HandlerLive
  <2>2. Unframed' = Unframed /\ made' = made
    BY <1>3, <2>1
    DEF Unframed, TimerIrq, ThreadReturns, Handler, ScheduleNone, SchedulePop, ScheduleAppend,
        ScheduleSwitch, ScheduleReturn, ReapPop, ReapFreePage, ReapKfree, ReapLeft, ReapRight,
        ReapRemove, ReapSwitch, next_thread, switch_to_thread, Handle, callVars
  <2>3. Cardinality(Live') \in Nat /\ Cardinality(Live') <= Cardinality(Live)
    BY <1>0, <2>1, FS_Subset, FS_CardinalityType
  <2>4. CASE cpu = "reap_switch" /\ cpu' \notin {"reap_switch", "wild"}
    <3>1. ReapSwitch
      BY <1>3, <2>4
      DEF TimerIrq, ThreadReturns, Handler, ScheduleNone, SchedulePop, ScheduleAppend,
          ScheduleSwitch, ScheduleReturn, ReapPop, ReapFreePage, ReapKfree, ReapLeft, ReapRight,
          ReapRemove, next_thread, switch_to_thread, Handle
    <3>2. old = running /\ running \in Live
      BY <1>0, <2>4 DEF ProcessIInv, HandlerInv, TypeOK, Live
    <3>3. old \notin Live'
      <4> DEFINE frames == [saved_state EXCEPT ![old] = "none"]
      <4>1. /\ new \in Node /\ frames[new] # "none" /\ running' = new
            /\ saved_state' = [frames EXCEPT ![new] = "none"]
        BY <2>4, <3>1 DEF ReapSwitch, switch_to_thread
      <4>2. new # old /\ saved_state'[old] = "none"
        BY <1>0, <3>2, <4>1 DEF TypeOK, Live
      <4> QED
        BY <4>1, <4>2 DEF Live
    <3>4. Live' # Live /\ Cardinality(Live') < Cardinality(Live)
      BY <1>0, <2>1, <2>3, <3>2, <3>3, FS_Subset
    <3> QED
      BY <1>0, <2>2, <2>3, <3>4
  <2> QED
    BY <1>0, <2>2, <2>3, <2>4
<1>4. ASSUME NEW t \in Node, Create(t)
      PROVE  /\ made' \in Nat /\ Cardinality(Live') \in Nat /\ Cardinality(Unframed') \in Nat
             /\ Cardinality(Live') + Cardinality(Unframed') - made'
                  <= Cardinality(Live) + Cardinality(Unframed) - made
             /\ cpu # "reap_switch"
  <2>1. cpu # "reap_switch"
    BY <1>4, CreateCpu
  <2>2. CASE PidWrite(t)
    <3>1. /\ pc[t] = "write_pid" /\ pc' = [pc EXCEPT ![t] = "lock_all"] /\ made' = made
      BY <2>2 DEF PidWrite, Step
    <3>2. /\ Live' \subseteq Live \cup {pcb[t]}
      BY <1>4, <2>2, CreateLive
    <3>3. t \in Unframed /\ Unframed' = Unframed \ {t}
      BY <1>0, <3>1 DEF Unframed, TypeOK
    <3>4. /\ Cardinality(Unframed') = Cardinality(Unframed) - 1
          /\ Cardinality(Unframed') \in Nat
      BY <1>0, <3>3, FS_RemoveElement, FS_CardinalityType
    <3>5. /\ IsFiniteSet(Live \cup {pcb[t]})
          /\ Cardinality(Live \cup {pcb[t]}) \in Nat
          /\ Cardinality(Live \cup {pcb[t]}) <= Cardinality(Live) + 1
      BY <1>0, OneMore
    <3>6. /\ Cardinality(Live') \in Nat /\ Cardinality(Live') <= Cardinality(Live \cup {pcb[t]})
      BY <3>2, <3>5, FS_Subset, FS_CardinalityType
    <3> QED
      BY <1>0, <2>1, <3>1, <3>4, <3>5, <3>6
  <2>3. CASE KmallocScan(t)
    <3>1. /\ pc[t] = "work" /\ made' = made + 1
          /\ pc' = [pc EXCEPT ![t] = "split"] \/ pc' = [pc EXCEPT ![t] = "mark"]
      BY <2>3 DEF KmallocScan, Step
    <3>2. Live' = Live
      BY <1>4, <3>1, CreateLive DEF PidWrite, Step
    <3>3. Unframed' = Unframed \cup {t}
      BY <1>0, <3>1 DEF Unframed, TypeOK
    <3>4. /\ Cardinality(Unframed') \in Nat
          /\ Cardinality(Unframed') <= Cardinality(Unframed) + 1
      BY <1>0, <3>3, OneMore
    <3> QED
      BY <1>0, <2>1, <3>1, <3>2, <3>4
  <2>4. CASE ~PidWrite(t) /\ ~KmallocScan(t)
    <3>1. /\ made' = made
          /\ pc'[t] \in {"mark", "alloc_page", "lock_pages", "pop_page", "read_pid", "write_pid"}
               => pc[t] \in {"split", "mark", "alloc_page", "lock_pages", "pop_page", "read_pid",
                             "write_pid"}
          /\ pc'[t] = "split" => pc[t] = "split"
      BY <1>0, <1>4, <2>4
      DEF Create, KmallocSplit, KmallocReturn, KmallocReuses, KmallocFails,
          PageCheck, PageLock, PagePop, PagePopWild, PidRead, AllLock, AllLink,
          AllRest, RunLock, RunLink, RunCount, RunUnlock, Step, TypeOK, callVars
    <3>2. Live' = Live
      BY <1>4, <2>4, CreateLive
    <3>3. Unframed' \subseteq Unframed
      BY <1>4, <3>1, CreateHand DEF Unframed
    <3>4. Cardinality(Unframed') \in Nat /\ Cardinality(Unframed') <= Cardinality(Unframed)
      BY <1>0, <3>3, FS_Subset, FS_CardinalityType
    <3> QED
      BY <1>0, <2>1, <3>1, <3>2, <3>4
  <2> QED
    BY <2>2, <2>3, <2>4
<1> QED
  BY <1>2, <1>3, <1>4 DEF Next

\* What holds until the first thread is reaped, but while reap is at work: from there
\* no step leads back to a thread that does not lower the balance.
Reaping == {"reap", "free_page", "kfree", "left", "right", "remove", "reap_switch"}
StayInv ==
  /\ Balance
  /\ NobodyReaped /\ cpu \notin Reaping \cup {"wild"} => InsideInv /\ OrderInv

LEMMA StayStep ==
  ASSUME ProcessIInv, LockHeldByOne, PcbsInHand, StayInv, [Next]_vars
  PROVE  StayInv'
<1>1. Balance' /\ (NobodyReaped' => NobodyReaped)
  BY BalanceStep DEF StayInv
<1>2. ASSUME NobodyReaped', cpu' \notin Reaping \cup {"wild"} PROVE InsideInv' /\ OrderInv'
  <2>1. CASE cpu \notin Reaping \cup {"wild"}
    <3>1. InsideInv /\ OrderInv /\ cpu' # "reap"
      BY <1>1, <1>2, <2>1 DEF StayInv, Reaping
    <3> QED
      BY <3>1, InsideStep, OrderStep
  <2>2. cpu # "wild"
    <3>1. CASE UNCHANGED vars
      BY <1>2, <3>1 DEF vars, cpuVars
    <3>2. CASE \E t \in Node : Create(t)
      BY <3>2, CreateCpu
    <3>3. CASE TimerIrq \/ Handler \/ \E t \in Node : ThreadReturns(t)
      BY <3>3
      DEF TimerIrq, ThreadReturns, Handler, ScheduleNone, SchedulePop, ScheduleAppend,
          ScheduleSwitch, ScheduleReturn, ReapPop, ReapFreePage, ReapKfree, ReapLeft, ReapRight,
          ReapRemove, ReapSwitch, next_thread, switch_to_thread, Handle
    <3> QED
      BY <3>1, <3>2, <3>3 DEF Next
  <2>3. CASE cpu \in Reaping
    <3>1. cpu = "reap_switch"
      <4>1. CASE UNCHANGED vars
        BY <1>2, <2>3, <4>1 DEF vars, cpuVars
      <4>2. CASE \E t \in Node : Create(t)
        BY <2>3, <4>2, CreateCpu DEF Reaping
      <4>3. CASE TimerIrq \/ Handler \/ \E t \in Node : ThreadReturns(t)
        BY <1>2, <2>3, <4>3
        DEF TimerIrq, ThreadReturns, Handler, ScheduleNone, SchedulePop, ScheduleAppend,
            ScheduleSwitch, ScheduleReturn, ReapPop, ReapFreePage, ReapKfree, ReapLeft, ReapRight,
            ReapRemove, ReapSwitch, next_thread, switch_to_thread, Handle, Reaping
      <4> QED
        BY <4>1, <4>2, <4>3 DEF Next
    <3> QED
      BY <1>2, <3>1, BalanceStep DEF StayInv, Reaping
  <2> QED
    BY <2>1, <2>2, <2>3
<1> QED
  BY <1>1, <1>2 DEF StayInv

LEMMA InitStay == Init => StayInv
<1> SUFFICES ASSUME Init PROVE StayInv
  OBVIOUS
<1>1. Live = {Main} /\ Unframed = {} /\ made = 0
  BY ProcessAssumption DEF Init, Live, Unframed
<1>2. Cardinality({Main}) = 1 /\ Cardinality({}) = 0
  BY FS_Singleton, FS_EmptySet
<1> QED
  BY <1>1, <1>2, InitOrder DEF StayInv, Balance

\* Until the first thread is reaped: whatever run_queue links to, and whoever has cut
\* it or led it into all_proc_list, can be switched to.
THEOREM QueueResumes == Spec => []QueuedHasFrame
<1>1. ProcessIInv /\ StayInv => QueuedHasFrame
  <2> SUFFICES ASSUME ProcessIInv, StayInv, NobodyReaped, cpu \in {"thread", "schedule"}
               PROVE  \A n \in Linked(Run) : n \in Node /\ saved_state[n] # "none"
    BY DEF QueuedHasFrame
  <2>1a. PICK top \in Nat : \E rank \in [Node -> 0..top] : Ordered(rank)
    BY DEF StayInv, Reaping, OrderInv, Sane
  <2>1. PICK rank \in [Node -> 0..top] : Ordered(rank)
    BY <2>1a
  <2> DEFINE C == {n \in Known : rank[running] < rank[n]}
  <2>2. /\ C \in SUBSET Node /\ running \in Node
        /\ \A n \in Node : rank[n] \in Nat
    BY DEF ProcessIInv, TypeOK, Known, Live
  <2>3. head[Run] \in Node => head[Run] \in C
    BY <2>1 DEF Ordered, Resuming
  <2>4. \A n \in C : next[n] \in Node => next[n] \in C
    BY <2>1, <2>2 DEF Ordered
  <2>5. \A n \in C : n \in Node /\ saved_state[n] # "none"
    BY <2>2 DEF Known, Live
  <2> HIDE DEF C
  <2>6. Linked(Run) \subseteq C
    BY <2>2, <2>3, <2>4, FiniteNodes, ConstantTypes, LinkedStays
  <2> QED
    BY <2>5, <2>6
<1>2. Init => LockHeldByOne
  BY ConstantTypes, CriticalSteps DEF Init, LockHeldByOne
<1>3. /\ ProcessIInv /\ LockHeldByOne /\ PcbsInHand /\ StayInv /\ [Next]_vars
      => ProcessIInv' /\ LockHeldByOne' /\ PcbsInHand' /\ StayInv'
  BY TypeStep, LockStep, HandStep, StayStep
<1> QED
  BY <1>1, <1>2, <1>3, InitTypes, InitHand, InitStay, PTL DEF Spec

=============================================================================
