-------------------------- MODULE PktMemHeapProofs --------------------------
(***************************************************************************)
(* The heap packet memory manager, for any number of tasks and any pool    *)
(* sizes that satisfy HeapAssumption: the counter is exact, the pool bound *)
(* and the assertion of tx_data_pool_pkt_free hold, a pause always has a   *)
(* release left to end it, and the manager implements PktPool.             *)
(***************************************************************************)
EXTENDS PktMemHeap, FiniteSetTheorems, TLAPS

Count(S) == Cardinality(TasksIn(S))

\* Tasks that hold a reservation that may still become a packet.
Hopeful == {"txHeapAlloc"}

\* No grant in flight can exceed the pool: stronger than TxPoolBound.
GrantBound == TxOut + Count(Hopeful) <= TxBlocks

\* The inductive invariant.  The bound needs the reservations counted with
\* the packets, and the end of a pause needs the counter to be exact.
HeapInv ==
  /\ TypeOK
  /\ TxConservation
  /\ GrantBound
  /\ NoFailedAssert
  /\ PauseHasAnEnd

-----------------------------------------------------------------------------
\* The tasks in a set of steps can be counted.
LEMMA CountType ==
  ASSUME NEW S
  PROVE  IsFiniteSet(TasksIn(S)) /\ Count(S) \in Nat
<1>1. TasksIn(S) \in SUBSET Tasks
  BY DEF TasksIn
<1>2. QED
  BY <1>1, FS_Subset, FS_CardinalityType, HeapAssumption DEF Count

\* One task that changes step moves each count by what it enters and leaves.
LEMMA CountMoves ==
  ASSUME NEW S, NEW t \in Tasks, NEW step,
         pc \in [Tasks -> Steps], Goto(t, step)
  PROVE  Count(S)' = Count(S) + (IF step \in S THEN 1 ELSE 0)
                              - (IF pc[t] \in S THEN 1 ELSE 0)
<1> DEFINE Rest == TasksIn(S) \ {t}
<1>1. IsFiniteSet(Rest) /\ t \notin Rest
      /\ Cardinality(Rest) = IF t \in TasksIn(S) THEN Count(S) - 1 ELSE Count(S)
  BY CountType, FS_RemoveElement DEF Count
<1>2. t \in TasksIn(S) <=> pc[t] \in S
  BY DEF TasksIn
<1>3. TasksIn(S)' = IF step \in S THEN Rest \cup {t} ELSE Rest
  BY DEF TasksIn, Goto
<1>4. Cardinality(Rest \cup {t}) = Cardinality(Rest) + 1
  BY <1>1, FS_AddElement
<1>5. Count(S) \in Nat
  BY CountType
<1> HIDE DEF Rest
<1>6. Count(S)' = Cardinality(Rest) + (IF step \in S THEN 1 ELSE 0)
  <2>1. CASE step \in S
    BY <2>1, <1>1, <1>3, <1>4, FS_CardinalityType DEF Count
  <2>2. CASE step \notin S
    BY <2>2, <1>1, <1>3, FS_CardinalityType DEF Count
  <2>3. QED
    BY <2>1, <2>2
<1>7. QED
  BY <1>1, <1>2, <1>5, <1>6

\* A set of steps somebody is in has a positive count, and an empty one none.
LEMMA CountZero ==
  ASSUME NEW S
  PROVE  Count(S) = 0 <=> TasksIn(S) = {}
BY CountType, FS_EmptySet DEF Count

\* If some task is elsewhere, the others are fewer than all the tasks.
LEMMA CountBelow ==
  ASSUME NEW S, NEW t \in Tasks, pc[t] \notin S
  PROVE  Count(S) <= TxBlocks - 3
<1>1. TasksIn(S) \in SUBSET (Tasks \ {t})
  BY DEF TasksIn
<1>2. IsFiniteSet(Tasks \ {t}) /\ Cardinality(Tasks \ {t}) = Cardinality(Tasks) - 1
  BY FS_RemoveElement, HeapAssumption
<1>3. Count(S) <= Cardinality(Tasks \ {t})
  BY <1>1, <1>2, FS_Subset DEF Count
<1>4. Cardinality(Tasks) \in Nat /\ Count(S) \in Nat
  BY FS_CardinalityType, CountType, HeapAssumption
<1>5. QED
  BY <1>2, <1>3, <1>4, HeapAssumption

-----------------------------------------------------------------------------
\* The actions that leave the transmit side and its steps alone.
Elsewhere(t) ==
  \/ CommandDequeue(t) \/ CommandInit(t) \/ CommandTooBig(t) \/ CommandFree(t)
  \/ RxReserve(t) \/ RxHeapAlloc(t) \/ RxUndo(t) \/ RxFree(t)

LEMMA InitHeapInv == Init => HeapInv
<1> SUFFICES ASSUME Init PROVE HeapInv
  OBVIOUS
<1>1. TypeOK
  BY HeapAssumption DEF Init, TypeOK, Steps
<1>2. \A S : "idle" \notin S => Count(S) = 0
  BY CountZero DEF Init, TasksIn
<1>3. Count(TxGranted) = 0 /\ Count(TxReserving) = 0 /\ Count(Hopeful) = 0
  BY <1>2 DEF TxGranted, TxReserving, Hopeful
<1>4. QED
  BY <1>1, <1>3, HeapAssumption
  DEF HeapInv, TxConservation, GrantBound, NoFailedAssert, PauseHasAnEnd,
      TxOut, Init, Count, At

\* Every step of every task keeps the type invariant.
LEMMA TypeStep == HeapInv /\ [Next]_vars => TypeOK'
<1> SUFFICES ASSUME HeapInv, [Next]_vars PROVE TypeOK'
  OBVIOUS
<1> USE DEF HeapInv, TypeOK, txVars, cmdVars, rxVars, Goto, At, Steps,
            TxReserving, TxGranted, TxFreeing, RxReserving, TxReturn
<1>1. ASSUME NEW t \in Tasks, Elsewhere(t) PROVE TypeOK'
  BY <1>1 DEF Elsewhere, CommandDequeue, CommandInit, CommandTooBig, CommandFree,
              RxReserve, RxHeapAlloc, RxUndo, RxFree
<1>2. ASSUME NEW t \in Tasks, TxReserve(t) PROVE TypeOK'
  BY <1>2 DEF TxReserve
<1>3. ASSUME NEW t \in Tasks, TxContinue(t) PROVE TypeOK'
  BY <1>3 DEF TxContinue, TxHeapAlloc, TxUndo, TxCheck, TxPause, TxPauseCb,
              TxFreeCheck, TxUnpause, TxUnpauseCb
<1>4. ASSUME NEW t \in Tasks, TxFree(t) PROVE TypeOK'
  BY <1>4 DEF TxFree
<1>5. ASSUME Restart PROVE TypeOK'
  BY <1>5, HeapAssumption DEF Restart
<1>6. CASE UNCHANGED vars
  BY <1>6 DEF vars
<1>7. QED
  BY <1>1, <1>2, <1>3, <1>4, <1>5, <1>6
  DEF Next, Elsewhere, CommandContinue, RxContinue

\* The counts a step of the transmit side depends on, after task t goes to step.
LEMMA TxCounts ==
  ASSUME NEW t \in Tasks, NEW step, TypeOK, Goto(t, step)
  PROVE  /\ Count(TxGranted)' = Count(TxGranted)
              + (IF step \in TxGranted THEN 1 ELSE 0)
              - (IF pc[t] \in TxGranted THEN 1 ELSE 0)
         /\ Count(TxReserving)' = Count(TxReserving)
              + (IF step \in TxReserving THEN 1 ELSE 0)
              - (IF pc[t] \in TxReserving THEN 1 ELSE 0)
         /\ Count(Hopeful)' = Count(Hopeful)
              + (IF step \in Hopeful THEN 1 ELSE 0)
              - (IF pc[t] \in Hopeful THEN 1 ELSE 0)
BY CountMoves DEF TypeOK

\* The arithmetic of the pool: the counter stays exact and the bound holds.
Accounting == TxConservation /\ GrantBound

\* A count is unchanged by a step that moves no task.
LEMMA CountSame ==
  ASSUME NEW S, UNCHANGED pc
  PROVE  Count(S)' = Count(S) /\ TasksIn(S)' = TasksIn(S)
BY DEF Count, TasksIn

\* Every step keeps the counter exact and the pool within its bound.
LEMMA AccountingStep == HeapInv /\ [Next]_vars => Accounting'
<1> SUFFICES ASSUME HeapInv, [Next]_vars PROVE Accounting'
  OBVIOUS
<1> DEFINE G == Count(TxGranted)
           R == Count(TxReserving)
           H == Count(Hopeful)
<1>1. TypeOK /\ TypeOK'
  BY TypeStep DEF HeapInv
<1>2. G \in Nat /\ R \in Nat /\ H \in Nat
  BY CountType
<1>3. txAllocated = txHeld + G + R /\ txHeld + G + H <= TxBlocks
  BY DEF HeapInv, TxConservation, GrantBound, TxOut, Count
<1>4. SUFFICES txAllocated' = txHeld' + G' + R' /\ txHeld' + G' + H' <= TxBlocks
  BY DEF Accounting, TxConservation, GrantBound, TxOut, Count
<1>5. H <= R
  <2>1. TasksIn(Hopeful) \in SUBSET TasksIn(TxReserving)
    BY DEF TasksIn, Hopeful, TxReserving
  <2>2. QED
    BY <2>1, CountType, FS_Subset DEF Count
<1> HIDE DEF G, R, H
<1>6. ASSUME NEW t \in Tasks, NEW step, Goto(t, step)
      PROVE  /\ G' = G + (IF step \in TxGranted THEN 1 ELSE 0)
                       - (IF pc[t] \in TxGranted THEN 1 ELSE 0)
             /\ R' = R + (IF step \in TxReserving THEN 1 ELSE 0)
                       - (IF pc[t] \in TxReserving THEN 1 ELSE 0)
             /\ H' = H + (IF step \in Hopeful THEN 1 ELSE 0)
                       - (IF pc[t] \in Hopeful THEN 1 ELSE 0)
  BY <1>1, <1>6, TxCounts DEF G, R, H
<1>7. ASSUME UNCHANGED pc PROVE G' = G /\ R' = R /\ H' = H
  BY <1>7, CountSame DEF G, R, H
<1> USE <1>1, <1>2, <1>3, HeapAssumption
    DEF TypeOK, At, TxReserving, TxGranted, Hopeful, txVars
<1>8. ASSUME NEW t \in Tasks, Elsewhere(t)
      PROVE  txAllocated' = txHeld' + G' + R' /\ txHeld' + G' + H' <= TxBlocks
  <2>1. CASE CommandDequeue(t)
    BY <2>1, <1>6 DEF CommandDequeue
  <2>2. CASE CommandInit(t)
    BY <2>2, <1>6 DEF CommandInit
  <2>3. CASE CommandTooBig(t)
    BY <2>3, <1>6 DEF CommandTooBig
  <2>4. CASE CommandFree(t)
    BY <2>4, <1>7 DEF CommandFree
  <2>5. CASE RxReserve(t)
    BY <2>5, <1>6 DEF RxReserve
  <2>6. CASE RxHeapAlloc(t)
    BY <2>6, <1>6 DEF RxHeapAlloc
  <2>7. CASE RxUndo(t)
    BY <2>7, <1>6 DEF RxUndo
  <2>8. CASE RxFree(t)
    BY <2>8, <1>7 DEF RxFree
  <2>9. QED
    BY <1>8, <2>1, <2>2, <2>3, <2>4, <2>5, <2>6, <2>7, <2>8 DEF Elsewhere
<1>9. ASSUME NEW t \in Tasks, TxReserve(t)
      PROVE  txAllocated' = txHeld' + G' + R' /\ txHeld' + G' + H' <= TxBlocks
  <2>1. CASE txAllocated >= TxBlocks
    BY <2>1, <1>9, <1>6 DEF TxReserve
  <2>2. CASE txAllocated < TxBlocks
    BY <2>2, <1>5, <1>9, <1>6 DEF TxReserve
  <2>3. QED
    BY <2>1, <2>2
<1>10. ASSUME NEW t \in Tasks, TxContinue(t)
       PROVE  txAllocated' = txHeld' + G' + R' /\ txHeld' + G' + H' <= TxBlocks
  <2>1. CASE TxHeapAlloc(t)
    BY <2>1, <1>6 DEF TxHeapAlloc
  <2>2. CASE TxUndo(t)
    BY <2>2, <1>6 DEF TxUndo
  <2>3. CASE TxCheck(t)
    <3>1. CASE txAllocated > PauseThreshold
      BY <2>3, <3>1, <1>6 DEF TxCheck
    <3>2. CASE ~(txAllocated > PauseThreshold)
      BY <2>3, <3>2, <1>6 DEF TxCheck, TxReturn
    <3>3. QED
      BY <3>1, <3>2
  <2>4. CASE TxPause(t)
    BY <2>4, <1>6 DEF TxPause, TxReturn
  <2>5. CASE TxPauseCb(t)
    BY <2>5, <1>6 DEF TxPauseCb, TxReturn
  <2>6. CASE TxFreeCheck(t)
    BY <2>6, <1>6 DEF TxFreeCheck
  <2>7. CASE TxUnpause(t)
    BY <2>7, <1>6 DEF TxUnpause
  <2>8. CASE TxUnpauseCb(t)
    BY <2>8, <1>6 DEF TxUnpauseCb
  <2>9. QED
    BY <1>10, <2>1, <2>2, <2>3, <2>4, <2>5, <2>6, <2>7, <2>8 DEF TxContinue
<1>11. ASSUME NEW t \in Tasks, TxFree(t)
       PROVE  txAllocated' = txHeld' + G' + R' /\ txHeld' + G' + H' <= TxBlocks
  BY <1>11, <1>6 DEF TxFree
<1>12. ASSUME Restart
       PROVE  txAllocated' = txHeld' + G' + R' /\ txHeld' + G' + H' <= TxBlocks
  <2>1. TasksIn(TxGranted) = {} /\ TasksIn(TxReserving) = {} /\ TasksIn(Hopeful) = {}
    BY <1>12 DEF Restart, TasksIn
  <2>2. G = 0 /\ R = 0 /\ H = 0
    BY <2>1, CountZero DEF G, R, H
  <2>3. QED
    BY <2>2, <1>12, <1>7 DEF Restart
<1>13. CASE UNCHANGED vars
  BY <1>13, <1>7 DEF vars
<1>14. QED
  BY <1>8, <1>9, <1>10, <1>11, <1>12, <1>13
  DEF Next, Elsewhere, CommandContinue, RxContinue

-----------------------------------------------------------------------------
\* A release always finds a positive counter: the packet itself is counted.
LEMMA AssertStep == HeapInv /\ [Next]_vars => NoFailedAssert'
<1> SUFFICES ASSUME HeapInv, [Next]_vars, NEW u \in Tasks PROVE ~At(u, "asserted")'
  BY DEF NoFailedAssert
<1> USE DEF HeapInv, NoFailedAssert, TypeOK, At, Goto
<1>1. ASSUME NEW t \in Tasks, TxFree(t) PROVE ~At(u, "asserted")'
  <2>1. txAllocated > 0
    <3>1. txAllocated = txHeld + Count(TxGranted) + Count(TxReserving)
      BY DEF TxConservation, TxOut, Count
    <3>2. Count(TxGranted) \in Nat /\ Count(TxReserving) \in Nat
      BY CountType
    <3>3. QED
      BY <1>1, <3>1, <3>2 DEF TxFree
  <2>2. QED
    BY <1>1, <2>1 DEF TxFree
<1>2. ASSUME NEW t \in Tasks, Elsewhere(t) PROVE ~At(u, "asserted")'
  BY <1>2 DEF Elsewhere, CommandDequeue, CommandInit, CommandTooBig, CommandFree,
              RxReserve, RxHeapAlloc, RxUndo, RxFree
<1>3. ASSUME NEW t \in Tasks, TxReserve(t) PROVE ~At(u, "asserted")'
  BY <1>3 DEF TxReserve
<1>4. ASSUME NEW t \in Tasks, TxContinue(t) PROVE ~At(u, "asserted")'
  BY <1>4 DEF TxContinue, TxHeapAlloc, TxUndo, TxCheck, TxPause, TxPauseCb,
              TxFreeCheck, TxUnpause, TxUnpauseCb, TxReturn
<1>5. ASSUME Restart PROVE ~At(u, "asserted")'
  BY <1>5 DEF Restart
<1>6. CASE UNCHANGED vars
  BY <1>6 DEF vars
<1>7. QED
  BY <1>1, <1>2, <1>3, <1>4, <1>5, <1>6
  DEF Next, Elsewhere, CommandContinue, RxContinue

\* A releasing task that does not resume leaves a packet behind: the
\* reservations of the other tasks alone cannot reach the threshold.
LEMMA KeptPauseHasPacket ==
  ASSUME HeapInv, NEW t \in Tasks, At(t, "txFreeCheck"),
         ~(txAllocated < UnpauseThreshold)
  PROVE  txHeld > 0 \/ TasksIn(TxGranted) # {}
<1> SUFFICES ASSUME txHeld = 0, TasksIn(TxGranted) = {} PROVE FALSE
  BY DEF HeapInv, TypeOK
<1>1. Count(TxGranted) = 0
  BY CountZero
<1>2. Count(TxReserving) \in Nat /\ Count(TxReserving) <= TxBlocks - 3
  BY CountType, CountBelow DEF At, TxReserving
<1>3. txAllocated = txHeld + Count(TxGranted) + Count(TxReserving)
  BY DEF HeapInv, TxConservation, TxOut, Count
<1>4. QED
  BY <1>1, <1>2, <1>3, HeapAssumption DEF UnpauseThreshold

\* Whatever a task does to the pause, it leaves somebody who can end it.
LEMMA PauseStep == HeapInv /\ [Next]_vars => PauseHasAnEnd'
<1> SUFFICES ASSUME HeapInv, [Next]_vars, txPaused' = 1
             PROVE  txHeld' > 0 \/ \E u \in Tasks : pc'[u] \in TxGranted \cup TxFreeing
  BY DEF PauseHasAnEnd, TasksIn
<1>1. txPaused = 1 => txHeld > 0 \/ \E u \in Tasks : pc[u] \in TxGranted \cup TxFreeing
  BY DEF HeapInv, PauseHasAnEnd, TasksIn
<1> USE <1>1 DEF HeapInv, TypeOK, At, Goto, TxGranted, TxFreeing, txVars
<1>2. ASSUME NEW t \in Tasks, Elsewhere(t)
      PROVE  txHeld' > 0 \/ \E u \in Tasks : pc'[u] \in TxGranted \cup TxFreeing
  BY <1>2 DEF Elsewhere, CommandDequeue, CommandInit, CommandTooBig, CommandFree,
              RxReserve, RxHeapAlloc, RxUndo, RxFree
<1>3. ASSUME NEW t \in Tasks, TxReserve(t)
      PROVE  txHeld' > 0 \/ \E u \in Tasks : pc'[u] \in TxGranted \cup TxFreeing
  BY <1>3 DEF TxReserve
<1>4. ASSUME NEW t \in Tasks, TxHeapAlloc(t) \/ TxUndo(t)
      PROVE  txHeld' > 0 \/ \E u \in Tasks : pc'[u] \in TxGranted \cup TxFreeing
  BY <1>4 DEF TxHeapAlloc, TxUndo
<1>5. ASSUME NEW t \in Tasks, TxCheck(t) \/ TxPause(t) \/ TxPauseCb(t)
      PROVE  txHeld' > 0 \/ \E u \in Tasks : pc'[u] \in TxGranted \cup TxFreeing
  <2>1. pc'[t] \in TxGranted \/ txHeld' > 0
    BY <1>5 DEF TxCheck, TxPause, TxPauseCb, TxReturn
  <2>2. QED
    BY <2>1
<1>6. ASSUME NEW t \in Tasks, TxFree(t)
      PROVE  txHeld' > 0 \/ \E u \in Tasks : pc'[u] \in TxGranted \cup TxFreeing
  <2>1. pc'[t] # "asserted"
    BY <1>6, AssertStep DEF NoFailedAssert
  <2>2. QED
    BY <1>6, <2>1 DEF TxFree
<1>7. ASSUME NEW t \in Tasks, TxFreeCheck(t)
      PROVE  txHeld' > 0 \/ \E u \in Tasks : pc'[u] \in TxGranted \cup TxFreeing
  <2>1. CASE txAllocated < UnpauseThreshold
    BY <1>7, <2>1 DEF TxFreeCheck
  <2>2. CASE ~(txAllocated < UnpauseThreshold)
    <3>1. txHeld > 0 \/ \E u \in Tasks : pc[u] \in TxGranted
      BY <1>7, <2>2, KeptPauseHasPacket DEF TxFreeCheck, TasksIn
    <3>2. QED
      BY <1>7, <3>1 DEF TxFreeCheck
  <2>3. QED
    BY <2>1, <2>2
<1>8. ASSUME NEW t \in Tasks, TxUnpause(t)
      PROVE  txHeld' > 0 \/ \E u \in Tasks : pc'[u] \in TxGranted \cup TxFreeing
  BY <1>8 DEF TxUnpause
<1>9. ASSUME NEW t \in Tasks, TxUnpauseCb(t)
      PROVE  txHeld' > 0 \/ \E u \in Tasks : pc'[u] \in TxGranted \cup TxFreeing
  BY <1>9 DEF TxUnpauseCb
<1>10. ASSUME Restart
       PROVE  txHeld' > 0 \/ \E u \in Tasks : pc'[u] \in TxGranted \cup TxFreeing
  BY <1>10 DEF Restart
<1>11. CASE UNCHANGED vars
  BY <1>11 DEF vars
<1>12. QED
  BY <1>2, <1>3, <1>4, <1>5, <1>6, <1>7, <1>8, <1>9, <1>10, <1>11
  DEF Next, Elsewhere, CommandContinue, RxContinue, TxContinue

\* The inductive invariant holds in every reachable state.
THEOREM HeapInvariant == Spec => []HeapInv
<1>1. Init => HeapInv
  BY InitHeapInv
<1>2. HeapInv /\ [Next]_vars => HeapInv'
  BY TypeStep, AccountingStep, AssertStep, PauseStep DEF HeapInv, Accounting
<1>3. QED
  BY <1>1, <1>2, PTL DEF Spec

\* The state keeps its shape.
THEOREM HeapTypeCorrect == Spec => []TypeOK
<1>1. HeapInv => TypeOK
  BY DEF HeapInv
<1>2. QED
  BY <1>1, HeapInvariant, PTL

\* tx_data_pool_allocated is exactly the packets that exist and the
\* reservations in flight.
THEOREM HeapCounterExact == Spec => []TxConservation
<1>1. HeapInv => TxConservation
  BY DEF HeapInv
<1>2. QED
  BY <1>1, HeapInvariant, PTL

\* Never more than MMPKTMEM_TX_POOL_N_BLOCKS transmit packets at once.
THEOREM HeapPoolBounded == Spec => []TxPoolBound
<1>1. HeapInv => TxPoolBound
  <2>1. HeapInv => Count(Hopeful) \in Nat /\ Count(TxGranted) \in Nat /\ txHeld \in Nat
    BY CountType DEF HeapInv, TypeOK
  <2>2. QED
    BY <2>1, HeapAssumption DEF HeapInv, GrantBound, TxPoolBound, TxOut, Count
<1>2. QED
  BY <1>1, HeapInvariant, PTL

\* MMOSAL_ASSERT(old_value > 0) in tx_data_pool_pkt_free never fires.
THEOREM HeapAssertHolds == Spec => []NoFailedAssert
<1>1. HeapInv => NoFailedAssert
  BY DEF HeapInv
<1>2. QED
  BY <1>1, HeapInvariant, PTL

\* No interleaving of allocations and frees loses the resume of a pause.
THEOREM HeapPauseHasAnEnd == Spec => []PauseHasAnEnd
<1>1. HeapInv => PauseHasAnEnd
  BY DEF HeapInv
<1>2. QED
  BY <1>1, HeapInvariant, PTL

-----------------------------------------------------------------------------
\* The number of existing packets is counted by TxOut in every step below.
LEMMA OutMoves ==
  ASSUME HeapInv, TypeOK', NEW t \in Tasks, NEW step, Goto(t, step)
  PROVE  TxOut' = txHeld' + Count(TxGranted)
              + (IF step \in TxGranted THEN 1 ELSE 0)
              - (IF pc[t] \in TxGranted THEN 1 ELSE 0)
<1>1. Count(TxGranted) \in Nat /\ txHeld' \in Nat /\ TypeOK
  BY CountType DEF HeapInv, TypeOK
<1>2. TxOut' = txHeld' + Count(TxGranted)'
  BY DEF TxOut, Count
<1>3. QED
  BY <1>1, <1>2, TxCounts

\* Every step of the manager is a step of the pool or changes nothing in it.
LEMMA PoolStep == HeapInv /\ [Next]_vars => [Pool!PoolNext]_(Pool!poolVars)
<1> SUFFICES ASSUME HeapInv, [Next]_vars PROVE [Pool!PoolNext]_(Pool!poolVars)
  OBVIOUS
<1> DEFINE g == Count(TxGranted)
<1>1. TypeOK /\ g \in Nat /\ TxOut = txHeld + g
  BY CountType DEF HeapInv, TxOut, Count
<1>2. ASSUME NEW t \in Tasks, NEW step, Goto(t, step)
      PROVE  TxOut' = txHeld' + g + (IF step \in TxGranted THEN 1 ELSE 0)
                                - (IF pc[t] \in TxGranted THEN 1 ELSE 0)
  BY <1>2, OutMoves, TypeStep
<1>3. ASSUME UNCHANGED pc PROVE TxOut' = txHeld' + g
  BY <1>3, CountSame DEF TxOut, Count
<1>4. ASSUME NEW t \in Tasks, pc[t] \in TxGranted PROVE g > 0
  <2>1. TasksIn(TxGranted) # {}
    BY <1>4 DEF TasksIn
  <2>2. QED
    BY <2>1, <1>1, CountZero
<1> HIDE DEF g
<1> USE <1>1 DEF TypeOK, At, TxGranted, txVars, Pool!PoolNext, Pool!poolVars
<1>5. ASSUME NEW t \in Tasks, Elsewhere(t) PROVE UNCHANGED <<TxOut, txPaused>>
  <2>1. CASE CommandDequeue(t)
    BY <2>1, <1>2 DEF CommandDequeue
  <2>2. CASE CommandInit(t)
    BY <2>2, <1>2 DEF CommandInit
  <2>3. CASE CommandTooBig(t)
    BY <2>3, <1>2 DEF CommandTooBig
  <2>4. CASE CommandFree(t)
    BY <2>4, <1>3 DEF CommandFree
  <2>5. CASE RxReserve(t)
    BY <2>5, <1>2 DEF RxReserve
  <2>6. CASE RxHeapAlloc(t)
    BY <2>6, <1>2 DEF RxHeapAlloc
  <2>7. CASE RxUndo(t)
    BY <2>7, <1>2 DEF RxUndo
  <2>8. CASE RxFree(t)
    BY <2>8, <1>3 DEF RxFree
  <2>9. QED
    BY <1>5, <2>1, <2>2, <2>3, <2>4, <2>5, <2>6, <2>7, <2>8 DEF Elsewhere
<1>6. ASSUME NEW t \in Tasks, TxReserve(t) \/ TxUndo(t) \/ TxFreeCheck(t) \/ TxUnpauseCb(t)
      PROVE  UNCHANGED <<TxOut, txPaused>>
  BY <1>6, <1>2 DEF TxReserve, TxUndo, TxFreeCheck, TxUnpauseCb
<1>7. ASSUME NEW t \in Tasks, TxCheck(t) \/ TxPauseCb(t)
      PROVE  UNCHANGED <<TxOut, txPaused>>
  <2>1. CASE txAllocated > PauseThreshold
    BY <2>1, <1>7, <1>2 DEF TxCheck, TxPauseCb, TxReturn
  <2>2. CASE ~(txAllocated > PauseThreshold)
    BY <2>2, <1>7, <1>2 DEF TxCheck, TxPauseCb, TxReturn
  <2>3. QED
    BY <2>1, <2>2
<1>8. ASSUME NEW t \in Tasks, TxHeapAlloc(t) PROVE Pool!Grant \/ UNCHANGED <<TxOut, txPaused>>
  <2>1. TxOut < TxBlocks
    <3>1. TasksIn(Hopeful) # {}
      BY <1>8 DEF TxHeapAlloc, TasksIn, Hopeful
    <3>2. Count(Hopeful) \in Nat /\ Count(Hopeful) # 0
      BY <3>1, CountZero, CountType
    <3>3. QED
      BY <3>2, HeapAssumption DEF HeapInv, GrantBound
  <2>2. CASE Goto(t, "txCheck")
    BY <2>1, <2>2, <1>8, <1>2 DEF TxHeapAlloc, Pool!Grant
  <2>3. CASE Goto(t, "txUndo")
    BY <2>3, <1>8, <1>2 DEF TxHeapAlloc
  <2>4. QED
    BY <2>2, <2>3, <1>8 DEF TxHeapAlloc
<1>9. ASSUME NEW t \in Tasks, TxPause(t) PROVE Pool!Pause
  <2>1. TxOut > 0
    BY <1>9, <1>4 DEF TxPause
  <2>2. TxOut' = TxOut
    <3>1. CASE txPaused = 0
      BY <3>1, <1>9, <1>2 DEF TxPause
    <3>2. CASE txPaused # 0
      BY <3>2, <1>9, <1>2 DEF TxPause, TxReturn
    <3>3. QED
      BY <3>1, <3>2
  <2>3. (txPaused = 1)' = TRUE
    BY <1>9 DEF TxPause
  <2>4. QED
    BY <2>1, <2>2, <2>3 DEF Pool!Pause
<1>10. ASSUME NEW t \in Tasks, TxFree(t) PROVE Pool!Release
  BY <1>10, <1>2 DEF TxFree, Pool!Release
<1>11. ASSUME NEW t \in Tasks, TxUnpause(t) PROVE Pool!Resume
  <2>1. TxOut' = TxOut
    BY <1>11, <1>2 DEF TxUnpause
  <2>2. (txPaused = 1)' = FALSE
    BY <1>11 DEF TxUnpause
  <2>3. QED
    BY <2>1, <2>2 DEF Pool!Resume
<1>12. ASSUME Restart PROVE Pool!Resume
  <2>1. TxOut' = TxOut
    BY <1>12, <1>3 DEF Restart
  <2>2. (txPaused = 1)' = FALSE
    BY <1>12 DEF Restart
  <2>3. QED
    BY <2>1, <2>2 DEF Pool!Resume
<1>13. CASE UNCHANGED vars
  BY <1>13, <1>3 DEF vars
<1>14. QED
  BY <1>5, <1>6, <1>7, <1>8, <1>9, <1>10, <1>11, <1>12, <1>13
  DEF Next, Elsewhere, CommandContinue, RxContinue, TxContinue

\* The heap manager implements the packet pool, for every number of tasks.
THEOREM HeapImplementsPool == Spec => RefinesPool
<1>1. Init => Pool!PoolInit
  <2>1. Init => Count(TxGranted) = 0
    BY CountZero DEF Init, TasksIn, TxGranted
  <2>2. QED
    BY <2>1 DEF Init, Pool!PoolInit, TxOut, Count
<1>2. HeapInv /\ [Next]_vars => [Pool!PoolNext]_(Pool!poolVars)
  BY PoolStep
<1>3. QED
  BY <1>1, <1>2, HeapInvariant, PTL DEF Spec, RefinesPool, Pool!PoolSpec

\* Once the callbacks that are due have run, the stack's view of the transmit
\* path is the flag's value.
THEOREM HeapStackLearnsPause == Spec => []StackLearnsPause
<1>1. Init => StackLearnsPause
  BY DEF Init, StackLearnsPause
<1>2. TypeOK /\ StackLearnsPause /\ [Next]_vars => StackLearnsPause'
  <2> SUFFICES ASSUME TypeOK, StackLearnsPause, [Next]_vars, fcView' # txPaused'
               PROVE  \E u \in Tasks : pc'[u] \in {"txPauseCb", "txUnpauseCb"}
    BY DEF StackLearnsPause, TasksIn
  <2>1. fcView # txPaused => \E u \in Tasks : pc[u] \in {"txPauseCb", "txUnpauseCb"}
    BY DEF StackLearnsPause, TasksIn
  <2> USE <2>1 DEF TypeOK, At, Goto, txVars
  <2>2. ASSUME NEW t \in Tasks, Elsewhere(t)
        PROVE  \E u \in Tasks : pc'[u] \in {"txPauseCb", "txUnpauseCb"}
    BY <2>2 DEF Elsewhere, CommandDequeue, CommandInit, CommandTooBig, CommandFree,
                RxReserve, RxHeapAlloc, RxUndo, RxFree
  <2>3. ASSUME NEW t \in Tasks,
               TxReserve(t) \/ TxHeapAlloc(t) \/ TxUndo(t) \/ TxCheck(t) \/ TxFree(t) \/ TxFreeCheck(t)
        PROVE  \E u \in Tasks : pc'[u] \in {"txPauseCb", "txUnpauseCb"}
    BY <2>3 DEF TxReserve, TxHeapAlloc, TxUndo, TxCheck, TxReturn, TxFree, TxFreeCheck
  <2>4. ASSUME NEW t \in Tasks, TxPause(t) \/ TxUnpause(t)
        PROVE  \E u \in Tasks : pc'[u] \in {"txPauseCb", "txUnpauseCb"}
    BY <2>4 DEF TxPause, TxUnpause, TxReturn
  <2>5. ASSUME NEW t \in Tasks, TxPauseCb(t) \/ TxUnpauseCb(t) \/ Restart
        PROVE  \E u \in Tasks : pc'[u] \in {"txPauseCb", "txUnpauseCb"}
    BY <2>5 DEF TxPauseCb, TxUnpauseCb, Restart
  <2>6. CASE Restart
    BY <2>6 DEF Restart
  <2>7. CASE UNCHANGED vars
    BY <2>7 DEF vars
  <2>8. QED
    BY <2>2, <2>3, <2>4, <2>5, <2>6, <2>7
    DEF Next, Elsewhere, CommandContinue, RxContinue, TxContinue
<1>3. QED
  BY <1>1, <1>2, HeapTypeCorrect, PTL DEF Spec
-----------------------------------------------------------------------------
\* The receive count is exact as well, and nobody is promised a packet beyond
\* the pool.
RxInv ==
  /\ rxAllocated = rxHeld + Count(RxReserving)
  /\ rxHeld + Count({"rxHeapAlloc"}) <= RxBlocks

\* The actions that leave the receive side alone.
NotReceiving(t) ==
  \/ CommandDequeue(t) \/ CommandContinue(t) \/ CommandFree(t)
  \/ TxReserve(t) \/ TxContinue(t) \/ TxFree(t)

\* Every step keeps the receive count exact, if no packet is out at a restart.
LEMMA RxStep ==
  ASSUME ~PacketsOutliveDriver, TypeOK, RxInv, [Next]_vars
  PROVE  RxInv'
<1> DEFINE R == Count(RxReserving)
           H == Count({"rxHeapAlloc"})
<1>1. R \in Nat /\ H \in Nat
  BY CountType
<1>2. H <= R
  <2>1. TasksIn({"rxHeapAlloc"}) \in SUBSET TasksIn(RxReserving)
    BY DEF TasksIn, RxReserving
  <2>2. QED
    BY <2>1, CountType, FS_Subset DEF Count
<1>3. rxAllocated = rxHeld + R /\ rxHeld + H <= RxBlocks
  BY DEF RxInv
<1>4. SUFFICES rxAllocated' = rxHeld' + R' /\ rxHeld' + H' <= RxBlocks
  BY DEF RxInv
<1>5. ASSUME NEW t \in Tasks, NEW step, Goto(t, step)
      PROVE  /\ R' = R + (IF step \in RxReserving THEN 1 ELSE 0)
                       - (IF pc[t] \in RxReserving THEN 1 ELSE 0)
             /\ H' = H + (IF step = "rxHeapAlloc" THEN 1 ELSE 0)
                       - (IF pc[t] = "rxHeapAlloc" THEN 1 ELSE 0)
  BY <1>5, CountMoves DEF TypeOK
<1>6. ASSUME UNCHANGED pc PROVE R' = R /\ H' = H
  BY <1>6, CountSame
<1> HIDE DEF R, H
<1> USE <1>1, <1>2, <1>3, HeapAssumption DEF TypeOK, At, RxReserving, rxVars
<1>7. ASSUME NEW t \in Tasks, NotReceiving(t)
      PROVE  rxAllocated' = rxHeld' + R' /\ rxHeld' + H' <= RxBlocks
  <2>1. UNCHANGED rxVars
    BY <1>7 DEF NotReceiving, CommandDequeue, CommandContinue, CommandInit, CommandTooBig,
                CommandFree, TxReserve, TxContinue, TxHeapAlloc, TxUndo, TxCheck, TxPause,
                TxPauseCb, TxFreeCheck, TxUnpause, TxUnpauseCb, TxFree
  <2>2. R' = R /\ H' = H
    <3>1. UNCHANGED pc \/ \E step \in Steps \ RxReserving : Goto(t, step) /\ pc[t] \notin RxReserving
      BY <1>7 DEF NotReceiving, CommandDequeue, CommandContinue, CommandInit, CommandTooBig,
                  CommandFree, TxReserve, TxContinue, TxHeapAlloc, TxUndo, TxCheck, TxPause,
                  TxPauseCb, TxFreeCheck, TxUnpause, TxUnpauseCb, TxFree, TxReturn, Steps,
                  TxReserving, TxGranted, TxFreeing
    <3>2. QED
      BY <3>1, <1>5, <1>6
  <2>3. QED
    BY <2>1, <2>2
<1>8. ASSUME NEW t \in Tasks, RxReserve(t)
      PROVE  rxAllocated' = rxHeld' + R' /\ rxHeld' + H' <= RxBlocks
  <2>1. CASE rxAllocated >= RxBlocks
    BY <2>1, <1>8, <1>5 DEF RxReserve
  <2>2. CASE ~(rxAllocated >= RxBlocks)
    BY <2>2, <1>8, <1>5 DEF RxReserve
  <2>3. QED
    BY <2>1, <2>2
<1>9. ASSUME NEW t \in Tasks, RxHeapAlloc(t) \/ RxUndo(t)
      PROVE  rxAllocated' = rxHeld' + R' /\ rxHeld' + H' <= RxBlocks
  BY <1>9, <1>5 DEF RxHeapAlloc, RxUndo
<1>10. ASSUME NEW t \in Tasks, RxFree(t)
       PROVE  rxAllocated' = rxHeld' + R' /\ rxHeld' + H' <= RxBlocks
  BY <1>10, <1>6 DEF RxFree
<1>11. ASSUME Restart
       PROVE  rxAllocated' = rxHeld' + R' /\ rxHeld' + H' <= RxBlocks
  <2>1. TasksIn(RxReserving) = {} /\ TasksIn({"rxHeapAlloc"}) = {}
    BY <1>11 DEF Restart, TasksIn
  <2>2. R = 0 /\ H = 0
    BY <2>1, CountZero DEF R, H
  <2>3. QED
    BY <2>2, <1>11, <1>6 DEF Restart
<1>12. CASE UNCHANGED vars
  BY <1>12, <1>6 DEF vars
<1>13. QED
  BY <1>7, <1>8, <1>9, <1>10, <1>11, <1>12 DEF Next, NotReceiving, RxContinue

\* "an upper bound on the number of packets we will allocate in the ... receive
\* direction": however many tasks overshoot the count for a moment.
THEOREM HeapRxPoolBounded ==
  ASSUME ~PacketsOutliveDriver
  PROVE  Spec => []RxPoolBound
<1>1. Init => RxInv
  <2>1. Init => Count(RxReserving) = 0 /\ Count({"rxHeapAlloc"}) = 0
    BY CountZero DEF Init, TasksIn, RxReserving
  <2>2. QED
    BY <2>1, HeapAssumption DEF Init, RxInv
<1>2. TypeOK /\ RxInv /\ [Next]_vars => RxInv'
  BY RxStep
<1>3. TypeOK /\ RxInv => RxPoolBound
  <2>1. Count({"rxHeapAlloc"}) \in Nat
    BY CountType
  <2>2. QED
    BY <2>1, HeapAssumption DEF TypeOK, RxInv, RxPoolBound
<1>4. QED
  BY <1>1, <1>2, <1>3, HeapTypeCorrect, PTL DEF Spec

\* Every step keeps count of the reserved command buffers.
LEMMA CommandStep ==
  ASSUME TypeOK, CommandConservation, [Next]_vars
  PROVE  CommandConservation'
<1> DEFINE C == Count({"cmdInit"})
<1>1. C \in Nat
  BY CountType
<1>2. cmdFree + cmdHeld + C = CommandBlocks
  BY DEF CommandConservation, Count
<1>3. SUFFICES cmdFree' + cmdHeld' + C' = CommandBlocks
  BY DEF CommandConservation, Count
<1>4. ASSUME NEW t \in Tasks, NEW step, Goto(t, step)
      PROVE  C' = C + (IF step = "cmdInit" THEN 1 ELSE 0) - (IF pc[t] = "cmdInit" THEN 1 ELSE 0)
  BY <1>4, CountMoves DEF TypeOK
<1>5. ASSUME UNCHANGED pc PROVE C' = C
  BY <1>5, CountSame
<1> HIDE DEF C
<1> USE <1>1, <1>2, HeapAssumption DEF TypeOK, At, cmdVars
<1>6. ASSUME NEW t \in Tasks,
             CommandDequeue(t) \/ CommandInit(t) \/ CommandTooBig(t) \/ CommandFree(t)
      PROVE  cmdFree' + cmdHeld' + C' = CommandBlocks
  BY <1>6, <1>4, <1>5 DEF CommandDequeue, CommandInit, CommandTooBig, CommandFree
<1>7. ASSUME NEW t \in Tasks,
             TxReserve(t) \/ TxContinue(t) \/ TxFree(t) \/ RxReserve(t) \/ RxContinue(t) \/ RxFree(t)
      PROVE  cmdFree' + cmdHeld' + C' = CommandBlocks
  <2>1. UNCHANGED cmdVars
    BY <1>7 DEF TxReserve, TxContinue, TxHeapAlloc, TxUndo, TxCheck, TxPause, TxPauseCb,
                TxFreeCheck, TxUnpause, TxUnpauseCb, TxFree, RxReserve, RxContinue,
                RxHeapAlloc, RxUndo, RxFree
  <2>2. UNCHANGED pc \/ \E step \in Steps \ {"cmdInit"} : Goto(t, step) /\ pc[t] # "cmdInit"
    BY <1>7 DEF TxReserve, TxContinue, TxHeapAlloc, TxUndo, TxCheck, TxPause, TxPauseCb,
                TxFreeCheck, TxUnpause, TxUnpauseCb, TxFree, TxReturn, RxReserve, RxContinue,
                RxHeapAlloc, RxUndo, RxFree, Steps, TxReserving, TxGranted, TxFreeing, RxReserving
  <2>3. C' = C
    BY <2>2, <1>4, <1>5
  <2>4. QED
    BY <2>1, <2>3
<1>8. ASSUME Restart PROVE cmdFree' + cmdHeld' + C' = CommandBlocks
  <2>1. TasksIn({"cmdInit"}) = {}
    BY <1>8 DEF Restart, TasksIn
  <2>2. C = 0
    BY <2>1, CountZero DEF C
  <2>3. QED
    BY <2>2, <1>8, <1>5 DEF Restart
<1>9. CASE UNCHANGED vars
  BY <1>9, <1>5 DEF vars
<1>10. QED
  BY <1>6, <1>7, <1>8, <1>9 DEF Next, CommandContinue

\* No reserved command buffer is lost or given back twice: not by a command that
\* is too big for it, and not by a restart.
THEOREM HeapCommandConservation == Spec => []CommandConservation
<1>1. Init => CommandConservation
  <2>1. Init => Count({"cmdInit"}) = 0
    BY CountZero DEF Init, TasksIn
  <2>2. QED
    BY <2>1, HeapAssumption DEF Init, CommandConservation, Count
<1>2. TypeOK /\ CommandConservation /\ [Next]_vars => CommandConservation'
  BY CommandStep
<1>3. QED
  BY <1>1, <1>2, HeapTypeCorrect, PTL DEF Spec
=============================================================================
