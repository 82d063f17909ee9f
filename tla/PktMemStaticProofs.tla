------------------------- MODULE PktMemStaticProofs -------------------------
(***************************************************************************)
(* The static packet memory, for any number of tasks and blocks: no data   *)
(* block is lost or in two hands, the pause flag says whether there is     *)
(* room, the manager implements PktPool, and with fewer tasks than blocks  *)
(* a paused path has a packet out that will resume it.  None of that       *)
(* depends on the command list, whose unprotected append may corrupt it.   *)
(***************************************************************************)
EXTENDS PktMemStatic, FiniteSetTheorems, TLAPS

Count(S) == Cardinality(TasksIn(S))

\* A task between the dequeue and the end of its call has its block.
BufferKnown ==
  \A t \in Tasks : pc[t] \in {"commandInit", "tail", "len"} => buf[t] \in CommandBlocks

\* The first part of FlagTellsRoom; the second needs fewer tasks than blocks.
PausedWhenFew ==
  txFree <= PauseThreshold => txPaused \/ TasksIn(Updating \cup {"dataInit"}) # {}

FewTasks == Cardinality(Tasks) < TxBlocks

StaticInv == TypeOK /\ BufferKnown /\ TxConservation /\ PausedWhenFew

-----------------------------------------------------------------------------
\* The tasks in a set of steps can be counted.
LEMMA CountType ==
  ASSUME NEW S
  PROVE  IsFiniteSet(TasksIn(S)) /\ Count(S) \in Nat
<1>1. TasksIn(S) \in SUBSET Tasks
  BY DEF TasksIn
<1>2. QED
  BY <1>1, FS_Subset, FS_CardinalityType, StaticAssumption DEF Count

\* They can be counted after a step, too.
LEMMA CountNext ==
  ASSUME NEW S
  PROVE  Count(S)' \in Nat
<1>1. TasksIn(S)' \in SUBSET Tasks
  BY DEF TasksIn
<1>2. QED
  BY <1>1, FS_Subset, FS_CardinalityType, StaticAssumption DEF Count

\* One task that changes step moves a count by what it enters and leaves.
LEMMA CountMoves ==
  ASSUME NEW S, NEW t \in Tasks, NEW step,
         pc \in [Tasks -> Steps], Goto(t, step)
  PROVE  Count(S)' = Count(S) + (IF step \in S THEN 1 ELSE 0)
                              - (IF pc[t] \in S THEN 1 ELSE 0)
<1> DEFINE Rest == TasksIn(S) \ {t}
<1>1. /\ IsFiniteSet(Rest) /\ t \notin Rest
      /\ Cardinality(Rest) = IF t \in TasksIn(S) THEN Count(S) - 1 ELSE Count(S)
  BY CountType, FS_RemoveElement DEF Count
<1>2. t \in TasksIn(S) <=> pc[t] \in S
  BY DEF TasksIn
<1>3. TasksIn(S)' = IF step \in S THEN Rest \cup {t} ELSE Rest
  BY DEF TasksIn, Goto
<1>4. Cardinality(Rest \cup {t}) = Cardinality(Rest) + 1 /\ Cardinality(Rest) \in Nat
  BY <1>1, FS_AddElement, FS_CardinalityType
<1>5. Count(S) \in Nat
  BY CountType
<1> HIDE DEF Rest
<1>6. Count(S)' = Cardinality(Rest) + (IF step \in S THEN 1 ELSE 0)
  BY <1>3, <1>4 DEF Count
<1>7. QED
  BY <1>1, <1>2, <1>5, <1>6

\* A step that moves no task moves no count.
LEMMA CountSame ==
  ASSUME NEW S, UNCHANGED pc
  PROVE  Count(S)' = Count(S) /\ TasksIn(S)' = TasksIn(S)
BY DEF Count, TasksIn

\* A count is zero when nobody is there.
LEMMA CountZero ==
  ASSUME NEW S, \A t \in Tasks : pc[t] \notin S
  PROVE  Count(S) = 0
<1>1. TasksIn(S) = {}
  BY DEF TasksIn
<1>2. QED
  BY <1>1, FS_EmptySet DEF Count

\* Whatever state the command list is in, its operations leave a list.
LEMMA ListTypes ==
  ASSUME NEW list \in AnyList, NEW b \in CommandBlocks
  PROVE  /\ LinkLast(list, b) \in AnyList /\ SetTail(list, b) \in AnyList
         /\ CountOne(list) \in AnyList /\ Append(list, b) \in AnyList
         /\ list.head # None => Dequeue(list) \in AnyList
<1>1. ASSUME NEW l \in AnyList PROVE LinkLast(l, b) \in AnyList
  <2> DEFINE cut == [l EXCEPT !.next[b] = None]
  <2>1. cut \in AnyList /\ cut.next \in [CommandBlocks -> CommandBlocks \cup {None}]
    BY DEF AnyList
  <2>2. [cut EXCEPT !.head = b] \in AnyList
    BY <2>1 DEF AnyList
  <2>3. ASSUME NEW last \in CommandBlocks PROVE [cut EXCEPT !.next[last] = b] \in AnyList
    BY <2>1 DEF AnyList
  <2>4. l.tail # None => l.tail \in CommandBlocks
    BY DEF AnyList
  <2>5. QED
    BY <2>2, <2>3, <2>4 DEF LinkLast
<1>2. ASSUME NEW l \in AnyList PROVE SetTail(l, b) \in AnyList
  BY <1>2 DEF SetTail, AnyList
<1>3. ASSUME NEW l \in AnyList PROVE CountOne(l) \in AnyList
  BY <1>3 DEF CountOne, AnyList
<1>4. list.head # None => Dequeue(list) \in AnyList
  BY DEF Dequeue, AnyList
<1>5. QED
  BY <1>1, <1>2, <1>3, <1>4 DEF Append

-----------------------------------------------------------------------------
\* What task t does to transmit commands and received packets.
CommandStep(t) ==
  \/ CommandDequeue(t) \/ CommandInit(t) \/ CommandTooBig(t)
  \/ PutTail(t) \/ PutLen(t) \/ CommandFree(t)

RxStep(t) == \E p \in Pools : RxAlloc(t, p) \/ RxFree(t, p)

TxStep(t) ==
  \/ TxDequeue(t) \/ TxInit(t) \/ TxTooBig(t) \/ TxUpdate(t) \/ TxCallback(t)
  \/ TxFree(t) \/ TxFreeCallback(t)

DriverStep == Shutdown \/ DeinitRound \/ Boot

\* The next-state relation, by what its steps touch.
LEMMA NextSteps ==
  Next => DriverStep \/ \E t \in Tasks : CommandStep(t) \/ RxStep(t) \/ TxStep(t)
BY StaticAssumption
DEF Next, DriverStep, Continue, CommandStep, RxStep, TxStep

\* Every step keeps the types, and a command's task its block.
LEMMA TypeStep ==
  TypeOK /\ BufferKnown /\ [Next]_vars => TypeOK' /\ BufferKnown'
<1> SUFFICES ASSUME TypeOK, BufferKnown, [Next]_vars
             PROVE  TypeOK' /\ BufferKnown'
  OBVIOUS
<1> USE StaticAssumption
    DEF TypeOK, BufferKnown, cmdVars, txVars, rxVars, driverVars, Goto, At, Steps,
        Updating, Calling, Granted, Putting, Pools
<1>1. ASSUME NEW t \in Tasks, CommandStep(t) PROVE TypeOK' /\ BufferKnown'
  <2>1. CASE CommandDequeue(t)
    <3>1. cmdList.head \in CommandBlocks
      BY <2>1 DEF CommandDequeue, AnyList
    <3>2. cmdList' \in AnyList
      BY <2>1, <3>1, ListTypes DEF CommandDequeue
    <3>3. QED
      BY <2>1, <3>1, <3>2 DEF CommandDequeue
  <2>2. CASE CommandInit(t)
    BY <2>2 DEF CommandInit
  <2>3. CASE CommandTooBig(t)
    <3>1. buf[t] \in CommandBlocks
      BY <2>3 DEF CommandTooBig
    <3>2. cmdList' \in AnyList
      BY <2>3, <3>1, ListTypes DEF CommandTooBig
    <3>3. QED
      BY <2>3, <3>1, <3>2 DEF CommandTooBig
  <2>4. CASE PutTail(t)
    <3>1. buf[t] \in CommandBlocks
      BY <2>4 DEF PutTail
    <3>2. cmdList' \in AnyList
      BY <2>4, <3>1, ListTypes DEF PutTail
    <3>3. QED
      BY <2>4, <3>1, <3>2 DEF PutTail
  <2>5. CASE PutLen(t)
    BY <2>5, ListTypes DEF PutLen
  <2>6. CASE CommandFree(t)
    BY <2>6, ListTypes DEF CommandFree
  <2>7. QED
    BY <1>1, <2>1, <2>2, <2>3, <2>4, <2>5, <2>6 DEF CommandStep
<1>2. ASSUME NEW t \in Tasks, RxStep(t) PROVE TypeOK' /\ BufferKnown'
  BY <1>2 DEF RxStep, RxAlloc, RxFree
<1>3. ASSUME NEW t \in Tasks, TxStep(t) PROVE TypeOK' /\ BufferKnown'
  <2>1. CASE TxDequeue(t)
    BY <2>1 DEF TxDequeue
  <2>2. CASE TxUpdate(t)
    <3>1. txPaused' \in BOOLEAN
      BY <2>2 DEF TxUpdate
    <3>2. txHeld' \in Nat /\ \E step \in Calling \cup {"idle"} : Goto(t, step)
      BY <2>2 DEF TxUpdate, TxReturn
    <3>3. UNCHANGED <<cmdVars, txFree, fcView, rxVars, driverVars>>
      BY <2>2 DEF TxUpdate
    <3>4. QED
      BY <3>1, <3>2, <3>3
  <2>3. CASE TxCallback(t)
    BY <2>3 DEF TxCallback, TxReturn
  <2>4. CASE TxFree(t)
    <3>1. txPaused' \in BOOLEAN
      BY <2>4 DEF TxFree
    <3>2. /\ txHeld' \in Nat /\ txFree' \in Nat
          /\ Goto(t, "freeCallback") \/ UNCHANGED pc
      BY <2>4 DEF TxFree
    <3>3. UNCHANGED <<cmdVars, fcView, rxVars, driverVars>>
      BY <2>4 DEF TxFree
    <3>4. QED
      BY <3>1, <3>2, <3>3
  <2>5. CASE TxFreeCallback(t)
    BY <2>5 DEF TxFreeCallback
  <2>6. CASE TxInit(t) \/ TxTooBig(t)
    BY <2>6 DEF TxInit, TxTooBig
  <2>7. QED
    BY <1>3, <2>1, <2>2, <2>3, <2>4, <2>5, <2>6 DEF TxStep
<1>4. CASE DriverStep
  <2>1. CASE Shutdown
    BY <2>1 DEF Shutdown
  <2>2. CASE DeinitRound
    BY <2>2 DEF DeinitRound
  <2>3. CASE Boot
    <3>1. cmdList' \in Lists
      BY <2>3 DEF Boot
    <3>2. Cardinality(CommandBlocks) \in Nat
      BY FS_CardinalityType
    <3>3. cmdList' \in AnyList
      BY <3>1, <3>2 DEF Lists, AnyList
    <3>4. txPaused' \in BOOLEAN /\ fcView' \in BOOLEAN
      BY <2>3, Zenon DEF Boot
    <3>5. /\ txFree' \in Nat /\ rxFree' \in [Pools -> Nat]
          /\ driver' \in {"up", "deinit", "down"} /\ waited' \in 0..Waits
      BY <2>3, SMT DEF Boot
    <3>6. UNCHANGED <<cmdHeld, buf, txHeld, rxHeld, pc>>
      BY <2>3 DEF Boot
    <3>7. QED
      BY <3>3, <3>4, <3>5, <3>6
  <2>4. QED
    BY <1>4, <2>1, <2>2, <2>3 DEF DriverStep
<1>5. CASE UNCHANGED vars
  BY <1>5 DEF vars
<1>6. QED
  BY <1>1, <1>2, <1>3, <1>4, <1>5, NextSteps

-----------------------------------------------------------------------------
\* A step that is not of the transmit data path leaves it and its steps alone.
LEMMA OtherSteps ==
  ASSUME TypeOK, NEW t \in Tasks, CommandStep(t) \/ RxStep(t)
  PROVE  /\ UNCHANGED txVars
         /\ \/ UNCHANGED pc
            \/ \E step \in {"idle", "commandInit", "tail", "len", "dequeue"} :
                 /\ Goto(t, step)
                 /\ pc[t] \in {"idle", "commandInit", "tail", "len"}
BY DEF CommandStep, RxStep, CommandDequeue, CommandInit, CommandTooBig, PutTail, PutLen,
       CommandFree, RxAlloc, RxFree, At

\* How many tasks hold a granted packet, or a block whose size is to be tested,
\* after a step of t.
Testing == {"dataInit"}

LEMMA OwnersMove ==
  ASSUME TypeOK, NEW t \in Tasks, NEW step, Goto(t, step)
  PROVE  /\ Count(Granted)' = Count(Granted) + (IF step \in Granted THEN 1 ELSE 0)
                                             - (IF pc[t] \in Granted THEN 1 ELSE 0)
         /\ Count(Testing)' = Count(Testing) + (IF step \in Testing THEN 1 ELSE 0)
                                             - (IF pc[t] \in Testing THEN 1 ELSE 0)
BY CountMoves DEF TypeOK

\* Every step keeps each data block in the list or with one owner.
LEMMA ConservationStep ==
  TypeOK /\ TxConservation /\ [Next]_vars => TxConservation'
<1> DEFINE Sum == txFree + (txHeld + Count(Granted) + Count(Testing))
<1> SUFFICES ASSUME TypeOK, TxConservation, [Next]_vars
             PROVE  Sum' = TxBlocks
  BY DEF TxConservation, TxOut, TxKept, Count, Testing
<1>1. /\ Count(Granted) \in Nat /\ Count(Testing) \in Nat
      /\ txFree \in Nat /\ txHeld \in Nat /\ Sum = TxBlocks
  BY CountType DEF TypeOK, TxConservation, TxOut, TxKept, Count, Testing
<1>2. ASSUME NEW t \in Tasks, CommandStep(t) \/ RxStep(t) PROVE Sum' = TxBlocks
  BY <1>1, <1>2, OtherSteps, OwnersMove, CountSame DEF Granted, Testing, txVars
<1>3. ASSUME NEW t \in Tasks, TxStep(t) PROVE Sum' = TxBlocks
  <2>1. CASE TxDequeue(t)
    BY <2>1, <1>1, OwnersMove DEF TxDequeue, At, Granted, Testing
  <2>2. CASE TxUpdate(t)
    BY <2>2, <1>1, OwnersMove DEF TxUpdate, TxReturn, Granted, Testing, Updating
  <2>3. CASE TxCallback(t)
    BY <2>3, <1>1, OwnersMove DEF TxCallback, TxReturn, Granted, Testing, Calling
  <2>4. CASE TxFree(t)
    BY <2>4, <1>1, OwnersMove, CountSame DEF TxFree, At, Granted, Testing
  <2>5. CASE TxFreeCallback(t)
    BY <2>5, <1>1, OwnersMove DEF TxFreeCallback, At, Granted, Testing
  <2>6. CASE TxInit(t)
    BY <2>6, <1>1, OwnersMove DEF TxInit, At, Granted, Testing, txVars
  <2>7. CASE TxTooBig(t)
    BY <2>7, <1>1, OwnersMove DEF TxTooBig, At, Granted, Testing
  <2>8. QED
    BY <1>3, <2>1, <2>2, <2>3, <2>4, <2>5, <2>6, <2>7 DEF TxStep
<1>4. CASE DriverStep
  <2>1. CASE Shutdown \/ DeinitRound
    BY <2>1, <1>1, CountSame DEF Shutdown, DeinitRound, txVars
  <2>2. CASE Boot
    <3>1. Count(Granted) = 0 /\ Count(Testing) = 0
      BY <2>2, CountZero DEF Boot, At, Granted, Testing
    <3>2. QED
      BY <2>2, <3>1, <1>1, CountSame, StaticAssumption DEF Boot
  <2>3. QED
    BY <1>4, <2>1, <2>2 DEF DriverStep
<1>5. CASE UNCHANGED vars
  BY <1>5, <1>1, CountSame DEF vars, txVars
<1>6. QED
  BY <1>2, <1>3, <1>4, <1>5, NextSteps

\* Every step keeps the flag telling that there is little room.
LEMMA FlagStep ==
  TypeOK /\ PausedWhenFew /\ [Next]_vars => PausedWhenFew'
<1> DEFINE Looking == Updating \cup {"dataInit"}
<1> SUFFICES ASSUME TypeOK, PausedWhenFew, [Next]_vars, txFree' <= 1, ~txPaused'
             PROVE  \E u \in Tasks : pc'[u] \in Looking
  BY DEF PausedWhenFew, TasksIn, PauseThreshold
<1>1. /\ txFree \in Nat
      /\ txFree <= 1 /\ ~txPaused => \E u \in Tasks : pc[u] \in Looking
  BY DEF TypeOK, PausedWhenFew, TasksIn, PauseThreshold
<1> HIDE DEF PausedWhenFew
<1>2. ASSUME UNCHANGED <<txFree, txPaused, pc>> PROVE \E u \in Tasks : pc'[u] \in Looking
  BY <1>1, <1>2
<1>3. ASSUME NEW t \in Tasks, NEW step, Goto(t, step), pc[t] \notin Looking,
             UNCHANGED <<txFree, txPaused>>
      PROVE  \E u \in Tasks : pc'[u] \in Looking
  BY <1>1, <1>3 DEF Goto, TypeOK
<1>4. ASSUME NEW t \in Tasks, NEW step \in Looking, Goto(t, step)
      PROVE  \E u \in Tasks : pc'[u] \in Looking
  BY <1>4 DEF Goto, TypeOK
<1>5. ASSUME NEW t \in Tasks, CommandStep(t) \/ RxStep(t)
      PROVE  \E u \in Tasks : pc'[u] \in Looking
  BY <1>2, <1>3, <1>5, OtherSteps DEF txVars, Updating
<1>6. ASSUME NEW t \in Tasks, TxStep(t) PROVE \E u \in Tasks : pc'[u] \in Looking
  <2>1. CASE TxDequeue(t) \/ TxInit(t) \/ TxTooBig(t)
    BY <2>1, <1>4 DEF TxDequeue, TxInit, TxTooBig, Updating
  <2>2. CASE TxUpdate(t)
    <3>1. CASE ~txPaused /\ txFree <= PauseThreshold
      BY <3>1, <2>2 DEF TxUpdate
    <3>2. CASE ~(~txPaused /\ txFree <= PauseThreshold)
      BY <3>2, <2>2 DEF TxUpdate, PauseThreshold
    <3>3. QED
      BY <3>1, <3>2
  <2>3. CASE TxCallback(t) \/ TxFreeCallback(t)
    BY <2>3, <1>3 DEF TxCallback, TxReturn, TxFreeCallback, At, Calling, Updating
  <2>4. CASE TxFree(t)
    <3>1. txFree' = txFree + 1
      BY <2>4 DEF TxFree
    <3>2. ~(txPaused /\ txFree' >= UnpauseThreshold)
      BY <3>1, <1>1 DEF UnpauseThreshold
    <3>3. txPaused' = txPaused /\ pc' = pc
      BY <3>2, <2>4 DEF TxFree
    <3>4. QED
      BY <3>1, <3>3, <1>1
  <2>5. QED
    BY <1>6, <2>1, <2>2, <2>3, <2>4 DEF TxStep
<1>7. CASE DriverStep
  <2>1. CASE Shutdown \/ DeinitRound
    BY <2>1, <1>2 DEF Shutdown, DeinitRound, txVars
  <2>2. CASE Boot
    BY <2>2, StaticAssumption DEF Boot
  <2>3. QED
    BY <1>7, <2>1, <2>2 DEF DriverStep
<1>8. CASE UNCHANGED vars
  BY <1>8, <1>2 DEF vars, txVars
<1>9. QED
  BY <1>5, <1>6, <1>7, <1>8, NextSteps

-----------------------------------------------------------------------------
LEMMA InitStaticInv == Init => StaticInv
<1> SUFFICES ASSUME Init PROVE StaticInv
  OBVIOUS
<1>1. TypeOK
  <2>1. Cardinality(CommandBlocks) \in Nat
    BY FS_CardinalityType, StaticAssumption
  <2>2. cmdList \in AnyList
    BY <2>1 DEF Init, Lists, AnyList
  <2>3. txPaused \in BOOLEAN /\ fcView \in BOOLEAN
    BY Zenon DEF Init
  <2>4. QED
    BY <2>2, <2>3, StaticAssumption DEF Init, TypeOK, Pools, Steps
<1>2. BufferKnown
  BY DEF Init, BufferKnown
<1>3. Count(Granted) = 0 /\ Count({"dataInit"}) = 0
  BY CountZero DEF Init, Granted
<1>4. TxConservation
  BY <1>3, StaticAssumption DEF Init, TxConservation, TxOut, TxKept, Count
<1>5. PausedWhenFew
  BY StaticAssumption DEF Init, PausedWhenFew, PauseThreshold
<1>6. QED
  BY <1>1, <1>2, <1>4, <1>5 DEF StaticInv

\* The inductive invariant of the static packet memory.
THEOREM StaticInvariant == Spec => []StaticInv
<1>1. StaticInv /\ [Next]_vars => StaticInv'
  BY TypeStep, ConservationStep, FlagStep DEF StaticInv
<1>2. QED
  BY InitStaticInv, <1>1, PTL DEF Spec

\* The variables stay in their types, even while the command list is corrupted.
THEOREM StaticTypeCorrect == Spec => []TypeOK
<1>1. StaticInv => TypeOK
  BY DEF StaticInv
<1>2. QED
  BY <1>1, StaticInvariant, PTL

\* Every data block is in the free list or with exactly one owner.
THEOREM StaticConservation == Spec => []TxConservation
<1>1. StaticInv => TxConservation
  BY DEF StaticInv
<1>2. QED
  BY <1>1, StaticInvariant, PTL

\* A set of tasks that lacks one is smaller than all tasks.
LEMMA Fewer ==
  ASSUME NEW S \in SUBSET Tasks, NEW t \in Tasks, t \notin S
  PROVE  Cardinality(S) \in Nat /\ Cardinality(S) + 1 <= Cardinality(Tasks)
<1>1. S \subseteq Tasks \ {t} /\ IsFiniteSet(Tasks \ {t})
  BY FS_RemoveElement, StaticAssumption
<1>2. QED
  BY <1>1, FS_Subset, FS_CardinalityType, FS_RemoveElement, StaticAssumption

\* With a task that tests no size, a list with at most one block leaves a packet
\* that a release will return.
LEMMA SomeKept ==
  ASSUME FewTasks, TypeOK, TxConservation, txFree <= 1,
         NEW t \in Tasks, pc[t] # "dataInit"
  PROVE  TxKept > 0
<1> DEFINE D == Cardinality(TasksIn({"dataInit"}))
<1>1. D \in Nat /\ D + 1 <= Cardinality(Tasks)
  BY Fewer DEF TasksIn
<1>2. Count(Granted) \in Nat /\ txHeld \in Nat /\ txFree \in Nat
  BY CountType DEF TypeOK
<1>3. TxKept \in Nat /\ txFree + (TxKept + D) = TxBlocks
  BY <1>2 DEF TxKept, Count, TxConservation, TxOut
<1> HIDE DEF D
<1>4. Cardinality(Tasks) \in Nat
  BY FS_CardinalityType, StaticAssumption
<1>5. QED
  BY <1>1, <1>2, <1>3, <1>4, StaticAssumption DEF FewTasks

\* The same after a step.
LEMMA SomeKeptNext ==
  ASSUME FewTasks, TypeOK', TxConservation', txFree' <= 1,
         NEW t \in Tasks, pc'[t] # "dataInit"
  PROVE  TxKept' > 0
<1> DEFINE D == Cardinality(TasksIn({"dataInit"})')
<1>1. D \in Nat /\ D + 1 <= Cardinality(Tasks)
  BY Fewer DEF TasksIn
<1>2. Count(Granted)' \in Nat /\ txHeld' \in Nat /\ txFree' \in Nat
  BY CountNext DEF TypeOK
<1>3. TxKept' \in Nat /\ txFree' + (TxKept' + D) = TxBlocks
  BY <1>2 DEF TxKept, Count, TxConservation, TxOut
<1>4. PICK d \in Nat : d + 1 <= Cardinality(Tasks) /\ txFree' + (TxKept' + d) = TxBlocks
  BY <1>1, <1>3
<1>5. Cardinality(Tasks) \in Nat
  BY FS_CardinalityType, StaticAssumption
<1>6. \A f, k \in Nat : f <= 1 /\ f + (k + d) = TxBlocks => k > 0
  BY <1>4, <1>5, StaticAssumption DEF FewTasks
<1>7. QED
  BY <1>2, <1>3, <1>4, <1>6

\* A step of a task changes the number of kept packets as its step tells.
LEMMA KeptMoves ==
  ASSUME TypeOK, NEW t \in Tasks, NEW step, Goto(t, step)
  PROVE  /\ TxKept \in Nat
         /\ txHeld' = txHeld /\ (step \in Granted <=> pc[t] \in Granted) => TxKept' = TxKept
         /\ txHeld' = txHeld /\ step \in Granted /\ pc[t] \notin Granted => TxKept' = TxKept + 1
         /\ txHeld' = txHeld + 1 /\ step \notin Granted /\ pc[t] \in Granted => TxKept' = TxKept
<1>1. Count(Granted) \in Nat /\ txHeld \in Nat
  BY CountType DEF TypeOK
<1>2. Count(Granted)' = Count(Granted) + (IF step \in Granted THEN 1 ELSE 0)
                                       - (IF pc[t] \in Granted THEN 1 ELSE 0)
  BY CountMoves DEF TypeOK
<1>3. TxKept = txHeld + Count(Granted) /\ TxKept' = txHeld' + Count(Granted)'
  BY DEF TxKept, Count
<1>4. QED
  BY <1>1, <1>2, <1>3

\* A paused path keeps a packet out that will resume it: whoever pauses finds at
\* most one block free, and of the blocks that are out not all are put back.
LEMMA PausedStep ==
  ASSUME FewTasks, StaticInv, StaticInv', txPaused => TxKept > 0, [Next]_vars, txPaused'
  PROVE  TxKept' > 0
<1>1. TypeOK /\ TypeOK' /\ TxConservation /\ TxConservation'
  BY DEF StaticInv
<1>2. ASSUME UNCHANGED <<txPaused, txHeld, pc>> PROVE TxKept' > 0
  BY <1>2 DEF TxKept, TasksIn
<1>3. ASSUME NEW t \in Tasks, NEW step, Goto(t, step), txPaused' = txPaused, txHeld' = txHeld,
             pc[t] \in Granted => step \in Granted
      PROVE  TxKept' > 0
  <2>1. TxKept > 0
    BY <1>3
  <2>2. CASE step \in Granted <=> pc[t] \in Granted
    BY <2>1, <2>2, <1>1, <1>3, KeptMoves
  <2>3. CASE step \in Granted /\ pc[t] \notin Granted
    BY <2>1, <2>3, <1>1, <1>3, KeptMoves
  <2>4. QED
    BY <2>2, <2>3, <1>3
<1>4. ASSUME NEW t \in Tasks, TxReturn(t), txPaused' = txPaused PROVE TxKept' > 0
  <2>1. Goto(t, "idle") /\ "idle" \notin Granted /\ TxKept > 0
    BY <1>4 DEF TxReturn, Granted
  <2>2. CASE pc[t] \in Granted
    BY <2>1, <2>2, <1>1, <1>4, KeptMoves DEF TxReturn
  <2>3. CASE pc[t] \notin Granted
    BY <2>1, <2>3, <1>3, <1>4 DEF TxReturn
  <2>4. QED
    BY <2>2, <2>3
<1>5. ASSUME NEW t \in Tasks, CommandStep(t) \/ RxStep(t) PROVE TxKept' > 0
  BY <1>1, <1>2, <1>3, <1>5, OtherSteps DEF txVars, Granted
<1>6. ASSUME NEW t \in Tasks, TxStep(t) PROVE TxKept' > 0
  <2>1. CASE TxDequeue(t) \/ TxInit(t) \/ TxTooBig(t)
    <3>1. UNCHANGED <<txPaused, txHeld>> /\ pc[t] \notin Granted
      BY <2>1 DEF TxDequeue, TxInit, TxTooBig, At, Granted, txVars
    <3>2. \E step \in {"dataInit", "updateNull", "updateGranted"} : Goto(t, step)
      BY <2>1 DEF TxDequeue, TxInit, TxTooBig
    <3>3. QED
      BY <3>1, <3>2, <1>3
  <2>2. CASE TxUpdate(t)
    <3>1. CASE ~txPaused /\ txFree <= PauseThreshold
      <4>1. /\ txFree <= 1 /\ pc[t] # "dataInit" /\ txHeld' = txHeld
            /\ Goto(t, IF pc[t] \in Granted THEN "callbackGranted" ELSE "callbackNull")
        BY <3>1, <2>2 DEF TxUpdate, PauseThreshold, Updating
      <4>2. TxKept > 0
        BY <4>1, <1>1, SomeKept
      <4>3. (IF pc[t] \in Granted THEN "callbackGranted" ELSE "callbackNull") \in Granted
               <=> pc[t] \in Granted
        BY DEF Granted
      <4>4. QED
        BY <4>1, <4>2, <4>3, <1>1, KeptMoves
    <3>2. CASE ~(~txPaused /\ txFree <= PauseThreshold)
      BY <3>2, <2>2, <1>4 DEF TxUpdate
    <3>3. QED
      BY <3>1, <3>2
  <2>3. CASE TxCallback(t)
    BY <2>3, <1>4 DEF TxCallback
  <2>4. CASE TxFreeCallback(t)
    BY <2>4, <1>3 DEF TxFreeCallback, At, Granted
  <2>5. CASE TxFree(t)
    <3>1. /\ ~(txPaused /\ txFree' >= UnpauseThreshold)
          /\ txFree' = txFree + 1 /\ txFree \in Nat /\ At(t, "idle")
      BY <2>5, <1>1 DEF TxFree, TypeOK
    <3>2. txPaused' = txPaused /\ pc' = pc
      BY <3>1, <2>5 DEF TxFree
    <3>3. txFree' <= 1 /\ pc'[t] # "dataInit"
      BY <3>1, <3>2 DEF UnpauseThreshold, At
    <3>4. TxConservation' /\ TypeOK'
      BY <1>1
    <3>5. QED
      BY <3>3, <3>4, SomeKeptNext
  <2>6. QED
    BY <1>6, <2>1, <2>2, <2>3, <2>4, <2>5 DEF TxStep
<1>7. CASE DriverStep
  <2>1. CASE Shutdown \/ DeinitRound
    BY <2>1, <1>2 DEF Shutdown, DeinitRound, txVars
  <2>2. CASE Boot
    BY <2>2, Zenon DEF Boot
  <2>3. QED
    BY <1>7, <2>1, <2>2 DEF DriverStep
<1>8. CASE UNCHANGED vars
  BY <1>8, <1>2 DEF vars, txVars
<1>9. QED
  BY <1>5, <1>6, <1>7, <1>8, NextSteps

\* The flag pauses the path when at most one block is free, and with fewer
\* tasks than blocks a paused path has a packet out whose release looks at the
\* flag again, though blocks are put back that nobody looks at.
THEOREM StaticFlagTellsRoom ==
  ASSUME FewTasks
  PROVE  Spec => []FlagTellsRoom
<1> DEFINE Kept == txPaused => TxKept > 0
<1>1. Init => Kept
  BY Zenon DEF Init
<1>2. StaticInv /\ StaticInv' /\ Kept /\ [Next]_vars => Kept'
  BY PausedStep
<1>3. StaticInv /\ Kept => FlagTellsRoom
  BY DEF StaticInv, PausedWhenFew, FlagTellsRoom
<1>4. QED
  BY <1>1, <1>2, <1>3, StaticInvariant, PTL DEF Spec

\* Once the callbacks that are due have run, the stack's view of the transmit
\* path is the flag's value.
THEOREM StaticStackLearnsPause == Spec => []StackLearnsPause
<1> DEFINE Due == Calling \cup {"freeCallback"}
<1>1. Init => StackLearnsPause
  BY Zenon DEF Init, StackLearnsPause
<1>2. TypeOK /\ StackLearnsPause /\ [Next]_vars => StackLearnsPause'
  <2> SUFFICES ASSUME TypeOK, StackLearnsPause, [Next]_vars, fcView' # txPaused'
               PROVE  \E u \in Tasks : pc'[u] \in Due
    BY DEF StackLearnsPause, TasksIn
  <2>1. fcView # txPaused => \E u \in Tasks : pc[u] \in Due
    BY DEF StackLearnsPause, TasksIn
  <2>2. ASSUME UNCHANGED <<fcView, txPaused, pc>> PROVE \E u \in Tasks : pc'[u] \in Due
    BY <2>1, <2>2
  <2>3. ASSUME NEW t \in Tasks, NEW step, Goto(t, step), pc[t] \notin Due,
               UNCHANGED <<fcView, txPaused>>
        PROVE  \E u \in Tasks : pc'[u] \in Due
    BY <2>1, <2>3 DEF Goto, TypeOK
  <2>4. ASSUME NEW t \in Tasks, CommandStep(t) \/ RxStep(t)
        PROVE  \E u \in Tasks : pc'[u] \in Due
    BY <2>2, <2>3, <2>4, OtherSteps DEF txVars, Calling
  <2>5. ASSUME NEW t \in Tasks, TxStep(t) PROVE \E u \in Tasks : pc'[u] \in Due
    <3>1. CASE TxDequeue(t) \/ TxInit(t) \/ TxTooBig(t)
      BY <3>1, <2>3 DEF TxDequeue, TxInit, TxTooBig, At, Calling, txVars
    <3>2. CASE TxUpdate(t)
      <4>1. CASE ~txPaused /\ txFree <= PauseThreshold
        BY <4>1, <3>2 DEF TxUpdate, TypeOK, Goto, Calling
      <4>2. CASE ~(~txPaused /\ txFree <= PauseThreshold)
        BY <4>2, <3>2, <2>3 DEF TxUpdate, TxReturn, Updating, Calling
      <4>3. QED
        BY <4>1, <4>2
    <3>3. CASE TxCallback(t) \/ TxFreeCallback(t)
      BY <3>3 DEF TxCallback, TxFreeCallback
    <3>4. CASE TxFree(t)
      <4>1. CASE txPaused /\ txFree' >= UnpauseThreshold
        BY <4>1, <3>4 DEF TxFree, TypeOK, Goto
      <4>2. CASE ~(txPaused /\ txFree' >= UnpauseThreshold)
        BY <4>2, <3>4, <2>2 DEF TxFree
      <4>3. QED
        BY <4>1, <4>2
    <3>5. QED
      BY <2>5, <3>1, <3>2, <3>3, <3>4 DEF TxStep
  <2>6. CASE DriverStep
    <3>1. CASE Shutdown \/ DeinitRound
      BY <3>1, <2>2 DEF Shutdown, DeinitRound, txVars
    <3>2. CASE Boot
      BY <3>2, Zenon DEF Boot
    <3>3. QED
      BY <2>6, <3>1, <3>2 DEF DriverStep
  <2>7. CASE UNCHANGED vars
    BY <2>7, <2>2 DEF vars, txVars
  <2>8. QED
    BY <2>4, <2>5, <2>6, <2>7, NextSteps
<1>3. QED
  BY <1>1, <1>2, StaticTypeCorrect, PTL DEF Spec

-----------------------------------------------------------------------------
\* Every step is one of the packet pool's, or changes nothing it shows.
LEMMA PoolStep == StaticInv /\ StaticInv' /\ [Next]_vars => [Pool!PoolNext]_(Pool!poolVars)
<1> SUFFICES ASSUME StaticInv, StaticInv', [Next]_vars
             PROVE  [Pool!PoolNext]_(Pool!poolVars)
  OBVIOUS
<1>1. /\ TypeOK /\ TypeOK'
      /\ txFree + TxOut = TxBlocks /\ txFree' + TxOut' = TxBlocks
  BY DEF StaticInv, TxConservation
<1>2. /\ TxOut \in Nat /\ TxOut' \in Nat /\ txHeld \in Nat /\ txHeld' \in Nat
      /\ txFree \in Nat /\ txFree' \in Nat
      /\ txPaused \in BOOLEAN /\ txPaused' \in BOOLEAN
  <2>1. /\ Count(Granted) \in Nat /\ Count({"dataInit"}) \in Nat
        /\ Count(Granted)' \in Nat /\ Count({"dataInit"})' \in Nat
    BY CountType, CountNext
  <2>2. /\ TxOut = txHeld + Count(Granted) + Count({"dataInit"})
        /\ TxOut' = txHeld' + Count(Granted)' + Count({"dataInit"})'
    BY DEF TxOut, TxKept, Count
  <2>3. QED
    BY <1>1, <2>1, <2>2 DEF TypeOK
<1>4. txFree' = txFree => TxOut' = TxOut
  BY <1>1, <1>2
<1>5. ASSUME TxOut' = TxOut, txPaused' = txPaused PROVE [Pool!PoolNext]_(Pool!poolVars)
  BY <1>5 DEF Pool!poolVars
<1>6. ASSUME NEW t \in Tasks, CommandStep(t) \/ RxStep(t)
      PROVE  TxOut' = TxOut /\ txPaused' = txPaused
  BY <1>1, <1>4, <1>6, OtherSteps DEF txVars
<1>7. ASSUME NEW t \in Tasks, TxDequeue(t) PROVE [Pool!PoolNext]_(Pool!poolVars)
  <2>1. txPaused' = txPaused
    BY <1>7 DEF TxDequeue
  <2>2. CASE txFree > 0
    <3>1. TxOut' = TxOut + 1
      BY <2>2, <1>7, <1>1, <1>2 DEF TxDequeue
    <3>2. TxOut < TxBlocks
      BY <2>2, <1>1, <1>2
    <3>3. QED
      BY <3>1, <3>2, <2>1 DEF Pool!PoolNext, Pool!Grant
  <2>3. CASE ~(txFree > 0)
    <3>1. TxOut' = TxOut
      <4>1. txFree' = txFree
        BY <2>3, <1>7 DEF TxDequeue
      <4>2. QED
        BY <4>1, <1>4
    <3>2. QED
      BY <3>1, <2>1, <1>5
  <2>4. QED
    BY <2>2, <2>3
<1>8. ASSUME NEW t \in Tasks, TxUpdate(t) PROVE [Pool!PoolNext]_(Pool!poolVars)
  <2>1. txFree' = txFree
    BY <1>8 DEF TxUpdate
  <2>2. TxOut' = TxOut
    BY <2>1, <1>4
  <2>3. CASE ~txPaused /\ txFree <= PauseThreshold
    <3>1. TxOut > 0
      BY <2>3, <1>1, <1>2, StaticAssumption DEF PauseThreshold
    <3>2. txPaused' = TRUE
      BY <2>3, <1>8 DEF TxUpdate
    <3>3. QED
      BY <3>1, <3>2, <2>2 DEF Pool!PoolNext, Pool!Pause
  <2>4. CASE ~(~txPaused /\ txFree <= PauseThreshold)
    <3>1. txPaused' = txPaused
      BY <2>4, <1>8 DEF TxUpdate
    <3>2. QED
      BY <3>1, <2>2, <1>5
  <2>5. QED
    BY <2>3, <2>4
<1>9. ASSUME NEW t \in Tasks, TxCallback(t) \/ TxFreeCallback(t)
      PROVE  TxOut' = TxOut /\ txPaused' = txPaused
  <2>1. txFree' = txFree /\ txPaused' = txPaused
    BY <1>9 DEF TxCallback, TxFreeCallback
  <2>2. QED
    BY <2>1, <1>4
<1>10. ASSUME NEW t \in Tasks, TxFree(t) PROVE [Pool!PoolNext]_(Pool!poolVars)
  <2>1. txFree' = txFree + 1 /\ txHeld > 0
    BY <1>10 DEF TxFree
  <2>2. TxOut' = TxOut - 1 /\ TxOut > 0
    BY <2>1, <1>1, <1>2
  <2>3. txPaused' \in {txPaused, FALSE}
    BY <1>10 DEF TxFree
  <2>4. QED
    BY <2>2, <2>3 DEF Pool!PoolNext, Pool!Release
<1>3. ASSUME NEW t \in Tasks, TxInit(t) \/ TxTooBig(t)
      PROVE  [Pool!PoolNext]_(Pool!poolVars)
  <2>1. CASE TxInit(t)
    BY <2>1, <1>4, <1>5 DEF TxInit, txVars
  <2>2. CASE TxTooBig(t)
    <3>1. txFree' = txFree + 1 /\ txPaused' = txPaused
      BY <2>2 DEF TxTooBig
    <3>2. TxOut' = TxOut - 1 /\ TxOut > 0
      BY <3>1, <1>1, <1>2
    <3>3. QED
      BY <3>1, <3>2 DEF Pool!PoolNext, Pool!Release
  <2>3. QED
    BY <1>3, <2>1, <2>2
<1>11. CASE DriverStep
  <2>1. CASE Shutdown \/ DeinitRound
    <3>1. txFree' = txFree /\ txPaused' = txPaused
      BY <2>1 DEF Shutdown, DeinitRound, txVars
    <3>2. QED
      BY <3>1, <1>4, <1>5
  <2>2. CASE Boot
    <3>1. UNCHANGED pc /\ txHeld' = txHeld /\ txPaused' = FALSE
      BY <2>2 DEF Boot
    <3>2. TxOut' = TxOut
      BY <3>1 DEF TxOut, TxKept, TasksIn
    <3>3. QED
      BY <3>1, <3>2 DEF Pool!PoolNext, Pool!Resume
  <2>3. QED
    BY <1>11, <2>1, <2>2 DEF DriverStep
<1>12. CASE UNCHANGED vars
  <2>1. txFree' = txFree /\ txPaused' = txPaused
    BY <1>12 DEF vars, txVars
  <2>2. QED
    BY <2>1, <1>4, <1>5
<1>13. QED
  BY <1>3, <1>5, <1>6, <1>7, <1>8, <1>9, <1>10, <1>11, <1>12, NextSteps DEF TxStep

\* The static packet memory implements the packet pool.
THEOREM StaticImplementsPool == Spec => RefinesPool
<1>1. Init => Pool!PoolInit
  <2>1. Init => Count(Granted) = 0 /\ Count({"dataInit"}) = 0
    BY CountZero DEF Init, Granted
  <2>2. QED
    BY <2>1 DEF Init, Pool!PoolInit, TxOut, TxKept, Count
<1>2. QED
  BY <1>1, PoolStep, StaticInvariant, PTL DEF Spec, RefinesPool, Pool!PoolSpec
=============================================================================
