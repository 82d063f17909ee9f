----------------------------- MODULE PktMemHeap -----------------------------
(***************************************************************************)
(* Heap packet memory manager, src/framework/src/mmpktmem/mmpktmem_heap.c. *)
(*                                                                         *)
(* Nothing here takes a lock: the counters and the pause flag are C11      *)
(* atomics, so every atomic operation is a step of its own and the tasks   *)
(* interleave between any two of them.  Only the command pool's list is    *)
(* handled in a critical section.                                          *)
(*                                                                         *)
(* The driver and the applications, which live outside this file, are the  *)
(* tasks: a task that is "idle" may allocate, or release any packet that   *)
(* somebody holds.                                                         *)
(***************************************************************************)
EXTENDS Integers, FiniteSets

CONSTANTS
  Tasks,                 \* tasks that allocate and free packets
  TxBlocks,              \* MMPKTMEM_TX_POOL_N_BLOCKS
  RxBlocks,              \* MMPKTMEM_RX_POOL_N_BLOCKS
  CommandBlocks,         \* TX_COMMAND_POOL_N_BLOCKS
  PacketsOutliveDriver   \* may receive packets be held across a restart?

\* The platforms use 20 to 32 blocks.  A resume needs the allocations that are
\* in flight at one moment to stay below the unpause threshold.
ASSUME HeapAssumption ==
  /\ IsFiniteSet(Tasks)
  /\ TxBlocks \in Nat
  /\ TxBlocks >= Cardinality(Tasks) + 2
  /\ RxBlocks \in Nat \ {0}
  /\ CommandBlocks \in Nat
  /\ PacketsOutliveDriver \in BOOLEAN

VARIABLES
  txAllocated,   \* pktmem.tx_data_pool_allocated
  txPaused,      \* pktmem.tx_data_pool_tx_paused
  rxAllocated,   \* pktmem.rx_pool_allocated
  cmdFree,       \* pktmem.tx_command_pool_free_list.len
  pc,            \* where each task is between two atomic operations
  txHeld,        \* data-pool packets returned to a caller and not yet freed
  cmdHeld,       \* command-pool packets returned to a caller
  rxHeld,        \* counted receive packets returned to a caller
  fcView         \* the state the flow-control callback last read

txVars  == <<txAllocated, txPaused, txHeld, fcView>>
cmdVars == <<cmdFree, cmdHeld>>
rxVars  == <<rxAllocated, rxHeld>>
vars    == <<txVars, cmdVars, rxVars, pc>>

UnpauseThreshold == TxBlocks - 2
PauseThreshold   == TxBlocks - 1

\* Between the fetch_add of an allocation and the packet it yields (or not).
TxReserving == {"txHeapAlloc", "txUndo"}
\* The packet exists and its allocator still has it.
TxGranted   == {"txCheck", "txPause", "txPauseCb"}
\* A packet has been freed and the pause flag not yet looked at.
TxFreeing   == {"txFreeCheck", "txUnpause"}
RxReserving == {"rxHeapAlloc", "rxUndo"}

Steps == {"idle", "cmdInit", "txReserve", "txUnpauseCb", "asserted"}
           \cup TxReserving \cup TxGranted \cup TxFreeing \cup RxReserving

At(t, step)   == pc[t] = step
Goto(t, step) == pc' = [pc EXCEPT ![t] = step]
TasksIn(S)    == {t \in Tasks : pc[t] \in S}

\* mmhal_wlan_pktmem_init: everything zeroed, the command pool's list refilled.
Init ==
  /\ txAllocated = 0 /\ txPaused = 0 /\ rxAllocated = 0
  /\ cmdFree = CommandBlocks
  /\ pc = [t \in Tasks |-> "idle"]
  /\ txHeld = 0 /\ cmdHeld = 0 /\ rxHeld = 0 /\ fcView = 0

-----------------------------------------------------------------------------
\* Command pool.

\* command_pool_alloc: the dequeue, in its critical section.
CommandDequeue(t) ==
  /\ At(t, "idle") /\ cmdFree > 0
  /\ cmdFree' = cmdFree - 1
  /\ Goto(t, "cmdInit")
  /\ UNCHANGED <<txVars, cmdHeld, rxVars>>

\* mmpkt_init_buf accepts the size: the caller has its packet.
CommandInit(t) ==
  /\ At(t, "cmdInit")
  /\ cmdHeld' = cmdHeld + 1
  /\ Goto(t, "idle")
  /\ UNCHANGED <<txVars, cmdFree, rxVars>>

\* Mutant: the buffer is not put back.
CommandTooBigLeaks(t) ==
  /\ At(t, "cmdInit")
  /\ Goto(t, "txReserve")
  /\ UNCHANGED <<txVars, cmdVars, rxVars>>

\* The command is too big for a reserved buffer: it goes back to the list and
\* the allocation falls through to the data pool.
CommandTooBig(t) ==
  /\ At(t, "cmdInit")
  /\ cmdFree' = cmdFree + 1
  /\ Goto(t, "txReserve")
  /\ UNCHANGED <<txVars, cmdHeld, rxVars>>

CommandFree(t) ==
  /\ At(t, "idle") /\ cmdHeld > 0
  /\ cmdHeld' = cmdHeld - 1
  /\ cmdFree' = cmdFree + 1
  /\ UNCHANGED <<txVars, rxVars, pc>>

-----------------------------------------------------------------------------
\* Data pool, transmit.

\* Mutant: the limit is compared with > instead of >=.
TxReserveOneMore(t) ==
  /\ pc[t] \in {"idle", "txReserve"}
  /\ txAllocated' = txAllocated + 1
  /\ Goto(t, IF txAllocated > TxBlocks THEN "txUndo" ELSE "txHeapAlloc")
  /\ UNCHANGED <<txPaused, txHeld, fcView, cmdVars, rxVars>>

\* The fetch_add of mmhal_wlan_alloc_mmpkt_for_tx, for a data packet or a
\* command that found no reserved buffer.
TxReserve(t) ==
  /\ pc[t] \in {"idle", "txReserve"}
  /\ txAllocated' = txAllocated + 1
  /\ Goto(t, IF txAllocated >= TxBlocks THEN "txUndo" ELSE "txHeapAlloc")
  /\ UNCHANGED <<txPaused, txHeld, fcView, cmdVars, rxVars>>

\* The heap may or may not have room.
TxHeapAlloc(t) ==
  /\ At(t, "txHeapAlloc")
  /\ \E step \in {"txCheck", "txUndo"} : Goto(t, step)
  /\ UNCHANGED <<txVars, cmdVars, rxVars>>

\* Mutant: the count is given back by the callee and the caller.
TxUndoTwice(t) ==
  /\ At(t, "txUndo")
  /\ txAllocated' = txAllocated - 2
  /\ Goto(t, "idle")
  /\ UNCHANGED <<txPaused, txHeld, fcView, cmdVars, rxVars>>

\* The fetch_sub of either failure path: NULL is returned, nothing is resumed.
TxUndo(t) ==
  /\ At(t, "txUndo")
  /\ txAllocated' = txAllocated - 1
  /\ Goto(t, "idle")
  /\ UNCHANGED <<txPaused, txHeld, fcView, cmdVars, rxVars>>

TxReturn(t) == txHeld' = txHeld + 1 /\ Goto(t, "idle")

\* The load that decides whether to pause.
TxCheck(t) ==
  /\ At(t, "txCheck")
  /\ IF txAllocated > PauseThreshold
       THEN Goto(t, "txPause") /\ UNCHANGED txHeld
       ELSE TxReturn(t)
  /\ UNCHANGED <<txAllocated, txPaused, fcView, cmdVars, rxVars>>

\* The exchange with 1: only the task that finds 0 calls back.
TxPause(t) ==
  /\ At(t, "txPause")
  /\ txPaused' = 1
  /\ IF txPaused = 0
       THEN Goto(t, "txPauseCb") /\ UNCHANGED txHeld
       ELSE TxReturn(t)
  /\ UNCHANGED <<txAllocated, fcView, cmdVars, rxVars>>

\* tx_flow_control_cb carries no argument: the stack reads
\* mmhal_wlan_pktmem_tx_flow_control_state when it runs.
TxPauseCb(t) ==
  /\ At(t, "txPauseCb")
  /\ fcView' = txPaused
  /\ TxReturn(t)
  /\ UNCHANGED <<txAllocated, txPaused, cmdVars, rxVars>>

\* The fetch_sub of tx_data_pool_pkt_free and MMOSAL_ASSERT(old_value > 0).
TxFree(t) ==
  /\ At(t, "idle") /\ txHeld > 0
  /\ txAllocated' = txAllocated - 1
  /\ txHeld' = txHeld - 1
  /\ Goto(t, IF txAllocated > 0 THEN "txFreeCheck" ELSE "asserted")
  /\ UNCHANGED <<txPaused, fcView, cmdVars, rxVars>>

\* Mutant: a lower threshold, which frees in flight can step over.
TxFreeCheckLow(t) ==
  /\ At(t, "txFreeCheck")
  /\ Goto(t, IF txAllocated + 1 < UnpauseThreshold THEN "txUnpause" ELSE "idle")
  /\ UNCHANGED <<txVars, cmdVars, rxVars>>

\* The load that decides whether to resume.
TxFreeCheck(t) ==
  /\ At(t, "txFreeCheck")
  /\ Goto(t, IF txAllocated < UnpauseThreshold THEN "txUnpause" ELSE "idle")
  /\ UNCHANGED <<txVars, cmdVars, rxVars>>

\* Mutant: the flag is cleared and the stack not told.
TxUnpauseSilent(t) ==
  /\ At(t, "txUnpause")
  /\ txPaused' = 0
  /\ Goto(t, "idle")
  /\ UNCHANGED <<txAllocated, txHeld, fcView, cmdVars, rxVars>>

\* The exchange with 0: only the task that finds 1 calls back.
TxUnpause(t) ==
  /\ At(t, "txUnpause")
  /\ txPaused' = 0
  /\ Goto(t, IF txPaused = 1 THEN "txUnpauseCb" ELSE "idle")
  /\ UNCHANGED <<txAllocated, txHeld, fcView, cmdVars, rxVars>>

TxUnpauseCb(t) ==
  /\ At(t, "txUnpauseCb")
  /\ fcView' = txPaused
  /\ Goto(t, "idle")
  /\ UNCHANGED <<txAllocated, txPaused, txHeld, cmdVars, rxVars>>

-----------------------------------------------------------------------------
\* Receive.  Packets of class COMMAND bypass the count and change nothing here.

\* Mutant: the limit is compared with > instead of >=.
RxReserveOneMore(t) ==
  /\ At(t, "idle")
  /\ rxAllocated' = rxAllocated + 1
  /\ Goto(t, IF rxAllocated > RxBlocks THEN "rxUndo" ELSE "rxHeapAlloc")
  /\ UNCHANGED <<txVars, cmdVars, rxHeld>>

\* The fetch_add of mmhal_wlan_alloc_mmpkt_for_rx.
RxReserve(t) ==
  /\ At(t, "idle")
  /\ rxAllocated' = rxAllocated + 1
  /\ Goto(t, IF rxAllocated >= RxBlocks THEN "rxUndo" ELSE "rxHeapAlloc")
  /\ UNCHANGED <<txVars, cmdVars, rxHeld>>

RxHeapAlloc(t) ==
  /\ At(t, "rxHeapAlloc")
  /\ \/ rxHeld' = rxHeld + 1 /\ Goto(t, "idle")
     \/ UNCHANGED rxHeld /\ Goto(t, "rxUndo")
  /\ UNCHANGED <<txVars, cmdVars, rxAllocated>>

RxUndo(t) ==
  /\ At(t, "rxUndo")
  /\ rxAllocated' = rxAllocated - 1
  /\ Goto(t, "idle")
  /\ UNCHANGED <<txVars, cmdVars, rxHeld>>

RxFree(t) ==
  /\ At(t, "idle") /\ rxHeld > 0
  /\ rxAllocated' = rxAllocated - 1
  /\ rxHeld' = rxHeld - 1
  /\ UNCHANGED <<txVars, cmdVars, pc>>

\* mmwlan_shutdown and a later boot: deinit changes nothing (it waits and
\* logs), init zeroes the counters.  The driver has returned its own packets;
\* the network stack may still hold received ones.
Restart ==
  /\ \A t \in Tasks : At(t, "idle")
  /\ txHeld = 0 /\ cmdHeld = 0
  /\ PacketsOutliveDriver \/ rxHeld = 0
  /\ txAllocated' = 0 /\ txPaused' = 0 /\ rxAllocated' = 0
  /\ cmdFree' = CommandBlocks /\ fcView' = 0
  /\ UNCHANGED <<pc, txHeld, cmdHeld, rxHeld>>

-----------------------------------------------------------------------------
\* Once inside a call a task runs it to its end.
TxContinue(t) ==
  \/ TxHeapAlloc(t) \/ TxUndo(t) \/ TxCheck(t) \/ TxPause(t) \/ TxPauseCb(t)
  \/ TxFreeCheck(t) \/ TxUnpause(t) \/ TxUnpauseCb(t)

CommandContinue(t) == CommandInit(t) \/ CommandTooBig(t)

RxContinue(t) == RxHeapAlloc(t) \/ RxUndo(t)

Next ==
  \/ \E t \in Tasks :
       \/ CommandDequeue(t) \/ CommandContinue(t) \/ CommandFree(t)
       \/ TxReserve(t) \/ TxContinue(t) \/ TxFree(t)
       \/ RxReserve(t) \/ RxContinue(t) \/ RxFree(t)
  \/ Restart

Spec == Init /\ [][Next]_vars

\* The scheduler runs every task that is ready, and the driver transmits and
\* frees what it was given.  Nobody is obliged to allocate.
Fairness ==
  /\ \A t \in Tasks : WF_vars(TxContinue(t) \/ CommandContinue(t) \/ RxContinue(t))
  /\ \A t \in Tasks : WF_vars(At(t, "txReserve") /\ TxReserve(t))
  /\ \A t \in Tasks : SF_vars(TxFree(t))

FairSpec == Spec /\ Fairness

-----------------------------------------------------------------------------
TypeOK ==
  /\ txAllocated \in Int /\ rxAllocated \in Int
  /\ txPaused \in {0, 1} /\ fcView \in {0, 1}
  /\ cmdFree \in Nat
  /\ pc \in [Tasks -> Steps]
  /\ txHeld \in Nat /\ cmdHeld \in Nat /\ rxHeld \in Nat

\* Packets that exist: with a caller, or still in the hands of their allocator.
TxOut == txHeld + Cardinality(TasksIn(TxGranted))

\* The transmit counter never loses or invents an allocation: it is the packets
\* that exist plus the reservations in flight, at every step of every task.
TxConservation ==
  txAllocated = TxOut + Cardinality(TasksIn(TxReserving))

\* However many tasks overshoot the counter for a moment, no more than
\* TxBlocks packets exist at once.
TxPoolBound == TxOut <= TxBlocks

\* MMOSAL_ASSERT(old_value > 0) never fires.
NoFailedAssert == \A t \in Tasks : ~At(t, "asserted")

\* A lost resume would stop the transmit path for good: while it is paused
\* there is a packet whose release is yet to come, or a task on its way to
\* look at the flag.
PauseHasAnEnd ==
  txPaused = 1 => txHeld > 0 \/ TasksIn(TxGranted \cup TxFreeing) # {}

\* Callbacks of two tasks may run in either order; once both have run, the
\* stack's view is the flag's value.
StackLearnsPause ==
  fcView # txPaused => TasksIn({"txPauseCb", "txUnpauseCb"}) # {}

\* The reserved command buffers are free, held or being initialised.
CommandConservation ==
  cmdFree + cmdHeld + Cardinality(TasksIn({"cmdInit"})) = CommandBlocks

\* "an upper bound on the number of packets we will allocate in the ...
\* receive direction" (mmpktmem_heap.c:16).
RxPoolBound == rxHeld <= RxBlocks

\* If allocation stops, the path does not stay paused: the frees that follow
\* bring a resume.
PauseEnds ==
  <>[](TasksIn(TxReserving \cup TxGranted \cup {"txReserve", "cmdInit"}) = {})
    => <>[](txPaused = 0)

\* The manager keeps the promise of a packet pool.
Pool == INSTANCE PktPool WITH
          Limit <- TxBlocks, out <- TxOut, paused <- (txPaused = 1)
RefinesPool == Pool!PoolSpec
=============================================================================
