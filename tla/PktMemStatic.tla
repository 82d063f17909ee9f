---------------------------- MODULE PktMemStatic ----------------------------
(***************************************************************************)
(* Static packet memory, src/framework/src/mmpktmem/mmpktmem_static.c, the *)
(* manager that the mm-ekh08, ekh05, awh575 and awmhu5 platforms link.     *)
(*                                                                         *)
(* Blocks lie in free lists that are handled in critical sections, each a  *)
(* step here, with one exception: a block that mmpkt_init_buf finds too    *)
(* small for the packet is put back outside of any.  The blocks of the     *)
(* command list are therefore told apart, and the list has its head, tail, *)
(* links and length; of the other lists only the length matters, which the *)
(* put-back changes in one step.                                           *)
(*                                                                         *)
(* Tasks are the driver's and the network stack's; an idle one may         *)
(* allocate, or release any packet that somebody holds.                    *)
(***************************************************************************)
EXTENDS Integers, FiniteSets

CONSTANTS
  Tasks,            \* tasks that allocate and free packets
  CommandBlocks,    \* the blocks of tx_command_pool
  None,             \* NULL
  TxBlocks,         \* MMPKTMEM_TX_POOL_N_BLOCKS
  RxBlocks,         \* blocks of each receive pool: "command", "data"
  Waits,            \* the rounds of mmhal_wlan_pktmem_deinit (100)
  PacketsOutliveDriver   \* may received packets be held across a restart?

ASSUME StaticAssumption ==
  /\ IsFiniteSet(Tasks)
  /\ IsFiniteSet(CommandBlocks) /\ None \notin CommandBlocks
  /\ TxBlocks \in Nat /\ TxBlocks > 2
  /\ RxBlocks \in [{"command", "data"} -> Nat]
  /\ Waits \in Nat
  /\ PacketsOutliveDriver \in BOOLEAN

VARIABLES
  cmdList,     \* pktmem.tx_command_pool_free_list, with the blocks' next
  cmdHeld,     \* command blocks returned to a caller
  buf,         \* mmpkt_buf of a task inside alloc_pkt_from_list
  txFree,      \* pktmem.tx_data_pool_free_list.len
  txPaused,    \* pktmem.tx_data_pool_tx_paused
  txHeld,      \* data packets returned to a caller
  fcView,      \* the state the flow-control callback last read
  rxFree,      \* length of rx_command_pool_free_list, rx_data_pool_free_list
  rxHeld,      \* received packets with their owners
  driver,      \* "up", or in "deinit", or "down"
  waited,      \* rounds of the loop in mmhal_wlan_pktmem_deinit
  pc           \* where each task is between two critical sections

cmdVars    == <<cmdList, cmdHeld, buf>>
txVars     == <<txFree, txPaused, txHeld, fcView>>
rxVars     == <<rxFree, rxHeld>>
driverVars == <<driver, waited>>
vars       == <<cmdVars, txVars, rxVars, driverVars, pc>>

PauseThreshold   == 1
UnpauseThreshold == 2

Pools == {"command", "data"}

\* The suffix tells whether the task has got its packet.
Updating == {"updateGranted", "updateNull"}
Calling  == {"callbackGranted", "callbackNull"}
Granted  == {"updateGranted", "callbackGranted"}
Putting  == {"tail", "len"}
Steps    == {"idle", "commandInit", "dequeue", "dataInit", "freeCallback"}
              \cup Updating \cup Calling \cup Putting

At(t, step)   == pc[t] = step
Goto(t, step) == pc' = [pc EXCEPT ![t] = step]
TasksIn(S)    == {t \in Tasks : pc[t] \in S}

-----------------------------------------------------------------------------
\* struct mmpkt_list, whose functions are in morselib.

\* The writes of mmpkt_list_append, in their order.
LinkLast(list, b) ==
  LET cut == [list EXCEPT !.next[b] = None] IN
  IF list.tail = None THEN [cut EXCEPT !.head = b] ELSE [cut EXCEPT !.next[list.tail] = b]
SetTail(list, b) == [list EXCEPT !.tail = b]
CountOne(list)   == [list EXCEPT !.len = @ + 1]

Append(list, b) == CountOne(SetTail(LinkLast(list, b), b))

\* mmpkt_list_dequeue of a list that is not empty.
Dequeue(list) ==
  LET second == list.next[list.head] IN
  [head |-> second, tail |-> IF second = None THEN None ELSE list.tail,
   len |-> list.len - 1, next |-> list.next]

\* The blocks that a walk from the head meets are in every set that has the
\* head and, of each of its blocks, the next.
Closed(list, S) ==
  /\ list.head \in S \cup {None}
  /\ \A b \in S : list.next[b] \in S \cup {None}

Linked(list) ==
  {b \in CommandBlocks : \A S \in SUBSET CommandBlocks : Closed(list, S) => b \in S}

\* A list that mmhal_wlan_pktmem_init has filled, in any order of the blocks.
Filled(list) ==
  /\ Linked(list) = CommandBlocks
  /\ list.len = Cardinality(CommandBlocks)
  /\ IF CommandBlocks = {} THEN list.tail = None
     ELSE list.tail \in CommandBlocks /\ list.next[list.tail] = None

AnyList == [head : CommandBlocks \cup {None}, tail : CommandBlocks \cup {None},
            len : Int, next : [CommandBlocks -> CommandBlocks \cup {None}]]

Lists == [head : CommandBlocks \cup {None}, tail : CommandBlocks \cup {None},
          len : 0..Cardinality(CommandBlocks),
          next : [CommandBlocks -> CommandBlocks \cup {None}]]

\* mmhal_wlan_pktmem_init.
Init ==
  /\ cmdList \in {list \in Lists : Filled(list)}
  /\ cmdHeld = {} /\ buf = [t \in Tasks |-> None]
  /\ txFree = TxBlocks /\ txPaused = FALSE /\ txHeld = 0 /\ fcView = FALSE
  /\ rxFree = RxBlocks /\ rxHeld = [p \in Pools |-> 0]
  /\ driver = "up" /\ waited = 0
  /\ pc = [t \in Tasks |-> "idle"]
-----------------------------------------------------------------------------
\* Transmit commands.

\* command class of mmhal_wlan_alloc_mmpkt_for_tx: the dequeue.
CommandDequeue(t) ==
  /\ driver = "up" /\ At(t, "idle") /\ cmdList.head # None
  /\ buf' = [buf EXCEPT ![t] = cmdList.head]
  /\ cmdList' = Dequeue(cmdList)
  /\ Goto(t, "commandInit")
  /\ UNCHANGED <<cmdHeld, txVars, rxVars, driverVars>>

\* mmpkt_init_buf accepts the size: the caller has its packet.
CommandInit(t) ==
  /\ At(t, "commandInit")
  /\ cmdHeld' = cmdHeld \cup {buf[t]}
  /\ buf' = [buf EXCEPT ![t] = None]
  /\ Goto(t, "idle")
  /\ UNCHANGED <<cmdList, txVars, rxVars, driverVars>>

\* The command is too big for the block, which is put back in three writes
\* that other tasks may come between.
CommandTooBig(t) ==
  /\ At(t, "commandInit")
  /\ cmdList' = LinkLast(cmdList, buf[t])
  /\ Goto(t, "tail")
  /\ UNCHANGED <<cmdHeld, buf, txVars, rxVars, driverVars>>

PutTail(t) ==
  /\ At(t, "tail")
  /\ cmdList' = SetTail(cmdList, buf[t])
  /\ Goto(t, "len")
  /\ UNCHANGED <<cmdHeld, buf, txVars, rxVars, driverVars>>

\* The allocation goes on in the data pool.
PutLen(t) ==
  /\ At(t, "len")
  /\ cmdList' = CountOne(cmdList)
  /\ buf' = [buf EXCEPT ![t] = None]
  /\ Goto(t, "dequeue")
  /\ UNCHANGED <<cmdHeld, txVars, rxVars, driverVars>>

\* tx_command_free.
CommandFree(t) ==
  /\ At(t, "idle")
  /\ \E b \in cmdHeld :
       cmdHeld' = cmdHeld \ {b} /\ cmdList' = Append(cmdList, b)
  /\ UNCHANGED <<buf, txVars, rxVars, driverVars, pc>>

-----------------------------------------------------------------------------
\* Transmit data; commands that found no reserved block come here too.

\* Mutant: the list is not tested for emptiness.
TxDequeueUnchecked(t) ==
  /\ (driver = "up" /\ At(t, "idle")) \/ At(t, "dequeue")
  /\ txFree' = txFree - 1 /\ Goto(t, "dataInit")
  /\ UNCHANGED <<cmdVars, txPaused, txHeld, fcView, rxVars, driverVars>>

\* tx_data_pool_alloc: the dequeue.
TxDequeue(t) ==
  /\ (driver = "up" /\ At(t, "idle")) \/ At(t, "dequeue")
  /\ IF txFree > 0
       THEN txFree' = txFree - 1 /\ Goto(t, "dataInit")
       ELSE UNCHANGED txFree /\ Goto(t, "updateNull")
  /\ UNCHANGED <<cmdVars, txPaused, txHeld, fcView, rxVars, driverVars>>

\* mmpkt_init_buf accepts the size.
TxInit(t) ==
  /\ At(t, "dataInit") /\ Goto(t, "updateGranted")
  /\ UNCHANGED <<cmdVars, txVars, rxVars, driverVars>>

\* The packet is too big for the block, which is put back without a look at
\* the flag: the path stays paused.
TxTooBig(t) ==
  /\ At(t, "dataInit") /\ Goto(t, "updateNull")
  /\ txFree' = txFree + 1
  /\ UNCHANGED <<cmdVars, txPaused, txHeld, fcView, rxVars, driverVars>>

\* The caller has its packet, or NULL.
TxReturn(t) ==
  /\ Goto(t, "idle")
  /\ txHeld' = IF pc[t] \in Granted THEN txHeld + 1 ELSE txHeld

\* Mutant: the threshold is compared with < instead of <=.
TxUpdateLate(t) ==
  /\ pc[t] \in Updating
  /\ IF ~txPaused /\ txFree < PauseThreshold
       THEN /\ txPaused' = TRUE /\ UNCHANGED txHeld
            /\ Goto(t, IF pc[t] \in Granted THEN "callbackGranted" ELSE "callbackNull")
       ELSE UNCHANGED txPaused /\ TxReturn(t)
  /\ UNCHANGED <<cmdVars, txFree, fcView, rxVars, driverVars>>

\* Mutant: a failed allocation pauses, whatever has been freed since.
TxUpdateOnFailure(t) ==
  /\ pc[t] \in Updating
  /\ IF ~txPaused /\ (txFree <= PauseThreshold \/ At(t, "updateNull"))
       THEN /\ txPaused' = TRUE /\ UNCHANGED txHeld
            /\ Goto(t, IF pc[t] \in Granted THEN "callbackGranted" ELSE "callbackNull")
       ELSE UNCHANGED txPaused /\ TxReturn(t)
  /\ UNCHANGED <<cmdVars, txFree, fcView, rxVars, driverVars>>

\* update_tx_flow_control_state: only the task that pauses calls back.
TxUpdate(t) ==
  /\ pc[t] \in Updating
  /\ IF ~txPaused /\ txFree <= PauseThreshold
       THEN /\ txPaused' = TRUE /\ UNCHANGED txHeld
            /\ Goto(t, IF pc[t] \in Granted THEN "callbackGranted" ELSE "callbackNull")
       ELSE UNCHANGED txPaused /\ TxReturn(t)
  /\ UNCHANGED <<cmdVars, txFree, fcView, rxVars, driverVars>>

\* tx_flow_control_cb: the stack reads mmhal_wlan_pktmem_tx_flow_control_state.
TxCallback(t) ==
  /\ pc[t] \in Calling
  /\ fcView' = txPaused
  /\ TxReturn(t)
  /\ UNCHANGED <<cmdVars, txFree, txPaused, rxVars, driverVars>>

\* tx_data_free: the append and the decision to resume are one section.
TxFree(t) ==
  /\ At(t, "idle") /\ txHeld > 0
  /\ txHeld' = txHeld - 1 /\ txFree' = txFree + 1
  /\ IF txPaused /\ txFree' >= UnpauseThreshold
       THEN txPaused' = FALSE /\ Goto(t, "freeCallback")
       ELSE UNCHANGED <<txPaused, pc>>
  /\ UNCHANGED <<cmdVars, fcView, rxVars, driverVars>>

TxFreeCallback(t) ==
  /\ At(t, "freeCallback")
  /\ fcView' = txPaused
  /\ Goto(t, "idle")
  /\ UNCHANGED <<cmdVars, txFree, txPaused, txHeld, rxVars, driverVars>>

-----------------------------------------------------------------------------
\* Receive.  The blocks of both pools hold any packet of the chip, so that no
\* block is ever put back; a command that finds its pool empty takes a data block.

RxAlloc(t, pool) ==
  /\ driver = "up" /\ At(t, "idle") /\ rxFree[pool] > 0
  /\ rxFree' = [rxFree EXCEPT ![pool] = @ - 1]
  /\ rxHeld' = [rxHeld EXCEPT ![pool] = @ + 1]
  /\ UNCHANGED <<cmdVars, txVars, driverVars, pc>>

RxFree(t, pool) ==
  /\ At(t, "idle") /\ rxHeld[pool] > 0
  /\ rxFree' = [rxFree EXCEPT ![pool] = @ + 1]
  /\ rxHeld' = [rxHeld EXCEPT ![pool] = @ - 1]
  /\ UNCHANGED <<cmdVars, txVars, driverVars, pc>>

-----------------------------------------------------------------------------
\* mmwlan_shutdown and a later mmwlan_boot.

AllBack ==
  /\ cmdList.len = Cardinality(CommandBlocks)
  /\ txFree = TxBlocks /\ rxFree = RxBlocks

\* The driver ends its calls and calls mmhal_wlan_pktmem_deinit.
Shutdown ==
  /\ driver = "up" /\ \A t \in Tasks : At(t, "idle")
  /\ driver' = "deinit" /\ waited' = 0
  /\ UNCHANGED <<cmdVars, txVars, rxVars, pc>>

\* A round of its loop: any packet that is out ends the loop at once.
DeinitRound ==
  /\ driver = "deinit"
  /\ IF AllBack /\ waited < Waits
       THEN waited' = waited + 1 /\ UNCHANGED driver
       ELSE driver' = "down" /\ UNCHANGED waited
  /\ UNCHANGED <<cmdVars, txVars, rxVars, pc>>

\* mmhal_wlan_pktmem_init, once the driver's own packets are back.  The network
\* stack may still have received ones.
Boot ==
  /\ driver = "down" /\ \A t \in Tasks : At(t, "idle")
  /\ txHeld = 0 /\ cmdHeld = {}
  /\ PacketsOutliveDriver \/ \A p \in Pools : rxHeld[p] = 0
  /\ cmdList' \in {list \in Lists : Filled(list)}
  /\ txFree' = TxBlocks /\ txPaused' = FALSE /\ fcView' = FALSE
  /\ rxFree' = RxBlocks /\ driver' = "up" /\ waited' = 0
  /\ UNCHANGED <<cmdHeld, buf, txHeld, rxHeld, pc>>

-----------------------------------------------------------------------------
\* Once inside a call a task runs it to its end.
Continue(t) ==
  \/ CommandInit(t) \/ CommandTooBig(t) \/ PutTail(t) \/ PutLen(t)
  \/ TxInit(t) \/ TxTooBig(t)
  \/ TxUpdate(t) \/ TxCallback(t) \/ TxFreeCallback(t)
  \/ (At(t, "dequeue") /\ TxDequeue(t))

Next ==
  \/ \E t \in Tasks :
       \/ CommandDequeue(t) \/ CommandFree(t)
       \/ Continue(t) \/ TxDequeue(t) \/ TxFree(t)
       \/ \E p \in Pools : RxAlloc(t, p) \/ RxFree(t, p)
  \/ Shutdown \/ DeinitRound \/ Boot

Spec == Init /\ [][Next]_vars

\* The scheduler runs every task that is ready, and the driver transmits and
\* frees what it was given.  Nobody is obliged to allocate.
Fairness == \A t \in Tasks : WF_vars(Continue(t)) /\ SF_vars(TxFree(t))

FairSpec == Spec /\ Fairness

-----------------------------------------------------------------------------
TypeOK ==
  /\ cmdList \in AnyList
  /\ cmdHeld \subseteq CommandBlocks /\ buf \in [Tasks -> CommandBlocks \cup {None}]
  /\ txFree \in Nat /\ txHeld \in Nat /\ txPaused \in BOOLEAN /\ fcView \in BOOLEAN
  /\ rxFree \in [Pools -> Nat] /\ rxHeld \in [Pools -> Nat]
  /\ driver \in {"up", "deinit", "down"} /\ waited \in 0..Waits
  /\ pc \in [Tasks -> Steps]

\* "TX command pool free (unallocated) packet list" (mmpktmem_static.c:45):
\* between two appends the command list holds exactly the blocks that nobody has,
\* ends at its tail, and its length says so.  Violated: another task's list operation may come
\* between the writes of the put-back, and a block is lost.
ListIntact ==
  LET taken == cmdHeld \cup ({buf[t] : t \in Tasks} \ {None}) IN
  TasksIn(Putting) = {} =>
    /\ Linked(cmdList) = CommandBlocks \ taken
    /\ cmdList.len = Cardinality(Linked(cmdList))
    /\ cmdList.head # None => cmdList.tail \in Linked(cmdList)

\* Data packets that a release will return: with a caller or about to be.
TxKept == txHeld + Cardinality(TasksIn(Granted))

\* Data blocks that are out: those, or still to be tested for their size.
TxOut == TxKept + Cardinality(TasksIn({"dataInit"}))

\* No data block is lost from the list or in two hands.
TxConservation == txFree + TxOut = TxBlocks

\* The path is paused when at most one block is free, except while an
\* allocation is about to look, and a paused path has a packet out whose
\* release looks at the flag: the blocks too small for their packets are put
\* back without a look, and must not be all that is out.
FlagTellsRoom ==
  /\ txFree <= PauseThreshold => txPaused \/ TasksIn(Updating \cup {"dataInit"}) # {}
  /\ txPaused => TxKept > 0

\* Callbacks of two tasks may run in either order; once both have run, the
\* stack's view is the flag's value.
StackLearnsPause ==
  fcView # txPaused => TasksIn(Calling \cup {"freeCallback"}) # {}

\* "RX command pool free (unallocated) packet list" (mmpktmem_static.c:56): a
\* receive pool's list has the blocks that nobody has.  Violated: mmhal_wlan_pktmem_init puts
\* all blocks into the lists, also those that the network stack still holds.
RxConservation == \A p \in Pools : rxFree[p] + rxHeld[p] = RxBlocks[p]

\* If allocation stops, the path does not stay paused: the frees that follow
\* bring a resume.
PauseEnds ==
  <>[](TasksIn(Granted \cup Updating \cup Putting \cup {"commandInit", "dequeue", "dataInit"}) = {})
    => <>[](~txPaused)

\* "If there is still memory allocated, allow some time for other threads to
\* clean up" (mmpktmem_static.c:121).
DeinitGivesTime ==
  [][driver = "deinit" /\ driver' = "down" => AllBack \/ waited = Waits]_vars

\* The manager keeps the promise of a packet pool.
Pool == INSTANCE PktPool WITH Limit <- TxBlocks, out <- TxOut, paused <- txPaused
RefinesPool == Pool!PoolSpec
=============================================================================
