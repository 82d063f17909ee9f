---------------------------- MODULE DatalinkSpi ----------------------------
(***************************************************************************)
(* The M2M SPI data link of src/applications/mm-ekh08-u575: the Agent's    *)
(* interrupt handlers and tasks (m2m_agent/mm_shims) on one side, the      *)
(* Controller's blocking transactions (m2m_controller/mm_shims) on the     *)
(* other, and between them the RDY and WAKE lines and the SPI transfers.   *)
(*                                                                         *)
(* The Agent's handlers have one interrupt priority and never preempt one  *)
(* another, so a handler is one step; it may fall between any two steps of *)
(* an Agent task.  The Controller polls, so each wait and each transfer of *)
(* a transaction is a step.                                                *)
(*                                                                         *)
(* Payloads are abstracted to what the link tells apart.  Towards the      *)
(* Agent: does rx_packet_buf hold a complete packet not yet passed on?     *)
(* Towards the Controller: which of the Agent's buffers is read.           *)
(***************************************************************************)
EXTENDS Naturals, FiniteSets

CONSTANTS
  Bufs,            \* the Agent's transmit buffers (mmbuf on its heap)
  NoBuf,           \* NULL
  MaxFaults,       \* bound on corrupted transfers and failed allocations
  MaxOvertakes,    \* bound on how often the Controller overtakes the Agent
  SleepModes       \* deep-sleep modes the Controller's commands select

ASSUME SpiAssumption ==
  /\ IsFiniteSet(Bufs) /\ NoBuf \notin Bufs
  /\ {MaxFaults, MaxOvertakes} \subseteq Nat
  /\ SleepModes \subseteq {"DISABLED", "ONE_SHOT", "HARDWARE"}

VARIABLES
  state,           \* agent_dl->state
  hal,             \* the transfer the Agent's SPI peripheral is set up for
  spiIrq,          \* its completion interrupt: "none", "done" or "error"
  hdr,             \* rx_payload_header[0] of the last header clocked in
  rxData,          \* rx_packet_buf: "fresh" when complete and not passed on
  rxPc, rxNotified,               \* the Agent's rx task, its notification
  txBuf, prevBuf, pendingRelease, \* the three buffer references
  sending, txSem,                 \* a task waits in tx_buffer, its semaphore
  sleepMode, wakeIrq, veto,       \* deep-sleep mode, WAKE IRQ enable, veto bit
  wakeRise, wakeFall,             \* EXTI flags of the WAKE line at the Agent
  wake, rdy,                      \* the two lines
  edge, irqOn, notified,          \* Controller: EXTI flag, IRQ enable, rx task
  cpc, op, owner,  \* Controller: step, kind and task of the transaction
  tries,           \* attempts made in the call of each task
  ack,             \* the byte read in answer to a write was ACK
  got,             \* buffer whose payload the current read has received
  passedOn,        \* history: packet passed on since the current write call
  unread,          \* history: buffer the Agent took as sent, not yet returned
  modeSet,         \* history: deep-sleep mode changed since WAKE last rose
  overtaken,       \* history: the Controller went on without the Agent, see Overtake
  overtakes,       \* history: how often it did
  faults

agentVars  == <<state, hal, hdr, rxData, rxPc, rxNotified>>
sendVars   == <<txBuf, prevBuf, pendingRelease, sending, txSem>>
sleepVars  == <<sleepMode, wakeIrq, veto, modeSet>>
wakeVars   == <<wakeRise, wakeFall>>
ctrlVars   == <<irqOn, notified, cpc, op, owner, tries, ack, got>>
ghostVars  == <<passedOn, unread>>
speedVars  == <<overtaken, overtakes>>
vars == <<agentVars, spiIrq, sendVars, sleepVars, wakeVars, wake, rdy, edge,
          ctrlVars, ghostVars, speedVars, faults>>

Retries == 3       \* MMAGIC_DATALINK_RETRY_ATTEMPTS

RxOps == {"rxHeader", "rxPacket"}
TxOps == {"txLen", "txPrevLen", "txPacket", "txPrevPacket", "txAck"}
AgentStates == {"ERROR", "IDLE", "C2A_PAYLOAD", "C2A_ACK", "READ_LEN",
                "READ_PAYLOAD", "REREAD_LEN", "REREAD_PAYLOAD"}

\* mmagic_datalink_agent_update_state: transitions it lets through.  Any other
\* one ends in ERROR, and out of ERROR only IDLE may follow (MMOSAL_ASSERT).
Legal == [ERROR          |-> {"IDLE"},
          IDLE           |-> {"IDLE", "C2A_PAYLOAD", "READ_LEN", "REREAD_LEN"},
          C2A_PAYLOAD    |-> {"IDLE", "C2A_ACK"},
          C2A_ACK        |-> {"IDLE"},
          READ_LEN       |-> {"IDLE", "READ_PAYLOAD"},
          REREAD_LEN     |-> {"IDLE", "REREAD_PAYLOAD"},
          READ_PAYLOAD   |-> {"IDLE"},
          REREAD_PAYLOAD |-> {"IDLE"}]

UpdateState(new) ==
  state' = IF new \in Legal[state] THEN new
           ELSE IF state = "ERROR" THEN "ASSERT" ELSE "ERROR"

\* HAL_SPI_Receive/Transmit_IT/_DMA answer HAL_BUSY, which nobody looks at,
\* unless the previous transfer has completed.  (external: ST HAL)
Arm(busy, transfer) == hal' = IF busy = "none" THEN transfer ELSE busy

\* A write to the RDY line; the Controller's EXTI latches the rising edge.
SetRdy(level) == rdy' = level /\ edge' = (edge \/ (level /\ ~rdy))

\* mmagic_datalink_agent_configure_rx_idle
ConfigureRxIdle(busy) ==
  Arm(busy, "rxHeader") /\ SetRdy(FALSE) /\ UpdateState("IDLE")

Running == state # "ASSERT"

Init ==
  /\ state = "IDLE" /\ hal = "rxHeader" /\ spiIrq = "none" /\ hdr = "write"
  /\ rxData = "stale" /\ rxPc = "wait" /\ rxNotified = FALSE
  /\ txBuf = NoBuf /\ prevBuf = NoBuf /\ pendingRelease = NoBuf
  /\ sending = FALSE /\ txSem = FALSE
  /\ sleepMode = "HARDWARE" /\ wakeIrq = TRUE /\ veto = FALSE
  /\ wakeRise = FALSE /\ wakeFall = FALSE /\ wake = FALSE /\ rdy = FALSE
  /\ edge = FALSE /\ irqOn = TRUE /\ notified = FALSE
  /\ cpc = "free" /\ op = "write" /\ owner = "app"
  /\ tries = [app |-> 0, rx |-> 0] /\ ack = FALSE /\ got = NoBuf
  /\ passedOn = FALSE /\ unread = NoBuf /\ modeSet = FALSE /\ faults = 0
  /\ overtaken = FALSE /\ overtakes = 0

-----------------------------------------------------------------------------
\* The Agent's interrupt handlers.

WakePending == wakeIrq /\ (wakeRise \/ wakeFall)

\* Mutant: the rising edge does not veto deep sleep.
WakeHandlerNoVeto ==
  LET reidle  == wakeFall /\ state # "IDLE"
      level   == (rdy \/ wakeRise) /\ ~reidle
      pending == wakeFall /\ txBuf # NoBuf
  IN
  /\ Running /\ WakePending
  /\ wakeRise' = FALSE /\ wakeFall' = FALSE
  /\ IF reidle THEN Arm(hal, "rxHeader") /\ UpdateState("IDLE")
               ELSE UNCHANGED <<hal, state>>
  /\ rdy' = (level \/ pending)
  /\ edge' = (edge \/ (wakeRise /\ ~rdy) \/ (pending /\ ~level))
  /\ veto' = (veto \/ pending) /\ modeSet' = (modeSet /\ ~wakeRise)
  /\ UNCHANGED <<hdr, rxData, rxPc, rxNotified, spiIrq, sendVars, sleepMode,
                 wakeIrq, wake, ctrlVars, ghostVars, speedVars, faults>>

\* MMAGIC_DATALINK_AGENT_WAKE_HANLDER.  Both edges may be pending; the rising
\* one is handled first.
WakeHandler ==
  LET reidle  == wakeFall /\ state # "IDLE"
      level   == (rdy \/ wakeRise) /\ ~reidle
      pending == wakeFall /\ txBuf # NoBuf
  IN
  /\ Running /\ WakePending
  /\ wakeRise' = FALSE /\ wakeFall' = FALSE
  /\ IF reidle THEN Arm(hal, "rxHeader") /\ UpdateState("IDLE")
               ELSE UNCHANGED <<hal, state>>
  /\ rdy' = (level \/ pending)
  /\ edge' = (edge \/ (wakeRise /\ ~rdy) \/ (pending /\ ~level))
  /\ veto' = IF wakeFall /\ ~pending /\ sleepMode = "HARDWARE" THEN FALSE
             ELSE veto \/ wakeRise \/ pending
  /\ modeSet' = (modeSet /\ ~wakeRise)
  /\ UNCHANGED <<hdr, rxData, rxPc, rxNotified, spiIrq, sendVars, sleepMode,
                 wakeIrq, wake, ctrlVars, ghostVars, speedVars, faults>>

\* The WAKE line's interrupt has the lower number and is served first.
SpiIsr(result, transfers) ==
  /\ Running /\ ~WakePending
  /\ spiIrq = result /\ hal \in transfers
  /\ spiIrq' = "none"
  /\ UNCHANGED <<hdr, rxPc, sending, sleepVars, wakeVars, wake, ctrlVars,
                 passedOn, speedVars, faults>>

NoSend == UNCHANGED <<txBuf, prevBuf, pendingRelease, txSem, unread>>

\* Mutant: the rx task is notified as soon as the header is in.
HeaderNotifies ==
  /\ SpiIsr("done", RxOps) /\ state = "IDLE"
  /\ LET next == CASE hdr = "write"  -> <<"C2A_PAYLOAD", "rxPacket">>
                   [] hdr = "read"   -> <<"READ_LEN", "txLen">>
                   [] hdr = "reread" -> <<"REREAD_LEN", "txPrevLen">>
     IN UpdateState(next[1]) /\ Arm("none", next[2])
  /\ rxNotified' = (hdr = "write") /\ rxData' = "stale"
  /\ SetRdy(FALSE)
  /\ NoSend

\* mmagic_datalink_agent_handle_payload_header and the RDY reset after it.
HeaderReceived ==
  /\ SpiIsr("done", RxOps) /\ state = "IDLE"
  /\ LET next == CASE hdr = "write"  -> <<"C2A_PAYLOAD", "rxPacket">>
                   [] hdr = "read"   -> <<"READ_LEN", "txLen">>
                   [] hdr = "reread" -> <<"REREAD_LEN", "txPrevLen">>
     IN UpdateState(next[1]) /\ Arm("none", next[2])
  /\ rxData' = IF hdr = "write" THEN "stale" ELSE rxData
  /\ SetRdy(FALSE)
  /\ NoSend /\ UNCHANGED rxNotified

\* handle_spi_rx_cplt with a payload: the rx task is notified.
PacketReceived ==
  /\ SpiIsr("done", RxOps) /\ state = "C2A_PAYLOAD"
  /\ hal' = "none" /\ rxNotified' = TRUE
  /\ NoSend /\ UNCHANGED <<state, rxData, rdy, edge>>

\* handle_spi_tx_cplt after an ACK: the rx task is notified once more.
AckSent ==
  /\ SpiIsr("done", TxOps) /\ state = "C2A_ACK"
  /\ rxNotified' = TRUE
  /\ ConfigureRxIdle("none")
  /\ NoSend /\ UNCHANGED rxData

\* Mutant: tx_buf keeps the packet that was sent.
PacketSentKept ==
  /\ SpiIsr("done", TxOps) /\ state = "READ_PAYLOAD"
  /\ pendingRelease' = prevBuf /\ prevBuf' = txBuf
  /\ unread' = txBuf
  /\ ConfigureRxIdle("none")
  /\ txSem' = TRUE
  /\ UNCHANGED <<rxData, rxNotified, txBuf>>

\* handle_spi_tx_cplt after a packet: the buffers move up one place and the
\* task in tx_buffer continues.
PacketSent ==
  /\ SpiIsr("done", TxOps) /\ state = "READ_PAYLOAD"
  /\ UNCHANGED <<rxData, rxNotified>>
  /\ IF pendingRelease # NoBuf
       THEN /\ state' = "ASSERT" /\ hal' = "none"
            /\ NoSend /\ UNCHANGED <<rdy, edge>>
       ELSE /\ pendingRelease' = prevBuf /\ prevBuf' = txBuf /\ txBuf' = NoBuf
            /\ unread' = txBuf
            /\ ConfigureRxIdle("none")
            /\ txSem' = TRUE

\* handle_spi_tx_cplt after a packet sent again.
PacketResent ==
  /\ SpiIsr("done", TxOps) /\ state = "REREAD_PAYLOAD"
  /\ ConfigureRxIdle("none")
  /\ NoSend /\ UNCHANGED <<rxData, rxNotified>>

\* handle_spi_tx_cplt after a length: the payload follows if there is one now.
LengthSent ==
  /\ SpiIsr("done", TxOps) /\ state \in {"READ_LEN", "REREAD_LEN"}
  /\ LET first == state = "READ_LEN"
         buf   == IF first THEN txBuf ELSE prevBuf
     IN IF buf = NoBuf
          THEN ConfigureRxIdle("none")
          ELSE /\ Arm("none", IF first THEN "txPacket" ELSE "txPrevPacket")
               /\ UpdateState(IF first THEN "READ_PAYLOAD" ELSE "REREAD_PAYLOAD")
               /\ SetRdy(TRUE)
  /\ NoSend /\ UNCHANGED <<rxData, rxNotified>>

\* handle_spi_rx_cplt ("We shouldn't be recieving in any other state") and
\* handle_spi_tx_cplt in a state with no such transfer: MMOSAL_ASSERT(false).
UnexpectedTransfer ==
  /\ SpiIsr("done", RxOps \cup TxOps)
  /\ state \notin IF hal \in RxOps THEN {"IDLE", "C2A_PAYLOAD"}
                 ELSE {"C2A_ACK", "READ_LEN", "READ_PAYLOAD", "REREAD_LEN", "REREAD_PAYLOAD"}
  /\ hal' = "none" /\ state' = "ASSERT"
  /\ NoSend /\ UNCHANGED <<rxData, rxNotified, rdy, edge>>

\* mmagic_datalink_agent_handle_spi_error
SpiError ==
  /\ SpiIsr("error", RxOps \cup TxOps)
  /\ IF state \in {"IDLE", "C2A_PAYLOAD"}
       THEN ConfigureRxIdle("none")
       ELSE hal' = "none" /\ state' = "ERROR" /\ SetRdy(FALSE)
  /\ rxData' = IF state = "C2A_PAYLOAD" THEN "stale" ELSE rxData
  /\ NoSend /\ UNCHANGED rxNotified

-----------------------------------------------------------------------------
\* The Agent's rx task.

RxTask(from) ==
  /\ Running /\ rxPc = from
  /\ UNCHANGED <<hdr, spiIrq, sendVars, sleepVars, wakeVars, wake, ctrlVars, unread,
                 speedVars>>

RxWake ==
  /\ RxTask("wait") /\ rxNotified
  /\ rxNotified' = FALSE /\ rxPc' = "check"
  /\ UNCHANGED <<state, hal, rxData, rdy, edge, passedOn, faults>>

\* The test of the state at the top of the loop finds nothing to do.
RxNothing ==
  /\ RxTask("check") /\ state # "C2A_PAYLOAD"
  /\ rxPc' = "wait"
  /\ UNCHANGED <<state, hal, rxData, rxNotified, rdy, edge, passedOn, faults>>

\* handle_c2a_work: a buffer is allocated and rx_packet_buf copied into it.
RxCopy ==
  /\ RxTask("check") /\ state = "C2A_PAYLOAD"
  /\ rxPc' = "ack" /\ rxData' = "stale"
  /\ UNCHANGED <<state, hal, rxNotified, rdy, edge, passedOn, faults>>

\* handle_c2a_work: no memory, so no ACK.
RxNoMemory ==
  /\ RxTask("check") /\ state = "C2A_PAYLOAD" /\ faults < MaxFaults
  /\ faults' = faults + 1
  /\ rxPc' = "wait" /\ ConfigureRxIdle(hal)
  /\ UNCHANGED <<rxData, rxNotified, passedOn>>

\* handle_c2a_work: the ACK is set up; then the upper layer is called.
RxAck ==
  /\ RxTask("ack")
  /\ rxPc' = "callback"
  /\ UpdateState("C2A_ACK") /\ Arm(hal, "txAck") /\ SetRdy(TRUE)
  /\ passedOn' = TRUE
  /\ UNCHANGED <<rxData, rxNotified, faults>>

RxCallbackReturns ==
  /\ RxTask("callback")
  /\ rxPc' = "wait"
  /\ UNCHANGED <<state, hal, rxData, rxNotified, rdy, edge, passedOn, faults>>

-----------------------------------------------------------------------------
\* The Agent's sender, one at a time under the LLC's datalink mutex.

\* mmagic_datalink_agent_tx_buffer up to the wait: the critical section
\* releases the oldest buffer and publishes the new one.
TxBuffer(b) ==
  /\ Running /\ ~sending /\ txBuf = NoBuf
  /\ b \notin {prevBuf, pendingRelease}
  /\ pendingRelease' = NoBuf /\ txBuf' = b /\ sending' = TRUE
  /\ IF state = "IDLE" THEN SetRdy(TRUE) ELSE UNCHANGED <<rdy, edge>>
  /\ UNCHANGED <<agentVars, spiIrq, prevBuf, txSem, sleepVars, wakeVars, wake,
                 ctrlVars, ghostVars, speedVars, faults>>

\* The semaphore wait returns.
TxComplete ==
  /\ Running /\ sending /\ txSem
  /\ sending' = FALSE /\ txSem' = FALSE
  /\ UNCHANGED <<agentVars, spiIrq, txBuf, prevBuf, pendingRelease, sleepVars,
                 wakeVars, wake, rdy, edge, ctrlVars, ghostVars, speedVars, faults>>

\* mmagic_datalink_agent_set_deep_sleep_mode, on a command of the Controller.
SetDeepSleepMode(mode) ==
  /\ Running /\ mode # sleepMode
  /\ sleepMode' = mode /\ modeSet' = TRUE
  /\ veto' = (mode = "DISABLED") /\ wakeIrq' = (mode # "DISABLED")
  /\ UNCHANGED <<agentVars, spiIrq, sendVars, wakeVars, wake, rdy, edge,
                 ctrlVars, ghostVars, speedVars, faults>>

-----------------------------------------------------------------------------
\* SPI transfers, clocked by the Controller.  (external: SPI bus and ST HAL)

\* What the Agent's peripheral makes of a transfer it was not set up for.
Mismatch ==
  \/ UNCHANGED spiIrq
  \/ hal # "none" /\ spiIrq = "none" /\ spiIrq' = "error"
  \/ hal \in TxOps /\ spiIrq = "none" /\ spiIrq' = "done"

Expected(transfers) == hal \in transfers /\ spiIrq = "none"

Fault == faults < MaxFaults /\ faults' = faults + 1

\* The Controller sends; the Agent detects a corrupted frame by its CRC.
Transmit(transfer) ==
  IF Expected({transfer})
    THEN /\ \/ spiIrq' = "done" /\ UNCHANGED faults
            \/ spiIrq' = "error" /\ Fault
         /\ hdr' = IF transfer = "rxHeader" THEN op ELSE hdr
         /\ rxData' = IF transfer = "rxPacket" /\ spiIrq' = "done" THEN "fresh" ELSE rxData
    ELSE /\ Mismatch
         /\ rxData' = IF hal = "rxPacket" THEN "stale" ELSE rxData
         /\ UNCHANGED <<hdr, faults>>

\* The Controller reads, and detects a corrupted frame by its CRC.
Receive(transfers, ok) ==
  /\ UNCHANGED <<hdr, rxData>>
  /\ IF Expected(transfers)
       THEN spiIrq' = "done" /\ (IF ok THEN UNCHANGED faults ELSE Fault)
       ELSE ~ok /\ Mismatch /\ UNCHANGED faults

-----------------------------------------------------------------------------
\* The Controller's transactions.

\* The Agent has no handler and no received packet left to work on ...
AgentSettled ==
  \/ ~Running
  \/ /\ spiIrq = "none" /\ ~WakePending
     /\ rxPc = "callback" \/ (rxPc = "wait" /\ ~rxNotified)

\* ... and its upper layer has taken the last one.
AgentDone == AgentSettled /\ (Running => rxPc = "wait")

\* The Controller goes on before the Agent has done its part: a wait of 100 ms
\* ends, or a transaction begins while the Agent still works on the one before,
\* whose callback may block for any time.  The Controller waits for nothing
\* else, so its other steps need no such mark.
Overtake ==
  /\ overtakes < MaxOvertakes
  /\ overtakes' = overtakes + 1 /\ overtaken' = TRUE

CtrlAt(step) ==
  /\ cpc = step
  /\ UNCHANGED <<state, hal, rxPc, rxNotified, sendVars, sleepVars, passedOn>>

\* A task of the application calls mmagic_datalink_controller_tx_buffer.
AppCall ==
  /\ tries["app"] = 0
  /\ tries' = [tries EXCEPT !["app"] = 1]
  /\ passedOn' = FALSE
  /\ UNCHANGED <<agentVars, spiIrq, sendVars, sleepVars, wakeVars, wake, rdy, edge,
                 irqOn, notified, cpc, op, owner, ack, got, unread, speedVars, faults>>

\* The Controller's rx task, woken by the RDY interrupt, starts to read.
RxCall ==
  /\ tries["rx"] = 0 /\ notified
  /\ notified' = FALSE
  /\ tries' = [tries EXCEPT !["rx"] = 1]
  /\ UNCHANGED <<agentVars, spiIrq, sendVars, sleepVars, wakeVars, wake, rdy, edge,
                 irqOn, cpc, op, owner, ack, got, ghostVars, speedVars, faults>>

\* MMAGIC_DATALINK_CONTROLLER_IRQ_HANLDER
ControllerIrq ==
  /\ irqOn /\ edge
  /\ edge' = FALSE /\ notified' = TRUE
  /\ UNCHANGED <<agentVars, spiIrq, sendVars, sleepVars, wakeVars, wake, rdy,
                 irqOn, cpc, op, owner, tries, ack, got, ghostVars, speedVars, faults>>

\* A transaction that finds the Agent at rest is not affected by those before.
Begin ==
  \/ AgentDone /\ overtaken' = (overtaken /\ state # "IDLE") /\ UNCHANGED overtakes
  \/ ~AgentDone /\ Overtake

\* Mutant: a failed read is tried again as a read.
LockReadsAgain(task) ==
  /\ CtrlAt("free") /\ tries[task] > 0
  /\ cpc' = "high1" /\ owner' = task
  /\ op' = IF task = "app" THEN "write" ELSE "read"
  /\ irqOn' = FALSE /\ ack' = FALSE /\ got' = NoBuf
  /\ wake' = TRUE /\ wakeRise' = TRUE
  /\ Begin
  /\ UNCHANGED <<hdr, rxData, spiIrq, wakeFall, rdy, edge, notified, tries, unread, faults>>

\* The mutex is taken, the interrupt masked and the WAKE line raised.
Lock(task) ==
  /\ CtrlAt("free") /\ tries[task] > 0
  /\ cpc' = "high1" /\ owner' = task
  /\ op' = IF task = "app" THEN "write" ELSE IF tries["rx"] = 1 THEN "read" ELSE "reread"
  /\ irqOn' = FALSE /\ ack' = FALSE /\ got' = NoBuf
  /\ wake' = TRUE /\ wakeRise' = TRUE
  /\ Begin
  /\ UNCHANGED <<hdr, rxData, spiIrq, wakeFall, rdy, edge, notified, tries, unread, faults>>

CtrlGoto(step) ==
  /\ cpc' = step
  /\ UNCHANGED <<wakeVars, wake, rdy, edge, irqOn, notified, op, owner, tries, unread>>

\* wait_for_rdy_high and wait_for_rdy_low: the line is seen at the level, or
\* the wait times out and the transaction is given up.
WaitRdy(step, level, next) ==
  /\ CtrlAt(step)
  /\ \/ rdy = level /\ CtrlGoto(next) /\ UNCHANGED speedVars
     \/ rdy # level /\ AgentSettled /\ CtrlGoto("clear") /\ UNCHANGED speedVars
     \/ rdy # level /\ ~AgentSettled /\ CtrlGoto("clear") /\ Overtake
  /\ UNCHANGED <<hdr, rxData, spiIrq, faults, ack, got>>

SendHeader ==
  /\ CtrlAt("header") /\ CtrlGoto("low1")
  /\ Transmit("rxHeader")
  /\ UNCHANGED <<ack, got, speedVars>>

SendPacket ==
  /\ CtrlAt("body") /\ op = "write" /\ CtrlGoto("high2")
  /\ Transmit("rxPacket")
  /\ UNCHANGED <<ack, got, speedVars>>

\* Mutant: any byte counts as an ACK.
ReceiveAnyAck ==
  /\ CtrlAt("tail") /\ op = "write"
  /\ \E ok \in BOOLEAN :
       /\ Receive({"txAck"}, ok) /\ ack' = TRUE
       /\ CtrlGoto(IF ok THEN "low2" ELSE "clear")
  /\ UNCHANGED <<got, speedVars>>

\* The byte is an ACK only when the Agent's transfer of it took place.
ReceiveAck ==
  /\ CtrlAt("tail") /\ op = "write"
  /\ \E ok \in BOOLEAN :
       /\ Receive({"txAck"}, ok) /\ ack' = ok
       /\ CtrlGoto(IF ok THEN "low2" ELSE "clear")
  /\ UNCHANGED <<got, speedVars>>

\* A length of zero, or none at all, ends the read.
ReceiveLength ==
  /\ CtrlAt("body") /\ op # "write"
  /\ \E ok \in BOOLEAN :
       /\ Receive({"txLen", "txPrevLen"}, ok)
       /\ CtrlGoto(IF ok /\ (IF hal = "txLen" THEN txBuf ELSE prevBuf) # NoBuf
                     THEN "high2" ELSE "clear")
  /\ UNCHANGED <<ack, got, speedVars>>

ReceivePacket ==
  /\ CtrlAt("tail") /\ op # "write"
  /\ \E ok \in BOOLEAN :
       /\ Receive({"txPacket", "txPrevPacket"}, ok)
       /\ got' = IF ~ok THEN NoBuf ELSE IF hal = "txPacket" THEN txBuf ELSE prevBuf
       /\ CtrlGoto(IF ok THEN "low2" ELSE "clear")
  /\ UNCHANGED <<ack, speedVars>>

\* exit: the latched rising edge is discarded ...
ClearEdge ==
  /\ CtrlAt("clear")
  /\ cpc' = "release" /\ edge' = FALSE
  /\ UNCHANGED <<hdr, rxData, spiIrq, wakeVars, wake, rdy, irqOn, notified, op,
                 owner, tries, ack, got, unread, speedVars, faults>>

\* ... the interrupt enabled, WAKE lowered and the mutex released.  The call
\* ends with a success or its third attempt.
Release ==
  /\ CtrlAt("release")
  /\ cpc' = "free" /\ irqOn' = TRUE /\ wake' = FALSE /\ wakeFall' = TRUE
  /\ tries' = [tries EXCEPT ![owner] =
                 IF ack \/ got # NoBuf \/ @ = Retries THEN 0 ELSE @ + 1]
  /\ unread' = IF got = unread THEN NoBuf ELSE unread
  /\ UNCHANGED <<hdr, rxData, spiIrq, wakeRise, rdy, edge, notified, op, owner,
                 ack, got, speedVars, faults>>

-----------------------------------------------------------------------------
SpiHandlers ==
  \/ HeaderReceived \/ PacketReceived \/ AckSent \/ PacketSent
  \/ PacketResent \/ LengthSent \/ UnexpectedTransfer \/ SpiError

RxTaskStep == RxWake \/ RxNothing \/ RxCopy \/ RxNoMemory \/ RxAck \/ RxCallbackReturns

Transaction ==
  \/ WaitRdy("high1", TRUE, "header") \/ SendHeader
  \/ WaitRdy("low1", FALSE, "body") \/ SendPacket \/ ReceiveLength
  \/ WaitRdy("high2", TRUE, "tail") \/ ReceiveAck \/ ReceivePacket
  \/ WaitRdy("low2", FALSE, "clear") \/ ClearEdge \/ Release

Next ==
  \/ WakeHandler \/ SpiHandlers \/ RxTaskStep
  \/ \E b \in Bufs : TxBuffer(b)
  \/ TxComplete
  \/ \E mode \in SleepModes : SetDeepSleepMode(mode)
  \/ AppCall \/ RxCall \/ ControllerIrq
  \/ \E task \in {"app", "rx"} : Lock(task)
  \/ Transaction

Spec == Init /\ [][Next]_vars
-----------------------------------------------------------------------------
TypeOK ==
  /\ state \in AgentStates \cup {"ASSERT"}
  /\ hal \in RxOps \cup TxOps \cup {"none"}
  /\ spiIrq \in {"none", "done", "error"}
  /\ hdr \in {"write", "read", "reread"} /\ rxData \in {"stale", "fresh"}
  /\ rxPc \in {"wait", "check", "ack", "callback"} /\ rxNotified \in BOOLEAN
  /\ {txBuf, prevBuf, pendingRelease, got, unread} \subseteq Bufs \cup {NoBuf}
  /\ {sending, txSem, wakeIrq, veto, wakeRise, wakeFall, wake, rdy, edge,
      irqOn, notified, ack, passedOn, modeSet} \subseteq BOOLEAN
  /\ sleepMode \in {"DISABLED", "ONE_SHOT", "HARDWARE"}
  /\ cpc \in {"free", "high1", "header", "low1", "body", "high2", "tail",
              "low2", "clear", "release"}
  /\ op \in {"write", "read", "reread"} /\ owner \in {"app", "rx"}
  /\ tries \in [{"app", "rx"} -> 0..Retries]
  /\ faults \in 0..MaxFaults /\ overtakes \in 0..MaxOvertakes /\ overtaken \in BOOLEAN

\* No MMOSAL_ASSERT of the Agent's handlers fires.
NoAgentAssert == state # "ASSERT"

\* A buffer is in one place at a time, so it is released once.
BuffersApart ==
  LET places == <<txBuf, prevBuf, pendingRelease>> IN
  \A i, j \in 1..3 : i # j /\ places[i] = places[j] => places[i] = NoBuf

\* An acknowledged packet was passed to the Agent's upper layer in this call.
\* An overtaken transaction may be answered by what the one before left set up;
\* the first transaction that finds the Agent at rest tells the truth again,
\* though a notification of the rx task may have been left behind.
AckMeansPassedOn ==
  ack /\ owner = "app" /\ cpc # "free" => passedOn \/ overtaken

\* What the rx task copies is a complete packet that was not copied before: the
\* notifications that AckSent and SpiError leave behind are used up before the
\* header of a transaction that finds the Agent at rest.
CopiesWholePackets ==
  [][rxPc = "check" /\ rxPc' = "ack" => rxData = "fresh" \/ overtaken]_vars

\* The same with no exception, as mmagic_datalink_agent.h:75 says of the packet
\* given to the callback: violated when the rx task is late by a transaction.
CallbackGetsPacket ==
  [][rxPc = "check" /\ rxPc' = "ack" => rxData = "fresh"]_vars

\* A packet the Agent took as sent is not given up before it was received, for
\* as long as no transaction has been overtaken: from then on a packet is lost
\* when the Agent answers a read the Controller has given up.
NoPacketLost ==
  [][unread' # unread /\ unread # NoBuf => unread' = NoBuf \/ overtakes > 0]_vars

\* The Agent may not enter deep sleep in the middle of a transaction, unless a
\* command has changed the mode since the Controller woke the Agent, or the
\* edges of WAKE of two transactions were pending at once; the next transaction
\* that finds the Agent at rest is safe again.
AwakeInTransaction ==
  Running /\ state # "IDLE" => veto \/ modeSet \/ overtaken
=============================================================================
