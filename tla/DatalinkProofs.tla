--------------------------- MODULE DatalinkProofs ---------------------------
(***************************************************************************)
(* Theorems about the two M2M data links.                                  *)
(*                                                                         *)
(* SPI, for every number of buffers and of faults and any relative speed *)
(* of the two sides: the Agent's buffers are apart, and three properties   *)
(* of a transaction that was not overtaken.  One more, of the reads until  *)
(* the first transaction is overtaken, for at most one fault.              *)
(*                                                                         *)
(* UART, for every ring, payload, noise, overflow, sleep and failing       *)
(* allocation: the ring buffer implements ByteFifo, and SLIP hands on      *)
(* every frame that kept its bytes, whole and once.                        *)
(***************************************************************************)
EXTENDS DatalinkSpi, DatalinkUart,
        SequenceTheorems, WellFoundedInduction, FiniteSetTheorems, TLAPS

\* Each of the Agent's three references is a buffer or NULL.
BufferType == {txBuf, prevBuf, pendingRelease} \subseteq Bufs \cup {NoBuf}

\* No buffer the Agent sends is ever in two of tx_buf, prev_tx_buf and
\* pending_release_tx_buf, so mmagic_datalink_agent_tx_buffer releases each
\* once, with the Controller retrying at any moment.
THEOREM SpiBuffersApart == Spec => []BuffersApart
<1>1. Init => BufferType /\ BuffersApart
  BY DEF Init, BufferType, BuffersApart
<1>2. BufferType /\ BuffersApart /\ [Next]_vars => BufferType' /\ BuffersApart'
  <2> SUFFICES ASSUME BufferType, BuffersApart, [Next]_vars
               PROVE  BufferType' /\ BuffersApart'
    OBVIOUS
  <2> DEFINE Same == UNCHANGED <<txBuf, prevBuf, pendingRelease>>
  <2>1. CASE Same
    BY <2>1 DEF BufferType, BuffersApart
  <2>2. ASSUME NEW b \in Bufs, TxBuffer(b)
        PROVE  BufferType' /\ BuffersApart'
    BY <2>2 DEF TxBuffer, BufferType, BuffersApart
  <2>3. CASE PacketSent /\ ~Same
    BY <2>3 DEF PacketSent, NoSend, BufferType, BuffersApart
  <2>4. CASE SpiHandlers
    <3>1. PacketSent \/ Same
      BY <2>4 DEF SpiHandlers, HeaderReceived, PacketReceived, AckSent,
                  PacketResent, LengthSent, UnexpectedTransfer, SpiError, NoSend
    <3> QED BY <3>1, <2>1, <2>3
  <2>5. CASE RxTaskStep
    <3>1. Same
      BY <2>5 DEF RxTaskStep, RxWake, RxNothing, RxCopy, RxNoMemory, RxAck,
                  RxCallbackReturns, RxTask, sendVars
    <3> QED BY <3>1, <2>1
  <2>6. CASE Transaction
    <3>1. Same
      BY <2>6 DEF Transaction, WaitRdy, SendHeader, SendPacket, ReceiveLength,
                  ReceiveAck, ReceivePacket, ClearEdge, Release, CtrlAt, sendVars
    <3> QED BY <3>1, <2>1
  <2>7. CASE \/ WakeHandler \/ TxComplete \/ AppCall \/ RxCall \/ ControllerIrq
             \/ UNCHANGED vars
             \/ \E mode \in SleepModes : SetDeepSleepMode(mode)
             \/ \E task \in {"app", "rx"} : Lock(task)
    <3>1. Same
      BY <2>7 DEF WakeHandler, TxComplete, AppCall, RxCall, ControllerIrq, vars,
                  SetDeepSleepMode, Lock, CtrlAt, sendVars
    <3> QED BY <3>1, <2>1
  <2> QED BY <2>2, <2>4, <2>5, <2>6, <2>7 DEF Next
<1> QED BY <1>1, <1>2, PTL DEF Spec

-----------------------------------------------------------------------------
\* What the next theorems assume: no command switches the WAKE interrupt off.
WakeServed == "DISABLED" \notin SleepModes

\* The values of the variables, in three parts.
AgentTypes ==
  /\ state \in AgentStates \cup {"ASSERT"} /\ hal \in RxOps \cup TxOps \cup {"none"}
  /\ spiIrq \in {"none", "done", "error"} /\ hdr \in {"write", "read", "reread"}
  /\ rxPc \in {"wait", "check", "ack", "callback"}

LineTypes ==
  /\ rxNotified \in BOOLEAN /\ wakeRise \in BOOLEAN /\ wakeFall \in BOOLEAN /\ veto \in BOOLEAN
  /\ modeSet \in BOOLEAN /\ rdy \in BOOLEAN /\ ack \in BOOLEAN /\ passedOn \in BOOLEAN
  /\ overtaken \in BOOLEAN /\ overtakes \in Nat

CallTypes ==
  /\ owner \in {"app", "rx"} /\ op \in {"write", "read", "reread"}
  /\ (op = "write") <=> (owner = "app")
  /\ tries \in [{"app", "rx"} -> Nat] /\ (cpc # "free" => tries[owner] > 0)

\* No task of the Agent has anything to do.
Quiet == rxPc = "wait" /\ ~rxNotified

\* The Agent has taken the header and set up what the transaction goes on with.
Answered ==
  /\ spiIrq = "none" /\ ~rdy
  /\ \/ op = "write" /\ state = "C2A_PAYLOAD" /\ hal = "rxPacket"
     \/ op = "read" /\ state = "READ_LEN" /\ hal = "txLen"
     \/ op = "reread" /\ state = "REREAD_LEN" /\ hal = "txPrevLen"

\* Up to the payload the Controller works alone, apart from one handler: the
\* one that turns a header into an answer, or rejects it.
InTurn ==
  /\ cpc \in {"high1", "header", "low1", "body"} => Quiet
  /\ cpc \in {"high1", "header"} => state = "IDLE" /\ spiIrq = "none"
  /\ cpc = "header" => rdy
  /\ cpc = "low1" => \/ Answered
                     \/ state = "IDLE" /\ (rdy \/ (hal = "rxHeader" /\ spiIrq = "none"))
  /\ cpc = "body" => \/ Answered
                     \/ state = "IDLE" /\ hal = "rxHeader" /\ spiIrq = "none"
  /\ cpc \in {"high2", "tail"} /\ op = "write" =>
       \/ state = "C2A_PAYLOAD"
       \/ state = "C2A_ACK" /\ spiIrq = "none"
       \/ state = "IDLE" /\ hal = "rxHeader"
  /\ spiIrq = "done" /\ hal = "rxHeader" => state = "IDLE" /\ hdr = op /\ cpc = "low1"
  /\ hal = "none" => spiIrq = "none"

\* The two edges of WAKE enclose a transaction: after the falling one has been
\* handled the Agent is in IDLE, from the rising one on it vetoes deep sleep.
Edges ==
  /\ wakeRise => cpc \in {"high1", "header", "low1"} /\ state = "IDLE"
  /\ wakeRise /\ cpc = "low1" => rdy
  /\ wakeFall => cpc = "free"
  /\ cpc = "free" /\ ~wakeFall => state = "IDLE"
  /\ (IF cpc = "free" THEN wakeFall ELSE ~wakeRise) => veto \/ modeSet

\* rx_packet_buf is complete from the end of the transfer of a packet until the
\* rx task has copied it, and RDY stays low until the ACK is set up.
Payload ==
  /\ state = "C2A_PAYLOAD" =>
       /\ owner = "app" /\ cpc \in {"low1", "body", "high2"} /\ ~rdy
       /\ \/ /\ hal = "rxPacket" /\ Quiet
             /\ (cpc = "high2") <=> (spiIrq # "none")
             /\ spiIrq = "done" => rxData = "fresh"
          \/ /\ hal = "none" /\ spiIrq = "none" /\ cpc = "high2"
             /\ \/ rxPc = "ack" /\ ~rxNotified
                \/ rxPc = "check" /\ ~rxNotified /\ rxData = "fresh"
                \/ rxPc = "wait" /\ rxNotified /\ rxData = "fresh"
  /\ rxPc = "ack" => state = "C2A_PAYLOAD"
  /\ spiIrq = "done" /\ hal = "rxPacket" => state = "C2A_PAYLOAD"

\* The ACK is set up after the packet went to the upper layer.
Ack ==
  state = "C2A_ACK" =>
    /\ hal = "txAck" /\ ~rxNotified /\ rxPc \in {"wait", "callback"}
    /\ cpc # "free" => owner = "app" /\ passedOn

\* The inductive invariant.  After a transaction that was overtaken, or a failed
\* assertion, nothing of it is needed before the Agent is found at rest again.
SpiInv ==
  /\ AgentTypes /\ LineTypes /\ CallTypes /\ AckMeansPassedOn /\ AwakeInTransaction
  /\ wakeIrq
  /\ Running /\ ~overtaken => InTurn /\ Edges /\ Payload /\ Ack
  /\ ~Running => overtaken \/ hal = "none"

-----------------------------------------------------------------------------
\* An overtaken transaction is marked and counted.
LEMMA OvertakeCounts ==
  overtakes \in Nat /\ Overtake => overtakes' \in Nat /\ overtakes' # 0 /\ overtaken' = TRUE
BY DEF Overtake

\* The edges of the WAKE line frame the transactions of the Controller.
LEMMA WakeHandlerKeeps ==
  ASSUME WakeServed, SpiInv,
         WakeHandler
  PROVE  SpiInv'
<1> USE DEF SpiInv, AgentTypes, LineTypes, CallTypes, Quiet, Answered, InTurn, Edges, Payload, Ack,
         AckMeansPassedOn, AwakeInTransaction, Running, AgentStates, RxOps, TxOps, agentVars,
         sendVars, sleepVars, wakeVars, ctrlVars, ghostVars, speedVars,
         WakeServed, WakePending, Arm, UpdateState, Legal
<1>1. CASE WakeHandler
  <2> USE <1>1 DEF WakeHandler
  <2>1. AgentTypes'
    OBVIOUS
  <2>2. LineTypes'
    OBVIOUS
  <2>3. CallTypes'
    OBVIOUS
  <2>4. (AckMeansPassedOn /\ AwakeInTransaction)'
    OBVIOUS
  <2>5. wakeIrq'
    OBVIOUS
  <2>6. (Running /\ ~overtaken => InTurn)'
    OBVIOUS
  <2>7. (Running /\ ~overtaken => Edges)'
    OBVIOUS
  <2>8. (Running /\ ~overtaken => Payload)'
    OBVIOUS
  <2>9. (Running /\ ~overtaken => Ack)'
    OBVIOUS
  <2>10. (~Running => overtaken \/ hal = "none")'
    OBVIOUS
  <2> QED BY <2>1, <2>2, <2>3, <2>4, <2>5, <2>6, <2>7, <2>8, <2>9, <2>10
<1> QED BY <1>1

\* The completion of a transfer: the state and the next transfer go together.
LEMMA HandlersKeep ==
  ASSUME WakeServed, SpiInv,
         SpiHandlers
  PROVE  SpiInv'
<1> USE DEF SpiInv, AgentTypes, LineTypes, CallTypes, Quiet, Answered, InTurn, Edges, Payload, Ack,
         AckMeansPassedOn, AwakeInTransaction, Running, AgentStates, RxOps, TxOps, agentVars,
         sendVars, sleepVars, wakeVars, ctrlVars, ghostVars, speedVars,
         WakeServed, SpiIsr, WakePending, NoSend, Arm, SetRdy, ConfigureRxIdle, UpdateState, Legal
<1>1. CASE HeaderReceived
  <2> USE <1>1 DEF HeaderReceived
  <2>1. AgentTypes'
    OBVIOUS
  <2>2. LineTypes'
    OBVIOUS
  <2>3. CallTypes'
    OBVIOUS
  <2>4. (AckMeansPassedOn /\ AwakeInTransaction)'
    OBVIOUS
  <2>5. wakeIrq'
    OBVIOUS
  <2>6. (Running /\ ~overtaken => InTurn)'
    OBVIOUS
  <2>7. (Running /\ ~overtaken => Edges)'
    OBVIOUS
  <2>8. (Running /\ ~overtaken => Payload)'
    OBVIOUS
  <2>9. (Running /\ ~overtaken => Ack)'
    OBVIOUS
  <2>10. (~Running => overtaken \/ hal = "none")'
    OBVIOUS
  <2> QED BY <2>1, <2>2, <2>3, <2>4, <2>5, <2>6, <2>7, <2>8, <2>9, <2>10
<1>2. CASE PacketReceived
  <2> USE <1>2 DEF PacketReceived
  <2>1. AgentTypes'
    OBVIOUS
  <2>2. LineTypes'
    OBVIOUS
  <2>3. CallTypes'
    OBVIOUS
  <2>4. (AckMeansPassedOn /\ AwakeInTransaction)'
    OBVIOUS
  <2>5. wakeIrq'
    OBVIOUS
  <2>6. (Running /\ ~overtaken => InTurn)'
    OBVIOUS
  <2>7. (Running /\ ~overtaken => Edges)'
    OBVIOUS
  <2>8. (Running /\ ~overtaken => Payload)'
    OBVIOUS
  <2>9. (Running /\ ~overtaken => Ack)'
    OBVIOUS
  <2>10. (~Running => overtaken \/ hal = "none")'
    OBVIOUS
  <2> QED BY <2>1, <2>2, <2>3, <2>4, <2>5, <2>6, <2>7, <2>8, <2>9, <2>10
<1>3. CASE AckSent
  <2> USE <1>3 DEF AckSent
  <2>1. AgentTypes'
    OBVIOUS
  <2>2. LineTypes'
    OBVIOUS
  <2>3. CallTypes'
    OBVIOUS
  <2>4. (AckMeansPassedOn /\ AwakeInTransaction)'
    OBVIOUS
  <2>5. wakeIrq'
    OBVIOUS
  <2>6. (Running /\ ~overtaken => InTurn)'
    OBVIOUS
  <2>7. (Running /\ ~overtaken => Edges)'
    OBVIOUS
  <2>8. (Running /\ ~overtaken => Payload)'
    OBVIOUS
  <2>9. (Running /\ ~overtaken => Ack)'
    OBVIOUS
  <2>10. (~Running => overtaken \/ hal = "none")'
    OBVIOUS
  <2> QED BY <2>1, <2>2, <2>3, <2>4, <2>5, <2>6, <2>7, <2>8, <2>9, <2>10
<1>4. CASE PacketSent
  <2> USE <1>4 DEF PacketSent
  <2>1. AgentTypes'
    OBVIOUS
  <2>2. LineTypes'
    OBVIOUS
  <2>3. CallTypes'
    OBVIOUS
  <2>4. (AckMeansPassedOn /\ AwakeInTransaction)'
    OBVIOUS
  <2>5. wakeIrq'
    OBVIOUS
  <2>6. (Running /\ ~overtaken => InTurn)'
    OBVIOUS
  <2>7. (Running /\ ~overtaken => Edges)'
    OBVIOUS
  <2>8. (Running /\ ~overtaken => Payload)'
    OBVIOUS
  <2>9. (Running /\ ~overtaken => Ack)'
    OBVIOUS
  <2>10. (~Running => overtaken \/ hal = "none")'
    OBVIOUS
  <2> QED BY <2>1, <2>2, <2>3, <2>4, <2>5, <2>6, <2>7, <2>8, <2>9, <2>10
<1>5. CASE PacketResent
  <2> USE <1>5 DEF PacketResent
  <2>1. AgentTypes'
    OBVIOUS
  <2>2. LineTypes'
    OBVIOUS
  <2>3. CallTypes'
    OBVIOUS
  <2>4. (AckMeansPassedOn /\ AwakeInTransaction)'
    OBVIOUS
  <2>5. wakeIrq'
    OBVIOUS
  <2>6. (Running /\ ~overtaken => InTurn)'
    OBVIOUS
  <2>7. (Running /\ ~overtaken => Edges)'
    OBVIOUS
  <2>8. (Running /\ ~overtaken => Payload)'
    OBVIOUS
  <2>9. (Running /\ ~overtaken => Ack)'
    OBVIOUS
  <2>10. (~Running => overtaken \/ hal = "none")'
    OBVIOUS
  <2> QED BY <2>1, <2>2, <2>3, <2>4, <2>5, <2>6, <2>7, <2>8, <2>9, <2>10
<1>6. CASE LengthSent
  <2> USE <1>6 DEF LengthSent
  <2>1. AgentTypes'
    OBVIOUS
  <2>2. LineTypes'
    OBVIOUS
  <2>3. CallTypes'
    OBVIOUS
  <2>4. (AckMeansPassedOn /\ AwakeInTransaction)'
    OBVIOUS
  <2>5. wakeIrq'
    OBVIOUS
  <2>6. (Running /\ ~overtaken => InTurn)'
    OBVIOUS
  <2>7. (Running /\ ~overtaken => Edges)'
    OBVIOUS
  <2>8. (Running /\ ~overtaken => Payload)'
    OBVIOUS
  <2>9. (Running /\ ~overtaken => Ack)'
    OBVIOUS
  <2>10. (~Running => overtaken \/ hal = "none")'
    OBVIOUS
  <2> QED BY <2>1, <2>2, <2>3, <2>4, <2>5, <2>6, <2>7, <2>8, <2>9, <2>10
<1>7. CASE UnexpectedTransfer
  <2> USE <1>7 DEF UnexpectedTransfer
  <2>1. AgentTypes'
    OBVIOUS
  <2>2. LineTypes'
    OBVIOUS
  <2>3. CallTypes'
    OBVIOUS
  <2>4. (AckMeansPassedOn /\ AwakeInTransaction)'
    OBVIOUS
  <2>5. wakeIrq'
    OBVIOUS
  <2>6. (Running /\ ~overtaken => InTurn)'
    OBVIOUS
  <2>7. (Running /\ ~overtaken => Edges)'
    OBVIOUS
  <2>8. (Running /\ ~overtaken => Payload)'
    OBVIOUS
  <2>9. (Running /\ ~overtaken => Ack)'
    OBVIOUS
  <2>10. (~Running => overtaken \/ hal = "none")'
    OBVIOUS
  <2> QED BY <2>1, <2>2, <2>3, <2>4, <2>5, <2>6, <2>7, <2>8, <2>9, <2>10
<1>8. CASE SpiError
  <2> USE <1>8 DEF SpiError
  <2>1. AgentTypes'
    OBVIOUS
  <2>2. LineTypes'
    OBVIOUS
  <2>3. CallTypes'
    OBVIOUS
  <2>4. (AckMeansPassedOn /\ AwakeInTransaction)'
    OBVIOUS
  <2>5. wakeIrq'
    OBVIOUS
  <2>6. (Running /\ ~overtaken => InTurn)'
    OBVIOUS
  <2>7. (Running /\ ~overtaken => Edges)'
    OBVIOUS
  <2>8. (Running /\ ~overtaken => Payload)'
    OBVIOUS
  <2>9. (Running /\ ~overtaken => Ack)'
    OBVIOUS
  <2>10. (~Running => overtaken \/ hal = "none")'
    OBVIOUS
  <2> QED BY <2>1, <2>2, <2>3, <2>4, <2>5, <2>6, <2>7, <2>8, <2>9, <2>10
<1> QED BY <1>1, <1>2, <1>3, <1>4, <1>5, <1>6, <1>7, <1>8 DEF SpiHandlers

\* The rx task works on a packet while the Controller waits for the ACK.
LEMMA RxTaskKeeps ==
  ASSUME WakeServed, SpiInv,
         RxTaskStep
  PROVE  SpiInv'
<1> USE DEF SpiInv, AgentTypes, LineTypes, CallTypes, Quiet, Answered, InTurn, Edges, Payload, Ack,
         AckMeansPassedOn, AwakeInTransaction, Running, AgentStates, RxOps, TxOps, agentVars,
         sendVars, sleepVars, wakeVars, ctrlVars, ghostVars, speedVars,
         WakeServed, RxTask, Arm, SetRdy, ConfigureRxIdle, UpdateState, Legal
<1>1. CASE RxWake
  <2> USE <1>1 DEF RxWake
  <2>1. AgentTypes'
    OBVIOUS
  <2>2. LineTypes'
    OBVIOUS
  <2>3. CallTypes'
    OBVIOUS
  <2>4. (AckMeansPassedOn /\ AwakeInTransaction)'
    OBVIOUS
  <2>5. wakeIrq'
    OBVIOUS
  <2>6. (Running /\ ~overtaken => InTurn)'
    OBVIOUS
  <2>7. (Running /\ ~overtaken => Edges)'
    OBVIOUS
  <2>8. (Running /\ ~overtaken => Payload)'
    OBVIOUS
  <2>9. (Running /\ ~overtaken => Ack)'
    OBVIOUS
  <2>10. (~Running => overtaken \/ hal = "none")'
    OBVIOUS
  <2> QED BY <2>1, <2>2, <2>3, <2>4, <2>5, <2>6, <2>7, <2>8, <2>9, <2>10
<1>2. CASE RxNothing
  <2> USE <1>2 DEF RxNothing
  <2>1. AgentTypes'
    OBVIOUS
  <2>2. LineTypes'
    OBVIOUS
  <2>3. CallTypes'
    OBVIOUS
  <2>4. (AckMeansPassedOn /\ AwakeInTransaction)'
    OBVIOUS
  <2>5. wakeIrq'
    OBVIOUS
  <2>6. (Running /\ ~overtaken => InTurn)'
    OBVIOUS
  <2>7. (Running /\ ~overtaken => Edges)'
    OBVIOUS
  <2>8. (Running /\ ~overtaken => Payload)'
    OBVIOUS
  <2>9. (Running /\ ~overtaken => Ack)'
    OBVIOUS
  <2>10. (~Running => overtaken \/ hal = "none")'
    OBVIOUS
  <2> QED BY <2>1, <2>2, <2>3, <2>4, <2>5, <2>6, <2>7, <2>8, <2>9, <2>10
<1>3. CASE RxCopy
  <2> USE <1>3 DEF RxCopy
  <2>1. AgentTypes'
    OBVIOUS
  <2>2. LineTypes'
    OBVIOUS
  <2>3. CallTypes'
    OBVIOUS
  <2>4. (AckMeansPassedOn /\ AwakeInTransaction)'
    OBVIOUS
  <2>5. wakeIrq'
    OBVIOUS
  <2>6. (Running /\ ~overtaken => InTurn)'
    OBVIOUS
  <2>7. (Running /\ ~overtaken => Edges)'
    OBVIOUS
  <2>8. (Running /\ ~overtaken => Payload)'
    OBVIOUS
  <2>9. (Running /\ ~overtaken => Ack)'
    OBVIOUS
  <2>10. (~Running => overtaken \/ hal = "none")'
    OBVIOUS
  <2> QED BY <2>1, <2>2, <2>3, <2>4, <2>5, <2>6, <2>7, <2>8, <2>9, <2>10
<1>4. CASE RxNoMemory
  <2> USE <1>4 DEF RxNoMemory
  <2>1. AgentTypes'
    OBVIOUS
  <2>2. LineTypes'
    OBVIOUS
  <2>3. CallTypes'
    OBVIOUS
  <2>4. (AckMeansPassedOn /\ AwakeInTransaction)'
    OBVIOUS
  <2>5. wakeIrq'
    OBVIOUS
  <2>6. (Running /\ ~overtaken => InTurn)'
    OBVIOUS
  <2>7. (Running /\ ~overtaken => Edges)'
    OBVIOUS
  <2>8. (Running /\ ~overtaken => Payload)'
    OBVIOUS
  <2>9. (Running /\ ~overtaken => Ack)'
    OBVIOUS
  <2>10. (~Running => overtaken \/ hal = "none")'
    OBVIOUS
  <2> QED BY <2>1, <2>2, <2>3, <2>4, <2>5, <2>6, <2>7, <2>8, <2>9, <2>10
<1>5. CASE RxAck
  <2> USE <1>5 DEF RxAck
  <2>1. AgentTypes'
    OBVIOUS
  <2>2. LineTypes'
    OBVIOUS
  <2>3. CallTypes'
    OBVIOUS
  <2>4. (AckMeansPassedOn /\ AwakeInTransaction)'
    OBVIOUS
  <2>5. wakeIrq'
    OBVIOUS
  <2>6. (Running /\ ~overtaken => InTurn)'
    OBVIOUS
  <2>7. (Running /\ ~overtaken => Edges)'
    OBVIOUS
  <2>8. (Running /\ ~overtaken => Payload)'
    OBVIOUS
  <2>9. (Running /\ ~overtaken => Ack)'
    OBVIOUS
  <2>10. (~Running => overtaken \/ hal = "none")'
    OBVIOUS
  <2> QED BY <2>1, <2>2, <2>3, <2>4, <2>5, <2>6, <2>7, <2>8, <2>9, <2>10
<1>6. CASE RxCallbackReturns
  <2> USE <1>6 DEF RxCallbackReturns
  <2>1. AgentTypes'
    OBVIOUS
  <2>2. LineTypes'
    OBVIOUS
  <2>3. CallTypes'
    OBVIOUS
  <2>4. (AckMeansPassedOn /\ AwakeInTransaction)'
    OBVIOUS
  <2>5. wakeIrq'
    OBVIOUS
  <2>6. (Running /\ ~overtaken => InTurn)'
    OBVIOUS
  <2>7. (Running /\ ~overtaken => Edges)'
    OBVIOUS
  <2>8. (Running /\ ~overtaken => Payload)'
    OBVIOUS
  <2>9. (Running /\ ~overtaken => Ack)'
    OBVIOUS
  <2>10. (~Running => overtaken \/ hal = "none")'
    OBVIOUS
  <2> QED BY <2>1, <2>2, <2>3, <2>4, <2>5, <2>6, <2>7, <2>8, <2>9, <2>10
<1> QED BY <1>1, <1>2, <1>3, <1>4, <1>5, <1>6 DEF RxTaskStep

\* The sender and the sleep mode are not part of a transaction.
LEMMA SenderKeeps ==
  ASSUME WakeServed, SpiInv,
         \/ \E b \in Bufs : TxBuffer(b)
         \/ TxComplete
         \/ \E mode \in SleepModes : SetDeepSleepMode(mode)
  PROVE  SpiInv'
<1> USE DEF SpiInv, AgentTypes, LineTypes, CallTypes, Quiet, Answered, InTurn, Edges, Payload, Ack,
         AckMeansPassedOn, AwakeInTransaction, Running, AgentStates, RxOps, TxOps, agentVars,
         sendVars, sleepVars, wakeVars, ctrlVars, ghostVars, speedVars,
         WakeServed
<1>1. ASSUME NEW b \in Bufs, TxBuffer(b) PROVE SpiInv'
  <2> USE <1>1 DEF TxBuffer, SetRdy
  <2>1. AgentTypes'
    OBVIOUS
  <2>2. LineTypes'
    OBVIOUS
  <2>3. CallTypes'
    OBVIOUS
  <2>4. (AckMeansPassedOn /\ AwakeInTransaction)'
    OBVIOUS
  <2>5. wakeIrq'
    OBVIOUS
  <2>6. (Running /\ ~overtaken => InTurn)'
    OBVIOUS
  <2>7. (Running /\ ~overtaken => Edges)'
    OBVIOUS
  <2>8. (Running /\ ~overtaken => Payload)'
    OBVIOUS
  <2>9. (Running /\ ~overtaken => Ack)'
    OBVIOUS
  <2>10. (~Running => overtaken \/ hal = "none")'
    OBVIOUS
  <2> QED BY <2>1, <2>2, <2>3, <2>4, <2>5, <2>6, <2>7, <2>8, <2>9, <2>10
<1>2. CASE TxComplete
  <2> USE <1>2 DEF TxComplete
  <2>1. AgentTypes'
    OBVIOUS
  <2>2. LineTypes'
    OBVIOUS
  <2>3. CallTypes'
    OBVIOUS
  <2>4. (AckMeansPassedOn /\ AwakeInTransaction)'
    OBVIOUS
  <2>5. wakeIrq'
    OBVIOUS
  <2>6. (Running /\ ~overtaken => InTurn)'
    OBVIOUS
  <2>7. (Running /\ ~overtaken => Edges)'
    OBVIOUS
  <2>8. (Running /\ ~overtaken => Payload)'
    OBVIOUS
  <2>9. (Running /\ ~overtaken => Ack)'
    OBVIOUS
  <2>10. (~Running => overtaken \/ hal = "none")'
    OBVIOUS
  <2> QED BY <2>1, <2>2, <2>3, <2>4, <2>5, <2>6, <2>7, <2>8, <2>9, <2>10
<1>3. ASSUME NEW mode \in SleepModes, SetDeepSleepMode(mode) PROVE SpiInv'
  <2> USE <1>3 DEF SetDeepSleepMode
  <2>1. AgentTypes'
    OBVIOUS
  <2>2. LineTypes'
    OBVIOUS
  <2>3. CallTypes'
    OBVIOUS
  <2>4. (AckMeansPassedOn /\ AwakeInTransaction)'
    OBVIOUS
  <2>5. wakeIrq'
    OBVIOUS
  <2>6. (Running /\ ~overtaken => InTurn)'
    OBVIOUS
  <2>7. (Running /\ ~overtaken => Edges)'
    OBVIOUS
  <2>8. (Running /\ ~overtaken => Payload)'
    OBVIOUS
  <2>9. (Running /\ ~overtaken => Ack)'
    OBVIOUS
  <2>10. (~Running => overtaken \/ hal = "none")'
    OBVIOUS
  <2> QED BY <2>1, <2>2, <2>3, <2>4, <2>5, <2>6, <2>7, <2>8, <2>9, <2>10
<1> QED BY <1>1, <1>2, <1>3

\* Calls of the Controller, and the start of a transaction.
LEMMA CallsKeep ==
  ASSUME WakeServed, SpiInv,
         \/ AppCall \/ RxCall \/ ControllerIrq
         \/ \E task \in {"app", "rx"} : Lock(task)
  PROVE  SpiInv'
<1> USE DEF SpiInv, AgentTypes, LineTypes, CallTypes, Quiet, Answered, InTurn, Edges, Payload, Ack,
         AckMeansPassedOn, AwakeInTransaction, Running, AgentStates, RxOps, TxOps, agentVars,
         sendVars, sleepVars, wakeVars, ctrlVars, ghostVars, speedVars,
         WakeServed
<1>1. CASE AppCall
  <2> USE <1>1 DEF AppCall
  <2>1. AgentTypes'
    OBVIOUS
  <2>2. LineTypes'
    OBVIOUS
  <2>3. CallTypes'
    OBVIOUS
  <2>4. (AckMeansPassedOn /\ AwakeInTransaction)'
    OBVIOUS
  <2>5. wakeIrq'
    OBVIOUS
  <2>6. (Running /\ ~overtaken => InTurn)'
    OBVIOUS
  <2>7. (Running /\ ~overtaken => Edges)'
    OBVIOUS
  <2>8. (Running /\ ~overtaken => Payload)'
    OBVIOUS
  <2>9. (Running /\ ~overtaken => Ack)'
    OBVIOUS
  <2>10. (~Running => overtaken \/ hal = "none")'
    OBVIOUS
  <2> QED BY <2>1, <2>2, <2>3, <2>4, <2>5, <2>6, <2>7, <2>8, <2>9, <2>10
<1>2. CASE RxCall
  <2> USE <1>2 DEF RxCall
  <2>1. AgentTypes'
    OBVIOUS
  <2>2. LineTypes'
    OBVIOUS
  <2>3. CallTypes'
    OBVIOUS
  <2>4. (AckMeansPassedOn /\ AwakeInTransaction)'
    OBVIOUS
  <2>5. wakeIrq'
    OBVIOUS
  <2>6. (Running /\ ~overtaken => InTurn)'
    OBVIOUS
  <2>7. (Running /\ ~overtaken => Edges)'
    OBVIOUS
  <2>8. (Running /\ ~overtaken => Payload)'
    OBVIOUS
  <2>9. (Running /\ ~overtaken => Ack)'
    OBVIOUS
  <2>10. (~Running => overtaken \/ hal = "none")'
    OBVIOUS
  <2> QED BY <2>1, <2>2, <2>3, <2>4, <2>5, <2>6, <2>7, <2>8, <2>9, <2>10
<1>3. CASE ControllerIrq
  <2> USE <1>3 DEF ControllerIrq
  <2>1. AgentTypes'
    OBVIOUS
  <2>2. LineTypes'
    OBVIOUS
  <2>3. CallTypes'
    OBVIOUS
  <2>4. (AckMeansPassedOn /\ AwakeInTransaction)'
    OBVIOUS
  <2>5. wakeIrq'
    OBVIOUS
  <2>6. (Running /\ ~overtaken => InTurn)'
    OBVIOUS
  <2>7. (Running /\ ~overtaken => Edges)'
    OBVIOUS
  <2>8. (Running /\ ~overtaken => Payload)'
    OBVIOUS
  <2>9. (Running /\ ~overtaken => Ack)'
    OBVIOUS
  <2>10. (~Running => overtaken \/ hal = "none")'
    OBVIOUS
  <2> QED BY <2>1, <2>2, <2>3, <2>4, <2>5, <2>6, <2>7, <2>8, <2>9, <2>10
<1>4. ASSUME NEW task \in {"app", "rx"}, Lock(task) PROVE SpiInv'
  <2> USE <1>4, OvertakeCounts DEF Lock, CtrlAt, Begin, AgentDone, AgentSettled, WakePending
  <2>1. AgentTypes'
    OBVIOUS
  <2>2. LineTypes'
    OBVIOUS
  <2>3. CallTypes'
    OBVIOUS
  <2>4. (AckMeansPassedOn /\ AwakeInTransaction)'
    OBVIOUS
  <2>5. wakeIrq'
    OBVIOUS
  <2>6. (Running /\ ~overtaken => InTurn)'
    OBVIOUS
  <2>7. (Running /\ ~overtaken => Edges)'
    OBVIOUS
  <2>8. (Running /\ ~overtaken => Payload)'
    OBVIOUS
  <2>9. (Running /\ ~overtaken => Ack)'
    OBVIOUS
  <2>10. (~Running => overtaken \/ hal = "none")'
    OBVIOUS
  <2> QED BY <2>1, <2>2, <2>3, <2>4, <2>5, <2>6, <2>7, <2>8, <2>9, <2>10
<1> QED BY <1>1, <1>2, <1>3, <1>4

\* The steps of a transaction.
LEMMA TransactionKeeps ==
  ASSUME WakeServed, SpiInv,
         Transaction
  PROVE  SpiInv'
<1> USE DEF SpiInv, AgentTypes, LineTypes, CallTypes, Quiet, Answered, InTurn, Edges, Payload, Ack,
         AckMeansPassedOn, AwakeInTransaction, Running, AgentStates, RxOps, TxOps, agentVars,
         sendVars, sleepVars, wakeVars, ctrlVars, ghostVars, speedVars,
         WakeServed, CtrlAt, CtrlGoto
<1>1. CASE WaitRdy("high1", TRUE, "header")
  <2> USE <1>1, OvertakeCounts DEF WaitRdy, AgentSettled, WakePending
  <2>1. AgentTypes'
    OBVIOUS
  <2>2. LineTypes'
    OBVIOUS
  <2>3. CallTypes'
    OBVIOUS
  <2>4. (AckMeansPassedOn /\ AwakeInTransaction)'
    OBVIOUS
  <2>5. wakeIrq'
    OBVIOUS
  <2>6. (Running /\ ~overtaken => InTurn)'
    OBVIOUS
  <2>7. (Running /\ ~overtaken => Edges)'
    OBVIOUS
  <2>8. (Running /\ ~overtaken => Payload)'
    OBVIOUS
  <2>9. (Running /\ ~overtaken => Ack)'
    OBVIOUS
  <2>10. (~Running => overtaken \/ hal = "none")'
    OBVIOUS
  <2> QED BY <2>1, <2>2, <2>3, <2>4, <2>5, <2>6, <2>7, <2>8, <2>9, <2>10
<1>2. CASE WaitRdy("low1", FALSE, "body")
  <2> USE <1>2, OvertakeCounts DEF WaitRdy, AgentSettled, WakePending
  <2>1. AgentTypes'
    OBVIOUS
  <2>2. LineTypes'
    OBVIOUS
  <2>3. CallTypes'
    OBVIOUS
  <2>4. (AckMeansPassedOn /\ AwakeInTransaction)'
    OBVIOUS
  <2>5. wakeIrq'
    OBVIOUS
  <2>6. (Running /\ ~overtaken => InTurn)'
    <3>1. CASE rdy
      BY <3>1
    <3>2. CASE ~rdy
      BY <3>2
    <3> QED BY <3>1, <3>2
  <2>7. (Running /\ ~overtaken => Edges)'
    OBVIOUS
  <2>8. (Running /\ ~overtaken => Payload)'
    OBVIOUS
  <2>9. (Running /\ ~overtaken => Ack)'
    OBVIOUS
  <2>10. (~Running => overtaken \/ hal = "none")'
    OBVIOUS
  <2> QED BY <2>1, <2>2, <2>3, <2>4, <2>5, <2>6, <2>7, <2>8, <2>9, <2>10
<1>3. CASE WaitRdy("high2", TRUE, "tail")
  <2> USE <1>3, OvertakeCounts DEF WaitRdy, AgentSettled, WakePending
  <2>1. AgentTypes'
    OBVIOUS
  <2>2. LineTypes'
    OBVIOUS
  <2>3. CallTypes'
    OBVIOUS
  <2>4. (AckMeansPassedOn /\ AwakeInTransaction)'
    OBVIOUS
  <2>5. wakeIrq'
    OBVIOUS
  <2>6. (Running /\ ~overtaken => InTurn)'
    <3>1. CASE rdy
      BY <3>1
    <3>2. CASE ~rdy
      BY <3>2
    <3> QED BY <3>1, <3>2
  <2>7. (Running /\ ~overtaken => Edges)'
    OBVIOUS
  <2>8. (Running /\ ~overtaken => Payload)'
    OBVIOUS
  <2>9. (Running /\ ~overtaken => Ack)'
    OBVIOUS
  <2>10. (~Running => overtaken \/ hal = "none")'
    OBVIOUS
  <2> QED BY <2>1, <2>2, <2>3, <2>4, <2>5, <2>6, <2>7, <2>8, <2>9, <2>10
<1>4. CASE WaitRdy("low2", FALSE, "clear")
  <2> USE <1>4, OvertakeCounts DEF WaitRdy, AgentSettled, WakePending
  <2>1. AgentTypes'
    OBVIOUS
  <2>2. LineTypes'
    OBVIOUS
  <2>3. CallTypes'
    OBVIOUS
  <2>4. (AckMeansPassedOn /\ AwakeInTransaction)'
    OBVIOUS
  <2>5. wakeIrq'
    OBVIOUS
  <2>6. (Running /\ ~overtaken => InTurn)'
    OBVIOUS
  <2>7. (Running /\ ~overtaken => Edges)'
    OBVIOUS
  <2>8. (Running /\ ~overtaken => Payload)'
    OBVIOUS
  <2>9. (Running /\ ~overtaken => Ack)'
    OBVIOUS
  <2>10. (~Running => overtaken \/ hal = "none")'
    OBVIOUS
  <2> QED BY <2>1, <2>2, <2>3, <2>4, <2>5, <2>6, <2>7, <2>8, <2>9, <2>10
<1>5. CASE SendHeader
  <2> USE <1>5 DEF SendHeader, Transmit, Expected, Mismatch
  <2>1. AgentTypes'
    OBVIOUS
  <2>2. LineTypes'
    OBVIOUS
  <2>3. CallTypes'
    OBVIOUS
  <2>4. (AckMeansPassedOn /\ AwakeInTransaction)'
    OBVIOUS
  <2>5. wakeIrq'
    OBVIOUS
  <2>6. (Running /\ ~overtaken => InTurn)'
    OBVIOUS
  <2>7. (Running /\ ~overtaken => Edges)'
    OBVIOUS
  <2>8. (Running /\ ~overtaken => Payload)'
    OBVIOUS
  <2>9. (Running /\ ~overtaken => Ack)'
    OBVIOUS
  <2>10. (~Running => overtaken \/ hal = "none")'
    OBVIOUS
  <2> QED BY <2>1, <2>2, <2>3, <2>4, <2>5, <2>6, <2>7, <2>8, <2>9, <2>10
<1>6. CASE SendPacket
  <2> USE <1>6 DEF SendPacket, Transmit, Expected, Mismatch
  <2>1. AgentTypes'
    OBVIOUS
  <2>2. LineTypes'
    OBVIOUS
  <2>3. CallTypes'
    OBVIOUS
  <2>4. (AckMeansPassedOn /\ AwakeInTransaction)'
    OBVIOUS
  <2>5. wakeIrq'
    OBVIOUS
  <2>6. (Running /\ ~overtaken => InTurn)'
    OBVIOUS
  <2>7. (Running /\ ~overtaken => Edges)'
    OBVIOUS
  <2>8. (Running /\ ~overtaken => Payload)'
    OBVIOUS
  <2>9. (Running /\ ~overtaken => Ack)'
    OBVIOUS
  <2>10. (~Running => overtaken \/ hal = "none")'
    OBVIOUS
  <2> QED BY <2>1, <2>2, <2>3, <2>4, <2>5, <2>6, <2>7, <2>8, <2>9, <2>10
<1>7. CASE ReceiveLength
  <2> USE <1>7 DEF ReceiveLength, Receive, Expected, Mismatch
  <2>1. AgentTypes'
    OBVIOUS
  <2>2. LineTypes'
    OBVIOUS
  <2>3. CallTypes'
    OBVIOUS
  <2>4. (AckMeansPassedOn /\ AwakeInTransaction)'
    OBVIOUS
  <2>5. wakeIrq'
    OBVIOUS
  <2>6. (Running /\ ~overtaken => InTurn)'
    OBVIOUS
  <2>7. (Running /\ ~overtaken => Edges)'
    OBVIOUS
  <2>8. (Running /\ ~overtaken => Payload)'
    OBVIOUS
  <2>9. (Running /\ ~overtaken => Ack)'
    OBVIOUS
  <2>10. (~Running => overtaken \/ hal = "none")'
    OBVIOUS
  <2> QED BY <2>1, <2>2, <2>3, <2>4, <2>5, <2>6, <2>7, <2>8, <2>9, <2>10
<1>8. CASE ReceivePacket
  <2> USE <1>8 DEF ReceivePacket, Receive, Expected, Mismatch
  <2>1. AgentTypes'
    OBVIOUS
  <2>2. LineTypes'
    OBVIOUS
  <2>3. CallTypes'
    OBVIOUS
  <2>4. (AckMeansPassedOn /\ AwakeInTransaction)'
    OBVIOUS
  <2>5. wakeIrq'
    OBVIOUS
  <2>6. (Running /\ ~overtaken => InTurn)'
    OBVIOUS
  <2>7. (Running /\ ~overtaken => Edges)'
    OBVIOUS
  <2>8. (Running /\ ~overtaken => Payload)'
    OBVIOUS
  <2>9. (Running /\ ~overtaken => Ack)'
    OBVIOUS
  <2>10. (~Running => overtaken \/ hal = "none")'
    OBVIOUS
  <2> QED BY <2>1, <2>2, <2>3, <2>4, <2>5, <2>6, <2>7, <2>8, <2>9, <2>10
<1>9. CASE ReceiveAck
  <2> USE <1>9 DEF ReceiveAck, Receive, Expected, Mismatch
  <2>1. AgentTypes'
    OBVIOUS
  <2>2. LineTypes'
    OBVIOUS
  <2>3. CallTypes'
    OBVIOUS
  <2>4. (AckMeansPassedOn /\ AwakeInTransaction)'
    OBVIOUS
  <2>5. wakeIrq'
    OBVIOUS
  <2>6. (Running /\ ~overtaken => InTurn)'
    OBVIOUS
  <2>7. (Running /\ ~overtaken => Edges)'
    OBVIOUS
  <2>8. (Running /\ ~overtaken => Payload)'
    OBVIOUS
  <2>9. (Running /\ ~overtaken => Ack)'
    OBVIOUS
  <2>10. (~Running => overtaken \/ hal = "none")'
    OBVIOUS
  <2> QED BY <2>1, <2>2, <2>3, <2>4, <2>5, <2>6, <2>7, <2>8, <2>9, <2>10
<1>10. CASE ClearEdge
  <2> USE <1>10 DEF ClearEdge
  <2>1. AgentTypes'
    OBVIOUS
  <2>2. LineTypes'
    OBVIOUS
  <2>3. CallTypes'
    OBVIOUS
  <2>4. (AckMeansPassedOn /\ AwakeInTransaction)'
    OBVIOUS
  <2>5. wakeIrq'
    OBVIOUS
  <2>6. (Running /\ ~overtaken => InTurn)'
    OBVIOUS
  <2>7. (Running /\ ~overtaken => Edges)'
    OBVIOUS
  <2>8. (Running /\ ~overtaken => Payload)'
    OBVIOUS
  <2>9. (Running /\ ~overtaken => Ack)'
    OBVIOUS
  <2>10. (~Running => overtaken \/ hal = "none")'
    OBVIOUS
  <2> QED BY <2>1, <2>2, <2>3, <2>4, <2>5, <2>6, <2>7, <2>8, <2>9, <2>10
<1>11. CASE Release
  <2> USE <1>11 DEF Release
  <2>1. AgentTypes'
    OBVIOUS
  <2>2. LineTypes'
    OBVIOUS
  <2>3. CallTypes'
    OBVIOUS
  <2>4. (AckMeansPassedOn /\ AwakeInTransaction)'
    OBVIOUS
  <2>5. wakeIrq'
    OBVIOUS
  <2>6. (Running /\ ~overtaken => InTurn)'
    OBVIOUS
  <2>7. (Running /\ ~overtaken => Edges)'
    OBVIOUS
  <2>8. (Running /\ ~overtaken => Payload)'
    OBVIOUS
  <2>9. (Running /\ ~overtaken => Ack)'
    OBVIOUS
  <2>10. (~Running => overtaken \/ hal = "none")'
    OBVIOUS
  <2> QED BY <2>1, <2>2, <2>3, <2>4, <2>5, <2>6, <2>7, <2>8, <2>9, <2>10
<1> QED BY <1>1, <1>2, <1>3, <1>4, <1>5, <1>6, <1>7, <1>8, <1>9, <1>10, <1>11 DEF Transaction

\* The two sides at rest.
LEMMA SpiInit == ASSUME WakeServed, Init PROVE SpiInv
<1>1. AgentTypes /\ LineTypes
  BY DEF Init, AgentTypes, LineTypes, AgentStates, RxOps
<1>2. CallTypes
  BY DEF Init, CallTypes
<1>3. AckMeansPassedOn /\ AwakeInTransaction /\ Running
  BY DEF Init, AckMeansPassedOn, AwakeInTransaction, Running
<1>4. InTurn /\ Edges
  BY DEF Init, InTurn, Edges
<1>5. Payload /\ Ack /\ wakeIrq
  BY DEF Init, Payload, Ack
<1> QED BY <1>1, <1>2, <1>3, <1>4, <1>5 DEF SpiInv

\* Every step of either side keeps the invariant.
LEMMA SpiNext == ASSUME WakeServed, SpiInv, [Next]_vars PROVE SpiInv'
<1>1. CASE UNCHANGED vars
  BY <1>1 DEF vars, agentVars, sendVars, sleepVars, wakeVars, ctrlVars, ghostVars,
       speedVars, SpiInv, Quiet, Answered,
       AgentTypes, LineTypes, CallTypes, Running, InTurn, Edges, Payload, Ack,
       AckMeansPassedOn, AwakeInTransaction
<1>2. CASE WakeHandler \/ SpiHandlers \/ RxTaskStep
  BY <1>2, WakeHandlerKeeps, HandlersKeep, RxTaskKeeps
<1>3. CASE \/ \E b \in Bufs : TxBuffer(b)
           \/ TxComplete
           \/ \E mode \in SleepModes : SetDeepSleepMode(mode)
  BY <1>3, SenderKeeps
<1>4. CASE \/ AppCall \/ RxCall \/ ControllerIrq
           \/ \E task \in {"app", "rx"} : Lock(task)
  BY <1>4, CallsKeep
<1>5. CASE Transaction
  BY <1>5, TransactionKeeps
<1> QED BY <1>1, <1>2, <1>3, <1>4, <1>5 DEF Next

\* The Agent's state, its transfer, and the step of the transaction fit together,
\* but for a transaction that overtook the Agent: then nothing is known until one
\* finds it at rest, from where on everything is.
THEOREM SpiInvariant ==
  ASSUME WakeServed
  PROVE  Spec => []SpiInv
<1>1. Init => SpiInv
  BY SpiInit
<1>2. SpiInv /\ [Next]_vars => SpiInv'
  BY SpiNext
<1> QED BY <1>1, <1>2, PTL DEF Spec

\* The Controller takes a packet as acknowledged only if the Agent's upper layer
\* was given it in this call (mmagic_datalink_controller_tx_buffer), however
\* often transfers fail, in every transaction that was not overtaken, whatever
\* became of those before.
THEOREM SpiAckMeansPassedOn ==
  ASSUME WakeServed
  PROVE  Spec => []AckMeansPassedOn
<1>1. SpiInv => AckMeansPassedOn
  BY DEF SpiInv
<1> QED BY <1>1, SpiInvariant, PTL

\* Deep sleep is vetoed from the header of a transaction to its end
\* (MMAGIC_DATALINK_AGENT_WAKE_HANLDER), unless a command changed the mode or
\* the transaction was overtaken.
THEOREM SpiAwakeInTransaction ==
  ASSUME WakeServed
  PROVE  Spec => []AwakeInTransaction
<1>1. SpiInv => AwakeInTransaction
  BY DEF SpiInv
<1> QED BY <1>1, SpiInvariant, PTL

\* rx_packet_buf holds a complete packet, not copied before, whenever the rx
\* task copies it (mmagic_datalink_agent_handle_c2a_work) in a transaction that
\* was not overtaken: stale notifications never reach into it.
THEOREM SpiCopiesWholePackets ==
  ASSUME WakeServed
  PROVE  Spec => CopiesWholePackets
<1>1. SpiInv /\ [Next]_vars =>
        [rxPc = "check" /\ rxPc' = "ack" => rxData = "fresh" \/ overtaken]_vars
  <2> SUFFICES ASSUME SpiInv, [Next]_vars, rxPc = "check", rxPc' = "ack"
               PROVE  rxData = "fresh" \/ overtaken
    OBVIOUS
  <2>1. RxCopy
    BY DEF Next, WakeHandler, SpiHandlers, HeaderReceived, PacketReceived, AckSent, PacketSent,
         PacketResent, LengthSent, UnexpectedTransfer, SpiError, SpiIsr, RxTaskStep, RxWake,
         RxNothing, RxNoMemory, RxAck, RxCallbackReturns, TxBuffer, TxComplete, SetDeepSleepMode,
         AppCall, RxCall, ControllerIrq, Lock, Transaction, WaitRdy, SendHeader, SendPacket,
         ReceiveLength, ReceiveAck, ReceivePacket, ClearEdge, Release, CtrlAt, agentVars, vars
  <2> QED BY <2>1 DEF RxCopy, RxTask, SpiInv, Payload, Quiet, Running
<1> QED BY <1>1, SpiInvariant, PTL DEF Spec, CopiesWholePackets

-----------------------------------------------------------------------------
\* The counters, and what the Controller has so far.
OneFault ==
  /\ faults \in 0..MaxFaults /\ ~overtaken
  /\ cpc # "free" /\ op = "read" => tries["rx"] = 1
  /\ op # "write" => ~ack
  /\ cpc \in {"high1", "header", "low1", "body", "high2", "tail"} => got = NoBuf

\* The transfers of a read: the Controller has the packet by the time the Agent
\* takes it as sent, unless the one fault was in its transfer.
Transfers ==
  /\ state = "READ_LEN" =>
       /\ hal = "txLen" /\ (cpc # "free" => op = "read")
       /\ IF cpc \in {"low1", "body"} THEN spiIrq = "none" /\ ~rdy
          ELSE /\ spiIrq = "done" /\ cpc \in {"high2", "clear", "release", "free"}
               /\ cpc = "high2" => ~rdy
  /\ state = "READ_PAYLOAD" =>
       /\ hal = "txPacket" /\ txBuf # NoBuf
       /\ cpc # "free" =>
            /\ op = "read" /\ cpc \in {"high2", "tail", "low2", "clear", "release"}
            /\ spiIrq # "none" =>
                 /\ spiIrq = "done"
                 /\ \/ cpc \in {"low2", "clear", "release"} /\ got = txBuf
                    \/ cpc \in {"clear", "release"} /\ got = NoBuf /\ faults = MaxFaults

AtRest == state = "IDLE" /\ hal = "rxHeader" /\ spiIrq = "none"

\* A transaction in which nothing goes wrong.
Smooth ==
  /\ cpc \in {"free", "clear", "release"} => AtRest
  /\ cpc = "high1" => AtRest /\ (wakeRise \/ rdy)
  /\ cpc = "header" => AtRest
  /\ cpc = "low1" => Answered \/ (state = "IDLE" /\ hal = "rxHeader" /\ spiIrq = "done" /\ rdy)
  /\ cpc = "body" => Answered
  /\ cpc = "high2" /\ op = "write" =>
       \/ state = "C2A_PAYLOAD" /\ hal = "rxPacket" /\ spiIrq = "done"
       \/ state = "C2A_PAYLOAD" /\ hal = "none"
       \/ state = "C2A_ACK" /\ hal = "txAck" /\ spiIrq = "none" /\ rdy
  /\ cpc = "high2" /\ op # "write" =>
       \/ state = "REREAD_LEN" /\ hal = "txPrevLen" /\ spiIrq = "done" /\ ~rdy
       \/ state = "REREAD_PAYLOAD" /\ hal = "txPrevPacket" /\ spiIrq = "none" /\ rdy
  /\ cpc = "tail" =>
       /\ spiIrq = "none" /\ rdy
       /\ IF op = "write" THEN state = "C2A_ACK" /\ hal = "txAck"
          ELSE state = "REREAD_PAYLOAD" /\ hal = "txPrevPacket"
  /\ cpc = "low2" =>
       \/ AtRest
       \/ /\ spiIrq = "done" /\ rdy
          /\ IF op = "write" THEN state = "C2A_ACK" /\ hal = "txAck"
             ELSE state = "REREAD_PAYLOAD" /\ hal = "txPrevPacket"

\* A packet that the Agent took as sent has been received and the read is about to end,
\* or the one fault was in its transfer and the packet is read again.
Reread ==
  unread # NoBuf =>
    /\ prevBuf = unread
    /\ \/ op = "read" /\ cpc \in {"low2", "clear", "release"} /\ got = unread /\ AtRest
       \/ /\ faults = MaxFaults /\ Smooth
          /\ \/ op = "read" /\ cpc \in {"clear", "release"} /\ tries["rx"] = 1 /\ got = NoBuf
             \/ /\ tries["rx"] = 2 /\ (cpc # "free" => op # "read")
                /\ op = "reread" /\ cpc \in {"low2", "clear", "release"} => got = unread

\* The inductive invariant, beside SpiInv.
PacketInv == Running /\ overtakes = 0 => OneFault /\ Transfers /\ Reread

\* Between transactions the Agent goes back to rest; RDY rises at the start of one.
LEMMA PacketWake ==
  ASSUME WakeServed, MaxFaults \in 0..1, SpiInv, PacketInv,
         WakeHandler
  PROVE  PacketInv'
<1> USE DEF SpiInv, PacketInv, AgentTypes, LineTypes, CallTypes, Quiet, Answered, InTurn, Edges, Payload, Ack,
         Running, OneFault, Transfers, AtRest, Smooth, Reread, AgentStates, RxOps, TxOps, agentVars,
         sendVars, sleepVars, wakeVars, ctrlVars, ghostVars, speedVars,
         WakePending, Arm, UpdateState, Legal
<1>1. CASE WakeHandler
  <2> USE <1>1 DEF WakeHandler
  <2>1. (Running /\ overtakes = 0 => OneFault)'
    OBVIOUS
  <2>2. (Running /\ overtakes = 0 => Transfers)'
    OBVIOUS
  <2>3. (Running /\ overtakes = 0 => Reread)'
    OBVIOUS
  <2> QED BY <2>1, <2>2, <2>3
<1> QED BY <1>1

\* A packet is taken as sent only when the Controller has it, or when the one
\* fault was in its transfer.
LEMMA PacketHandlers ==
  ASSUME WakeServed, MaxFaults \in 0..1, SpiInv, PacketInv,
         SpiHandlers
  PROVE  PacketInv'
<1> USE DEF SpiInv, PacketInv, AgentTypes, LineTypes, CallTypes, Quiet, Answered, InTurn, Edges, Payload, Ack,
         Running, OneFault, Transfers, AtRest, Smooth, Reread, AgentStates, RxOps, TxOps, agentVars,
         sendVars, sleepVars, wakeVars, ctrlVars, ghostVars, speedVars,
         SpiIsr, WakePending, NoSend, Arm, SetRdy, ConfigureRxIdle, UpdateState, Legal
<1>1. CASE HeaderReceived
  <2> USE <1>1 DEF HeaderReceived
  <2>1. (Running /\ overtakes = 0 => OneFault)'
    OBVIOUS
  <2>2. (Running /\ overtakes = 0 => Transfers)'
    OBVIOUS
  <2>3. (Running /\ overtakes = 0 => Reread)'
    OBVIOUS
  <2> QED BY <2>1, <2>2, <2>3
<1>2. CASE PacketReceived
  <2> USE <1>2 DEF PacketReceived
  <2>1. (Running /\ overtakes = 0 => OneFault)'
    OBVIOUS
  <2>2. (Running /\ overtakes = 0 => Transfers)'
    OBVIOUS
  <2>3. (Running /\ overtakes = 0 => Reread)'
    OBVIOUS
  <2> QED BY <2>1, <2>2, <2>3
<1>3. CASE AckSent
  <2> USE <1>3 DEF AckSent
  <2>1. (Running /\ overtakes = 0 => OneFault)'
    OBVIOUS
  <2>2. (Running /\ overtakes = 0 => Transfers)'
    OBVIOUS
  <2>3. (Running /\ overtakes = 0 => Reread)'
    OBVIOUS
  <2> QED BY <2>1, <2>2, <2>3
<1>4. CASE PacketSent
  <2> USE <1>4 DEF PacketSent
  <2>1. (Running /\ overtakes = 0 => OneFault)'
    OBVIOUS
  <2>2. (Running /\ overtakes = 0 => Transfers)'
    OBVIOUS
  <2>3. (Running /\ overtakes = 0 => Reread)'
    OBVIOUS
  <2> QED BY <2>1, <2>2, <2>3
<1>5. CASE PacketResent
  <2> USE <1>5 DEF PacketResent
  <2>1. (Running /\ overtakes = 0 => OneFault)'
    OBVIOUS
  <2>2. (Running /\ overtakes = 0 => Transfers)'
    OBVIOUS
  <2>3. (Running /\ overtakes = 0 => Reread)'
    OBVIOUS
  <2> QED BY <2>1, <2>2, <2>3
<1>6. CASE LengthSent
  <2> USE <1>6 DEF LengthSent
  <2>1. (Running /\ overtakes = 0 => OneFault)'
    OBVIOUS
  <2>2. (Running /\ overtakes = 0 => Transfers)'
    OBVIOUS
  <2>3. (Running /\ overtakes = 0 => Reread)'
    OBVIOUS
  <2> QED BY <2>1, <2>2, <2>3
<1>7. CASE UnexpectedTransfer
  <2> USE <1>7 DEF UnexpectedTransfer
  <2>1. (Running /\ overtakes = 0 => OneFault)'
    OBVIOUS
  <2>2. (Running /\ overtakes = 0 => Transfers)'
    OBVIOUS
  <2>3. (Running /\ overtakes = 0 => Reread)'
    OBVIOUS
  <2> QED BY <2>1, <2>2, <2>3
<1>8. CASE SpiError
  <2> USE <1>8 DEF SpiError
  <2>1. (Running /\ overtakes = 0 => OneFault)'
    OBVIOUS
  <2>2. (Running /\ overtakes = 0 => Transfers)'
    OBVIOUS
  <2>3. (Running /\ overtakes = 0 => Reread)'
    OBVIOUS
  <2> QED BY <2>1, <2>2, <2>3
<1> QED BY <1>1, <1>2, <1>3, <1>4, <1>5, <1>6, <1>7, <1>8 DEF SpiHandlers

\* The rx task works only on packets of the Controller.
LEMMA PacketRx ==
  ASSUME WakeServed, MaxFaults \in 0..1, SpiInv, PacketInv,
         RxTaskStep
  PROVE  PacketInv'
<1> USE DEF SpiInv, PacketInv, AgentTypes, LineTypes, CallTypes, Quiet, Answered, InTurn, Edges, Payload, Ack,
         Running, OneFault, Transfers, AtRest, Smooth, Reread, AgentStates, RxOps, TxOps, agentVars,
         sendVars, sleepVars, wakeVars, ctrlVars, ghostVars, speedVars,
         RxTask, Arm, SetRdy, ConfigureRxIdle, UpdateState, Legal
<1>1. CASE RxWake
  <2> USE <1>1 DEF RxWake
  <2>1. (Running /\ overtakes = 0 => OneFault)'
    OBVIOUS
  <2>2. (Running /\ overtakes = 0 => Transfers)'
    OBVIOUS
  <2>3. (Running /\ overtakes = 0 => Reread)'
    OBVIOUS
  <2> QED BY <2>1, <2>2, <2>3
<1>2. CASE RxNothing
  <2> USE <1>2 DEF RxNothing
  <2>1. (Running /\ overtakes = 0 => OneFault)'
    OBVIOUS
  <2>2. (Running /\ overtakes = 0 => Transfers)'
    OBVIOUS
  <2>3. (Running /\ overtakes = 0 => Reread)'
    OBVIOUS
  <2> QED BY <2>1, <2>2, <2>3
<1>3. CASE RxCopy
  <2> USE <1>3 DEF RxCopy
  <2>1. (Running /\ overtakes = 0 => OneFault)'
    OBVIOUS
  <2>2. (Running /\ overtakes = 0 => Transfers)'
    OBVIOUS
  <2>3. (Running /\ overtakes = 0 => Reread)'
    OBVIOUS
  <2> QED BY <2>1, <2>2, <2>3
<1>4. CASE RxNoMemory
  <2> USE <1>4 DEF RxNoMemory
  <2>1. (Running /\ overtakes = 0 => OneFault)'
    OBVIOUS
  <2>2. (Running /\ overtakes = 0 => Transfers)'
    OBVIOUS
  <2>3. (Running /\ overtakes = 0 => Reread)'
    OBVIOUS
  <2> QED BY <2>1, <2>2, <2>3
<1>5. CASE RxAck
  <2> USE <1>5 DEF RxAck
  <2>1. (Running /\ overtakes = 0 => OneFault)'
    OBVIOUS
  <2>2. (Running /\ overtakes = 0 => Transfers)'
    OBVIOUS
  <2>3. (Running /\ overtakes = 0 => Reread)'
    OBVIOUS
  <2> QED BY <2>1, <2>2, <2>3
<1>6. CASE RxCallbackReturns
  <2> USE <1>6 DEF RxCallbackReturns
  <2>1. (Running /\ overtakes = 0 => OneFault)'
    OBVIOUS
  <2>2. (Running /\ overtakes = 0 => Transfers)'
    OBVIOUS
  <2>3. (Running /\ overtakes = 0 => Reread)'
    OBVIOUS
  <2> QED BY <2>1, <2>2, <2>3
<1> QED BY <1>1, <1>2, <1>3, <1>4, <1>5, <1>6 DEF RxTaskStep

\* A new packet may be published at any time; prev_tx_buf is not touched.
LEMMA PacketSender ==
  ASSUME WakeServed, MaxFaults \in 0..1, SpiInv, PacketInv,
         \/ \E b \in Bufs : TxBuffer(b)
         \/ TxComplete
         \/ \E mode \in SleepModes : SetDeepSleepMode(mode)
  PROVE  PacketInv'
<1> USE DEF SpiInv, PacketInv, AgentTypes, LineTypes, CallTypes, Quiet, Answered, InTurn, Edges, Payload, Ack,
         Running, OneFault, Transfers, AtRest, Smooth, Reread, AgentStates, RxOps, TxOps, agentVars,
         sendVars, sleepVars, wakeVars, ctrlVars, ghostVars, speedVars
<1>1. ASSUME NEW b \in Bufs, TxBuffer(b) PROVE PacketInv'
  <2> USE <1>1 DEF TxBuffer, SetRdy
  <2>1. (Running /\ overtakes = 0 => OneFault)'
    OBVIOUS
  <2>2. (Running /\ overtakes = 0 => Transfers)'
    OBVIOUS
  <2>3. (Running /\ overtakes = 0 => Reread)'
    OBVIOUS
  <2> QED BY <2>1, <2>2, <2>3
<1>2. CASE TxComplete
  <2> USE <1>2 DEF TxComplete
  <2>1. (Running /\ overtakes = 0 => OneFault)'
    OBVIOUS
  <2>2. (Running /\ overtakes = 0 => Transfers)'
    OBVIOUS
  <2>3. (Running /\ overtakes = 0 => Reread)'
    OBVIOUS
  <2> QED BY <2>1, <2>2, <2>3
<1>3. ASSUME NEW mode \in SleepModes, SetDeepSleepMode(mode) PROVE PacketInv'
  <2> USE <1>3 DEF SetDeepSleepMode
  <2>1. (Running /\ overtakes = 0 => OneFault)'
    OBVIOUS
  <2>2. (Running /\ overtakes = 0 => Transfers)'
    OBVIOUS
  <2>3. (Running /\ overtakes = 0 => Reread)'
    OBVIOUS
  <2> QED BY <2>1, <2>2, <2>3
<1> QED BY <1>1, <1>2, <1>3

\* A read that failed is started again as a reread.
LEMMA PacketCalls ==
  ASSUME WakeServed, MaxFaults \in 0..1, SpiInv, PacketInv,
         \/ AppCall \/ RxCall \/ ControllerIrq
         \/ \E task \in {"app", "rx"} : Lock(task)
  PROVE  PacketInv'
<1> USE DEF SpiInv, PacketInv, AgentTypes, LineTypes, CallTypes, Quiet, Answered, InTurn, Edges, Payload, Ack,
         Running, OneFault, Transfers, AtRest, Smooth, Reread, AgentStates, RxOps, TxOps, agentVars,
         sendVars, sleepVars, wakeVars, ctrlVars, ghostVars, speedVars
<1>1. CASE AppCall
  <2> USE <1>1 DEF AppCall
  <2>1. (Running /\ overtakes = 0 => OneFault)'
    OBVIOUS
  <2>2. (Running /\ overtakes = 0 => Transfers)'
    OBVIOUS
  <2>3. (Running /\ overtakes = 0 => Reread)'
    OBVIOUS
  <2> QED BY <2>1, <2>2, <2>3
<1>2. CASE RxCall
  <2> USE <1>2 DEF RxCall
  <2>1. (Running /\ overtakes = 0 => OneFault)'
    OBVIOUS
  <2>2. (Running /\ overtakes = 0 => Transfers)'
    OBVIOUS
  <2>3. (Running /\ overtakes = 0 => Reread)'
    OBVIOUS
  <2> QED BY <2>1, <2>2, <2>3
<1>3. CASE ControllerIrq
  <2> USE <1>3 DEF ControllerIrq
  <2>1. (Running /\ overtakes = 0 => OneFault)'
    OBVIOUS
  <2>2. (Running /\ overtakes = 0 => Transfers)'
    OBVIOUS
  <2>3. (Running /\ overtakes = 0 => Reread)'
    OBVIOUS
  <2> QED BY <2>1, <2>2, <2>3
<1>4. ASSUME NEW task \in {"app", "rx"}, Lock(task) PROVE PacketInv'
  <2> USE <1>4, OvertakeCounts DEF Lock, CtrlAt, Begin, AgentDone, AgentSettled, WakePending
  <2>1. (Running /\ overtakes = 0 => OneFault)'
    OBVIOUS
  <2>2. (Running /\ overtakes = 0 => Transfers)'
    OBVIOUS
  <2>3. (Running /\ overtakes = 0 => Reread)'
    OBVIOUS
  <2> QED BY <2>1, <2>2, <2>3
<1> QED BY <1>1, <1>2, <1>3, <1>4

\* The steps of a transaction: the one fault is in one of them.
LEMMA PacketTransaction ==
  ASSUME WakeServed, MaxFaults \in 0..1, SpiInv, PacketInv,
         Transaction
  PROVE  PacketInv'
<1> USE DEF SpiInv, PacketInv, AgentTypes, LineTypes, CallTypes, Quiet, Answered, InTurn, Edges, Payload, Ack,
         Running, OneFault, Transfers, AtRest, Smooth, Reread, AgentStates, RxOps, TxOps, agentVars,
         sendVars, sleepVars, wakeVars, ctrlVars, ghostVars, speedVars,
         CtrlAt, CtrlGoto
<1>1. CASE WaitRdy("high1", TRUE, "header")
  <2> USE <1>1, OvertakeCounts DEF WaitRdy, AgentSettled, WakePending
  <2>1. (Running /\ overtakes = 0 => OneFault)'
    OBVIOUS
  <2>2. (Running /\ overtakes = 0 => Transfers)'
    OBVIOUS
  <2>3. (Running /\ overtakes = 0 => Reread)'
    OBVIOUS
  <2> QED BY <2>1, <2>2, <2>3
<1>2. CASE WaitRdy("low1", FALSE, "body")
  <2> USE <1>2, OvertakeCounts DEF WaitRdy, AgentSettled, WakePending
  <2>1. (Running /\ overtakes = 0 => OneFault)'
    OBVIOUS
  <2>2. (Running /\ overtakes = 0 => Transfers)'
    <3>1. CASE state = "READ_LEN"
      <4>1. CASE rdy
        BY <3>1, <4>1
      <4>2. CASE rdy = FALSE
        BY <3>1, <4>2
      <4> QED BY <4>1, <4>2
    <3>2. CASE state = "READ_PAYLOAD"
      BY <3>2
    <3>3. CASE state \notin {"READ_LEN", "READ_PAYLOAD"}
      BY <3>3
    <3> QED BY <3>1, <3>2, <3>3
  <2>3. (Running /\ overtakes = 0 => Reread)'
    <3>1. CASE rdy
      BY <3>1
    <3>2. CASE ~rdy
      BY <3>2
    <3> QED BY <3>1, <3>2
  <2> QED BY <2>1, <2>2, <2>3
<1>3. CASE WaitRdy("high2", TRUE, "tail")
  <2> USE <1>3, OvertakeCounts DEF WaitRdy, AgentSettled, WakePending
  <2>1. (Running /\ overtakes = 0 => OneFault)'
    OBVIOUS
  <2>2. (Running /\ overtakes = 0 => Transfers)'
    <3>1. CASE state = "READ_LEN"
      <4>1. CASE rdy
        BY <3>1, <4>1
      <4>2. CASE rdy = FALSE
        BY <3>1, <4>2
      <4> QED BY <4>1, <4>2
    <3>2. CASE state = "READ_PAYLOAD"
      BY <3>2
    <3>3. CASE state \notin {"READ_LEN", "READ_PAYLOAD"}
      BY <3>3
    <3> QED BY <3>1, <3>2, <3>3
  <2>3. (Running /\ overtakes = 0 => Reread)'
    <3>1. CASE rdy
      BY <3>1
    <3>2. CASE ~rdy
      BY <3>2
    <3> QED BY <3>1, <3>2
  <2> QED BY <2>1, <2>2, <2>3
<1>4. CASE WaitRdy("low2", FALSE, "clear")
  <2> USE <1>4, OvertakeCounts DEF WaitRdy, AgentSettled, WakePending
  <2>1. (Running /\ overtakes = 0 => OneFault)'
    OBVIOUS
  <2>2. (Running /\ overtakes = 0 => Transfers)'
    OBVIOUS
  <2>3. (Running /\ overtakes = 0 => Reread)'
    OBVIOUS
  <2> QED BY <2>1, <2>2, <2>3
<1>5. CASE SendHeader
  <2> USE <1>5 DEF SendHeader, Transmit, Expected, Mismatch, Fault
  <2>1. (Running /\ overtakes = 0 => OneFault)'
    OBVIOUS
  <2>2. (Running /\ overtakes = 0 => Transfers)'
    OBVIOUS
  <2>3. (Running /\ overtakes = 0 => Reread)'
    OBVIOUS
  <2> QED BY <2>1, <2>2, <2>3
<1>6. CASE SendPacket
  <2> USE <1>6 DEF SendPacket, Transmit, Expected, Mismatch, Fault
  <2>1. (Running /\ overtakes = 0 => OneFault)'
    OBVIOUS
  <2>2. (Running /\ overtakes = 0 => Transfers)'
    OBVIOUS
  <2>3. (Running /\ overtakes = 0 => Reread)'
    OBVIOUS
  <2> QED BY <2>1, <2>2, <2>3
<1>7. CASE ReceiveLength
  <2> USE <1>7 DEF ReceiveLength, Receive, Expected, Mismatch, Fault
  <2>1. (Running /\ overtakes = 0 => OneFault)'
    OBVIOUS
  <2>2. (Running /\ overtakes = 0 => Transfers)'
    OBVIOUS
  <2>3. (Running /\ overtakes = 0 => Reread)'
    OBVIOUS
  <2> QED BY <2>1, <2>2, <2>3
<1>8. CASE ReceivePacket
  <2> USE <1>8 DEF ReceivePacket, Receive, Expected, Mismatch, Fault
  <2>1. (Running /\ overtakes = 0 => OneFault)'
    OBVIOUS
  <2>2. (Running /\ overtakes = 0 => Transfers)'
    OBVIOUS
  <2>3. (Running /\ overtakes = 0 => Reread)'
    OBVIOUS
  <2> QED BY <2>1, <2>2, <2>3
<1>9. CASE ReceiveAck
  <2> USE <1>9 DEF ReceiveAck, Receive, Expected, Mismatch, Fault
  <2>1. (Running /\ overtakes = 0 => OneFault)'
    OBVIOUS
  <2>2. (Running /\ overtakes = 0 => Transfers)'
    OBVIOUS
  <2>3. (Running /\ overtakes = 0 => Reread)'
    OBVIOUS
  <2> QED BY <2>1, <2>2, <2>3
<1>10. CASE ClearEdge
  <2> USE <1>10 DEF ClearEdge
  <2>1. (Running /\ overtakes = 0 => OneFault)'
    OBVIOUS
  <2>2. (Running /\ overtakes = 0 => Transfers)'
    OBVIOUS
  <2>3. (Running /\ overtakes = 0 => Reread)'
    OBVIOUS
  <2> QED BY <2>1, <2>2, <2>3
<1>11. CASE Release
  <2> USE <1>11 DEF Release, Retries
  <2>1. (Running /\ overtakes = 0 => OneFault)'
    OBVIOUS
  <2>2. (Running /\ overtakes = 0 => Transfers)'
    OBVIOUS
  <2>3. (Running /\ overtakes = 0 => Reread)'
    OBVIOUS
  <2> QED BY <2>1, <2>2, <2>3
<1> QED BY <1>1, <1>2, <1>3, <1>4, <1>5, <1>6, <1>7, <1>8, <1>9, <1>10, <1>11 DEF Transaction

\* A packet the Agent took as sent (handle_spi_tx_cplt) is not given up before the
\* Controller has received it: one fault does not lose it, because the failed
\* read is followed by a reread of prev_tx_buf before another read, until a
\* transaction is overtaken.
THEOREM SpiNoPacketLost ==
  ASSUME WakeServed, MaxFaults \in 0..1
  PROVE  Spec => NoPacketLost
<1>1. Init => PacketInv
  BY DEF Init, PacketInv, OneFault, Transfers, Reread
<1>2. SpiInv /\ PacketInv /\ [Next]_vars => PacketInv'
  <2> SUFFICES ASSUME SpiInv, PacketInv, [Next]_vars PROVE PacketInv'
    OBVIOUS
  <2>1. CASE UNCHANGED vars
    BY <2>1 DEF vars, agentVars, sendVars, sleepVars, wakeVars, ctrlVars, ghostVars,
         speedVars, PacketInv, Answered,
         Running, OneFault, Transfers, AtRest, Smooth, Reread
  <2>2. CASE WakeHandler \/ SpiHandlers \/ RxTaskStep
    BY <2>2, PacketWake, PacketHandlers, PacketRx
  <2>3. CASE \/ \E b \in Bufs : TxBuffer(b)
             \/ TxComplete
             \/ \E mode \in SleepModes : SetDeepSleepMode(mode)
    BY <2>3, PacketSender
  <2>4. CASE \/ AppCall \/ RxCall \/ ControllerIrq
             \/ \E task \in {"app", "rx"} : Lock(task)
    BY <2>4, PacketCalls
  <2>5. CASE Transaction
    BY <2>5, PacketTransaction
  <2> QED BY <2>1, <2>2, <2>3, <2>4, <2>5 DEF Next
<1>3. SpiInv /\ PacketInv /\ [Next]_vars =>
        [unread' # unread /\ unread # NoBuf => unread' = NoBuf \/ overtakes > 0]_vars
  <2> SUFFICES ASSUME SpiInv, PacketInv, [Next]_vars, unread' # unread, unread # NoBuf
               PROVE  unread' = NoBuf \/ overtakes > 0
    OBVIOUS
  <2>1. PacketSent \/ Release
    BY DEF Next, WakeHandler, SpiHandlers, HeaderReceived, PacketReceived, AckSent, PacketResent,
         LengthSent, UnexpectedTransfer, SpiError, NoSend, RxTaskStep, RxWake, RxNothing, RxCopy,
         RxNoMemory, RxAck, RxCallbackReturns, RxTask, TxBuffer, TxComplete, SetDeepSleepMode,
         AppCall, RxCall, ControllerIrq, Lock, Transaction, WaitRdy, CtrlGoto, SendHeader,
         SendPacket, ReceiveLength, ReceiveAck, ReceivePacket, ClearEdge, ghostVars, vars
  <2>2. CASE PacketSent
    BY <2>2 DEF PacketSent, NoSend, SpiIsr, TxOps, PacketInv, Transfers, Reread, Smooth, AtRest,
                Answered, SpiInv, LineTypes, Running
  <2>3. CASE Release
    BY <2>3 DEF Release
  <2> QED BY <2>1, <2>2, <2>3
<1> QED BY <1>1, <1>2, <1>3, SpiInvariant, PTL DEF Spec, NoPacketLost

-----------------------------------------------------------------------------
(***************************************************************************)
(* The UART data link.  First its ring buffer and its types; then what is  *)
(* under way, ring and line together, as one stream of bytes that each     *)
(* step shortens, changes or extends; then, on that stream, that no frame  *)
(* is handed on twice, and that an unharmed one is handed on.              *)
(***************************************************************************)

\* The ring buffer.

\* The bytes from one index up to where the next one goes.
Slice(buf, from, wr) ==
  [i \in 1..(wr + RingSize - from) % RingSize |-> buf[(from + i - 1) % RingSize]]

\* Indices leave the ring at most once.
LEMMA ModIs ==
  ASSUME NEW n \in Nat, NEW r \in Nat, r > 1, n < 2 * r
  PROVE  n % r = IF n < r THEN n ELSE n - r
<1>1. CASE n < r
  BY <1>1
<1>2. CASE n >= r
  <2>1. n = r * 1 + (n - r) /\ n - r \in 0..r - 1
    BY <1>2
  <2> QED BY <1>2, <2>1
<1> QED BY <1>1, <1>2

\* How many those are, and where each is.
Span(from, wr) == IF from <= wr THEN wr - from ELSE wr + RingSize - from
Place(from, i) == IF from + i - 1 < RingSize THEN from + i - 1 ELSE from + i - 1 - RingSize

\* What such a slice holds.
LEMMA SliceIs ==
  ASSUME NEW buf \in [0..RingSize - 1 -> Bytes], NEW from \in 0..RingSize,
         NEW wr \in 0..RingSize - 1
  PROVE  /\ Span(from, wr) \in 0..RingSize - 1 /\ Span(from, wr) \in Nat
         /\ Slice(buf, from, wr) \in Seq(Bytes)
         /\ Len(Slice(buf, from, wr)) = Span(from, wr)
         /\ \A i \in 1..Span(from, wr) : Slice(buf, from, wr)[i] = buf[Place(from, i)]
<1> DEFINE n == Span(from, wr)
           at(i) == Place(from, i)
           s == Slice(buf, from, wr)
<1>0. RingSize \in Nat /\ RingSize > 1
  BY UartAssumption
<1>1. (wr + RingSize - from) % RingSize = n /\ n \in 0..RingSize - 1
  <2> DEFINE m == wr + RingSize - from
  <2>1. m \in Nat /\ m < 2 * RingSize
    BY <1>0
  <2> HIDE DEF m
  <2>2. m % RingSize = IF m < RingSize THEN m ELSE m - RingSize
    BY <1>0, <2>1, ModIs
  <2> QED BY <1>0, <2>2 DEF m, Span
<1>2. \A i \in 1..n : (from + i - 1) % RingSize = at(i) /\ at(i) \in 0..RingSize - 1
  <2> SUFFICES ASSUME NEW i \in 1..n
               PROVE  (from + i - 1) % RingSize = at(i) /\ at(i) \in 0..RingSize - 1
    OBVIOUS
  <2> DEFINE m == from + i - 1
  <2>1. m \in Nat /\ m < 2 * RingSize
    BY <1>0, <1>1 DEF Span
  <2> HIDE DEF m
  <2>2. m % RingSize = IF m < RingSize THEN m ELSE m - RingSize
    BY <1>0, <2>1, ModIs
  <2> QED BY <1>0, <2>1, <2>2 DEF m, Place
<1>3. s = [i \in 1..n |-> buf[at(i)]]
  BY <1>1, <1>2 DEF Slice
<1> HIDE DEF n, at, s
<1>4. \A i \in 1..n : buf[at(i)] \in Bytes
  BY <1>2
<1>5. n \in Nat
  BY <1>0, <1>1
<1>6. s \in Seq(Bytes) /\ Len(s) = n
  BY <1>3, <1>4, <1>5, IsASeq, LenProperties
<1>7. \A i \in 1..n : s[i] = buf[at(i)]
  BY <1>3
<1> QED BY <1>1, <1>5, <1>6, <1>7 DEF n, at, s

\* A byte put behind the last one.
LEMMA SlicePut ==
  ASSUME NEW buf \in [0..RingSize - 1 -> Bytes], NEW from \in 0..RingSize,
         NEW wr \in 0..RingSize - 1, NEW b \in Bytes,
         Len(Slice(buf, from, wr)) < RingSize - 1
  PROVE  /\ Next1(wr) \in 0..RingSize - 1
         /\ Slice([buf EXCEPT ![wr] = b], from, Next1(wr)) = Append(Slice(buf, from, wr), b)
<1> DEFINE s == Slice(buf, from, wr)
           n == Span(from, wr)
           buf2 == [buf EXCEPT ![wr] = b]
           wr2 == Next1(wr)
           t == Slice(buf2, from, wr2)
           n2 == Span(from, wr2)
           at(i) == Place(from, i)
<1>0. RingSize \in Nat /\ RingSize > 1
  BY UartAssumption
<1>1. wr2 = (IF wr + 1 < RingSize THEN wr + 1 ELSE 0) /\ wr2 \in 0..RingSize - 1
  <2> DEFINE m == wr + 1
  <2>1. m \in Nat /\ m < 2 * RingSize
    BY <1>0
  <2> HIDE DEF m
  <2>2. m % RingSize = IF m < RingSize THEN m ELSE m - RingSize
    BY <1>0, <2>1, ModIs
  <2> QED BY <1>0, <2>2 DEF m, Next1
<1>2. buf2 \in [0..RingSize - 1 -> Bytes] /\ buf2[wr] = b
      /\ \A i \in 0..RingSize - 1 : i # wr => buf2[i] = buf[i]
  OBVIOUS
<1>3. /\ n \in 0..RingSize - 1 /\ s \in Seq(Bytes) /\ Len(s) = n
      /\ \A i \in 1..n : s[i] = buf[at(i)]
  BY SliceIs
<1> HIDE DEF s, buf2, wr2, t
<1>4. /\ n2 \in 0..RingSize - 1 /\ t \in Seq(Bytes) /\ Len(t) = n2
      /\ \A i \in 1..n2 : t[i] = buf2[at(i)]
  BY <1>1, <1>2, SliceIs DEF t
<1>5. n < RingSize - 1
  BY <1>3 DEF s
<1>6. n2 = n + 1
  BY <1>0, <1>1, <1>5 DEF Span
<1>7. at(n + 1) = wr
  BY <1>0, <1>5 DEF Span, Place
<1>8. \A i \in 1..n : at(i) # wr /\ at(i) \in 0..RingSize - 1
  BY <1>0, <1>5 DEF Span, Place
<1>9. n \in Nat
  BY <1>0, <1>3
<1> HIDE DEF n, n2, at
<1>10. \A i \in 1..n : t[i] = s[i]
  BY <1>2, <1>3, <1>4, <1>6, <1>8, <1>9
<1>11. t[n + 1] = b
  BY <1>2, <1>4, <1>6, <1>7, <1>9
<1>12. t = Append(s, b)
  <2>1. /\ Append(s, b) \in Seq(Bytes) /\ Len(Append(s, b)) = n + 1
        /\ \A i \in 1..n : Append(s, b)[i] = s[i]
        /\ Append(s, b)[n + 1] = b
    BY <1>3, AppendProperties
  <2>2. \A i \in 1..n + 1 : t[i] = Append(s, b)[i]
    BY <1>9, <1>10, <1>11, <2>1
  <2> QED BY <1>4, <1>6, <2>1, <2>2, SeqEqual
<1> QED BY <1>1, <1>12 DEF s, t, buf2, wr2

\* A byte taken from the front.
LEMMA SliceTake ==
  ASSUME NEW buf \in [0..RingSize - 1 -> Bytes], NEW from \in 0..RingSize - 1,
         NEW wr \in 0..RingSize - 1, from # wr
  PROVE  /\ Slice(buf, from, wr) \in Seq(Bytes) /\ Slice(buf, from, wr) # <<>>
         /\ Slice(buf, from, wr)[1] = buf[from]
         /\ Slice(buf, from + 1, wr) = Tail(Slice(buf, from, wr))
<1> DEFINE s == Slice(buf, from, wr)
           n == Span(from, wr)
           t == Slice(buf, from + 1, wr)
           n2 == Span(from + 1, wr)
           at(i) == Place(from, i)
           at2(i) == Place(from + 1, i)
<1>0. RingSize \in Nat /\ RingSize > 1 /\ from \in 0..RingSize /\ from + 1 \in 0..RingSize
  BY UartAssumption
<1>3. /\ n \in 0..RingSize - 1 /\ s \in Seq(Bytes) /\ Len(s) = n
      /\ \A i \in 1..n : s[i] = buf[at(i)]
  BY <1>0, SliceIs
<1>4. /\ n2 \in 0..RingSize - 1 /\ t \in Seq(Bytes) /\ Len(t) = n2
      /\ \A i \in 1..n2 : t[i] = buf[at2(i)]
  BY <1>0, SliceIs
<1> HIDE DEF s, t
<1>5. n2 = n - 1 /\ n \in Nat /\ n > 0 /\ n2 \in Nat
  BY <1>0 DEF Span
<1>6. at(1) = from
  BY <1>0 DEF Place
<1>7. \A i \in 1..n2 : at(i + 1) = at2(i)
  BY <1>0, <1>5 DEF Place
<1> HIDE DEF n, n2, at, at2
<1>8. s # <<>> /\ s[1] = buf[from]
  BY <1>3, <1>5, <1>6, EmptySeq
<1>9. t = Tail(s)
  <2>1. /\ Tail(s) \in Seq(Bytes) /\ Len(Tail(s)) = n - 1
        /\ \A i \in 1..Len(Tail(s)) : Tail(s)[i] = s[i + 1]
    BY <1>3, <1>8, HeadTailProperties
  <2>2. \A i \in 1..n2 : t[i] = Tail(s)[i]
    <3> SUFFICES ASSUME NEW i \in 1..n2 PROVE t[i] = Tail(s)[i]
      OBVIOUS
    <3>1. i + 1 \in 1..n /\ i \in 1..Len(Tail(s))
      BY <1>5, <2>1
    <3> QED BY <1>3, <1>4, <1>7, <2>1, <3>1
  <2> QED BY <1>4, <1>5, <2>1, <2>2, SeqEqual
<1> QED BY <1>3, <1>8, <1>9 DEF s, t

\* The bytes of a burst given back.
LEMMA SliceDrop ==
  ASSUME NEW buf \in [0..RingSize - 1 -> Bytes], NEW rd \in 0..RingSize - 1,
         NEW wr \in 0..RingSize - 1, NEW end \in 1..RingSize, rd < end,
         end <= wr \/ wr < rd
  PROVE  /\ end % RingSize \in 0..RingSize - 1
         /\ Slice(buf, end % RingSize, wr) = Slice(buf, end, wr)
         /\ end - rd \in 1..Len(Slice(buf, rd, wr))
         /\ Slice(buf, end, wr)
              = SubSeq(Slice(buf, rd, wr), end - rd + 1, Len(Slice(buf, rd, wr)))
<1> DEFINE s == Slice(buf, rd, wr)
           n == Span(rd, wr)
           t == Slice(buf, end, wr)
           n2 == Span(end, wr)
           at(i) == Place(rd, i)
           at2(i) == Place(end, i)
           low == IF end < RingSize THEN end ELSE 0
           u == Slice(buf, low, wr)
           n3 == Span(low, wr)
           at3(i) == Place(low, i)
<1>0. RingSize \in Nat /\ RingSize > 1 /\ rd \in 0..RingSize /\ end \in 0..RingSize
      /\ low \in 0..RingSize - 1 /\ low \in 0..RingSize
  BY UartAssumption
<1>1. end % RingSize = low
  <2>1. end \in Nat /\ end < 2 * RingSize
    BY <1>0
  <2>2. end % RingSize = IF end < RingSize THEN end ELSE end - RingSize
    BY <1>0, <2>1, ModIs
  <2> QED BY <1>0, <2>2
<1>3. /\ n \in 0..RingSize - 1 /\ s \in Seq(Bytes) /\ Len(s) = n
      /\ \A i \in 1..n : s[i] = buf[at(i)]
  BY <1>0, SliceIs
<1>4. /\ n2 \in 0..RingSize - 1 /\ t \in Seq(Bytes) /\ Len(t) = n2
      /\ \A i \in 1..n2 : t[i] = buf[at2(i)]
  BY <1>0, SliceIs
<1>5. /\ u \in Seq(Bytes) /\ Len(u) = n3
      /\ \A i \in 1..n3 : u[i] = buf[at3(i)]
  <2> HIDE DEF low
  <2> QED BY <1>0, SliceIs
<1> HIDE DEF s, t, u
<1>6. n2 = n - (end - rd) /\ n \in Nat /\ n2 \in Nat /\ end - rd \in 1..n
  BY <1>0 DEF Span
<1>7. \A i \in 1..n2 : at((end - rd) + i) = at2(i)
  BY <1>0, <1>6 DEF Place, Span
<1>8. n3 = n2 /\ \A i \in 1..n2 : at3(i) = at2(i)
  BY <1>0 DEF Place, Span
<1> HIDE DEF n, n2, n3, at, at2, at3, low
<1>9. u = t
  <2>1. \A i \in 1..n2 : u[i] = t[i]
    BY <1>4, <1>5, <1>8
  <2> QED BY <1>4, <1>5, <1>8, <2>1, SeqEqual
<1>10. t = SubSeq(s, end - rd + 1, n)
  <2> DEFINE d == end - rd
  <2>1. d \in Nat /\ d \in 1..n /\ n2 = n - d
    BY <1>6
  <2>2. \A i \in 1..n2 : at(d + i) = at2(i)
    BY <1>7
  <2> HIDE DEF d
  <2>3. \A i \in d + 1..n : s[i] \in Bytes
    BY <1>3, <2>1, ElementOfSeq
  <2>4. d + 1 \in Int /\ n \in Int
    BY <1>6, <2>1
  <2>5. /\ SubSeq(s, d + 1, n) \in Seq(Bytes)
        /\ Len(SubSeq(s, d + 1, n)) = IF d + 1 <= n THEN n - (d + 1) + 1 ELSE 0
        /\ \A i \in 1..n - (d + 1) + 1 : SubSeq(s, d + 1, n)[i] = s[d + 1 + i - 1]
    BY <2>3, <2>4, SubSeqProperties
  <2>6. Len(SubSeq(s, d + 1, n)) = n2
    BY <1>6, <2>1, <2>5
  <2>7. \A i \in 1..n2 : t[i] = SubSeq(s, d + 1, n)[i]
    <3> SUFFICES ASSUME NEW i \in 1..n2 PROVE t[i] = SubSeq(s, d + 1, n)[i]
      OBVIOUS
    <3>1. i \in 1..n - (d + 1) + 1 /\ d + 1 + i - 1 = d + i /\ d + i \in 1..n
      BY <1>6, <2>1
    <3>2. SubSeq(s, d + 1, n)[i] = s[d + i]
      BY <2>5, <3>1
    <3> QED BY <1>3, <1>4, <2>2, <3>1, <3>2
  <2>8. t = SubSeq(s, d + 1, n)
    BY <1>4, <2>5, <2>6, <2>7, SeqEqual
  <2> QED BY <2>8 DEF d
<1> QED BY <1>0, <1>1, <1>3, <1>6, <1>9, <1>10 DEF s, t, u, low

\* A set of numbers has a least one.
LEMMA Least ==
  ASSUME NEW T \in SUBSET Nat, T # {}
  PROVE  \E n \in T : \A m \in T : ~(m < n)
<1> DEFINE R == OpToRel(<, Nat)
<1>1. IsWellFoundedOn(R, Nat)
  BY NatLessThanWellFounded
<1> HIDE DEF R
<1>2. PICK n \in T : \A m \in T : <<m, n>> \notin R
  BY <1>1, WFMin
<1>3. \A a, b \in Nat : a < b => <<a, b>> \in R
  BY DEF R, OpToRel
<1> QED BY <1>2, <1>3

\* The function that FlattenSeq is defined by, up to n; there is one.
Joins(g, seqs, n) ==
  g = [i \in 1..n |-> IF i = 1 THEN seqs[i] ELSE g[i - 1] \o seqs[i]]

\* Such a function exists.
LEMMA JoinsExist ==
  ASSUME NEW seqs, NEW len \in Nat
  PROVE  \E g : Joins(g, seqs, len)
<1> DEFINE Missing == {n \in 0..len : ~\E g : Joins(g, seqs, n)}
<1>1. ASSUME Missing # {} PROVE FALSE
  <2>1. Missing \in SUBSET Nat OBVIOUS
  <2> HIDE DEF Missing
  <2>2. PICK n \in Missing : \A m \in Missing : ~(m < n)
    BY <1>1, <2>1, Least
  <2>3. n # 0
    <3> DEFINE h == [i \in 1..0 |-> IF i = 1 THEN seqs[i] ELSE <<>> \o seqs[i]]
    <3>1. h = [i \in 1..0 |-> IF i = 1 THEN seqs[i] ELSE h[i - 1] \o seqs[i]]
      OBVIOUS
    <3>2. Joins(h, seqs, 0) BY <3>1 DEF Joins
    <3> QED BY <3>2 DEF Missing
  <2>4. n \in Nat /\ n - 1 \in Nat /\ n - 1 \in 0..len /\ n - 1 < n
    BY <2>3 DEF Missing
  <2>5. PICK g : Joins(g, seqs, n - 1)
    BY <2>2, <2>4 DEF Missing
  <2> DEFINE h == [i \in 1..n |-> IF i < n THEN g[i]
                                  ELSE IF i = 1 THEN seqs[i] ELSE g[i - 1] \o seqs[i]]
  <2>6. \A i \in 1..n - 1 : g[i] = IF i = 1 THEN seqs[i] ELSE g[i - 1] \o seqs[i]
    BY <2>5 DEF Joins
  <2>7. \A i \in 1..n : h[i] = IF i = 1 THEN seqs[i] ELSE h[i - 1] \o seqs[i]
    <3> SUFFICES ASSUME NEW i \in 1..n
                 PROVE  h[i] = IF i = 1 THEN seqs[i] ELSE h[i - 1] \o seqs[i]
      OBVIOUS
    <3>1. i # 1 => h[i - 1] = g[i - 1]
      BY <2>4
    <3>2. CASE i < n
      BY <2>4, <2>6, <3>1, <3>2
    <3>3. CASE ~(i < n)
      BY <2>4, <3>1, <3>3
    <3> QED BY <3>2, <3>3
  <2>8. h = [i \in 1..n |-> h[i]]
    OBVIOUS
  <2> HIDE DEF h
  <2>9. Joins(h, seqs, n)
    BY <2>7, <2>8 DEF Joins
  <2> QED BY <2>9 DEF Missing
<1> QED BY <1>1

\* The definition of FlattenSeq unfolds.
LEMMA FlattenIs ==
  ASSUME NEW seqs, NEW len \in Nat \ {0}, Len(seqs) = len
  PROVE  \E g : Joins(g, seqs, len) /\ FlattenSeq(seqs) = g[len]
<1> DEFINE c == CHOOSE g : Joins(g, seqs, len)
<1>1. Joins(c, seqs, len)
  BY JoinsExist
<1>2. FlattenSeq(seqs) = c[len]
  BY DEF FlattenSeq, Joins
<1> QED BY <1>1, <1>2

\* How many elements of a sequence are in a set.
Num(s, T) == Cardinality({i \in DOMAIN s : s[i] \in T})

\* It is a number, and none are in a set when it is zero.
LEMMA NumIs ==
  ASSUME NEW X, NEW s \in Seq(X), NEW T
  PROVE  /\ Num(s, T) \in 0..Len(s)
         /\ IsFiniteSet({i \in 1..Len(s) : s[i] \in T})
         /\ Num(s, T) = Cardinality({i \in 1..Len(s) : s[i] \in T})
         /\ Num(s, T) = 0 <=> \A i \in 1..Len(s) : s[i] \notin T
<1> DEFINE A == {i \in 1..Len(s) : s[i] \in T}
<1>1. DOMAIN s = 1..Len(s) /\ Len(s) \in Nat
  BY LenProperties
<1>2. IsFiniteSet(1..Len(s)) /\ Cardinality(1..Len(s)) = Len(s)
  BY <1>1, FS_Interval
<1>3. A \subseteq 1..Len(s)
  OBVIOUS
<1>4. Num(s, T) = Cardinality(A)
  BY <1>1 DEF Num
<1> HIDE DEF A
<1>5. IsFiniteSet(A) /\ Cardinality(A) <= Len(s) /\ Cardinality(A) \in Nat
  BY <1>2, <1>3, FS_Subset, FS_CardinalityType
<1>6. Cardinality(A) = 0 <=> A = {}
  BY <1>5, FS_EmptySet
<1> QED BY <1>1, <1>4, <1>5, <1>6 DEF A

\* It is a natural number.
LEMMA NumNat ==
  ASSUME NEW X, NEW s \in Seq(X), NEW T
  PROVE  Num(s, T) \in Nat
<1>1. Num(s, T) \in 0..Len(s) /\ Len(s) \in Nat
  BY NumIs, LenProperties
<1> QED BY <1>1

\* Counts of two sequences add up.
LEMMA NumConcat ==
  ASSUME NEW X, NEW s \in Seq(X), NEW t \in Seq(X), NEW T
  PROVE  Num(s \o t, T) = Num(s, T) + Num(t, T)
<1> DEFINE A == {i \in 1..Len(s) : s[i] \in T}
           B == {i \in 1..Len(t) : t[i] \in T}
           C == {i \in 1..Len(s \o t) : (s \o t)[i] \in T}
           D == {i \in 1..Len(s \o t) : i > Len(s) /\ (s \o t)[i] \in T}
           up == [i \in B |-> Len(s) + i]
<1>1. s \o t \in Seq(X) /\ Len(s \o t) = Len(s) + Len(t) /\ Len(s) \in Nat /\ Len(t) \in Nat
  BY LenProperties, ConcatProperties
<1>2. \A i \in 1..Len(s) : (s \o t)[i] = s[i]
  BY <1>1, ConcatProperties
<1>3. \A i \in 1..Len(t) : (s \o t)[Len(s) + i] = t[i]
  BY <1>1, ConcatProperties
<1>4. /\ Num(s, T) = Cardinality(A) /\ IsFiniteSet(A)
      /\ Num(t, T) = Cardinality(B) /\ IsFiniteSet(B)
      /\ Num(s \o t, T) = Cardinality(C) /\ IsFiniteSet(C)
  BY <1>1, NumIs
<1>5. up \in [B -> D]
  BY <1>1, <1>3
<1>6. \A i, j \in B : up[i] = up[j] => i = j
  BY <1>1
<1>7. \A d \in D : \E i \in B : up[i] = d
  <2> SUFFICES ASSUME NEW d \in D PROVE \E i \in B : up[i] = d
    OBVIOUS
  <2>1. d - Len(s) \in 1..Len(t) /\ Len(s) + (d - Len(s)) = d
    BY <1>1
  <2>2. d - Len(s) \in B
    BY <2>1, <1>3
  <2>3. up[d - Len(s)] = d
    BY <2>1, <2>2
  <2> QED BY <2>2, <2>3
<1>8. up \in Bijection(B, D)
  BY <1>5, <1>6, <1>7, Zenon DEF Bijection, Injection, Surjection, IsInjective
<1>9. IsFiniteSet(D) /\ Cardinality(D) = Cardinality(B)
  <2>1. ExistsBijection(B, D)
    BY <1>8 DEF ExistsBijection
  <2> HIDE DEF B, D
  <2> QED BY <1>4, <2>1, FS_Bijection
<1>10. C = A \cup D /\ A \cap D = {}
  BY <1>1, <1>2
<1> HIDE DEF A, B, C, D
<1>11. Cardinality(A \cup D) = Cardinality(A) + Cardinality(D) - Cardinality(A \cap D)
  BY <1>4, <1>9, FS_Union
<1>12. Cardinality({}) = 0
  BY FS_EmptySet
<1>13. Cardinality(A) \in Nat /\ Cardinality(B) \in Nat
  BY <1>4, FS_CardinalityType
<1>14. Num(s \o t, T) = Cardinality(A \cup D)
  BY <1>4, <1>10
<1>15. Cardinality(A \cap D) = 0
  BY <1>10, <1>12
<1> QED BY <1>4, <1>9, <1>11, <1>13, <1>14, <1>15

\* The count of a single element.
LEMMA NumOne ==
  ASSUME NEW b, NEW T
  PROVE  Num(<<b>>, T) = IF b \in T THEN 1 ELSE 0
<1>1. DOMAIN <<b>> = 1..1 /\ <<b>>[1] = b
  OBVIOUS
<1>2. CASE b \in T
  <2>1. {i \in DOMAIN <<b>> : <<b>>[i] \in T} = {1}
    BY <1>1, <1>2
  <2> QED BY <2>1, <1>2, FS_Singleton DEF Num
<1>3. CASE b \notin T
  <2>1. {i \in DOMAIN <<b>> : <<b>>[i] \in T} = {}
    BY <1>1, <1>3
  <2> QED BY <2>1, <1>3, FS_EmptySet DEF Num
<1> QED BY <1>2, <1>3

\* The count of none.
LEMMA NumEmpty ==
  ASSUME NEW T
  PROVE  Num(<<>>, T) = 0
<1>1. {i \in DOMAIN <<>> : <<>>[i] \in T} = {}
  OBVIOUS
<1> QED BY <1>1, FS_EmptySet DEF Num

\* One element more.
LEMMA NumAppend ==
  ASSUME NEW X, NEW s \in Seq(X), NEW b \in X, NEW T
  PROVE  Num(Append(s, b), T) = Num(s, T) + (IF b \in T THEN 1 ELSE 0)
<1> DEFINE last == <<b>>
<1>1. Append(s, b) = s \o last /\ last \in Seq(X)
  BY AppendIsConcat
<1>2. Num(last, T) = IF b \in T THEN 1 ELSE 0
  BY NumOne
<1> HIDE DEF last
<1>3. Num(s \o last, T) = Num(s, T) + Num(last, T)
  BY <1>1, NumConcat
<1> QED BY <1>1, <1>2, <1>3

\* One element less.
LEMMA NumTail ==
  ASSUME NEW X, NEW s \in Seq(X), s # <<>>, NEW T
  PROVE  Num(s, T) = (IF s[1] \in T THEN 1 ELSE 0) + Num(Tail(s), T)
<1> DEFINE first == <<s[1]>>
           rest == Tail(s)
<1>1. s = first \o rest /\ first \in Seq(X) /\ rest \in Seq(X)
  OBVIOUS
<1>2. Num(first, T) = IF s[1] \in T THEN 1 ELSE 0
  BY NumOne
<1> HIDE DEF first, rest
<1>3. Num(first \o rest, T) = Num(first, T) + Num(rest, T)
  BY <1>1, NumConcat
<1> QED BY <1>1, <1>2, <1>3 DEF rest

\* Where the elements of a concatenation are.
LEMMA ConcatIs ==
  ASSUME NEW X, NEW s \in Seq(X), NEW t \in Seq(X), NEW m, NEW n, Len(s) = m, Len(t) = n
  PROVE  /\ s \o t \in Seq(X) /\ Len(s \o t) = m + n /\ m \in Nat /\ n \in Nat
         /\ \A i \in 1..m : (s \o t)[i] = s[i]
         /\ \A i \in 1..n : (s \o t)[m + i] = t[i]
         /\ \A i \in 1..m + n : (s \o t)[i] = IF i <= m THEN s[i] ELSE t[i - m]
<1>1. /\ s \o t \in Seq(X) /\ Len(s \o t) = m + n
      /\ \A i \in 1..m + n : (s \o t)[i] = IF i <= m THEN s[i] ELSE t[i - m]
  BY ConcatProperties
<1>2. m \in Nat /\ n \in Nat
  BY LenProperties
<1>3. ASSUME NEW i \in 1..n PROVE (s \o t)[m + i] = t[i]
  <2>1. m + i \in 1..m + n /\ ~(m + i <= m) /\ m + i - m = i
    BY <1>2
  <2> QED BY <1>1, <2>1
<1> QED BY <1>1, <1>2, <1>3

\* What SLIP escapes; and where, in a frame, the bytes end that stand for the
\* first n of the packet, the END at its start not counted.
Escapable == {"END", "ESC"}
FirstOf(s, n) == [i \in 1..n |-> s[i]]
Offset(P, n)  == n + Num(FirstOf(P, n), Escapable)

\* How a value is sent.
LEMMA EscapedIs ==
  ASSUME NEW v \in Values
  PROVE  /\ Escaped(v) \in Seq(Values)
         /\ v \in Escapable => /\ Len(Escaped(v)) = 2 /\ Escaped(v)[1] = "ESC"
                               /\ Escaped(v)[2] = IF v = "END" THEN "ESC_END" ELSE "ESC_ESC"
         /\ v \notin Escapable => Len(Escaped(v)) = 1 /\ Escaped(v)[1] = v
<1>1. CASE v = "END"
  <2>1. v # "ESC" /\ ~(v # "END" /\ v # "ESC")
    BY <1>1
  <2>2. Escaped(v) = <<"ESC", "ESC_END">>
    BY <1>1, <2>1 DEF Escaped
  <2>3. "ESC" \in Values /\ "ESC_END" \in Values
    BY DEF Values, Special
  <2>4. <<"ESC", "ESC_END">> \in Seq(Values) /\ Len(<<"ESC", "ESC_END">>) = 2
    BY <2>3
  <2>5. <<"ESC", "ESC_END">>[1] = "ESC" /\ <<"ESC", "ESC_END">>[2] = "ESC_END"
    OBVIOUS
  <2>6. v \in Escapable
    BY <1>1 DEF Escapable
  <2> QED BY <1>1, <2>1, <2>2, <2>4, <2>5, <2>6
<1>2. CASE v = "ESC"
  <2>1. v # "END" /\ ~(v # "END" /\ v # "ESC")
    BY <1>2
  <2>2. Escaped(v) = <<"ESC", "ESC_ESC">>
    BY <1>2, <2>1 DEF Escaped
  <2>3. "ESC" \in Values /\ "ESC_ESC" \in Values
    BY DEF Values, Special
  <2>4. <<"ESC", "ESC_ESC">> \in Seq(Values) /\ Len(<<"ESC", "ESC_ESC">>) = 2
    BY <2>3
  <2>5. <<"ESC", "ESC_ESC">>[1] = "ESC" /\ <<"ESC", "ESC_ESC">>[2] = "ESC_ESC"
    OBVIOUS
  <2>6. v \in Escapable
    BY <1>2 DEF Escapable
  <2> QED BY <1>2, <2>1, <2>2, <2>4, <2>5, <2>6
<1>3. CASE v # "END" /\ v # "ESC"
  <2>1. Escaped(v) = <<v>>
    BY <1>3 DEF Escaped
  <2> QED BY <1>3, <2>1 DEF Escapable
<1> QED BY <1>1, <1>2, <1>3

\* Each value is behind the one before it.
LEMMA OffsetIs ==
  ASSUME NEW P \in Seq(Values)
  PROVE  /\ \A n \in 0..Len(P) : Offset(P, n) \in Nat
         /\ Offset(P, 0) = 0
         /\ \A n \in 1..Len(P) : Offset(P, n) = Offset(P, n - 1) + Len(Escaped(P[n]))
         /\ Offset(P, Len(P)) = Len(P) + Num(P, Escapable)
<1>1. Len(P) \in Nat /\ \A i \in 1..Len(P) : P[i] \in Values
  BY LenProperties, ElementOfSeq
<1>2. ASSUME NEW n \in 0..Len(P)
      PROVE  FirstOf(P, n) \in Seq(Values) /\ Len(FirstOf(P, n)) = n
  BY <1>1 DEF FirstOf
<1>3. ASSUME NEW n \in 0..Len(P) PROVE Offset(P, n) \in Nat
  <2>1. Num(FirstOf(P, n), Escapable) \in 0..n
    BY <1>2, NumIs
  <2> QED BY <1>1, <2>1 DEF Offset
<1>4. Offset(P, 0) = 0
  <2>1. FirstOf(P, 0) = <<>>
    BY DEF FirstOf
  <2> QED BY <2>1, NumEmpty DEF Offset
<1>5. ASSUME NEW n \in 1..Len(P)
      PROVE  Offset(P, n) = Offset(P, n - 1) + Len(Escaped(P[n]))
  <2>1. FirstOf(P, n) = Append(FirstOf(P, n - 1), P[n])
    BY <1>1 DEF FirstOf
  <2>2. n - 1 \in 0..Len(P) /\ P[n] \in Values
    BY <1>1
  <2>3. FirstOf(P, n - 1) \in Seq(Values) /\ Len(FirstOf(P, n - 1)) = n - 1
    BY <1>2, <2>2
  <2>4. Num(FirstOf(P, n), Escapable)
          = Num(FirstOf(P, n - 1), Escapable) + (IF P[n] \in Escapable THEN 1 ELSE 0)
    BY <2>1, <2>2, <2>3, NumAppend
  <2>5. Len(Escaped(P[n])) = IF P[n] \in Escapable THEN 2 ELSE 1
    BY <2>2, EscapedIs
  <2>6. Num(FirstOf(P, n - 1), Escapable) \in Nat
    <3>1. Num(FirstOf(P, n - 1), Escapable) \in 0..Len(FirstOf(P, n - 1))
      BY <2>3, NumIs
    <3> QED BY <2>2, <2>3, <3>1
  <2> QED BY <2>2, <2>4, <2>5, <2>6 DEF Offset
<1>6. FirstOf(P, Len(P)) = P
  BY LenProperties DEF FirstOf
<1> QED BY <1>3, <1>4, <1>5, <1>6 DEF Offset

\* The bytes that stand for the first n of the packet.
Laid(g, P, n) ==
  /\ g \in Seq(Values) /\ Len(g) = Offset(P, n)
  /\ \A j \in 1..n : /\ Offset(P, j) <= Offset(P, n)
                     /\ \A i \in 1..Len(Escaped(P[j])) : g[Offset(P, j - 1) + i] = Escaped(P[j])[i]

\* slip_tx lays a packet out like that.
LEMMA FlattenLays ==
  ASSUME NEW P \in Seq(Values), Len(P) > 0
  PROVE  Laid(FlattenSeq([i \in DOMAIN P |-> Escaped(P[i])]), P, Len(P))
<1> DEFINE seqs == [i \in DOMAIN P |-> Escaped(P[i])]
           len  == Len(P)
<1>1. DOMAIN P = 1..len /\ len \in Nat \ {0} /\ \A i \in 1..len : P[i] \in Values
  BY LenProperties, ElementOfSeq
<1>2. \A i \in 1..len : seqs[i] = Escaped(P[i]) /\ seqs[i] \in Seq(Values)
  BY <1>1, EscapedIs
<1>3. Len(seqs) = len
  BY <1>1, <1>2
<1> HIDE DEF seqs
<1>4. PICK g : Joins(g, seqs, len) /\ FlattenSeq(seqs) = g[len]
  BY <1>1, <1>3, FlattenIs
<1>5. \A n \in 1..len : g[n] = IF n = 1 THEN seqs[n] ELSE g[n - 1] \o seqs[n]
  BY <1>4 DEF Joins
<1> DEFINE Wrong == {n \in 1..len : ~Laid(g[n], P, n)}
<1>6. ASSUME Wrong # {} PROVE FALSE
  <2>1. Wrong \in SUBSET Nat OBVIOUS
  <2> HIDE DEF Wrong
  <2>2. PICK n \in Wrong : \A m \in Wrong : ~(m < n)
    BY <1>6, <2>1, Least
  <2> DEFINE e == Escaped(P[n])
  <2>3. n \in 1..len /\ ~Laid(g[n], P, n) /\ n \in Nat /\ len \in Nat
    BY <1>1 DEF Wrong
  <2>4. /\ e \in Seq(Values) /\ Len(e) \in Nat /\ seqs[n] = e
    BY <1>1, <1>2, <2>3, EscapedIs
  <2>5. /\ Offset(P, n) = Offset(P, n - 1) + Len(e) /\ Offset(P, n - 1) \in Nat
        /\ Offset(P, n) \in Nat
    BY <2>3, OffsetIs
  <2> HIDE DEF len, e
  <2>6. n # 1
    <3> SUFFICES ASSUME n = 1 PROVE FALSE
      OBVIOUS
    <3>1. g[n] = e
      BY <1>5, <2>3, <2>4
    <3>2. Offset(P, n - 1) = 0
      BY OffsetIs
    <3>3. ASSUME NEW j \in 1..n
          PROVE  /\ Offset(P, j) <= Offset(P, n)
                 /\ \A i \in 1..Len(Escaped(P[j])) :
                      g[n][Offset(P, j - 1) + i] = Escaped(P[j])[i]
      <4>1. j = n
        OBVIOUS
      <4>2. \A i \in 1..Len(e) : g[n][Offset(P, n - 1) + i] = e[i]
        BY <2>4, <3>1, <3>2
      <4> QED BY <2>5, <4>1, <4>2 DEF e
    <3>4. g[n] \in Seq(Values) /\ Len(g[n]) = Offset(P, n)
      BY <2>4, <2>5, <3>1, <3>2
    <3> QED BY <2>3, <3>3, <3>4 DEF Laid
  <2>7. n - 1 \in 1..len /\ n - 1 < n
    BY <2>3, <2>6
  <2>8. Laid(g[n - 1], P, n - 1)
    BY <2>2, <2>7 DEF Wrong
  <2> DEFINE h == g[n - 1]
  <2>9. g[n] = h \o e
    BY <1>5, <2>3, <2>4, <2>6
  <2>10. h \in Seq(Values) /\ Len(h) = Offset(P, n - 1)
    BY <2>8 DEF Laid
  <2> HIDE DEF h
  <2>11. /\ h \o e \in Seq(Values) /\ Len(h \o e) = Len(h) + Len(e)
         /\ \A i \in 1..Len(h) : (h \o e)[i] = h[i]
         /\ \A i \in 1..Len(e) : (h \o e)[Len(h) + i] = e[i]
    BY <2>4, <2>10, ConcatIs
  <2>12. ASSUME NEW j \in 1..n
         PROVE  /\ Offset(P, j) <= Offset(P, n)
                /\ \A i \in 1..Len(Escaped(P[j])) :
                     g[n][Offset(P, j - 1) + i] = Escaped(P[j])[i]
    <3>1. CASE j = n
      BY <2>5, <2>9, <2>10, <2>11, <3>1 DEF e
    <3>2. CASE j # n
      <4>1. j \in 1..n - 1 /\ j \in 1..len
        BY <2>3, <3>2
      <4>2. /\ Offset(P, j) <= Offset(P, n - 1)
            /\ \A i \in 1..Len(Escaped(P[j])) : h[Offset(P, j - 1) + i] = Escaped(P[j])[i]
        BY <2>8, <4>1 DEF Laid, h
      <4>3. /\ Offset(P, j) = Offset(P, j - 1) + Len(Escaped(P[j]))
            /\ Offset(P, j) \in Nat /\ Offset(P, j - 1) \in Nat
        <5>1. j \in 1..Len(P) /\ j \in 0..Len(P) /\ j - 1 \in 0..Len(P)
          BY <4>1, <2>3 DEF len
        <5> QED BY <5>1, OffsetIs
      <4>4. Len(Escaped(P[j])) \in Nat
        BY <1>1, <4>1, EscapedIs
      <4>5. ASSUME NEW i \in 1..Len(Escaped(P[j]))
            PROVE  g[n][Offset(P, j - 1) + i] = Escaped(P[j])[i]
        <5>1. Offset(P, j - 1) + i \in 1..Len(h)
          BY <2>5, <2>10, <4>2, <4>3, <4>4
        <5> QED BY <2>9, <2>11, <4>2, <5>1
      <4> QED BY <2>5, <4>2, <4>3, <4>5
    <3> QED BY <3>1, <3>2
  <2>13. g[n] \in Seq(Values) /\ Len(g[n]) = Offset(P, n)
    BY <2>5, <2>9, <2>10, <2>11
  <2> QED BY <2>3, <2>12, <2>13 DEF Laid
<1>7. Laid(g[len], P, len)
  BY <1>1, <1>6
<1> QED BY <1>4, <1>7 DEF seqs

\* Where each byte of a packet is in its frame.
LEMMA FrameIs ==
  ASSUME NEW P \in Seq(Values), Len(P) > 0
  PROVE  /\ SlipFrame(P) \in Seq(Values)
         /\ Len(SlipFrame(P)) = Offset(P, Len(P)) + 2
         /\ SlipFrame(P)[1] = "END" /\ SlipFrame(P)[Offset(P, Len(P)) + 2] = "END"
         /\ \A n \in 1..Len(P) :
              /\ Offset(P, n) <= Offset(P, Len(P))
              /\ \A i \in 1..Len(Escaped(P[n])) :
                   SlipFrame(P)[1 + Offset(P, n - 1) + i] = Escaped(P[n])[i]
<1> DEFINE end == <<"END">>
           body == FlattenSeq([i \in DOMAIN P |-> Escaped(P[i])])
           len == Offset(P, Len(P))
<1>1. Len(P) \in Nat /\ len \in Nat
  BY OffsetIs, LenProperties
<1>2. Laid(body, P, Len(P))
  BY FlattenLays
<1>3. end \in Seq(Values) /\ Len(end) = 1 /\ end[1] = "END"
  <2>1. "END" \in Values
    BY DEF Values, Special
  <2> QED BY <2>1
<1>4. SlipFrame(P) = (end \o body) \o end
  BY DEF SlipFrame
<1> HIDE DEF end, body, len
<1>5. body \in Seq(Values) /\ Len(body) = len
  BY <1>2 DEF Laid, len
<1>6. /\ end \o body \in Seq(Values) /\ Len(end \o body) = 1 + len
      /\ \A i \in 1..1 + len : (end \o body)[i] = IF i <= 1 THEN end[i] ELSE body[i - 1]
  <2>1. /\ end \o body \in Seq(Values) /\ Len(end \o body) = Len(end) + Len(body)
        /\ \A i \in 1..Len(end) + Len(body) :
             (end \o body)[i] = IF i <= Len(end) THEN end[i] ELSE body[i - Len(end)]
    BY <1>3, <1>5, ConcatProperties
  <2> QED BY <1>3, <1>5, <2>1
<1>7. /\ SlipFrame(P) \in Seq(Values) /\ Len(SlipFrame(P)) = len + 2
      /\ \A i \in 1..len + 2 :
           SlipFrame(P)[i] = IF i <= 1 + len THEN (end \o body)[i] ELSE end[i - (1 + len)]
  <2> DEFINE pre == end \o body
  <2>1. pre \in Seq(Values) /\ Len(pre) = 1 + len
    BY <1>6
  <2> HIDE DEF pre
  <2>2. /\ pre \o end \in Seq(Values) /\ Len(pre \o end) = Len(pre) + Len(end)
        /\ \A i \in 1..Len(pre) + Len(end) :
             (pre \o end)[i] = IF i <= Len(pre) THEN pre[i] ELSE end[i - Len(pre)]
    BY <1>3, <2>1, ConcatProperties
  <2>3. Len(pre) + Len(end) = len + 2
    BY <1>1, <1>3, <2>1
  <2>4. SlipFrame(P) = pre \o end
    BY <1>4 DEF pre
  <2>5. \A i \in 1..len + 2 : SlipFrame(P)[i] = IF i <= 1 + len THEN pre[i] ELSE end[i - (1 + len)]
    BY <2>1, <2>2, <2>3, <2>4
  <2>6. SlipFrame(P) \in Seq(Values) /\ Len(SlipFrame(P)) = len + 2
    BY <2>2, <2>3, <2>4
  <2> QED BY <2>5, <2>6 DEF pre
<1>8. SlipFrame(P)[1] = "END" /\ SlipFrame(P)[len + 2] = "END"
  <2>1. 1 \in 1..len + 2 /\ 1 \in 1..1 + len /\ len + 2 \in 1..len + 2 /\ ~(len + 2 <= 1 + len)
        /\ len + 2 - (1 + len) = 1
    BY <1>1
  <2>2. 1 <= 1 + len /\ 1 <= 1
    BY <1>1
  <2>3. SlipFrame(P)[1] = (end \o body)[1] /\ (end \o body)[1] = end[1]
    BY <1>6, <1>7, <2>1, <2>2
  <2>4. SlipFrame(P)[len + 2] = end[1]
    <3> DEFINE last == len + 2
    <3>1. last \in 1..len + 2 /\ ~(last <= 1 + len) /\ last - (1 + len) = 1
      BY <1>1
    <3> HIDE DEF last
    <3>2. SlipFrame(P)[last] = end[1]
      BY <1>7, <3>1
    <3> QED BY <3>2 DEF last
  <2> QED BY <1>3, <2>3, <2>4
<1>9. ASSUME NEW n \in 1..Len(P)
      PROVE  /\ Offset(P, n) <= len
             /\ \A i \in 1..Len(Escaped(P[n])) :
                  SlipFrame(P)[1 + Offset(P, n - 1) + i] = Escaped(P[n])[i]
  <2>1. /\ Offset(P, n) <= len
        /\ \A i \in 1..Len(Escaped(P[n])) : body[Offset(P, n - 1) + i] = Escaped(P[n])[i]
    BY <1>2 DEF Laid, len
  <2>2. /\ Offset(P, n) = Offset(P, n - 1) + Len(Escaped(P[n]))
        /\ Offset(P, n) \in Nat /\ Offset(P, n - 1) \in Nat
    <3>1. n \in 0..Len(P) /\ n - 1 \in 0..Len(P)
      BY <1>1
    <3> QED BY <3>1, OffsetIs
  <2>3. Len(Escaped(P[n])) \in Nat
    BY EscapedIs, ElementOfSeq
  <2>4. ASSUME NEW i \in 1..Len(Escaped(P[n]))
        PROVE  SlipFrame(P)[1 + Offset(P, n - 1) + i] = Escaped(P[n])[i]
    <3> DEFINE j == 1 + Offset(P, n - 1) + i
    <3>1. j \in 1..len + 2 /\ j \in 1..1 + len /\ j <= 1 + len /\ ~(j <= 1)
          /\ j - 1 = Offset(P, n - 1) + i
      BY <1>1, <2>1, <2>2, <2>3
    <3> HIDE DEF j
    <3>2. SlipFrame(P)[j] = body[j - 1]
      BY <1>6, <1>7, <3>1
    <3> QED BY <2>1, <3>1, <3>2 DEF j
  <2> QED BY <2>1, <2>4
<1> QED BY <1>7, <1>8, <1>9 DEF len

\* What a packet is made of.
LEMMA PacketIs ==
  ASSUME NEW header \in Headers, NEW payload \in Payloads
  PROVE  LET P == Packet(header, payload)
             d == IF header = "checked" THEN 2 ELSE 1
         IN /\ header \in {"plain", "checked"} /\ header \in Values
            /\ payload \in Seq(Values)
            /\ P \in Seq(Values) /\ Len(P) = d + Len(payload) /\ P[1] = header
            /\ header = "checked" => P[2] = "crc"
            /\ \A i \in 1..Len(payload) : P[d + i] = payload[i]
            /\ Num(P, Escapable) = Num(payload, Escapable)
<1> DEFINE P == Packet(header, payload)
           first == <<header>>
           crc == <<"crc">>
<1>1. header \in {"plain", "checked"} /\ payload \in Seq(Values \ {"crc"})
  BY UartAssumption
<1>2. header \in Values /\ "crc" \in Values
  BY <1>1 DEF Values
<1>3. payload \in Seq(Values) /\ Len(payload) \in Nat
  BY <1>1, SeqMonotonic, LenProperties
<1>4. /\ first \in Seq(Values) /\ Len(first) = 1 /\ first[1] = header
      /\ crc \in Seq(Values) /\ Len(crc) = 1 /\ crc[1] = "crc"
  BY <1>2
<1>5. Num(first, Escapable) = 0 /\ Num(crc, Escapable) = 0
  <2>1. header \notin Escapable /\ "crc" \notin Escapable
    BY <1>1 DEF Escapable
  <2> QED BY <2>1, NumOne
<1>6. CASE header = "checked"
  <2>1. P = (first \o crc) \o payload
    BY <1>6 DEF Packet
  <2> HIDE DEF P, first, crc
  <2>2. /\ first \o crc \in Seq(Values) /\ Len(first \o crc) = 2
        /\ (first \o crc)[1] = header /\ (first \o crc)[2] = "crc"
    <3>1. /\ first \o crc \in Seq(Values) /\ Len(first \o crc) = 1 + 1
          /\ \A i \in 1..1 + 1 : (first \o crc)[i] = IF i <= 1 THEN first[i] ELSE crc[i - 1]
      <4>1. /\ first \o crc \in Seq(Values) /\ Len(first \o crc) = Len(first) + Len(crc)
            /\ \A i \in 1..Len(first) + Len(crc) :
                 (first \o crc)[i] = IF i <= Len(first) THEN first[i] ELSE crc[i - Len(first)]
        BY <1>4, ConcatProperties
      <4> QED BY <1>4, <4>1
    <3>2. 1 \in 1..1 + 1 /\ 2 \in 1..1 + 1 /\ 2 - 1 = 1 /\ ~(2 <= 1) /\ 1 + 1 = 2
      OBVIOUS
    <3> QED BY <1>4, <3>1, <3>2
  <2>3. Num(first \o crc, Escapable) = 0
    <3>1. Num(first \o crc, Escapable) = Num(first, Escapable) + Num(crc, Escapable)
      BY <1>4, NumConcat
    <3> QED BY <1>5, <3>1
  <2> DEFINE pre == first \o crc
  <2> HIDE DEF pre
  <2>4. /\ pre \o payload \in Seq(Values) /\ Len(pre \o payload) = 2 + Len(payload)
        /\ \A i \in 1..2 + Len(payload) :
             (pre \o payload)[i] = IF i <= 2 THEN pre[i] ELSE payload[i - 2]
    BY <1>3, <2>2, ConcatIs DEF pre
  <2>5. \A i \in 1..Len(payload) : P[2 + i] = payload[i]
    BY <1>3, <2>1, <2>4 DEF pre
  <2>6. P[1] = header /\ P[2] = "crc"
    BY <1>3, <2>1, <2>2, <2>4 DEF pre
  <2>7. Num(P, Escapable) = Num(payload, Escapable)
    <3>1. Num(pre \o payload, Escapable) = Num(pre, Escapable) + Num(payload, Escapable)
      BY <1>3, <2>2, NumConcat DEF pre
    <3>2. Num(payload, Escapable) \in Nat
      BY <1>3, NumNat
    <3> QED BY <2>1, <2>3, <3>1, <3>2 DEF pre
  <2> QED BY <1>1, <1>2, <1>3, <1>6, <2>1, <2>4, <2>5, <2>6, <2>7 DEF P, pre
<1>7. CASE header # "checked"
  <2>1. P = first \o payload
    <3>1. P = (first \o <<>>) \o payload
      BY <1>7 DEF Packet
    <3> QED BY <1>4, <3>1, ConcatEmptySeq
  <2> HIDE DEF P, first, crc
  <2>4. /\ first \o payload \in Seq(Values) /\ Len(first \o payload) = 1 + Len(payload)
        /\ \A i \in 1..1 + Len(payload) :
             (first \o payload)[i] = IF i <= 1 THEN first[i] ELSE payload[i - 1]
    <3>1. /\ first \o payload \in Seq(Values) /\ Len(first \o payload) = Len(first) + Len(payload)
          /\ \A i \in 1..Len(first) + Len(payload) :
               (first \o payload)[i] = IF i <= Len(first) THEN first[i] ELSE payload[i - Len(first)]
      BY <1>3, <1>4, ConcatProperties
    <3> QED BY <1>3, <1>4, <3>1
  <2>5. \A i \in 1..Len(payload) : P[1 + i] = payload[i]
    BY <1>3, <2>1, <2>4
  <2>6. P[1] = header
    BY <1>3, <1>4, <2>1, <2>4
  <2>7. Num(P, Escapable) = Num(payload, Escapable)
    <3>1. Num(first \o payload, Escapable) = Num(first, Escapable) + Num(payload, Escapable)
      BY <1>3, <1>4, NumConcat
    <3>2. Num(payload, Escapable) \in Nat
      BY <1>3, NumNat
    <3> QED BY <1>5, <2>1, <3>1, <3>2
  <2> QED BY <1>1, <1>2, <1>3, <1>7, <2>1, <2>4, <2>5, <2>6, <2>7 DEF P
<1> QED BY <1>6, <1>7

\* The burst that the thread works on lies among the bytes of the ring.
BurstWithin ==
  rx.step = "burst" =>
    /\ ring.rd <= rx.at /\ rx.at <= rx.end /\ ring.rd < rx.end
    /\ rx.end <= ring.wr \/ ring.wr < ring.rd

\* The inductive invariant of the link: its types and the burst.
LinkInv == UartTypeOK /\ BurstWithin

\* Where the bytes that the thread has not seen begin.
From == IF rx.step = "burst" THEN rx.at ELSE ring.rd

\* The bytes that the thread has not seen are a slice of the ring.
LEMMA UnseenIs == Unseen = Slice(ring.buf, From, ring.wr)
  BY DEF Unseen, Slice, From

\* So are those that the ring holds.
LEMMA HeldIs == Held = Slice(ring.buf, ring.rd, ring.wr)
  BY DEF Held, Slice

\* A single byte harms its frame.
LEMMA HarmIs ==
  ASSUME NEW b
  PROVE  Harm(<<b>>) = harmed \cup {b.frame}
<1>1. DOMAIN <<b>> = {1} /\ <<b>>[1] = b
  OBVIOUS
<1> QED BY <1>1 DEF Harm

\* What the invariant says of the ring.
LEMMA RingIs ==
  ASSUME LinkInv
  PROVE  /\ RingSize \in Nat /\ RingSize > 1
         /\ ring.buf \in [0..RingSize - 1 -> Bytes]
         /\ ring.wr \in 0..RingSize - 1 /\ ring.rd \in 0..RingSize - 1 /\ ring.rd \in 0..RingSize
         /\ From \in 0..RingSize /\ rx.at \in 0..RingSize /\ rx.end \in 0..RingSize
         /\ rx.step \in {"check", "burst", "wait"}
         /\ Unseen \in Seq(Bytes) /\ Held \in Seq(Bytes)
         /\ Len(Unseen) = Span(From, ring.wr) /\ Len(Held) = Span(ring.rd, ring.wr)
         /\ Len(Unseen) <= Len(Held)
<1>1. /\ RingSize \in Nat /\ RingSize > 1
      /\ ring.buf \in [0..RingSize - 1 -> Bytes]
      /\ ring.wr \in 0..RingSize - 1 /\ ring.rd \in 0..RingSize - 1 /\ ring.rd \in 0..RingSize
      /\ rx.at \in 0..RingSize /\ rx.end \in 0..RingSize
      /\ rx.step \in {"check", "burst", "wait"}
  <2>1. RingSize \in Nat /\ RingSize > 1
    BY UartAssumption
  <2>2. /\ ring.buf \in [0..RingSize - 1 -> Bytes]
        /\ ring.wr \in 0..RingSize - 1 /\ ring.rd \in 0..RingSize - 1
        /\ rx.at \in 0..RingSize /\ rx.end \in 0..RingSize
        /\ rx.step \in {"check", "burst", "wait"}
    BY DEF LinkInv, UartTypeOK
  <2> QED BY <2>1, <2>2
<1>2. From \in 0..RingSize
  BY <1>1 DEF From
<1>3. Span(From, ring.wr) <= Span(ring.rd, ring.wr)
  BY <1>1 DEF From, Span, LinkInv, BurstWithin
<1>4. /\ Unseen \in Seq(Bytes) /\ Held \in Seq(Bytes)
      /\ Len(Unseen) = Span(From, ring.wr) /\ Len(Held) = Span(ring.rd, ring.wr)
  BY <1>1, <1>2, SliceIs, UnseenIs, HeldIs
<1> QED BY <1>1, <1>2, <1>3, <1>4

\* A byte that arrives goes to the end of the queue or is dropped.
LEMMA ArriveQueues ==
  ASSUME LinkInv, ByteArrives
  PROVE  \/ /\ Unseen' = Append(Unseen, Head(line)) /\ Held' = Append(Held, Head(line))
            /\ Len(Held) < RingSize - 1 /\ harmed' = harmed
         \/ /\ Unseen' = Unseen /\ Held' = Held
            /\ harmed' = harmed \cup {Head(line).frame}
<1> DEFINE b == Head(line)
<1>0. b \in Bytes /\ Put(b) /\ rx'.step = rx.step /\ rx'.at = rx.at
  BY DEF LinkInv, UartTypeOK, ByteArrives, Put
<1> HIDE DEF b
<1>1. /\ Unseen' = Slice(ring'.buf, From', ring'.wr)
      /\ Held' = Slice(ring'.buf, ring'.rd, ring'.wr)
  BY DEF Unseen, Held, From, Slice
<1>2. CASE Next1(ring.wr) = ring.rd
  <2>1. ring' = ring /\ harmed' = Harm(<<b>>)
    BY <1>0, <1>2 DEF Put
  <2>2. From' = From
    BY <1>0, <2>1 DEF From
  <2> QED BY <1>1, <2>1, <2>2, HarmIs, UnseenIs, HeldIs DEF b
<1>3. CASE Next1(ring.wr) # ring.rd
  <2>1. /\ ring'.buf = [ring.buf EXCEPT ![ring.wr] = b]
        /\ ring'.wr = Next1(ring.wr) /\ ring'.rd = ring.rd /\ harmed' = harmed
    BY <1>0, <1>3 DEF Put, LinkInv, UartTypeOK
  <2>2. From' = From
    BY <1>0, <2>1 DEF From
  <2>3. Len(Held) < RingSize - 1
    <3>1. Next1(ring.wr) = IF ring.wr + 1 < RingSize THEN ring.wr + 1 ELSE 0
      <4> DEFINE m == ring.wr + 1
      <4>1. m \in Nat /\ m < 2 * RingSize
        BY RingIs
      <4> HIDE DEF m
      <4>2. m % RingSize = IF m < RingSize THEN m ELSE m - RingSize
        BY <4>1, RingIs, ModIs
      <4> QED BY <4>2, RingIs DEF m, Next1
    <3>2. ring.wr + 1 < RingSize => ring.wr + 1 # ring.rd
      BY <1>3, <3>1
    <3>3. ~(ring.wr + 1 < RingSize) => ring.rd # 0
      BY <1>3, <3>1
    <3>4. Span(ring.rd, ring.wr) < RingSize - 1
      <4> DEFINE r == ring.rd
                 w == ring.wr
      <4>1. /\ RingSize \in Nat /\ r \in 0..RingSize - 1 /\ w \in 0..RingSize - 1
            /\ w + 1 < RingSize => w + 1 # r
            /\ ~(w + 1 < RingSize) => r # 0
        BY <3>2, <3>3, RingIs
      <4> HIDE DEF r, w
      <4>2. Span(r, w) < RingSize - 1
        BY <4>1 DEF Span
      <4> QED BY <4>2 DEF r, w
    <3> QED BY <3>4, RingIs
  <2>4. Len(Unseen) < RingSize - 1
    BY <2>3, RingIs
  <2>5. Unseen' = Append(Unseen, b)
    <3>1. Len(Slice(ring.buf, From, ring.wr)) < RingSize - 1
      BY <2>4, UnseenIs
    <3>2. Slice([ring.buf EXCEPT ![ring.wr] = b], From, Next1(ring.wr))
            = Append(Slice(ring.buf, From, ring.wr), b)
      <4> DEFINE buf == ring.buf
                 r == From
                 w == ring.wr
      <4>1. /\ buf \in [0..RingSize - 1 -> Bytes] /\ r \in 0..RingSize /\ w \in 0..RingSize - 1
            /\ Len(Slice(buf, r, w)) < RingSize - 1
        BY <3>1, RingIs
      <4> HIDE DEF buf, r, w
      <4>2. Slice([buf EXCEPT ![w] = b], r, Next1(w)) = Append(Slice(buf, r, w), b)
        BY <1>0, <4>1, SlicePut
      <4> QED BY <4>2 DEF buf, r, w
    <3> QED BY <1>1, <2>1, <2>2, <3>2, UnseenIs
  <2>6. Held' = Append(Held, b)
    <3>1. Len(Slice(ring.buf, ring.rd, ring.wr)) < RingSize - 1
      BY <2>3, HeldIs
    <3>2. Slice([ring.buf EXCEPT ![ring.wr] = b], ring.rd, Next1(ring.wr))
            = Append(Slice(ring.buf, ring.rd, ring.wr), b)
      <4> DEFINE buf == ring.buf
                 r == ring.rd
                 w == ring.wr
      <4>1. /\ buf \in [0..RingSize - 1 -> Bytes] /\ r \in 0..RingSize /\ w \in 0..RingSize - 1
            /\ Len(Slice(buf, r, w)) < RingSize - 1
        BY <3>1, RingIs
      <4> HIDE DEF buf, r, w
      <4>2. Slice([buf EXCEPT ![w] = b], r, Next1(w)) = Append(Slice(buf, r, w), b)
        BY <1>0, <4>1, SlicePut
      <4> QED BY <4>2 DEF buf, r, w
    <3> QED BY <1>1, <2>1, <2>2, <3>2, HeldIs
  <2> QED BY <2>1, <2>3, <2>5, <2>6 DEF b
<1> QED BY <1>2, <1>3

\* The thread takes the byte in front of those that it has not seen.
LEMMA HandleTakes ==
  ASSUME LinkInv, RxByte
  PROVE  /\ Unseen # <<>> /\ ring.buf[rx.at] = Unseen[1] /\ Unseen[1] \in Bytes
         /\ Unseen' = Tail(Unseen) /\ Held' = Held
<1>1. /\ rx.step = "burst" /\ rx.at # rx.end /\ ring' = ring
      /\ rx'.step = "burst" /\ rx'.at = rx.at + 1
  BY DEF RxByte, LinkInv, UartTypeOK
<1>2. From = rx.at /\ From' = rx.at + 1
  BY <1>1 DEF From
<1>3. rx.at \in 0..RingSize - 1 /\ rx.at # ring.wr
  BY <1>1, RingIs DEF LinkInv, BurstWithin
<1>4. /\ Unseen' = Slice(ring.buf, rx.at + 1, ring.wr)
      /\ Held' = Slice(ring.buf, ring.rd, ring.wr)
  BY <1>1, <1>2 DEF Unseen, Held, From, Slice
<1>5. Unseen = Slice(ring.buf, rx.at, ring.wr)
  BY <1>2, UnseenIs
<1>6. Unseen # <<>> /\ ring.buf[rx.at] = Unseen[1] /\ Unseen' = Tail(Unseen)
  BY <1>3, <1>4, <1>5, RingIs, SliceTake
<1>7. Unseen[1] \in Bytes
  BY <1>3, <1>6, RingIs
<1> QED BY <1>4, <1>6, <1>7, HeldIs

\* The thread looks at the ring when it begins, and gives bytes back when it
\* ends; none is lost to it.
LEMMA BeginKeeps ==
  ASSUME LinkInv, RxBegin
  PROVE  Unseen' = Unseen /\ Held' = Held
<1>1. /\ rx.step = "check" /\ ring' = ring /\ rx'.step = "burst" /\ rx'.at = ring.rd
  BY DEF RxBegin, LinkInv, UartTypeOK
<1> QED BY <1>1 DEF Unseen, Held

\* uart_rx_process gives back the bytes of its burst: the front of the queue.
LEMMA EndGivesBack ==
  ASSUME LinkInv, RxEnd
  PROVE  /\ Unseen' = Unseen
         /\ \E n \in 1..Len(Held) : Held' = SubSeq(Held, n + 1, Len(Held))
<1>1. /\ rx.step = "burst" /\ rx.at = rx.end /\ ring'.buf = ring.buf /\ ring'.wr = ring.wr
      /\ ring'.rd = rx.end % RingSize /\ rx'.step = "check"
  BY DEF RxEnd, LinkInv, UartTypeOK
<1>2. /\ ring.rd < rx.end /\ (rx.end <= ring.wr \/ ring.wr < ring.rd)
      /\ rx.end \in 1..RingSize
  BY <1>1, RingIs DEF LinkInv, BurstWithin
<1>3. From = rx.end /\ From' = rx.end % RingSize
  BY <1>1 DEF From
<1>4. /\ Unseen' = Slice(ring.buf, rx.end % RingSize, ring.wr)
      /\ Held' = Slice(ring.buf, rx.end % RingSize, ring.wr)
  BY <1>1, <1>3 DEF Unseen, Held, From, Slice
<1>5. /\ Slice(ring.buf, rx.end % RingSize, ring.wr) = Slice(ring.buf, rx.end, ring.wr)
      /\ rx.end - ring.rd \in 1..Len(Held)
      /\ Slice(ring.buf, rx.end, ring.wr) = SubSeq(Held, rx.end - ring.rd + 1, Len(Held))
  BY <1>2, RingIs, HeldIs, SliceDrop
<1>6. Unseen = Slice(ring.buf, rx.end, ring.wr)
  BY <1>3, UnseenIs
<1> QED BY <1>4, <1>5, <1>6

\* Every other step leaves the ring and the thread's place in it.
LEMMA OthersKeep ==
  ASSUME LinkInv,
         \/ ControllerSends \/ ByteWhileAsleep \/ LineFault \/ RxWait \/ RxNoticed \/ Sleeping
         \/ UNCHANGED uartVars
  PROVE  Unseen' = Unseen /\ Held' = Held
<1>1. CASE \/ ControllerSends \/ ByteWhileAsleep \/ LineFault \/ Sleeping \/ UNCHANGED uartVars
  <2>1. ring' = ring /\ rx' = rx
    BY <1>1 DEF ControllerSends, ByteWhileAsleep, LineFault, Sleeping, ArmWakeUp, ClearVeto,
         DisableSleep, DeepSleep, WakeUp, uartVars
  <2> QED BY <2>1 DEF Unseen, Held
<1>2. CASE RxWait \/ RxNoticed
  <2>1. ring' = ring /\ rx.step # "burst" /\ rx'.step # "burst"
    <3>1. rx'.step = "wait" \/ rx'.step = "check"
      BY <1>2 DEF RxWait, RxNoticed, LinkInv, UartTypeOK
    <3>2. ring' = ring /\ (rx.step = "check" \/ rx.step = "wait")
      BY <1>2 DEF RxWait, RxNoticed
    <3> QED BY <3>1, <3>2
  <2> QED BY <2>1 DEF Unseen, Held
<1> QED BY <1>1, <1>2

\* The states of the decoder.
Slips == [got : Seq(Bytes), limit : {0, MaxLength}, escape : BOOLEAN]

\* A byte taken out of its escape.
LEMMA UnescapedIs ==
  ASSUME NEW b \in Bytes
  PROVE  /\ Unescaped(b) \in Bytes /\ Unescaped(b).frame = b.frame
         /\ Unescaped(b).val = IF b.val = "ESC_END" THEN "END" ELSE "ESC"
         /\ Unescaped(b) = Byte(Unescaped(b).val, b.frame)
<1>1. "END" \in Values /\ "ESC" \in Values
  BY DEF Values, Special
<1> QED BY <1>1 DEF Unescaped, Byte, Bytes

\* What slip_rx does with a byte that completes no packet.
LEMMA SlipRxIs ==
  ASSUME NEW s \in Slips, NEW b \in Bytes, Len(s.got) <= s.limit,
         NEW t, t = SlipRx(s, b)
  PROVE  /\ t \in Slips /\ t.limit = s.limit /\ Len(t.got) <= t.limit
         /\ b.val = "END" /\ s.escape = FALSE => t = s
         /\ b.val = "END" /\ s.escape = TRUE => t.got = <<>> /\ t.escape = FALSE
         /\ b.val = "ESC" /\ s.escape = FALSE => t.got = s.got /\ t.escape = TRUE
         /\ b.val \notin {"END", "ESC"} /\ s.escape = FALSE =>
              /\ t.escape = FALSE
              /\ t.got = IF Len(s.got) = s.limit THEN s.got ELSE Append(s.got, b)
         /\ b.val \in {"ESC_END", "ESC_ESC"} /\ s.escape = TRUE =>
              /\ t.escape = FALSE
              /\ t.got = IF Len(s.got) = s.limit THEN s.got ELSE Append(s.got, Unescaped(b))
         /\ b.val \notin {"ESC_END", "ESC_ESC"} /\ s.escape = TRUE => t.got = <<>> /\ t.escape = FALSE
<1> DEFINE plain == [s EXCEPT !.escape = FALSE]
           error == [plain EXCEPT !.got = <<>>]
<1>0. s = [got |-> s.got, limit |-> s.limit, escape |-> s.escape] /\ s.got \in Seq(Bytes)
      /\ s.limit \in {0, MaxLength} /\ s.limit \in Nat /\ s.escape \in BOOLEAN
      /\ Len(s.got) \in Nat
  <2>1. MaxLength \in Nat
    BY UartAssumption
  <2> QED BY <2>1, LenProperties DEF Slips
<1>1. /\ plain \in Slips /\ plain.got = s.got /\ plain.limit = s.limit /\ plain.escape = FALSE
      /\ error \in Slips /\ error.got = <<>> /\ error.limit = s.limit /\ error.escape = FALSE
      /\ Len(error.got) = 0
  BY <1>0, EmptySeq DEF Slips
<1> HIDE DEF plain, error
<1>2. ASSUME NEW u \in Slips, NEW c \in Bytes, u.got = s.got, u.limit = s.limit
      PROVE  /\ SlipAppend(u, c) \in Slips /\ SlipAppend(u, c).limit = s.limit
             /\ SlipAppend(u, c).escape = u.escape
             /\ SlipAppend(u, c).got = IF Len(s.got) = s.limit THEN s.got ELSE Append(s.got, c)
             /\ Len(SlipAppend(u, c).got) <= s.limit
  <2>1. Append(u.got, c) \in Seq(Bytes) /\ Len(Append(u.got, c)) = Len(s.got) + 1
    BY <1>0, <1>2, AppendProperties
  <2>2. CASE Len(u.got) = u.limit
    BY <1>2, <2>2 DEF SlipAppend
  <2>3. CASE Len(u.got) # u.limit
    <3>1. SlipAppend(u, c) = [u EXCEPT !.got = Append(u.got, c)]
      BY <2>3 DEF SlipAppend
    <3>2. /\ SlipAppend(u, c) \in Slips /\ SlipAppend(u, c).got = Append(u.got, c)
          /\ SlipAppend(u, c).limit = u.limit /\ SlipAppend(u, c).escape = u.escape
      BY <2>1, <3>1 DEF Slips
    <3> QED BY <1>0, <1>2, <2>1, <2>3, <3>2
  <2> QED BY <2>2, <2>3
<1>3. CASE b.val = "END"
  <2>1. t = IF s.escape THEN error ELSE s
    BY <1>3 DEF SlipRx, error, plain
  <2> QED BY <1>0, <1>1, <1>3, <2>1
<1>4. CASE b.val # "END" /\ s.escape
  <2>1. t = IF b.val \in {"ESC_END", "ESC_ESC"} THEN SlipAppend(plain, Unescaped(b)) ELSE error
    BY <1>4 DEF SlipRx, error, plain
  <2>2. Unescaped(b) \in Bytes
    BY UnescapedIs
  <2>3. CASE b.val \in {"ESC_END", "ESC_ESC"}
    <3>1. t = SlipAppend(plain, Unescaped(b))
      BY <2>1, <2>3
    <3>2. /\ t \in Slips /\ t.limit = s.limit /\ t.escape = FALSE /\ Len(t.got) <= s.limit
          /\ t.got = IF Len(s.got) = s.limit THEN s.got ELSE Append(s.got, Unescaped(b))
      BY <1>1, <1>2, <2>2, <3>1
    <3> QED BY <1>4, <2>3, <3>2
  <2>4. CASE b.val \notin {"ESC_END", "ESC_ESC"}
    <3>1. t = error
      BY <2>1, <2>4
    <3> QED BY <1>0, <1>1, <1>4, <2>4, <3>1
  <2> QED BY <2>3, <2>4
<1>5. CASE b.val = "ESC" /\ ~s.escape
  <2>1. t = [s EXCEPT !.escape = TRUE]
    BY <1>5 DEF SlipRx
  <2>2. t \in Slips /\ t.got = s.got /\ t.limit = s.limit /\ t.escape = TRUE
    BY <1>0, <2>1 DEF Slips
  <2> QED BY <1>5, <2>2
<1>6. CASE b.val \notin {"END", "ESC"} /\ ~s.escape
  <2>1. t = SlipAppend(s, b)
    BY <1>6 DEF SlipRx
  <2>2. /\ t \in Slips /\ t.limit = s.limit /\ t.escape = s.escape /\ Len(t.got) <= s.limit
        /\ t.got = IF Len(s.got) = s.limit THEN s.got ELSE Append(s.got, b)
    BY <1>2, <2>1
  <2> QED BY <1>6, <2>2
<1> QED BY <1>3, <1>4, <1>5, <1>6

\* What rx_buffer_callback is given.
Packets == [kind : {"plain", "checked"}, data : Seq(Bytes)]

\* The kinds of a packet.
LEMMA KindsIs ==
  ASSUME NEW v, NEW kind \in Kinds(v)
  PROVE  kind \in {"plain", "checked", "other"}
<1>1. CASE v \in {"plain", "checked"}
  BY <1>1 DEF Kinds
<1>2. CASE v = "END"
  BY <1>2 DEF Kinds
<1>3. CASE v \in Special \ {"END"}
  BY <1>3 DEF Kinds, Special
<1>4. CASE v \notin {"plain", "checked"} /\ v # "END" /\ v \notin Special \ {"END"}
  BY <1>4 DEF Kinds
<1> QED BY <1>1, <1>2, <1>3, <1>4

\* What becomes of a packet: its payload is handed on or nothing is.
LEMMA ProcessIs ==
  ASSUME NEW heard \in Seq(Bytes), heard # <<>>, NEW kind \in Kinds(heard[1].val),
         ProcessRxbuf(heard, kind)
  PROVE  \/ delivered' = delivered
         \/ \E d \in {1, 2}, data \in Seq(Bytes) :
              /\ kind \in {"plain", "checked"}
              /\ delivered' = Append(delivered, [kind |-> kind, data |-> data])
              /\ Len(heard) = d + Len(data) /\ \A i \in 1..Len(data) : data[i] = heard[d + i]
              /\ d = 1 => data = Tail(heard)
              /\ d = 2 => Tail(heard) # <<>> /\ data = Tail(Tail(heard))
<1>1. kind \in {"plain", "checked", "other"}
  BY KindsIs
<1>2. /\ Tail(heard) \in Seq(Bytes) /\ Len(heard) = 1 + Len(Tail(heard))
      /\ \A i \in 1..Len(Tail(heard)) : Tail(heard)[i] = heard[1 + i]
      /\ Len(heard) \in Nat /\ Len(Tail(heard)) \in Nat
  BY HeadTailProperties, LenProperties
<1>3. CASE kind = "plain"
  <2>1. delivered' = Append(delivered, [kind |-> kind, data |-> Tail(heard)])
    BY <1>3 DEF ProcessRxbuf
  <2>2. \E d \in {1, 2}, data \in Seq(Bytes) :
          /\ delivered' = Append(delivered, [kind |-> kind, data |-> data])
          /\ Len(heard) = d + Len(data) /\ \A i \in 1..Len(data) : data[i] = heard[d + i]
          /\ d = 1 => data = Tail(heard)
          /\ d = 2 => Tail(heard) # <<>> /\ data = Tail(Tail(heard))
    <3> WITNESS 1 \in {1, 2}, Tail(heard) \in Seq(Bytes)
    <3> QED BY <1>2, <2>1
  <2> QED BY <1>3, <2>2
<1>4. CASE kind = "checked" /\ delivered' # delivered
  <2> DEFINE data == Tail(Tail(heard))
  <2>1. Len(heard) # 1 /\ delivered' = Append(delivered, [kind |-> kind, data |-> data])
    BY <1>4 DEF ProcessRxbuf
  <2>2. Tail(heard) # <<>>
    BY <1>2, <2>1, EmptySeq
  <2>3. /\ data \in Seq(Bytes) /\ Len(Tail(heard)) = 1 + Len(data) /\ Len(data) \in Nat
        /\ \A i \in 1..Len(data) : data[i] = Tail(heard)[i + 1]
    BY <1>2, <2>2, HeadTailProperties, LenProperties
  <2>7. data = Tail(Tail(heard))
    OBVIOUS
  <2> HIDE DEF data
  <2>4. \A i \in 1..Len(data) : data[i] = heard[2 + i]
    <3> SUFFICES ASSUME NEW i \in 1..Len(data) PROVE data[i] = heard[2 + i]
      OBVIOUS
    <3>1. i + 1 \in 1..Len(Tail(heard)) /\ 1 + (i + 1) = 2 + i
      BY <2>3
    <3> QED BY <1>2, <2>3, <3>1
  <2>5. Len(heard) = 2 + Len(data)
    <3> DEFINE m == Len(data)
               n == Len(Tail(heard))
    <3>1. m \in Nat /\ n = 1 + m /\ Len(heard) = 1 + n
      BY <1>2, <2>3
    <3> HIDE DEF m, n
    <3> QED BY <3>1 DEF m
  <2>6. \E d \in {1, 2}, q \in Seq(Bytes) :
          /\ delivered' = Append(delivered, [kind |-> kind, data |-> q])
          /\ Len(heard) = d + Len(q) /\ \A i \in 1..Len(q) : q[i] = heard[d + i]
          /\ d = 1 => q = Tail(heard)
          /\ d = 2 => Tail(heard) # <<>> /\ q = Tail(Tail(heard))
    <3>1. data \in Seq(Bytes)
      BY <2>3
    <3> WITNESS 2 \in {1, 2}, data \in Seq(Bytes)
    <3> QED BY <2>1, <2>2, <2>4, <2>5, <2>7
  <2> QED BY <1>4, <2>6
<1>5. CASE kind = "other"
  BY <1>5 DEF ProcessRxbuf
<1> QED BY <1>1, <1>3, <1>4, <1>5

-----------------------------------------------------------------------------
\* The invariant of the link.

\* The link begins with nothing received.
LEMMA LinkInit ==
  ASSUME UartInit
  PROVE  LinkInv /\ Unseen = <<>> /\ Held = <<>>
<1>1. /\ RingSize \in Nat /\ RingSize > 1 /\ MaxLength \in Nat
      /\ MaxFrames \in Nat /\ MaxNoise \in Nat /\ MaxAllocFails \in Nat
  BY UartAssumption
<1>2. Byte("data", 0) \in Bytes
  BY <1>1 DEF Byte, Bytes, Values
<1>3. /\ sent \in Seq([header : Headers, payload : Payloads]) /\ Len(sent) <= MaxFrames
      /\ line \in Seq(Bytes) /\ delivered \in Seq(Packets)
      /\ harmed \subseteq 0..MaxFrames
  BY <1>1, EmptySeq DEF UartInit
<1>4. ring \in [buf : [0..RingSize - 1 -> Bytes], wr : 0..RingSize - 1, rd : 0..RingSize - 1]
  BY <1>1, <1>2 DEF UartInit
<1>5. /\ rx \in [step : {"check", "burst", "wait"}, at : 0..RingSize, end : 0..RingSize,
                 notice : BOOLEAN]
      /\ rx.at <= rx.end /\ rx.step # "burst"
  BY <1>1 DEF UartInit
<1>6. /\ sleep \in [veto : BOOLEAN, exti : BOOLEAN, call : BOOLEAN, deep : BOOLEAN]
  BY DEF UartInit
<1>7. /\ slip \in Slips /\ Len(slip.got) <= slip.limit /\ rxbuf \in BOOLEAN
      /\ bounds \in [faults : 0..MaxNoise, allocFails : 0..MaxAllocFails, modes : Nat]
  <2>1. PICK ok \in BOOLEAN :
          /\ ok \/ MaxAllocFails > 0
          /\ rxbuf = ok /\ slip = IF ok THEN SlipReady ELSE SlipEmpty
          /\ bounds = [faults |-> 0, allocFails |-> IF ok THEN 0 ELSE 1, modes |-> 0]
    BY DEF UartInit
  <2>2. SlipReady \in Slips /\ SlipEmpty \in Slips
    BY EmptySeq DEF SlipReady, SlipEmpty, Slips
  <2>3. Len(SlipReady.got) <= SlipReady.limit /\ Len(SlipEmpty.got) <= SlipEmpty.limit
    BY <1>1, EmptySeq DEF SlipReady, SlipEmpty
  <2> QED BY <1>1, <2>1, <2>2, <2>3
<1>8. LinkInv
  BY <1>3, <1>4, <1>5, <1>6, <1>7 DEF LinkInv, UartTypeOK, BurstWithin, Slips, Packets
<1>9. Len(Held) = 0 /\ Len(Unseen) = 0
  <2>1. ring.wr = 0 /\ ring.rd = 0 /\ From = 0
    BY DEF UartInit, From
  <2>2. Span(0, 0) = 0
    BY DEF Span
  <2> QED BY <1>8, <2>1, <2>2, RingIs
<1> QED BY <1>8, <1>9, RingIs, EmptySeq

\* A new receive buffer.
LEMMA NewBufferIs ==
  ASSUME LinkInv, NewBuffer
  PROVE  /\ slip' \in Slips /\ Len(slip'.got) <= slip'.limit /\ rxbuf' \in BOOLEAN
         /\ bounds' \in [faults : 0..MaxNoise, allocFails : 0..MaxAllocFails, modes : Nat]
         /\ \/ rxbuf' = TRUE /\ slip' = SlipReady
            \/ rxbuf' = FALSE /\ slip' = slip
<1>1. CASE rxbuf' = TRUE /\ slip' = SlipReady /\ bounds' = bounds
  <2>1. SlipReady \in Slips /\ Len(SlipReady.got) <= SlipReady.limit
    BY UartAssumption, EmptySeq DEF SlipReady, Slips
  <2> QED BY <1>1, <2>1 DEF LinkInv, UartTypeOK
<1>2. CASE /\ bounds.allocFails < MaxAllocFails /\ Count("allocFails")
           /\ rxbuf' = FALSE /\ slip' = slip
  <2>1. MaxAllocFails \in Nat
    BY UartAssumption
  <2>2. bounds \in [faults : 0..MaxNoise, allocFails : 0..MaxAllocFails, modes : Nat]
    BY DEF LinkInv, UartTypeOK
  <2>3. bounds' = [bounds EXCEPT !.allocFails = bounds.allocFails + 1]
    BY <1>2 DEF Count
  <2>4. bounds' \in [faults : 0..MaxNoise, allocFails : 0..MaxAllocFails, modes : Nat]
    BY <1>2, <2>1, <2>2, <2>3
  <2> QED BY <1>2, <2>4 DEF LinkInv, UartTypeOK, Slips
<1> QED BY <1>1, <1>2 DEF NewBuffer

\* The parts of the other variables' types.
Sleeps == [veto : BOOLEAN, exti : BOOLEAN, call : BOOLEAN, deep : BOOLEAN]
Counts == [faults : 0..MaxNoise, allocFails : 0..MaxAllocFails, modes : Nat]
Rings  == [buf : [0..RingSize - 1 -> Bytes], wr : 0..RingSize - 1, rd : 0..RingSize - 1]
Rxs    == [step : {"check", "burst", "wait"}, at : 0..RingSize, end : 0..RingSize,
           notice : BOOLEAN]

\* What a frame is made of once it is on the line.
Tagged(s, f) == [i \in DOMAIN s |-> Byte(s[i], f)]

\* The bytes of frame f.
LEMMA TaggedIs ==
  ASSUME NEW s \in Seq(Values), NEW f \in 0..MaxFrames
  PROVE  /\ Tagged(s, f) \in Seq(Bytes) /\ Len(Tagged(s, f)) = Len(s)
         /\ \A i \in 1..Len(s) : Tagged(s, f)[i] = Byte(s[i], f) /\ Byte(s[i], f) \in Bytes
<1>1. DOMAIN s = 1..Len(s) /\ Len(s) \in Nat /\ \A i \in 1..Len(s) : s[i] \in Values
  BY LenProperties, ElementOfSeq
<1>2. \A i \in 1..Len(s) : Byte(s[i], f) \in Bytes
  BY <1>1 DEF Byte, Bytes
<1> QED BY <1>1, <1>2 DEF Tagged

\* A frame that is sent.
LEMMA SendIs ==
  ASSUME LinkInv, ControllerSends
  PROVE  \E header \in Headers, payload \in Payloads :
           /\ line = <<>> /\ Len(sent) < MaxFrames /\ Len(sent) + 1 \in 1..MaxFrames
           /\ sent' = Append(sent, [header |-> header, payload |-> payload])
           /\ SlipFrame(Packet(header, payload)) \in Seq(Values)
           /\ line' = Tagged(SlipFrame(Packet(header, payload)), Len(sent) + 1)
<1>1. PICK header \in Headers, payload \in Payloads :
           /\ line = <<>> /\ Len(sent) < MaxFrames
           /\ sent' = Append(sent, [header |-> header, payload |-> payload])
           /\ line' = Tagged(SlipFrame(Packet(header, payload)), Len(sent) + 1)
  BY DEF ControllerSends, Tagged
<1>2. Len(sent) \in Nat /\ MaxFrames \in Nat
  BY UartAssumption, LenProperties DEF LinkInv, UartTypeOK
<1>3. Packet(header, payload) \in Seq(Values) /\ Len(Packet(header, payload)) > 0
  <2>1. Len(payload) \in Nat
    BY PacketIs, LenProperties
  <2>2. /\ Packet(header, payload) \in Seq(Values)
        /\ Len(Packet(header, payload)) = (IF header = "checked" THEN 2 ELSE 1) + Len(payload)
    BY PacketIs
  <2> QED BY <2>1, <2>2
<1>4. SlipFrame(Packet(header, payload)) \in Seq(Values)
  BY <1>3, FrameIs
<1> QED BY <1>1, <1>2, <1>4

\* Every step keeps the invariant of the link.
LEMMA LinkNext ==
  ASSUME LinkInv, [UartNext]_uartVars
  PROVE  LinkInv'
<1>0. /\ RingSize \in Nat /\ RingSize > 1 /\ MaxLength \in Nat
      /\ MaxFrames \in Nat /\ MaxNoise \in Nat /\ MaxAllocFails \in Nat
  BY UartAssumption
<1>1. /\ sent \in Seq([header : Headers, payload : Payloads]) /\ Len(sent) <= MaxFrames
      /\ line \in Seq(Bytes) /\ ring \in Rings /\ rx \in Rxs /\ rx.at <= rx.end
      /\ slip \in Slips /\ Len(slip.got) <= slip.limit /\ rxbuf \in BOOLEAN
      /\ delivered \in Seq(Packets) /\ sleep \in Sleeps /\ harmed \subseteq 0..MaxFrames
      /\ bounds \in Counts
  BY DEF LinkInv, UartTypeOK, Slips, Packets, Sleeps, Counts, Rings, Rxs
<1> DEFINE Good == /\ sent' \in Seq([header : Headers, payload : Payloads])
                   /\ Len(sent') <= MaxFrames
                   /\ line' \in Seq(Bytes) /\ ring' \in Rings /\ rx' \in Rxs /\ rx'.at <= rx'.end
                   /\ slip' \in Slips /\ Len(slip'.got) <= slip'.limit /\ rxbuf' \in BOOLEAN
                   /\ delivered' \in Seq(Packets) /\ sleep' \in Sleeps
                   /\ harmed' \subseteq 0..MaxFrames /\ bounds' \in Counts
                   /\ BurstWithin'
<1>2. Good => LinkInv'
  BY DEF LinkInv, UartTypeOK, Slips, Packets, Sleeps, Counts, Rings, Rxs
<1> HIDE DEF Good
<1>3. BurstWithin
  BY DEF LinkInv
<1>4. ASSUME NEW b \in Bytes PROVE harmed \cup {b.frame} \subseteq 0..MaxFrames
  BY <1>1 DEF Bytes
<1>5. ASSUME line # <<>>
      PROVE  /\ Head(line) \in Bytes /\ Tail(line) \in Seq(Bytes)
             /\ harmed \cup {Head(line).frame} \subseteq 0..MaxFrames
  BY <1>1, <1>4, <1>5, HeadTailProperties
<1>6. ASSUME Edge PROVE sleep' \in Sleeps
  BY <1>1, <1>6 DEF Edge, Sleeps
<1>7. ASSUME ring' = ring, rx' = rx PROVE ring' \in Rings /\ rx' \in Rxs /\ rx'.at <= rx'.end /\ BurstWithin'
  BY <1>1, <1>3, <1>7 DEF BurstWithin
<1>10. CASE ControllerSends
  <2>1. PICK header \in Headers, payload \in Payloads :
           /\ Len(sent) < MaxFrames /\ Len(sent) + 1 \in 1..MaxFrames
           /\ sent' = Append(sent, [header |-> header, payload |-> payload])
           /\ SlipFrame(Packet(header, payload)) \in Seq(Values)
           /\ line' = Tagged(SlipFrame(Packet(header, payload)), Len(sent) + 1)
    BY <1>10, SendIs
  <2>2. line' \in Seq(Bytes)
    <3>1. Len(sent) + 1 \in 0..MaxFrames
      BY <1>0, <2>1
    <3> QED BY <2>1, <3>1, TaggedIs
  <2>3. sent' \in Seq([header : Headers, payload : Payloads]) /\ Len(sent') = Len(sent) + 1
    BY <1>1, <2>1, AppendProperties
  <2>4. UNCHANGED <<ring, rx, slip, rxbuf, delivered, sleep, harmed, bounds>>
    BY <1>10 DEF ControllerSends
  <2>5. Len(sent') <= MaxFrames
    BY <2>1, <2>3
  <2>6. Good
    BY <1>1, <1>7, <2>2, <2>3, <2>4, <2>5 DEF Good
  <2> QED BY <1>2, <2>6
<1>11. CASE ByteArrives
  <2>1. /\ line # <<>> /\ line' = Tail(line) /\ Edge /\ Put(Head(line))
        /\ UNCHANGED <<sent, slip, rxbuf, delivered, bounds>>
    BY <1>11 DEF ByteArrives
  <2>2. rx' = [rx EXCEPT !.notice = TRUE] /\ rx' \in Rxs /\ rx'.at <= rx'.end
    BY <1>1, <2>1 DEF Put, Rxs
  <2>3. rx'.step = rx.step /\ rx'.at = rx.at /\ rx'.end = rx.end
    BY <1>1, <2>2 DEF Rxs
  <2>4. CASE Next1(ring.wr) = ring.rd
    <3>1. ring' = ring /\ harmed' = harmed \cup {Head(line).frame}
      BY <2>1, <2>4, HarmIs DEF Put
    <3>2. BurstWithin'
      BY <1>3, <2>3, <3>1 DEF BurstWithin
    <3>3. Good
      BY <1>1, <1>5, <1>6, <2>1, <2>2, <3>1, <3>2 DEF Good
    <3> QED BY <1>2, <3>3
  <2>5. CASE Next1(ring.wr) # ring.rd
    <3>1. /\ ring' = [ring EXCEPT !.buf[ring.wr] = Head(line), !.wr = Next1(ring.wr)]
          /\ harmed' = harmed
      BY <2>1, <2>5 DEF Put
    <3>2. Next1(ring.wr) = (IF ring.wr + 1 < RingSize THEN ring.wr + 1 ELSE 0)
          /\ Next1(ring.wr) \in 0..RingSize - 1
      <4> DEFINE m == ring.wr + 1
      <4>1. m \in Nat /\ m < 2 * RingSize
        BY RingIs
      <4> HIDE DEF m
      <4>2. m % RingSize = IF m < RingSize THEN m ELSE m - RingSize
        BY <4>1, RingIs, ModIs
      <4> QED BY <4>2, RingIs DEF m, Next1
    <3>3. /\ ring' \in Rings /\ ring'.wr = Next1(ring.wr) /\ ring'.rd = ring.rd
      BY <1>1, <1>5, <2>1, <3>1, <3>2 DEF Rings
    <3>4. BurstWithin'
      BY <1>3, <2>3, <2>5, <3>2, <3>3, RingIs DEF BurstWithin
    <3>5. Good
      BY <1>1, <1>5, <1>6, <2>1, <2>2, <3>1, <3>3, <3>4 DEF Good
    <3> QED BY <1>2, <3>5
  <2> QED BY <2>4, <2>5
<1>12. CASE ByteWhileAsleep
  <2>1. /\ line # <<>> /\ line' = Tail(line) /\ Edge /\ harmed' = harmed \cup {Head(line).frame}
        /\ UNCHANGED <<sent, ring, rx, slip, rxbuf, delivered, bounds>>
    BY <1>12, HarmIs DEF ByteWhileAsleep
  <2>2. Good
    BY <1>1, <1>5, <1>6, <1>7, <2>1 DEF Good
  <2> QED BY <1>2, <2>2
<1>13. CASE LineFault
  <2>1. PICK v \in FaultValues : line' = <<Byte(v, Head(line).frame)>> \o Tail(line)
    BY <1>13 DEF LineFault
  <2>2. /\ line # <<>> /\ bounds.faults < MaxNoise /\ Count("faults")
        /\ harmed' = harmed \cup {Head(line).frame}
        /\ UNCHANGED <<sent, ring, rx, slip, rxbuf, delivered, sleep>>
    BY <1>13, HarmIs DEF LineFault
  <2>3. Byte(v, Head(line).frame) \in Bytes
    BY <1>5, <2>2, UartAssumption DEF Byte, Bytes
  <2>4. line' \in Seq(Bytes)
    <3> DEFINE first == <<Byte(v, Head(line).frame)>>
    <3>1. first \in Seq(Bytes)
      BY <2>3
    <3> HIDE DEF first
    <3> QED BY <1>5, <2>1, <2>2, <3>1, ConcatProperties DEF first
  <2>5. bounds' \in Counts
    <3>1. bounds' = [bounds EXCEPT !.faults = bounds.faults + 1]
      BY <2>2 DEF Count
    <3>2. bounds.faults + 1 \in 0..MaxNoise
      BY <1>0, <1>1, <2>2 DEF Counts
    <3> QED BY <1>1, <3>1, <3>2 DEF Counts
  <2>6. Good
    BY <1>1, <1>5, <1>7, <2>2, <2>4, <2>5 DEF Good
  <2> QED BY <1>2, <2>6
<1>14. CASE RxBegin
  <2>1. /\ rx.step = "check" /\ ring.rd # ring.wr
        /\ rx' = [rx EXCEPT !.step = "burst", !.at = ring.rd,
                            !.end = IF ring.wr < ring.rd THEN RingSize ELSE ring.wr]
        /\ IF rxbuf THEN UNCHANGED <<slip, rxbuf, bounds>> ELSE NewBuffer
        /\ UNCHANGED <<sent, line, ring, delivered, sleep, harmed>>
    BY <1>14 DEF RxBegin
  <2>2. /\ rx' \in Rxs /\ rx'.at = ring.rd
        /\ rx'.end = IF ring.wr < ring.rd THEN RingSize ELSE ring.wr
    <3> DEFINE end == IF ring.wr < ring.rd THEN RingSize ELSE ring.wr
    <3>1. ring.rd \in 0..RingSize /\ end \in 0..RingSize
      BY RingIs
    <3>2. rx' = [rx EXCEPT !.step = "burst", !.at = ring.rd, !.end = end]
      BY <2>1
    <3> HIDE DEF end
    <3>3. rx' \in Rxs /\ rx'.at = ring.rd /\ rx'.end = end
      BY <1>1, <3>1, <3>2 DEF Rxs
    <3> QED BY <3>3 DEF end
  <2>3. BurstWithin' /\ rx'.at <= rx'.end
    BY <1>0, <2>1, <2>2, RingIs DEF BurstWithin
  <2>4. /\ slip' \in Slips /\ Len(slip'.got) <= slip'.limit /\ rxbuf' \in BOOLEAN
        /\ bounds' \in Counts
    BY <1>1, <2>1, NewBufferIs DEF Counts
  <2>5. Good
    BY <1>1, <2>1, <2>2, <2>3, <2>4 DEF Good
  <2> QED BY <1>2, <2>5
<1>15. CASE RxByte
  <2> DEFINE b == ring.buf[rx.at]
  <2>1. /\ rx.step = "burst" /\ rx.at # rx.end /\ rx' = [rx EXCEPT !.at = rx.at + 1]
        /\ harmed' = IF Kept(b) THEN harmed ELSE Harm(<<b>>)
        /\ IF SlipComplete(slip, b)
           THEN /\ NewBuffer
                /\ IF rxbuf THEN \E kind \in Kinds(slip.got[1].val) : ProcessRxbuf(slip.got, kind)
                   ELSE delivered' = delivered
           ELSE slip' = SlipRx(slip, b) /\ rxbuf' = rxbuf /\ delivered' = delivered /\ bounds' = bounds
        /\ sent' = sent /\ line' = line /\ ring' = ring /\ sleep' = sleep
    BY <1>15 DEF RxByte
  <2>2. b \in Bytes
    BY <1>15, HandleTakes
  <2> HIDE DEF b
  <2>3. harmed' \subseteq 0..MaxFrames
    BY <1>1, <1>4, <2>1, <2>2, HarmIs
  <2>4. rx' \in Rxs /\ rx'.at <= rx'.end /\ BurstWithin'
    <3>1. rx.at + 1 \in 0..RingSize /\ rx.at + 1 <= rx.end
      <4> DEFINE a == rx.at
                 e == rx.end
      <4>1. a \in 0..RingSize /\ e \in 0..RingSize /\ a <= e /\ a # e
        BY <1>1, <2>1 DEF Rxs
      <4> HIDE DEF a, e
      <4>2. a + 1 \in 0..RingSize /\ a + 1 <= e
        BY <1>0, <4>1
      <4> QED BY <4>2 DEF a, e
    <3>2. /\ rx' \in Rxs /\ rx'.at = rx.at + 1 /\ rx'.end = rx.end /\ rx'.step = rx.step
      BY <1>1, <2>1, <3>1 DEF Rxs
    <3>3. BurstWithin'
      BY <1>3, <2>1, <3>1, <3>2, RingIs DEF BurstWithin
    <3> QED BY <3>1, <3>2, <3>3
  <2>5. CASE SlipComplete(slip, b)
    <3>1. /\ slip' \in Slips /\ Len(slip'.got) <= slip'.limit /\ rxbuf' \in BOOLEAN
          /\ bounds' \in Counts
      BY <2>1, <2>5, NewBufferIs DEF Counts
    <3>2. delivered' \in Seq(Packets)
      <4>1. CASE delivered' = delivered
        BY <1>1, <4>1
      <4>2. CASE delivered' # delivered
        <5>1. PICK kind \in Kinds(slip.got[1].val) : ProcessRxbuf(slip.got, kind)
          BY <2>1, <2>5, <4>2
        <5>2. slip.got \in Seq(Bytes) /\ slip.got # <<>>
          BY <1>1, <2>5 DEF SlipComplete, Slips
        <5>3. PICK data \in Seq(Bytes) :
                /\ kind \in {"plain", "checked"}
                /\ delivered' = Append(delivered, [kind |-> kind, data |-> data])
          BY <4>2, <5>1, <5>2, ProcessIs
        <5>4. [kind |-> kind, data |-> data] \in Packets
          BY <5>3 DEF Packets
        <5> QED BY <1>1, <5>3, <5>4, AppendProperties
      <4> QED BY <4>1, <4>2
    <3>3. Good
      BY <1>1, <2>1, <2>3, <2>4, <3>1, <3>2 DEF Good
    <3> QED BY <1>2, <3>3
  <2>6. CASE ~SlipComplete(slip, b)
    <3>1. slip' \in Slips /\ Len(slip'.got) <= slip'.limit
      <4>1. SlipRx(slip, b) \in Slips /\ Len(SlipRx(slip, b).got) <= SlipRx(slip, b).limit
        BY <1>1, <2>2, SlipRxIs
      <4> QED BY <2>1, <2>6, <4>1
    <3>2. Good
      BY <1>1, <2>1, <2>3, <2>4, <2>6, <3>1 DEF Good
    <3> QED BY <1>2, <3>2
  <2> QED BY <2>5, <2>6
<1>16. CASE RxEnd
  <2>1. /\ rx.step = "burst" /\ rx.at = rx.end
        /\ ring' = [ring EXCEPT !.rd = rx.end % RingSize]
        /\ rx' = [rx EXCEPT !.step = "check", !.at = 0, !.end = 0]
        /\ UNCHANGED <<sent, line, slip, rxbuf, delivered, sleep, harmed, bounds>>
    BY <1>16 DEF RxEnd
  <2>2. rx' \in Rxs /\ rx'.step = "check" /\ rx'.at <= rx'.end
    <3>1. 0 \in 0..RingSize
      BY <1>0
    <3>2. rx' = [rx EXCEPT !.step = "check", !.at = 0, !.end = 0]
      BY <2>1
    <3>3. rx' \in Rxs /\ rx'.step = "check" /\ rx'.at = 0 /\ rx'.end = 0
      BY <1>1, <3>1, <3>2 DEF Rxs
    <3> QED BY <3>3
  <2>3. ring' \in Rings
    <3>1. rx.end % RingSize \in 0..RingSize - 1
      BY <1>0, RingIs
    <3> QED BY <1>1, <2>1, <3>1 DEF Rings
  <2>4. Good
    BY <1>1, <2>1, <2>2, <2>3 DEF Good, BurstWithin
  <2> QED BY <1>2, <2>4
<1>17. CASE RxWait \/ RxNoticed
  <2>1. /\ rx' \in Rxs /\ rx'.step # "burst" /\ rx'.at <= rx'.end
    BY <1>1, <1>17 DEF RxWait, RxNoticed, Rxs
  <2>2. UNCHANGED <<sent, line, ring, slip, rxbuf, delivered, sleep, harmed, bounds>>
    BY <1>17 DEF RxWait, RxNoticed
  <2>3. Good
    BY <1>1, <2>1, <2>2 DEF Good, BurstWithin
  <2> QED BY <1>2, <2>3
<1>18. CASE Sleeping
  <2>1. UNCHANGED <<sent, line, ring, rx, slip, rxbuf, delivered, harmed>>
    BY <1>18 DEF Sleeping, ArmWakeUp, ClearVeto, DisableSleep, DeepSleep, WakeUp
  <2>2. sleep' \in Sleeps
    BY <1>1, <1>18 DEF Sleeping, ArmWakeUp, ClearVeto, DisableSleep, DeepSleep, WakeUp, Sleeps
  <2>3. bounds' \in Counts
    <3>1. bounds' = bounds \/ bounds' = [bounds EXCEPT !.modes = bounds.modes + 1]
      BY <1>18 DEF Sleeping, ArmWakeUp, ClearVeto, DisableSleep, DeepSleep, WakeUp, SetsMode, Count
    <3> QED BY <1>1, <3>1 DEF Counts
  <2>4. Good
    BY <1>1, <1>7, <2>1, <2>2, <2>3 DEF Good
  <2> QED BY <1>2, <2>4
<1>19. CASE UNCHANGED uartVars
  <2>1. Good
    BY <1>1, <1>7, <1>19 DEF Good, uartVars
  <2> QED BY <1>2, <2>1
<1> QED BY <1>10, <1>11, <1>12, <1>13, <1>14, <1>15, <1>16, <1>17, <1>18, <1>19
     DEF UartNext, Line, RxThread

\* The link keeps its types, nothing received exceeds its buffer, and the burst
\* that uart_rx_process hands on lies within what the ring holds.
THEOREM LinkAlways == UartSpec => [](UartTypeOK /\ BurstWithin)
<1>1. UartInit => LinkInv
  BY LinkInit
<1>2. LinkInv /\ [UartNext]_uartVars => LinkInv'
  BY LinkNext
<1> QED BY <1>1, <1>2, PTL DEF UartSpec, LinkInv

\* A step of the link is one of the queue or leaves it alone.
LEMMA QueueStep ==
  ASSUME LinkInv, [UartNext]_uartVars
  PROVE  [Fifo!Next]_Held
<1>1. CASE ByteArrives
  <2>1. Head(line) \in Bytes
    BY <1>1, HeadTailProperties DEF ByteArrives, LinkInv, UartTypeOK
  <2>2. \/ Held' = Append(Held, Head(line)) /\ Len(Held) < RingSize - 1
        \/ Held' = Held
    BY <1>1, ArriveQueues
  <2> QED BY <2>1, <2>2 DEF Fifo!Next, Fifo!Put
<1>2. CASE RxEnd
  BY <1>2, EndGivesBack DEF Fifo!Next, Fifo!Take
<1>3. CASE RxByte
  BY <1>3, HandleTakes
<1>4. CASE RxBegin
  BY <1>4, BeginKeeps
<1>5. CASE \/ ControllerSends \/ ByteWhileAsleep \/ LineFault \/ RxWait \/ RxNoticed \/ Sleeping
           \/ UNCHANGED uartVars
  BY <1>5, OthersKeep
<1> QED BY <1>1, <1>2, <1>3, <1>4, <1>5 DEF UartNext, Line, RxThread

\* The ring buffer with its interrupt handler and its thread is the bounded
\* queue of ByteFifo.
THEOREM RingIsFifo == UartSpec => RefinesFifo
<1>1. UartInit => LinkInv /\ Fifo!Init
  BY LinkInit DEF Fifo!Init
<1>2. LinkInv /\ [UartNext]_uartVars => LinkInv' /\ [Fifo!Next]_Held
  BY LinkNext, QueueStep
<1> QED BY <1>1, <1>2, PTL DEF UartSpec, RefinesFifo, Fifo!Spec

\* What the thread has still to come: the bytes in the ring and on the line.
Stream == Unseen \o line

\* One byte of a sequence is lost.
Without(s, q) == [i \in 1..Len(s) - 1 |-> IF i < q THEN s[i] ELSE s[i + 1]]

\* Noise changes the value of one byte.
Changed(s, q, v) == [s EXCEPT ![q] = Byte(v, s[q].frame)]

\* The six kinds of steps: a byte of the stream is lost and harms its frame,
Loses ==
  /\ \E q \in 1..Len(Stream) :
       Stream' = Without(Stream, q) /\ harmed' = harmed \cup {Stream[q].frame}
  /\ UNCHANGED <<sent, slip, rxbuf, delivered>>

\* a byte is changed,
Changes ==
  /\ \E q \in 1..Len(Stream), v \in Values :
       /\ Stream' = Changed(Stream, q, v)
       /\ harmed' = harmed \cup {Stream[q].frame}
  /\ UNCHANGED <<sent, slip, rxbuf, delivered>>

\* a frame is sent,
Grows ==
  /\ Len(sent) < MaxFrames
  /\ \E header \in Headers, payload \in Payloads :
       /\ sent' = Append(sent, [header |-> header, payload |-> payload])
       /\ Stream' = Stream \o Tagged(SlipFrame(Packet(header, payload)), Len(sent) + 1)
  /\ UNCHANGED <<slip, rxbuf, delivered, harmed>>

\* the thread handles the first byte of the stream, with all that
\* datalink_uart_rx_handler does,
Handles ==
  /\ Stream # <<>> /\ Stream' = Tail(Stream)
  /\ harmed' = IF Kept(Stream[1]) THEN harmed ELSE harmed \cup {Stream[1].frame}
  /\ IF SlipComplete(slip, Stream[1])
     THEN /\ \/ rxbuf' = TRUE /\ slip' = SlipReady
             \/ rxbuf' = FALSE /\ slip' = slip
          /\ IF rxbuf THEN \E kind \in Kinds(slip.got[1].val) : ProcessRxbuf(slip.got, kind)
             ELSE UNCHANGED delivered
     ELSE slip' = SlipRx(slip, Stream[1]) /\ UNCHANGED <<rxbuf, delivered>>
  /\ UNCHANGED sent

\* it gets a receive buffer without a byte,
Renews ==
  /\ ~rxbuf /\ rxbuf' = TRUE /\ slip' = SlipReady
  /\ Stream' = Stream /\ UNCHANGED <<sent, delivered, harmed>>

\* or nothing happens that matters to frames.
Stays ==
  Stream' = Stream /\ UNCHANGED <<sent, slip, rxbuf, delivered, harmed>>

\* The stream is a sequence of bytes.
LEMMA StreamIs ==
  ASSUME LinkInv
  PROVE  /\ Stream \in Seq(Bytes) /\ Len(Stream) = Len(Unseen) + Len(line)
         /\ Unseen \in Seq(Bytes) /\ line \in Seq(Bytes)
<1>1. Unseen \in Seq(Bytes) /\ line \in Seq(Bytes)
  BY RingIs DEF LinkInv, UartTypeOK
<1> QED BY <1>1, ConcatProperties DEF Stream

\* Taking the first of two sequences, and its second's first.
LEMMA ConcatTake ==
  ASSUME NEW X, NEW u \in Seq(X), NEW l \in Seq(X), u # <<>>
  PROVE  /\ u \o l # <<>> /\ (u \o l)[1] = u[1]
         /\ Tail(u) \o l = Tail(u \o l)
<1>0. /\ Len(u) \in Nat /\ Len(l) \in Nat /\ u \o l \in Seq(X) /\ Len(u \o l) = Len(u) + Len(l)
      /\ \A i \in 1..Len(u) : (u \o l)[i] = u[i]
      /\ \A i \in 1..Len(l) : (u \o l)[Len(u) + i] = l[i]
  BY ConcatIs
<1>1. /\ Len(u) > 0 /\ Tail(u) \in Seq(X) /\ Len(Tail(u)) = Len(u) - 1
      /\ \A i \in 1..Len(Tail(u)) : Tail(u)[i] = u[i + 1]
  BY <1>0, HeadTailProperties, EmptySeq
<1>2. u \o l # <<>> /\ (u \o l)[1] = u[1]
  BY <1>0, <1>1, EmptySeq
<1>3. /\ Tail(u \o l) \in Seq(X) /\ Len(Tail(u \o l)) = Len(u) + Len(l) - 1
      /\ \A i \in 1..Len(Tail(u \o l)) : Tail(u \o l)[i] = (u \o l)[i + 1]
  BY <1>0, <1>2, HeadTailProperties
<1>4. /\ Tail(u) \o l \in Seq(X) /\ Len(Tail(u) \o l) = Len(Tail(u)) + Len(l)
      /\ \A i \in 1..Len(Tail(u)) + Len(l) :
           (Tail(u) \o l)[i] = IF i <= Len(Tail(u)) THEN Tail(u)[i] ELSE l[i - Len(Tail(u))]
  BY <1>1, ConcatProperties
<1>5. \A i \in 1..Len(u) + Len(l) - 1 : (Tail(u) \o l)[i] = Tail(u \o l)[i]
  <2> SUFFICES ASSUME NEW i \in 1..Len(u) + Len(l) - 1
               PROVE  (Tail(u) \o l)[i] = Tail(u \o l)[i]
    OBVIOUS
  <2>1. CASE i <= Len(u) - 1
    <3>1. i \in 1..Len(Tail(u)) /\ i + 1 \in 1..Len(u) /\ i \in 1..Len(Tail(u)) + Len(l)
      BY <1>0, <1>1, <2>1
    <3> QED BY <1>0, <1>1, <1>3, <1>4, <2>1, <3>1
  <2>2. CASE ~(i <= Len(u) - 1)
    <3>1. /\ i - Len(Tail(u)) \in 1..Len(l) /\ i + 1 = Len(u) + (i - Len(Tail(u)))
          /\ i \in 1..Len(Tail(u)) + Len(l) /\ ~(i <= Len(Tail(u)))
      BY <1>0, <1>1, <2>2
    <3> QED BY <1>0, <1>1, <1>3, <1>4, <3>1
  <2> QED BY <2>1, <2>2
<1>6. Tail(u) \o l = Tail(u \o l)
  BY <1>0, <1>1, <1>3, <1>4, <1>5, SeqEqual
<1> QED BY <1>2, <1>6

\* A byte that passes from the line into the ring, or is lost or changed between.
LEMMA ConcatMiddle ==
  ASSUME NEW X, NEW u \in Seq(X), NEW l \in Seq(X), l # <<>>
  PROVE  /\ Append(u, Head(l)) \o Tail(l) = u \o l
         /\ Len(u) + 1 \in 1..Len(u \o l) /\ (u \o l)[Len(u) + 1] = Head(l)
         /\ u \o Tail(l) = Without(u \o l, Len(u) + 1)
         /\ \A c \in X : u \o (<<c>> \o Tail(l)) = [u \o l EXCEPT ![Len(u) + 1] = c]
<1>0. /\ Len(u) \in Nat /\ Len(l) \in Nat /\ u \o l \in Seq(X) /\ Len(u \o l) = Len(u) + Len(l)
      /\ \A i \in 1..Len(u) : (u \o l)[i] = u[i]
      /\ \A i \in 1..Len(l) : (u \o l)[Len(u) + i] = l[i]
  BY ConcatIs
<1>1. /\ Len(l) > 0 /\ Tail(l) \in Seq(X) /\ Len(Tail(l)) = Len(l) - 1 /\ Head(l) \in X
      /\ \A i \in 1..Len(Tail(l)) : Tail(l)[i] = l[i + 1]
      /\ Head(l) = l[1]
  BY <1>0, HeadTailProperties, EmptySeq
<1>2. Len(u) + 1 \in 1..Len(u \o l) /\ (u \o l)[Len(u) + 1] = Head(l)
  BY <1>0, <1>1
<1>3. ASSUME NEW c \in X
      PROVE  u \o (<<c>> \o Tail(l)) = [u \o l EXCEPT ![Len(u) + 1] = c]
  <2> DEFINE one == <<c>>
             rest == Tail(l)
             t == one \o rest
             s == u \o l
  <2>1. one \in Seq(X) /\ Len(one) = 1 /\ one[1] = c
    OBVIOUS
  <2>a. rest \in Seq(X) /\ Len(rest) = Len(l) - 1 /\ \A i \in 1..Len(rest) : rest[i] = l[i + 1]
    BY <1>1
  <2> HIDE DEF one, rest
  <2>2. /\ t \in Seq(X) /\ Len(t) = Len(one) + Len(rest)
        /\ \A i \in 1..Len(one) + Len(rest) :
             t[i] = IF i <= Len(one) THEN one[i] ELSE rest[i - Len(one)]
    <3>1. one \in Seq(X) /\ rest \in Seq(X)
      BY <2>1, <2>a
    <3> QED BY <3>1, ConcatProperties
  <2>3. Len(t) = Len(l) /\ t[1] = c /\ \A i \in 2..Len(l) : t[i] = l[i]
    <3>1. \A i \in 2..Len(l) : i - 1 \in 1..Len(rest) /\ (i - 1) + 1 = i
      BY <1>0, <1>1, <2>a
    <3> QED BY <1>0, <1>1, <2>1, <2>2, <2>a, <3>1
  <2> HIDE DEF t
  <2>b. t \in Seq(X)
    BY <2>2
  <2>c. /\ u \o t \in Seq(X) /\ Len(u \o t) = Len(u) + Len(t)
        /\ \A i \in 1..Len(u) + Len(t) :
             (u \o t)[i] = IF i <= Len(u) THEN u[i] ELSE t[i - Len(u)]
    BY <2>b, ConcatProperties
  <2>4. /\ u \o t \in Seq(X) /\ Len(u \o t) = Len(u) + Len(l)
        /\ \A i \in 1..Len(u) + Len(l) :
             (u \o t)[i] = IF i <= Len(u) THEN u[i] ELSE t[i - Len(u)]
    BY <2>3, <2>c
  <2>5. /\ [u \o l EXCEPT ![Len(u) + 1] = c] \in Seq(X)
        /\ Len([u \o l EXCEPT ![Len(u) + 1] = c]) = Len(u) + Len(l)
        /\ \A j \in 1..Len(u) + Len(l) : [u \o l EXCEPT ![Len(u) + 1] = c][j] =
             IF j = Len(u) + 1 THEN c ELSE (u \o l)[j]
    <3> DEFINE q == Len(u) + 1
    <3>1. s \in Seq(X) /\ q \in 1..Len(s) /\ Len(s) = Len(u) + Len(l)
      BY <1>0, <1>2
    <3> HIDE DEF s, q
    <3>2. /\ [s EXCEPT ![q] = c] \in Seq(X) /\ Len([s EXCEPT ![q] = c]) = Len(s)
          /\ \A j \in 1..Len(s) : [s EXCEPT ![q] = c][j] = IF j = q THEN c ELSE s[j]
      BY <3>1, ExceptSeq
    <3> QED BY <3>1, <3>2 DEF s, q
  <2>6. ASSUME NEW i \in 1..Len(u) + Len(l)
        PROVE  (u \o t)[i] = [u \o l EXCEPT ![Len(u) + 1] = c][i]
    <3>1. CASE i <= Len(u)
      BY <1>0, <2>4, <2>5, <3>1
    <3>2. CASE i = Len(u) + 1
      BY <1>0, <2>3, <2>4, <2>5, <3>2
    <3>3. CASE i > Len(u) + 1
      <4> DEFINE k == i - Len(u)
      <4>1. /\ k \in 2..Len(l) /\ k \in 1..Len(l) /\ i = Len(u) + k /\ i - Len(u) = k
            /\ ~(i <= Len(u)) /\ i # Len(u) + 1
        BY <1>0, <3>3
      <4> HIDE DEF k
      <4>2. (u \o t)[i] = t[k]
        BY <2>4, <4>1
      <4>3. [u \o l EXCEPT ![Len(u) + 1] = c][i] = (u \o l)[i]
        BY <2>5, <4>1
      <4>4. (u \o l)[i] = l[k]
        BY <1>0, <4>1
      <4> QED BY <2>3, <4>1, <4>2, <4>3, <4>4
    <3>4. i <= Len(u) \/ i = Len(u) + 1 \/ i > Len(u) + 1
      BY <1>0
    <3> QED BY <3>1, <3>2, <3>3, <3>4
  <2>7. u \o t = [u \o l EXCEPT ![Len(u) + 1] = c]
    BY <2>4, <2>5, <2>6, SeqEqual
  <2> QED BY <2>7 DEF t, one, rest
<1>4. u \o Tail(l) = Without(u \o l, Len(u) + 1)
  <2>1. /\ u \o Tail(l) \in Seq(X) /\ Len(u \o Tail(l)) = Len(u) + Len(Tail(l))
        /\ \A i \in 1..Len(u) + Len(Tail(l)) :
             (u \o Tail(l))[i] = IF i <= Len(u) THEN u[i] ELSE Tail(l)[i - Len(u)]
    BY <1>1, ConcatProperties
  <2> DEFINE n == Len(u) + Len(l) - 1
  <2>2. n \in Nat /\ Len(u) + Len(Tail(l)) = n /\ Len(u \o l) - 1 = n
    BY <1>0, <1>1
  <2>3. \A i \in 1..n : (u \o Tail(l))[i] = IF i < Len(u) + 1 THEN (u \o l)[i] ELSE (u \o l)[i + 1]
    <3> SUFFICES ASSUME NEW i \in 1..n
                 PROVE  (u \o Tail(l))[i] = IF i < Len(u) + 1 THEN (u \o l)[i] ELSE (u \o l)[i + 1]
      OBVIOUS
    <3>1. CASE i <= Len(u)
      BY <1>0, <2>1, <2>2, <3>1
    <3>2. CASE ~(i <= Len(u))
      <4>1. /\ i - Len(u) \in 1..Len(Tail(l)) /\ (i - Len(u)) + 1 \in 1..Len(l)
            /\ i + 1 = Len(u) + ((i - Len(u)) + 1) /\ ~(i < Len(u) + 1)
            /\ i \in 1..Len(u) + Len(Tail(l))
        BY <1>0, <1>1, <3>2
      <4> QED BY <1>0, <1>1, <2>1, <3>2, <4>1
    <3> QED BY <3>1, <3>2
  <2>4. u \o Tail(l) = [i \in 1..n |-> (u \o Tail(l))[i]]
    BY <2>1, <2>2, LenProperties
  <2> HIDE DEF n
  <2>5. u \o Tail(l) = [i \in 1..n |-> IF i < Len(u) + 1 THEN (u \o l)[i] ELSE (u \o l)[i + 1]]
    BY <2>3, <2>4
  <2> QED BY <2>2, <2>5 DEF Without
<1>5. Append(u, Head(l)) \o Tail(l) = u \o l
  <2> DEFINE a == Append(u, Head(l))
  <2>1. /\ a \in Seq(X) /\ Len(a) = Len(u) + 1 /\ a[Len(u) + 1] = Head(l)
        /\ \A i \in 1..Len(u) : a[i] = u[i]
    BY <1>1, AppendProperties
  <2> HIDE DEF a
  <2>2. /\ a \o Tail(l) \in Seq(X) /\ Len(a \o Tail(l)) = Len(a) + Len(Tail(l))
        /\ \A i \in 1..Len(a) + Len(Tail(l)) :
             (a \o Tail(l))[i] = IF i <= Len(a) THEN a[i] ELSE Tail(l)[i - Len(a)]
    BY <1>1, <2>1, ConcatProperties
  <2>3. Len(a) + Len(Tail(l)) = Len(u) + Len(l)
    BY <1>0, <1>1, <2>1
  <2>4. ASSUME NEW i \in 1..Len(u) + Len(l) PROVE (a \o Tail(l))[i] = (u \o l)[i]
    <3>1. CASE i <= Len(u)
      BY <1>0, <2>1, <2>2, <2>3, <3>1
    <3>2. CASE i = Len(u) + 1
      BY <1>0, <1>2, <2>1, <2>2, <2>3, <3>2
    <3>3. CASE i > Len(u) + 1
      <4> DEFINE k == i - Len(a)
      <4>1. /\ k \in 1..Len(Tail(l)) /\ k + 1 \in 1..Len(l) /\ i - Len(a) = k
            /\ i = Len(u) + (k + 1) /\ ~(i <= Len(a)) /\ i \in 1..Len(a) + Len(Tail(l))
        BY <1>0, <1>1, <2>1, <3>3
      <4> HIDE DEF k
      <4>2. (a \o Tail(l))[i] = Tail(l)[k]
        BY <2>2, <4>1
      <4>3. (u \o l)[i] = l[k + 1]
        BY <1>0, <4>1
      <4> QED BY <1>1, <4>1, <4>2, <4>3
    <3>4. i <= Len(u) \/ i = Len(u) + 1 \/ i > Len(u) + 1
      BY <1>0
    <3> QED BY <3>1, <3>2, <3>3, <3>4
  <2>5. a \o Tail(l) = u \o l
    BY <1>0, <2>2, <2>3, <2>4, SeqEqual
  <2> QED BY <2>5 DEF a
<1> QED BY <1>2, <1>3, <1>4, <1>5

\* Every step of the link is one of those.
LEMMA StreamSteps ==
  ASSUME LinkInv, [UartNext]_uartVars
  PROVE  Loses \/ Changes \/ Grows \/ Handles \/ Renews \/ Stays
<1>0. Stream \in Seq(Bytes) /\ Unseen \in Seq(Bytes) /\ line \in Seq(Bytes)
  BY StreamIs
<1>1. /\ Unseen # <<>> => /\ Stream # <<>> /\ Stream[1] = Unseen[1]
                          /\ Tail(Unseen) \o line = Tail(Stream)
      /\ line # <<>> =>
           /\ Append(Unseen, Head(line)) \o Tail(line) = Stream
           /\ Len(Unseen) + 1 \in 1..Len(Stream) /\ Stream[Len(Unseen) + 1] = Head(line)
           /\ Unseen \o Tail(line) = Without(Stream, Len(Unseen) + 1)
           /\ \A c \in Bytes :
                Unseen \o (<<c>> \o Tail(line)) = [Stream EXCEPT ![Len(Unseen) + 1] = c]
  <2> DEFINE u == Unseen
             l == line
  <2>1. u \in Seq(Bytes) /\ l \in Seq(Bytes) /\ Stream = u \o l
    BY <1>0 DEF Stream
  <2> HIDE DEF u, l
  <2>2. u # <<>> => u \o l # <<>> /\ (u \o l)[1] = u[1] /\ Tail(u) \o l = Tail(u \o l)
    BY <2>1, ConcatTake
  <2>3. l # <<>> => Append(u, Head(l)) \o Tail(l) = u \o l
    BY <2>1, ConcatMiddle
  <2>6. l # <<>> => u \o Tail(l) = Without(u \o l, Len(u) + 1)
    BY <2>1, ConcatMiddle
  <2>5. l # <<>> => Len(u) + 1 \in 1..Len(u \o l) /\ (u \o l)[Len(u) + 1] = Head(l)
    BY <2>1, ConcatMiddle
  <2>4. l # <<>> =>
          \A c \in Bytes : u \o (<<c>> \o Tail(l)) = [u \o l EXCEPT ![Len(u) + 1] = c]
    BY <2>1, ConcatMiddle
  <2> QED BY <2>1, <2>2, <2>3, <2>4, <2>5, <2>6 DEF u, l
<1>2. Stream' = Unseen' \o line'
  BY DEF Stream
<1>3. CASE ByteArrives
  <2>1. line # <<>> /\ line' = Tail(line) /\ UNCHANGED <<sent, slip, rxbuf, delivered>>
    BY <1>3 DEF ByteArrives
  <2>2. CASE Unseen' = Append(Unseen, Head(line)) /\ harmed' = harmed
    BY <1>1, <1>2, <2>1, <2>2 DEF Stays
  <2>3. CASE Unseen' = Unseen /\ harmed' = harmed \cup {Head(line).frame}
    BY <1>1, <1>2, <2>1, <2>3 DEF Loses
  <2> QED BY <1>3, <2>2, <2>3, ArriveQueues
<1>4. CASE ByteWhileAsleep
  <2>1. /\ line # <<>> /\ line' = Tail(line) /\ UNCHANGED <<sent, slip, rxbuf, delivered>>
        /\ harmed' = harmed \cup {Head(line).frame}
    BY <1>4, HarmIs DEF ByteWhileAsleep
  <2>2. Unseen' = Unseen
    BY <1>4, OthersKeep
  <2> QED BY <1>1, <1>2, <2>1, <2>2 DEF Loses
<1>5. CASE LineFault
  <2>1. PICK v \in FaultValues : line' = <<Byte(v, Head(line).frame)>> \o Tail(line)
    BY <1>5 DEF LineFault
  <2>2. /\ line # <<>> /\ UNCHANGED <<sent, slip, rxbuf, delivered>>
        /\ harmed' = harmed \cup {Head(line).frame}
    BY <1>5, HarmIs DEF LineFault
  <2>3. v \in Values /\ Byte(v, Head(line).frame) \in Bytes
    <3>1. Head(line) \in Bytes
      BY <1>0, <2>2, HeadTailProperties
    <3> QED BY <3>1, UartAssumption DEF Byte, Bytes
  <2>4. Unseen' = Unseen
    BY <1>5, OthersKeep
  <2>5. Stream' = [Stream EXCEPT ![Len(Unseen) + 1] = Byte(v, Stream[Len(Unseen) + 1].frame)]
    BY <1>1, <1>2, <2>1, <2>2, <2>3, <2>4
  <2> QED BY <1>1, <2>2, <2>3, <2>5 DEF Changes, Changed
<1>6. CASE ControllerSends
  <2>1. PICK header \in Headers, payload \in Payloads :
           /\ line = <<>> /\ Len(sent) < MaxFrames
           /\ sent' = Append(sent, [header |-> header, payload |-> payload])
           /\ line' = Tagged(SlipFrame(Packet(header, payload)), Len(sent) + 1)
    BY <1>6, SendIs
  <2>2. UNCHANGED <<slip, rxbuf, delivered, harmed>>
    BY <1>6 DEF ControllerSends
  <2>3. Unseen' = Unseen
    BY <1>6, OthersKeep
  <2>4. Stream = Unseen
    BY <1>0, <2>1, ConcatEmptySeq DEF Stream
  <2> QED BY <1>2, <2>1, <2>2, <2>3, <2>4 DEF Grows
<1>7. CASE RxByte
  <2>1. /\ Unseen # <<>> /\ ring.buf[rx.at] = Unseen[1] /\ Unseen' = Tail(Unseen)
    BY <1>7, HandleTakes
  <2>2. line' = line /\ sent' = sent
    BY <1>7 DEF RxByte
  <2>3. Stream # <<>> /\ Stream' = Tail(Stream) /\ ring.buf[rx.at] = Stream[1]
    BY <1>1, <1>2, <2>1, <2>2
  <2>4. /\ harmed' = IF Kept(Stream[1]) THEN harmed ELSE harmed \cup {Stream[1].frame}
        /\ IF SlipComplete(slip, Stream[1])
           THEN /\ NewBuffer
                /\ IF rxbuf THEN \E kind \in Kinds(slip.got[1].val) : ProcessRxbuf(slip.got, kind)
                   ELSE delivered' = delivered
           ELSE slip' = SlipRx(slip, Stream[1]) /\ rxbuf' = rxbuf /\ delivered' = delivered
    BY <1>7, <2>3, HarmIs DEF RxByte
  <2>5. NewBuffer => \/ rxbuf' = TRUE /\ slip' = SlipReady
                     \/ rxbuf' = FALSE /\ slip' = slip
    BY NewBufferIs
  <2> QED BY <2>2, <2>3, <2>4, <2>5 DEF Handles
<1>8. CASE RxBegin
  <2>1. Unseen' = Unseen
    BY <1>8, BeginKeeps
  <2>2. /\ IF rxbuf THEN UNCHANGED <<slip, rxbuf, bounds>> ELSE NewBuffer
        /\ UNCHANGED <<sent, line, delivered, harmed>>
    BY <1>8 DEF RxBegin
  <2>3. rxbuf \in BOOLEAN
    BY DEF LinkInv, UartTypeOK
  <2>4. Stream' = Stream
    BY <1>2, <2>1, <2>2 DEF Stream
  <2>5. CASE ~rxbuf /\ rxbuf' = TRUE /\ slip' = SlipReady
    BY <2>2, <2>4, <2>5 DEF Renews
  <2>6. CASE slip' = slip /\ rxbuf' = rxbuf
    BY <2>2, <2>4, <2>6 DEF Stays
  <2>7. ~rxbuf => \/ rxbuf' = TRUE /\ slip' = SlipReady
                  \/ rxbuf' = FALSE /\ slip' = slip
    BY <2>2, NewBufferIs
  <2> QED BY <2>2, <2>3, <2>5, <2>6, <2>7
<1>9. CASE RxEnd \/ RxWait \/ RxNoticed \/ Sleeping \/ UNCHANGED uartVars
  <2>1. Unseen' = Unseen
    BY <1>9, EndGivesBack, OthersKeep
  <2>2. UNCHANGED <<sent, line, slip, rxbuf, delivered, harmed>>
    BY <1>9 DEF RxEnd, RxWait, RxNoticed, Sleeping, ArmWakeUp, ClearVeto, DisableSleep,
         DeepSleep, WakeUp, uartVars
  <2> QED BY <1>2, <2>1, <2>2 DEF Stays, Stream
<1> QED BY <1>3, <1>4, <1>5, <1>6, <1>7, <1>8, <1>9 DEF UartNext, Line, RxThread

\* What is left when one is taken out.
LEMMA WithoutIs ==
  ASSUME NEW X, NEW s \in Seq(X), NEW q \in 1..Len(s)
  PROVE  /\ Without(s, q) \in Seq(X) /\ Len(Without(s, q)) = Len(s) - 1
         /\ \A i \in 1..Len(s) - 1 : Without(s, q)[i] = IF i < q THEN s[i] ELSE s[i + 1]
         /\ \A T : Num(Without(s, q), T) <= Num(s, T)
<1>1. Len(s) \in Nat /\ Len(s) - 1 \in Nat
  BY LenProperties
<1>2. \A i \in 1..Len(s) - 1 : (IF i < q THEN s[i] ELSE s[i + 1]) \in X
  <2> SUFFICES ASSUME NEW i \in 1..Len(s) - 1 PROVE (IF i < q THEN s[i] ELSE s[i + 1]) \in X
    OBVIOUS
  <2>1. i \in 1..Len(s) /\ i + 1 \in 1..Len(s)
    BY <1>1
  <2> QED BY <2>1, ElementOfSeq
<1>3. /\ Without(s, q) \in Seq(X) /\ Len(Without(s, q)) = Len(s) - 1
      /\ \A i \in 1..Len(s) - 1 : Without(s, q)[i] = IF i < q THEN s[i] ELSE s[i + 1]
  BY <1>1, <1>2 DEF Without
<1>4. ASSUME NEW T PROVE Num(Without(s, q), T) <= Num(s, T)
  <2> DEFINE w == Without(s, q)
             A == {i \in 1..Len(w) : w[i] \in T}
             B == {i \in 1..Len(s) : s[i] \in T}
             f == [i \in A |-> IF i < q THEN i ELSE i + 1]
  <2>1. w \in Seq(X) /\ Len(w) = Len(s) - 1
    BY <1>3
  <2>2. Num(w, T) = Cardinality(A) /\ Num(s, T) = Cardinality(B) /\ IsFiniteSet(B)
    <3> HIDE DEF w
    <3> QED BY <2>1, NumIs
  <2>3. f \in [A -> B]
    <3> SUFFICES ASSUME NEW i \in A PROVE (IF i < q THEN i ELSE i + 1) \in B
      OBVIOUS
    <3>1. i \in 1..Len(s) - 1 /\ w[i] \in T /\ w[i] = (IF i < q THEN s[i] ELSE s[i + 1])
      BY <1>3, <2>1
    <3>2. i \in 1..Len(s) /\ i + 1 \in 1..Len(s)
      BY <1>1, <3>1
    <3> QED BY <3>1, <3>2
  <2>4. \A i, j \in A : f[i] = f[j] => i = j
    <3>1. A \subseteq Int
      OBVIOUS
    <3> HIDE DEF A
    <3> QED BY <3>1
  <2>5. f \in Injection(A, B)
    BY <2>3, <2>4, Zenon DEF Injection, IsInjective
  <2> HIDE DEF A, B, f
  <2>6. Cardinality(A) <= Cardinality(B)
    BY <2>2, <2>5, FS_Injection
  <2> QED BY <2>2, <2>6
<1> QED BY <1>3, <1>4

\* The bytes of a frame, and those of them that SLIP escapes.
Of(f)        == [val : Values, frame : {f}]
EscapedOf(f) == [val : Escapable, frame : {f}]

\* How many bytes of a frame it takes to get what is in a sequence.
Weight(s, f) == Num(s, Of(f)) + Num(s, EscapedOf(f))

\* What is in those sets.
LEMMA OfIs ==
  ASSUME NEW b \in Bytes, NEW f
  PROVE  /\ b.frame \in 0..MaxFrames /\ b.val \in Values
         /\ b \in Of(f) <=> b.frame = f
         /\ b \in EscapedOf(f) <=> b.frame = f /\ b.val \in Escapable
<1>1. b = [val |-> b.val, frame |-> b.frame] /\ b.val \in Values /\ b.frame \in 0..MaxFrames
  BY DEF Bytes
<1> QED BY <1>1 DEF Of, EscapedOf

\* A weight is a number, and zero when no byte is of the frame.
LEMMA WeightIs ==
  ASSUME NEW s \in Seq(Bytes), NEW f
  PROVE  /\ Weight(s, f) \in Nat /\ Num(s, Of(f)) \in Nat /\ Num(s, Of(f)) <= Len(s)
         /\ Weight(s, f) = 0 <=> \A i \in 1..Len(s) : s[i].frame # f
         /\ Num(s, Of(f)) = 0 <=> \A i \in 1..Len(s) : s[i].frame # f
<1>1. /\ Num(s, Of(f)) \in Nat /\ Num(s, EscapedOf(f)) \in Nat
      /\ Num(s, Of(f)) = 0 <=> \A i \in 1..Len(s) : s[i] \notin Of(f)
      /\ Num(s, EscapedOf(f)) = 0 <=> \A i \in 1..Len(s) : s[i] \notin EscapedOf(f)
  BY NumNat, NumIs
<1>2. Num(s, Of(f)) <= Len(s)
  <2>1. Num(s, Of(f)) \in 0..Len(s) /\ Len(s) \in Nat
    BY NumIs, LenProperties
  <2> QED BY <2>1
<1>3. \A i \in 1..Len(s) : /\ s[i] \in Of(f) <=> s[i].frame = f
                           /\ s[i] \in EscapedOf(f) => s[i].frame = f
  <2> SUFFICES ASSUME NEW i \in 1..Len(s)
               PROVE  /\ s[i] \in Of(f) <=> s[i].frame = f
                      /\ s[i] \in EscapedOf(f) => s[i].frame = f
    OBVIOUS
  <2>1. s[i] \in Bytes
    BY ElementOfSeq
  <2> QED BY <2>1, OfIs
<1>4. Num(s, Of(f)) = 0 <=> \A i \in 1..Len(s) : s[i].frame # f
  BY <1>1, <1>3
<1>5. (\A i \in 1..Len(s) : s[i].frame # f) => Num(s, EscapedOf(f)) = 0
  BY <1>1, <1>3
<1> QED BY <1>1, <1>2, <1>4, <1>5 DEF Weight

\* The weight of one byte more.
LEMMA WeightAppend ==
  ASSUME NEW s \in Seq(Bytes), NEW c \in Bytes, NEW f
  PROVE  Weight(Append(s, c), f)
           = Weight(s, f) + (IF c.frame # f THEN 0 ELSE IF c.val \in Escapable THEN 2 ELSE 1)
<1>1. /\ Num(Append(s, c), Of(f)) = Num(s, Of(f)) + (IF c \in Of(f) THEN 1 ELSE 0)
      /\ Num(Append(s, c), EscapedOf(f))
           = Num(s, EscapedOf(f)) + (IF c \in EscapedOf(f) THEN 1 ELSE 0)
  BY NumAppend
<1>2. Num(s, Of(f)) \in Nat /\ Num(s, EscapedOf(f)) \in Nat
  BY NumNat
<1> QED BY <1>1, <1>2, OfIs DEF Weight

\* The weight of one byte less.
LEMMA WeightTail ==
  ASSUME NEW s \in Seq(Bytes), s # <<>>, NEW f
  PROVE  /\ Weight(Tail(s), f) <= Weight(s, f)
         /\ s[1].frame = f => Weight(Tail(s), f) + 1 <= Weight(s, f)
         /\ Num(s, Of(f)) = Num(Tail(s), Of(f)) + (IF s[1].frame = f THEN 1 ELSE 0)
<1>1. s[1] \in Bytes /\ Tail(s) \in Seq(Bytes)
  BY HeadTailProperties
<1>2. /\ Num(s, Of(f)) = (IF s[1] \in Of(f) THEN 1 ELSE 0) + Num(Tail(s), Of(f))
      /\ Num(s, EscapedOf(f)) = (IF s[1] \in EscapedOf(f) THEN 1 ELSE 0) + Num(Tail(s), EscapedOf(f))
  BY NumTail
<1>3. Num(Tail(s), Of(f)) \in Nat /\ Num(Tail(s), EscapedOf(f)) \in Nat
  BY <1>1, NumNat
<1>4. s[1] \in Of(f) <=> s[1].frame = f
  BY <1>1, OfIs
<1> QED BY <1>2, <1>3, <1>4 DEF Weight

\* An escape that was received holds one byte of the frame back.
Esc(s) == IF s.escape THEN 1 ELSE 0

\* What slip_rx can do, by case.
SlipTo(s, b, t) ==
  \/ b.val = "END" /\ s.escape = FALSE /\ t = s
  \/ /\ b.val \notin {"ESC_END", "ESC_ESC"} /\ s.escape = TRUE
     /\ t.got = <<>> /\ t.escape = FALSE
  \/ b.val = "ESC" /\ s.escape = FALSE /\ t.got = s.got /\ t.escape = TRUE
  \/ /\ b.val \notin {"END", "ESC"} /\ s.escape = FALSE /\ t.escape = FALSE
     /\ t.got = IF Len(s.got) = s.limit THEN s.got ELSE Append(s.got, b)
  \/ /\ s.escape = TRUE /\ b.val \in {"ESC_END", "ESC_ESC"} /\ t.escape = FALSE
     /\ t.got = IF Len(s.got) = s.limit THEN s.got ELSE Append(s.got, Unescaped(b))

\* slip_rx is one of those.
LEMMA SlipCases ==
  ASSUME NEW s \in Slips, NEW b \in Bytes, Len(s.got) <= s.limit,
         NEW t, t = SlipRx(s, b)
  PROVE  SlipTo(s, b, t)
<1>0. s.escape \in BOOLEAN
  BY DEF Slips
<1>1. b.val = "END" /\ s.escape = FALSE => t = s
  BY SlipRxIs
<1>2. b.val = "END" /\ s.escape = TRUE => t.got = <<>> /\ t.escape = FALSE
  <2>1. b.val = "END" /\ s.escape = TRUE => t.got = <<>>
    BY SlipRxIs
  <2>2. b.val = "END" /\ s.escape = TRUE => t.escape = FALSE
    BY SlipRxIs
  <2> QED BY <2>1, <2>2
<1>3. b.val = "ESC" /\ s.escape = FALSE => t.got = s.got /\ t.escape = TRUE
  BY SlipRxIs
<1>4. b.val \notin {"END", "ESC"} /\ s.escape = FALSE =>
        t.escape = FALSE /\ t.got = IF Len(s.got) = s.limit THEN s.got ELSE Append(s.got, b)
  BY SlipRxIs
<1>5. b.val \in {"ESC_END", "ESC_ESC"} /\ s.escape = TRUE =>
        t.escape = FALSE /\ t.got = IF Len(s.got) = s.limit THEN s.got
                                    ELSE Append(s.got, Unescaped(b))
  BY SlipRxIs
<1>6. b.val \notin {"ESC_END", "ESC_ESC"} /\ s.escape = TRUE => t.got = <<>> /\ t.escape = FALSE
  <2>1. b.val \notin {"ESC_END", "ESC_ESC"} /\ s.escape = TRUE => t.got = <<>>
    BY SlipRxIs
  <2>2. b.val \notin {"ESC_END", "ESC_ESC"} /\ s.escape = TRUE => t.escape = FALSE
    BY SlipRxIs
  <2> QED BY <2>1, <2>2
<1> QED BY <1>0, <1>1, <1>2, <1>3, <1>4, <1>5, <1>6 DEF SlipTo

\* A byte adds at most itself to what the decoder holds of its frame, and
\* nothing to what it holds of another.
LEMMA SlipWeighs ==
  ASSUME NEW s \in Slips, NEW b \in Bytes, Len(s.got) <= s.limit, NEW f,
         NEW t, t = SlipRx(s, b)
  PROVE  /\ Weight(t.got, f) + Esc(t) <= Weight(s.got, f) + Esc(s) + 1
         /\ b.frame # f => Weight(t.got, f) <= Weight(s.got, f)
<1>1. SlipTo(s, b, t)
  BY SlipCases
<1> DEFINE w == Weight(s.got, f)
           x == Weight(t.got, f)
<1>2. s.got \in Seq(Bytes) /\ s.escape \in BOOLEAN /\ w \in Nat
  <2>1. s.got \in Seq(Bytes) /\ s.escape \in BOOLEAN
    BY DEF Slips
  <2> QED BY <2>1, WeightIs
<1>3. Weight(<<>>, f) = 0
  BY NumEmpty DEF Weight
<1>4. Unescaped(b) \in Bytes /\ Unescaped(b).frame = b.frame
  BY UnescapedIs
<1>5. /\ t.got = Append(s.got, b) =>
           x = w + (IF b.frame # f THEN 0 ELSE IF b.val \in Escapable THEN 2 ELSE 1)
      /\ t.got = Append(s.got, Unescaped(b)) =>
           x = w \/ (b.frame = f /\ (x = w + 1 \/ x = w + 2))
  <2>1. ASSUME NEW c \in Bytes
        PROVE  Weight(Append(s.got, c), f)
                 = w + (IF c.frame # f THEN 0 ELSE IF c.val \in Escapable THEN 2 ELSE 1)
    BY <1>2, WeightAppend
  <2> DEFINE c == Unescaped(b)
  <2>2. c \in Bytes /\ c.frame = b.frame
    BY <1>4
  <2> HIDE DEF c, w
  <2>3. t.got = Append(s.got, c) => x = w \/ (b.frame = f /\ (x = w + 1 \/ x = w + 2))
    BY <1>2, <2>1, <2>2
  <2>4. t.got = Append(s.got, b) =>
           x = w + (IF b.frame # f THEN 0 ELSE IF b.val \in Escapable THEN 2 ELSE 1)
    BY <2>1
  <2> QED BY <2>3, <2>4 DEF c
<1>6. t = s \/ t.got = s.got => x = w
  OBVIOUS
<1>7. t.got = <<>> => x = 0
  BY <1>3
<1>8. /\ Esc(s) = IF s.escape THEN 1 ELSE 0
      /\ Esc(t) = IF t.escape THEN 1 ELSE 0
  BY DEF Esc
<1> HIDE DEF w, x
<1>a. CASE b.val = "END" /\ t = s
  BY <1>a, <1>2, <1>6, <1>8 DEF w, x
<1>b. CASE s.escape = TRUE /\ t.got = <<>> /\ t.escape = FALSE
  BY <1>b, <1>2, <1>7, <1>8 DEF w, x
<1>c. CASE s.escape = FALSE /\ t.got = s.got /\ t.escape = TRUE
  BY <1>c, <1>2, <1>6, <1>8 DEF w, x
<1>d. CASE b.val \notin {"END", "ESC"} /\ s.escape = FALSE /\ t.escape = FALSE /\ t.got = Append(s.got, b)
  <2>1. x = w + (IF b.frame # f THEN 0 ELSE 1)
    BY <1>d, <1>5 DEF Escapable
  <2> QED BY <1>d, <1>2, <2>1, <1>8 DEF w, x
<1>e. CASE s.escape = TRUE /\ t.escape = FALSE /\ t.got = Append(s.got, Unescaped(b))
  <2>1. x = w \/ (b.frame = f /\ (x = w + 1 \/ x = w + 2))
    BY <1>e, <1>5, <1>2
  <2> QED BY <1>e, <1>2, <2>1, <1>8 DEF w, x
<1>f. CASE t.escape = FALSE /\ t.got = s.got
  BY <1>f, <1>2, <1>6, <1>8 DEF w, x
<1> QED BY <1>1, <1>a, <1>b, <1>c, <1>d, <1>e, <1>f DEF SlipTo

-----------------------------------------------------------------------------
\* The frames that are under way come in the order in which they were sent.

\* Frames in order; of the first n only; of frame f and later only.
Sorted(st)   == \A i, j \in 1..Len(st) : i <= j => st[i].frame <= st[j].frame
Within(s, n) == \A i \in 1..Len(s) : s[i].frame \in 1..n
FromOn(s, f) == \A i \in 1..Len(s) : f <= s[i].frame

\* st is the stream, heard what the decoder holds, rb whether it has a buffer,
\* del what was handed on and n the number of frames sent.
Order(st, heard, rb, del, n) ==
  /\ Sorted(st) /\ Within(st, n) /\ Within(heard, n)
  /\ \A k \in 1..Len(del) : Within(del[k].data, n)
  /\ rb => FromOn(heard, heard[1].frame) /\ (heard # <<>> => FromOn(st, heard[1].frame))

\* Of what the decoder holds after a byte, only that byte is new.
LEMMA SlipGot ==
  ASSUME NEW s \in Slips, NEW b \in Bytes, Len(s.got) <= s.limit,
         NEW t, t = SlipRx(s, b)
  PROVE  \/ t.got = s.got \/ t.got = <<>>
         \/ \E c \in Bytes : c.frame = b.frame /\ t.got = Append(s.got, c)
<1>1. SlipTo(s, b, t)
  BY SlipCases
<1>2. Unescaped(b) \in Bytes /\ Unescaped(b).frame = b.frame
  BY UnescapedIs
<1> QED BY <1>1, <1>2 DEF SlipTo

\* Order with one byte more,
LEMMA AppendOrder ==
  ASSUME NEW s \in Seq(Bytes), NEW c \in Bytes, NEW n, NEW f
  PROVE  /\ Within(s, n) /\ c.frame \in 1..n => Within(Append(s, c), n)
         /\ FromOn(s, f) /\ f <= c.frame => FromOn(Append(s, c), f)
         /\ Append(s, c) # <<>>
         /\ s # <<>> => Append(s, c)[1] = s[1]
         /\ s = <<>> => Append(s, c)[1] = c /\ Len(Append(s, c)) = 1
<1>1. /\ Len(Append(s, c)) = Len(s) + 1 /\ Append(s, c)[Len(s) + 1] = c /\ Append(s, c) \in Seq(Bytes)
      /\ \A i \in 1..Len(s) : Append(s, c)[i] = s[i]
      /\ Len(s) \in Nat
  BY AppendProperties, LenProperties
<1>2. \A i \in 1..Len(s) + 1 : i = Len(s) + 1 \/ i \in 1..Len(s)
  BY <1>1
<1>3. Within(s, n) /\ c.frame \in 1..n => Within(Append(s, c), n)
  BY <1>1, <1>2 DEF Within
<1>4. FromOn(s, f) /\ f <= c.frame => FromOn(Append(s, c), f)
  BY <1>1, <1>2 DEF FromOn
<1>5. Append(s, c) # <<>>
  BY <1>1, EmptySeq
<1>6. s # <<>> => 1 \in 1..Len(s)
  BY <1>1, EmptySeq
<1>7. s = <<>> => Len(s) = 0
  BY EmptySeq
<1> QED BY <1>1, <1>3, <1>4, <1>5, <1>6, <1>7

\* with one less,
LEMMA TailOrder ==
  ASSUME NEW st \in Seq(Bytes), st # <<>>, NEW n, NEW f
  PROVE  /\ Within(st, n) => Within(Tail(st), n) /\ st[1].frame \in 1..n
         /\ FromOn(st, f) => FromOn(Tail(st), f) /\ f <= st[1].frame
         /\ Sorted(st) => Sorted(Tail(st)) /\ FromOn(st, st[1].frame)
         /\ Tail(st) \in Seq(Bytes) /\ st[1] \in Bytes
<1>1. /\ Tail(st) \in Seq(Bytes) /\ Len(Tail(st)) = Len(st) - 1 /\ st[1] \in Bytes
      /\ \A i \in 1..Len(Tail(st)) : Tail(st)[i] = st[i + 1]
      /\ Len(st) \in Nat /\ Len(st) > 0
  BY HeadTailProperties, LenProperties, EmptySeq
<1>2. 1 \in 1..Len(st) /\ \A i \in 1..Len(st) - 1 : i + 1 \in 1..Len(st)
  BY <1>1
<1>3. Within(st, n) => Within(Tail(st), n) /\ st[1].frame \in 1..n
  BY <1>1, <1>2 DEF Within
<1>4. FromOn(st, f) => FromOn(Tail(st), f) /\ f <= st[1].frame
  BY <1>1, <1>2 DEF FromOn
<1>5. Sorted(st) => Sorted(Tail(st))
  <2> SUFFICES ASSUME Sorted(st), NEW i \in 1..Len(st) - 1, NEW j \in 1..Len(st) - 1, i <= j
               PROVE  Tail(st)[i].frame <= Tail(st)[j].frame
    BY <1>1 DEF Sorted
  <2>1. i + 1 \in 1..Len(st) /\ j + 1 \in 1..Len(st) /\ i + 1 <= j + 1
    BY <1>1
  <2>2. st[i + 1].frame <= st[j + 1].frame
    BY <2>1 DEF Sorted
  <2> QED BY <1>1, <2>2
<1>6. Sorted(st) => FromOn(st, st[1].frame)
  <2> SUFFICES ASSUME Sorted(st), NEW i \in 1..Len(st) PROVE st[1].frame <= st[i].frame
    BY DEF FromOn
  <2>1. 1 <= i
    OBVIOUS
  <2> QED BY <1>2, <2>1 DEF Sorted
<1> QED BY <1>1, <1>3, <1>4, <1>5, <1>6

\* without any,
LEMMA EmptyOrder ==
  ASSUME NEW n, NEW f
  PROVE  Within(<<>>, n) /\ FromOn(<<>>, f) /\ Sorted(<<>>)
<1>1. Len(<<>>) = 0
  BY EmptySeq
<1> QED BY <1>1 DEF Within, FromOn, Sorted

\* A sequence with frames of another, in the same order.
LEMMA WithoutOrder ==
  ASSUME NEW st \in Seq(Bytes), NEW q \in 1..Len(st), NEW n, NEW f
  PROVE  /\ Within(st, n) => Within(Without(st, q), n)
         /\ FromOn(st, f) => FromOn(Without(st, q), f)
         /\ Sorted(st) => Sorted(Without(st, q))
<1> DEFINE w == Without(st, q)
           at(i) == IF i < q THEN i ELSE i + 1
<1>1. /\ w \in Seq(Bytes) /\ Len(w) = Len(st) - 1 /\ Len(st) \in Nat
      /\ \A i \in 1..Len(st) - 1 : w[i] = IF i < q THEN st[i] ELSE st[i + 1]
  BY WithoutIs, LenProperties
<1>2. \A i \in 1..Len(st) - 1 : at(i) \in 1..Len(st) /\ w[i] = st[at(i)]
  BY <1>1
<1>3. \A i, j \in 1..Len(st) - 1 : i <= j => at(i) <= at(j)
  BY <1>1
<1> HIDE DEF w, at
<1>4. Within(st, n) => Within(w, n)
  BY <1>1, <1>2 DEF Within
<1>5. FromOn(st, f) => FromOn(w, f)
  BY <1>1, <1>2 DEF FromOn
<1>6. Sorted(st) => Sorted(w)
  BY <1>1, <1>2, <1>3 DEF Sorted
<1> QED BY <1>4, <1>5, <1>6 DEF w

\* with one changed,
LEMMA ChangeOrder ==
  ASSUME NEW st \in Seq(Bytes), NEW q \in 1..Len(st), NEW v \in Values,
         NEW w, w = Changed(st, q, v)
  PROVE  /\ w \in Seq(Bytes) /\ Len(w) = Len(st)
         /\ \A i \in 1..Len(st) : w[i].frame = st[i].frame
         /\ \A i \in 1..Len(st) : i # q => w[i] = st[i]
         /\ Sorted(st) => Sorted(w)
         /\ \A n : Within(st, n) => Within(w, n)
         /\ \A f : FromOn(st, f) => FromOn(w, f)
<1>1. st[q] \in Bytes
  BY ElementOfSeq
<1>2. Byte(v, st[q].frame) \in Bytes /\ Byte(v, st[q].frame).frame = st[q].frame
  BY <1>1 DEF Byte, Bytes
<1>3. /\ w \in Seq(Bytes) /\ Len(w) = Len(st)
      /\ \A i \in 1..Len(st) : w[i] = IF i = q THEN Byte(v, st[q].frame) ELSE st[i]
  BY <1>2, ExceptSeq DEF Changed
<1>4. \A i \in 1..Len(st) : w[i].frame = st[i].frame
  BY <1>2, <1>3
<1> QED BY <1>3, <1>4 DEF Within, FromOn, Sorted

\* and with a new frame behind.
LEMMA ConcatOrder ==
  ASSUME NEW st \in Seq(Bytes), NEW u \in Seq(Bytes), NEW n \in Nat, NEW f,
         Sorted(st), Within(st, n), \A i \in 1..Len(u) : u[i].frame = n + 1
  PROVE  /\ Sorted(st \o u) /\ Within(st \o u, n + 1)
         /\ FromOn(st, f) /\ f <= n + 1 => FromOn(st \o u, f)
<1>1. /\ st \o u \in Seq(Bytes) /\ Len(st \o u) = Len(st) + Len(u)
      /\ Len(st) \in Nat /\ Len(u) \in Nat
      /\ \A i \in 1..Len(st) : (st \o u)[i] = st[i]
      /\ \A i \in 1..Len(u) : (st \o u)[Len(st) + i] = u[i]
  BY ConcatIs
<1> DEFINE w == st \o u
           m == Len(st)
           l == Len(u)
<1>2. \A i \in 1..m : w[i].frame = st[i].frame /\ st[i].frame \in 1..n
  BY <1>1 DEF Within
<1>3. \A i \in 1..m + l : i > m => w[i].frame = n + 1
  <2> SUFFICES ASSUME NEW i \in 1..m + l, i > m PROVE w[i].frame = n + 1
    OBVIOUS
  <2> DEFINE k == i - m
  <2>1. k \in 1..l /\ i = m + k
    BY <1>1
  <2> HIDE DEF k
  <2> QED BY <1>1, <2>1
<1>4. Len(w) = m + l /\ m \in Nat /\ l \in Nat
  BY <1>1
<1>5. \A i, j \in 1..m : i <= j => st[i].frame <= st[j].frame
  BY DEF Sorted
<1>6. FromOn(st, f) => \A i \in 1..m : f <= st[i].frame
  BY DEF FromOn
<1> HIDE DEF w, m, l
<1>7. \A i \in 1..m + l : i \in 1..m \/ i > m
  BY <1>4
<1>8. Sorted(w)
  <2> SUFFICES ASSUME NEW i \in 1..m + l, NEW j \in 1..m + l, i <= j
               PROVE  w[i].frame <= w[j].frame
    BY <1>4 DEF Sorted
  <2>1. CASE i \in 1..m /\ j \in 1..m
    BY <1>2, <1>5, <2>1
  <2>2. CASE i \in 1..m /\ j > m
    <3>1. w[i].frame \in 1..n /\ w[j].frame = n + 1
      BY <1>2, <1>3, <2>2
    <3> QED BY <3>1
  <2>3. CASE i > m /\ j > m
    <3>1. w[i].frame = n + 1 /\ w[j].frame = n + 1
      BY <1>3, <2>3
    <3> QED BY <3>1
  <2> QED BY <1>4, <1>7, <2>1, <2>2, <2>3
<1>9. Within(w, n + 1)
  <2> SUFFICES ASSUME NEW i \in 1..m + l PROVE w[i].frame \in 1..n + 1
    BY <1>4 DEF Within
  <2>1. w[i].frame \in 1..n \/ w[i].frame = n + 1
    BY <1>2, <1>3, <1>7
  <2> QED BY <2>1
<1>10. FromOn(st, f) /\ f <= n + 1 => FromOn(w, f)
  <2> SUFFICES ASSUME FromOn(st, f), f <= n + 1, NEW i \in 1..m + l PROVE f <= w[i].frame
    BY <1>4 DEF FromOn
  <2> QED BY <1>2, <1>3, <1>6, <1>7
<1> QED BY <1>8, <1>9, <1>10 DEF w

\* What is handed on is part of what the decoder held.
LEMMA ProcessOrder ==
  ASSUME NEW heard \in Seq(Bytes), heard # <<>>, NEW kind \in Kinds(heard[1].val), NEW n,
         ProcessRxbuf(heard, kind), delivered \in Seq(Packets),
         Within(heard, n), \A k \in 1..Len(delivered) : Within(delivered[k].data, n)
  PROVE  \A k \in 1..Len(delivered') : Within(delivered'[k].data, n)
<1>1. CASE delivered' = delivered
  BY <1>1
<1>2. CASE delivered' # delivered
  <2>1. PICK d \in {1, 2}, data \in Seq(Bytes) :
              /\ kind \in {"plain", "checked"}
              /\ delivered' = Append(delivered, [kind |-> kind, data |-> data])
              /\ Len(heard) = d + Len(data) /\ \A i \in 1..Len(data) : data[i] = heard[d + i]
    BY <1>2, ProcessIs
  <2> DEFINE x == [kind |-> kind, data |-> data]
  <2>2. x \in Packets /\ x.data = data
    BY <2>1 DEF Packets
  <2> HIDE DEF x
  <2>3. /\ Len(delivered') = Len(delivered) + 1 /\ delivered'[Len(delivered) + 1] = x
        /\ \A i \in 1..Len(delivered) : delivered'[i] = delivered[i]
    BY <2>1, <2>2, AppendProperties DEF x
  <2>4. Within(data, n)
    <3> SUFFICES ASSUME NEW i \in 1..Len(data) PROVE data[i].frame \in 1..n
      BY DEF Within
    <3>1. Len(data) \in Nat
      BY LenProperties
    <3>2. d + i \in 1..Len(heard)
      BY <2>1, <3>1
    <3> QED BY <2>1, <3>2 DEF Within
  <2> QED BY <2>2, <2>3, <2>4, LenProperties
<1> QED BY <1>1, <1>2

\* The packets and frames of the Controller are sequences of values.
LEMMA FrameValues ==
  ASSUME NEW header \in Headers, NEW payload \in Payloads
  PROVE  Packet(header, payload) \in Seq(Values) /\ SlipFrame(Packet(header, payload)) \in Seq(Values)
         /\ Len(Packet(header, payload)) > 0 /\ payload \in Seq(Values)
<1>1. /\ Packet(header, payload) \in Seq(Values) /\ payload \in Seq(Values)
      /\ Len(Packet(header, payload)) = (IF header = "checked" THEN 2 ELSE 1) + Len(payload)
  BY PacketIs
<1>2. Len(payload) \in Nat
  BY <1>1, LenProperties
<1>3. Len(Packet(header, payload)) > 0
  BY <1>1, <1>2
<1> QED BY <1>1, <1>3, FrameIs

\* The order holds for what the link has.
OrderInv == Order(Stream, slip.got, rxbuf, delivered, Len(sent))

\* It does at first.
LEMMA OrderInit ==
  ASSUME UartInit
  PROVE  OrderInv
<1>1. LinkInv /\ Unseen = <<>> /\ line = <<>>
  BY LinkInit DEF UartInit
<1>2. Stream = <<>>
  BY <1>1 DEF Stream
<1>3. slip.got = <<>> /\ delivered = <<>>
  BY DEF UartInit, SlipReady, SlipEmpty
<1>4. Len(delivered) = 0
  BY <1>3, EmptySeq
<1> QED BY <1>2, <1>3, <1>4, EmptyOrder DEF OrderInv, Order

\* Every step keeps it.
LEMMA OrderNext ==
  ASSUME LinkInv, OrderInv, [UartNext]_uartVars
  PROVE  OrderInv'
<1> DEFINE st == Stream
           n  == Len(sent)
           heard == slip.got
<1>1. /\ st \in Seq(Bytes) /\ n \in Nat /\ slip \in Slips /\ heard \in Seq(Bytes)
      /\ delivered \in Seq(Packets) /\ rxbuf \in BOOLEAN /\ Len(slip.got) <= slip.limit
      /\ Len(sent) <= MaxFrames
  BY StreamIs, LenProperties DEF LinkInv, UartTypeOK, Slips, Packets
<1>2. /\ Sorted(st) /\ Within(st, n) /\ Within(heard, n)
      /\ \A k \in 1..Len(delivered) : Within(delivered[k].data, n)
      /\ rxbuf => FromOn(heard, heard[1].frame)
      /\ rxbuf /\ heard # <<>> => FromOn(st, heard[1].frame)
  BY DEF OrderInv, Order
<1>3. SUFFICES Order(Stream', slip'.got, rxbuf', delivered', Len(sent'))
  BY DEF OrderInv
<1>4. Loses \/ Changes \/ Grows \/ Handles \/ Renews \/ Stays
  BY StreamSteps
<1>5. SlipReady.got = <<>>
  BY DEF SlipReady
<1>6. ASSUME NEW w, Stream' = w, UNCHANGED <<sent, slip, rxbuf, delivered>>,
             Sorted(w), Within(w, n), \A f : FromOn(st, f) => FromOn(w, f)
      PROVE  Order(Stream', slip'.got, rxbuf', delivered', Len(sent'))
  BY <1>2, <1>6 DEF Order
<1> HIDE DEF st
<1>7. CASE Loses
  <2>1. PICK q \in 1..Len(st) : Stream' = Without(st, q)
    BY <1>7 DEF Loses, st
  <2>2. UNCHANGED <<sent, slip, rxbuf, delivered>>
    BY <1>7 DEF Loses
  <2> QED BY <1>1, <1>2, <1>6, <2>1, <2>2, WithoutOrder
<1>8. CASE Changes
  <2>1. PICK q \in 1..Len(st), v \in Values : Stream' = Changed(st, q, v)
    BY <1>8 DEF Changes, st
  <2>2. UNCHANGED <<sent, slip, rxbuf, delivered>>
    BY <1>8 DEF Changes
  <2> DEFINE w == Changed(st, q, v)
  <2>3. Stream' = w /\ w = Changed(st, q, v)
    BY <2>1
  <2> HIDE DEF w, n
  <2>4. Sorted(w)
    BY <1>1, <1>2, <2>3, ChangeOrder
  <2>5. Within(w, n)
    BY <1>1, <1>2, <2>3, ChangeOrder
  <2>6. \A f : FromOn(st, f) => FromOn(w, f)
    BY <1>1, <2>3, ChangeOrder
  <2> QED BY <1>6, <2>2, <2>3, <2>4, <2>5, <2>6
<1>9. CASE Stays
  BY <1>2, <1>6, <1>9 DEF Stays, st
<1>10. CASE Renews
  <2>1. Stream' = st /\ slip'.got = <<>> /\ UNCHANGED <<sent, delivered>>
    BY <1>10, <1>5 DEF Renews, st
  <2> QED BY <1>2, <2>1, EmptyOrder DEF Order
<1>11. CASE Grows
  <2>1. PICK header \in Headers, payload \in Payloads :
           /\ sent' = Append(sent, [header |-> header, payload |-> payload])
           /\ Stream' = st \o Tagged(SlipFrame(Packet(header, payload)), n + 1)
           /\ Len(sent) < MaxFrames
    BY <1>11 DEF Grows, st
  <2> DEFINE u == Tagged(SlipFrame(Packet(header, payload)), n + 1)
  <2>2. u \in Seq(Bytes) /\ \A i \in 1..Len(u) : u[i].frame = n + 1
    <3>1. SlipFrame(Packet(header, payload)) \in Seq(Values)
      BY FrameValues
    <3>2. n + 1 \in 0..MaxFrames
      <4>1. MaxFrames \in Nat
        BY UartAssumption
      <4>2. n < MaxFrames
        BY <2>1
      <4> HIDE DEF n
      <4> QED BY <1>1, <4>1, <4>2
    <3> DEFINE F == SlipFrame(Packet(header, payload))
               f == n + 1
    <3> HIDE DEF F, f
    <3>3. /\ Tagged(F, f) \in Seq(Bytes) /\ Len(Tagged(F, f)) = Len(F)
          /\ \A i \in 1..Len(F) : Tagged(F, f)[i] = Byte(F[i], f)
      BY <3>1, <3>2, TaggedIs DEF F, f
    <3>4. \A v : Byte(v, f).frame = f
      BY DEF Byte
    <3>5. \A i \in 1..Len(F) : Tagged(F, f)[i].frame = f
      BY <3>3, <3>4
    <3> QED BY <3>3, <3>5 DEF F, f
  <2> HIDE DEF u
  <2>3. Stream' = st \o u
    BY <2>1 DEF u
  <2>4. Len(sent') = n + 1
    BY <2>1, AppendProperties DEF LinkInv, UartTypeOK
  <2>5. \A x : x \in 1..n => x \in 1..n + 1
    BY <1>1
  <2>6. /\ Sorted(st \o u) /\ Within(st \o u, n + 1)
    BY <1>1, <1>2, <2>2, ConcatOrder
  <2>7. ASSUME rxbuf, heard # <<>> PROVE FromOn(st \o u, heard[1].frame)
    <3>1. heard[1].frame \in 1..n
      BY <1>1, <1>2, <2>7, EmptySeq, LenProperties DEF Within
    <3>2. heard[1].frame <= n + 1
      BY <1>1, <3>1
    <3>3. FromOn(st, heard[1].frame)
      BY <1>2, <2>7
    <3> DEFINE f == heard[1].frame
    <3> HIDE DEF f
    <3>4. FromOn(st, f) /\ f <= n + 1 => FromOn(st \o u, f)
      BY <1>1, <1>2, <2>2, ConcatOrder
    <3> QED BY <3>2, <3>3, <3>4 DEF f
  <2>8. Within(heard, n + 1) /\ \A k \in 1..Len(delivered) : Within(delivered[k].data, n + 1)
    BY <1>2, <2>5 DEF Within
  <2>9. UNCHANGED <<slip, rxbuf, delivered>>
    BY <1>11 DEF Grows
  <2> QED BY <1>2, <2>3, <2>4, <2>6, <2>7, <2>8, <2>9 DEF Order
<1>12. CASE Handles
  <2> DEFINE b == st[1]
  <2>1. st # <<>> /\ Stream' = Tail(st) /\ sent' = sent
    BY <1>12 DEF Handles, st
  <2>2. /\ Within(Tail(st), n) /\ Sorted(Tail(st)) /\ b.frame \in 1..n /\ b \in Bytes
        /\ FromOn(st, b.frame) /\ FromOn(Tail(st), b.frame)
        /\ \A f : FromOn(st, f) => FromOn(Tail(st), f) /\ f <= b.frame
    BY <1>1, <1>2, <2>1, TailOrder
  <2>3. IF SlipComplete(slip, b)
     THEN /\ \/ rxbuf' = TRUE /\ slip' = SlipReady
             \/ rxbuf' = FALSE /\ slip' = slip
          /\ IF rxbuf THEN \E kind \in Kinds(slip.got[1].val) : ProcessRxbuf(slip.got, kind)
             ELSE UNCHANGED delivered
     ELSE slip' = SlipRx(slip, b) /\ UNCHANGED <<rxbuf, delivered>>
    BY <1>12 DEF Handles, st
  <2> HIDE DEF b
  <2>4. CASE SlipComplete(slip, b)
    <3>1. \A k \in 1..Len(delivered') : Within(delivered'[k].data, n)
      <4>1. CASE delivered' = delivered
        BY <1>2, <4>1
      <4>2. CASE delivered' # delivered
        <5>1. PICK kind \in Kinds(heard[1].val) : ProcessRxbuf(heard, kind)
          BY <2>3, <2>4, <4>2
        <5>2. heard # <<>>
          BY <2>4 DEF SlipComplete
        <5> HIDE DEF heard
        <5> QED BY <1>1, <1>2, <5>1, <5>2, ProcessOrder
      <4> QED BY <4>1, <4>2
    <3>2. \/ rxbuf' = TRUE /\ slip'.got = <<>>
          \/ rxbuf' = FALSE /\ slip'.got = heard
      BY <1>5, <2>3, <2>4
    <3> QED BY <1>2, <2>1, <2>2, <3>1, <3>2, EmptyOrder DEF Order
  <2>5. CASE ~SlipComplete(slip, b)
    <3>1. slip' = SlipRx(slip, b) /\ UNCHANGED <<rxbuf, delivered>>
      BY <2>3, <2>5
    <3>2. \/ slip'.got = heard \/ slip'.got = <<>>
          \/ \E c \in Bytes : c.frame = b.frame /\ slip'.got = Append(heard, c)
      BY <1>1, <2>2, <3>1, SlipGot
    <3>3. CASE slip'.got = heard
      BY <1>2, <2>1, <2>2, <3>1, <3>3 DEF Order
    <3>4. CASE slip'.got = <<>>
      BY <1>2, <2>1, <2>2, <3>1, <3>4, EmptyOrder DEF Order
    <3>5. CASE \E c \in Bytes : c.frame = b.frame /\ slip'.got = Append(heard, c)
      <4>1. PICK c \in Bytes : c.frame = b.frame /\ slip'.got = Append(heard, c)
        BY <3>5
      <4> DEFINE g == Append(heard, c)
      <4> HIDE DEF heard
      <4>2. /\ Within(g, n)
            /\ heard # <<>> => g[1] = heard[1]
            /\ heard = <<>> => g[1] = c /\ Len(g) = 1
        BY <1>1, <1>2, <2>2, <4>1, AppendOrder
      <4>3. \A f : FromOn(heard, f) /\ f <= c.frame => FromOn(g, f)
        BY <1>1, AppendOrder
      <4> HIDE DEF g
      <4>4. slip'.got = g
        BY <4>1 DEF g
      <4>5. ASSUME rxbuf PROVE FromOn(g, g[1].frame) /\ FromOn(Tail(st), g[1].frame)
        <5>1. CASE heard # <<>>
          <6>1. FromOn(st, heard[1].frame) /\ FromOn(heard, heard[1].frame)
            BY <1>2, <4>5, <5>1
          <6>2. FromOn(Tail(st), heard[1].frame) /\ heard[1].frame <= c.frame
            BY <2>2, <4>1, <6>1
          <6> QED BY <4>2, <4>3, <5>1, <6>1, <6>2
        <5>2. CASE heard = <<>>
          <6>1. c.frame \in 1..n /\ c.frame <= c.frame
            BY <2>2, <4>1
          <6>2. FromOn(g, c.frame)
            BY <4>3, <5>2, <6>1, EmptyOrder
          <6> QED BY <2>2, <4>1, <4>2, <5>2, <6>2
        <5> QED BY <5>1, <5>2
      <4> QED BY <1>2, <2>1, <2>2, <3>1, <4>2, <4>4, <4>5 DEF Order
    <3> QED BY <3>2, <3>3, <3>4, <3>5
  <2> QED BY <2>4, <2>5
<1> QED BY <1>4, <1>7, <1>8, <1>9, <1>10, <1>11, <1>12

-----------------------------------------------------------------------------
\* How much of a frame can still be handed on: the bytes of it in the stream
\* and those that the decoder holds in a buffer, with the escape that it has
\* read.

\* Bytes in the stream, weight of what the decoder holds, an escape of it; and
\* how much of frame f is left. Without a buffer what the decoder holds is lost.
Rest(st, f)    == Num(st, Of(f))
In(s, rb, f)   == IF rb THEN Weight(s.got, f) ELSE 0
EscIn(s, rb)   == IF rb THEN Esc(s) ELSE 0
Left(st, s, rb, f) ==
  IF Rest(st, f) = 0 THEN In(s, rb, f) ELSE Rest(st, f) + In(s, rb, f) + EscIn(s, rb)

\* c copies of a frame of n bytes were handed on.  First the decoder holds
\* nothing of it; then it comes before all others in the stream; when it was
\* handed on too little of it is left for another copy.
Early(st, s, rb, c, n, f) ==
  c = 0 /\ Rest(st, f) <= n /\ (rb => Weight(s.got, f) = 0)
Seen(st, s, rb, c, n, f) ==
  c = 0 /\ FromOn(st, f) /\ Left(st, s, rb, f) <= n + 1
Once(st, s, rb, c, f) ==
  c = 1 /\ FromOn(st, f) /\ (rb => FromOn(s.got, f)) /\ Left(st, s, rb, f) <= 4
Phased(st, s, rb, c, n, f) ==
  Early(st, s, rb, c, n, f) \/ Seen(st, s, rb, c, n, f) \/ Once(st, s, rb, c, f)

\* These are numbers.
LEMMA LeftIs ==
  ASSUME NEW st \in Seq(Bytes), NEW s \in Slips, NEW rb \in BOOLEAN, NEW f
  PROVE  /\ Rest(st, f) \in Nat /\ In(s, rb, f) \in Nat /\ EscIn(s, rb) \in 0..1
         /\ Left(st, s, rb, f) \in Nat
         /\ Rest(st, f) = 0 => Left(st, s, rb, f) = In(s, rb, f)
         /\ Rest(st, f) # 0 => Left(st, s, rb, f) = Rest(st, f) + In(s, rb, f) + EscIn(s, rb)
<1>1. s.got \in Seq(Bytes)
  BY DEF Slips
<1>2. Rest(st, f) \in Nat /\ Weight(s.got, f) \in Nat
  BY <1>1, WeightIs DEF Rest
<1>3. In(s, rb, f) \in Nat
  BY <1>2 DEF In
<1>4. EscIn(s, rb) \in 0..1
  BY DEF EscIn, Esc
<1>5. /\ Rest(st, f) = 0 => Left(st, s, rb, f) = In(s, rb, f)
      /\ Rest(st, f) # 0 => Left(st, s, rb, f) = Rest(st, f) + In(s, rb, f) + EscIn(s, rb)
  BY DEF Left
<1> QED BY <1>2, <1>3, <1>4, <1>5

\* A stream with less of the frame in it is in no earlier phase.
LEMMA PhaseShrinks ==
  ASSUME NEW st \in Seq(Bytes), NEW w \in Seq(Bytes), NEW s \in Slips, NEW rb \in BOOLEAN,
         NEW c, NEW n \in Nat, NEW f, Phased(st, s, rb, c, n, f),
         Rest(w, f) <= Rest(st, f), FromOn(st, f) => FromOn(w, f)
  PROVE  Phased(w, s, rb, c, n, f)
<1> DEFINE r == Rest(st, f)
           x == Rest(w, f)
           i == In(s, rb, f)
           e == EscIn(s, rb)
           l == Left(st, s, rb, f)
           m == Left(w, s, rb, f)
<1>1. /\ r \in Nat /\ x \in Nat /\ i \in Nat /\ e \in 0..1 /\ l \in Nat /\ m \in Nat
      /\ r = 0 => l = i
      /\ r # 0 => l = r + i + e
      /\ x = 0 => m = i
      /\ x # 0 => m = x + i + e
  BY LeftIs
<1>2. x <= r
  OBVIOUS
<1> HIDE DEF r, x, i, e, l, m
<1>3. m <= l
  BY <1>1, <1>2
<1>4. \A y \in Nat : (r <= y => x <= y) /\ (l <= y => m <= y)
  BY <1>1, <1>2, <1>3
<1>5. n + 1 \in Nat
  OBVIOUS
<1>6. r <= n => x <= n
  BY <1>4
<1>7. (l <= n + 1 => m <= n + 1) /\ (l <= 4 => m <= 4)
  BY <1>4, <1>5
<1> QED BY <1>6, <1>7 DEF Phased, Early, Seen, Once, r, x, l, m

\* A new receive buffer holds nothing.
LEMMA PhaseRenews ==
  ASSUME NEW st \in Seq(Bytes), NEW s \in Slips,
         NEW c, NEW n \in Nat, NEW f, Phased(st, s, FALSE, c, n, f)
  PROVE  Phased(st, SlipReady, TRUE, c, n, f)
<1>1. SlipReady.got = <<>> /\ Esc(SlipReady) = 0
  BY DEF SlipReady, Esc
<1>2. Weight(<<>>, f) = 0
  BY NumEmpty DEF Weight
<1>3. /\ In(s, FALSE, f) = 0 /\ EscIn(s, FALSE) = 0
      /\ In(SlipReady, TRUE, f) = 0 /\ EscIn(SlipReady, TRUE) = 0
  BY <1>1, <1>2 DEF In, EscIn
<1>4. Left(st, SlipReady, TRUE, f) = Left(st, s, FALSE, f)
  BY <1>3 DEF Left
<1>5. FromOn(SlipReady.got, f) /\ Weight(SlipReady.got, f) = 0
  BY <1>1, <1>2, EmptyOrder
<1> QED BY <1>4, <1>5 DEF Phased, Early, Seen, Once

\* What is in a sorted stream of a frame that comes before its first byte.
LEMMA RestIs ==
  ASSUME NEW st \in Seq(Bytes), st # <<>>, Sorted(st), NEW f \in Nat
  PROVE  /\ Rest(st, f) = Rest(Tail(st), f) + (IF st[1].frame = f THEN 1 ELSE 0)
         /\ Rest(Tail(st), f) \in Nat /\ Tail(st) \in Seq(Bytes) /\ st[1] \in Bytes
         /\ FromOn(st, f) => FromOn(Tail(st), f) /\ f <= st[1].frame
         /\ FromOn(st, f) /\ st[1].frame # f => Rest(st, f) = 0
         /\ st[1].frame = f => FromOn(st, f)
<1>1. /\ Tail(st) \in Seq(Bytes) /\ st[1] \in Bytes
      /\ FromOn(st, f) => FromOn(Tail(st), f) /\ f <= st[1].frame
      /\ FromOn(st, st[1].frame)
  BY TailOrder
<1>2. Rest(st, f) = Rest(Tail(st), f) + (IF st[1].frame = f THEN 1 ELSE 0)
  BY WeightTail DEF Rest
<1>3. Rest(Tail(st), f) \in Nat
  BY <1>1, WeightIs DEF Rest
<1>4. FromOn(st, f) /\ st[1].frame # f => Rest(st, f) = 0
  <2> SUFFICES ASSUME FromOn(st, f), st[1].frame # f PROVE Rest(st, f) = 0
    OBVIOUS
  <2>1. f < st[1].frame
    <3>1. st[1].frame \in Nat /\ f <= st[1].frame
      BY <1>1 DEF Bytes
    <3> QED BY <3>1
  <2>2. ASSUME NEW i \in 1..Len(st) PROVE st[i].frame # f
    <3>1. st[1].frame <= st[i].frame /\ st[1].frame \in Nat
      BY <1>1 DEF FromOn, Bytes
    <3>2. st[i] \in Bytes
      BY ElementOfSeq
    <3>3. st[i].frame \in Nat
      BY <3>2 DEF Bytes
    <3> QED BY <2>1, <3>1, <3>3
  <2> QED BY <2>2, WeightIs DEF Rest
<1> QED BY <1>1, <1>2, <1>3, <1>4

\* A byte that completes no packet.
LEMMA PhaseTakes ==
  ASSUME NEW st \in Seq(Bytes), st # <<>>, Sorted(st), NEW s \in Slips, Len(s.got) <= s.limit,
         NEW rb \in BOOLEAN, NEW c, NEW n \in Nat, NEW f \in Nat,
         NEW t, t = SlipRx(s, st[1]), Phased(st, s, rb, c, n, f)
  PROVE  Phased(Tail(st), t, rb, c, n, f)
<1>1. /\ Rest(st, f) = Rest(Tail(st), f) + (IF st[1].frame = f THEN 1 ELSE 0)
      /\ Rest(Tail(st), f) \in Nat /\ Tail(st) \in Seq(Bytes) /\ st[1] \in Bytes
      /\ FromOn(st, f) => FromOn(Tail(st), f) /\ f <= st[1].frame
      /\ FromOn(st, f) /\ st[1].frame # f => Rest(st, f) = 0
      /\ st[1].frame = f => FromOn(st, f)
  BY RestIs
<1>2. /\ t \in Slips
  BY <1>1, SlipRxIs
<1>3. /\ Weight(t.got, f) + Esc(t) <= Weight(s.got, f) + Esc(s) + 1
      /\ st[1].frame # f => Weight(t.got, f) <= Weight(s.got, f)
  BY <1>1, SlipWeighs
<1>4. \/ t.got = s.got \/ t.got = <<>>
      \/ \E b \in Bytes : b.frame = st[1].frame /\ t.got = Append(s.got, b)
  BY <1>1, SlipGot
<1>5. FromOn(s.got, f) /\ FromOn(st, f) => FromOn(t.got, f)
  <2> SUFFICES ASSUME FromOn(s.got, f), FromOn(st, f) PROVE FromOn(t.got, f)
    OBVIOUS
  <2>1. s.got \in Seq(Bytes) /\ f <= st[1].frame
    BY <1>1 DEF Slips
  <2>2. CASE \E b \in Bytes : b.frame = st[1].frame /\ t.got = Append(s.got, b)
    <3>1. PICK b \in Bytes : b.frame = st[1].frame /\ t.got = Append(s.got, b)
      BY <2>2
    <3>2. f <= b.frame
      BY <2>1, <3>1
    <3>3. FromOn(Append(s.got, b), f)
      BY <2>1, <3>2, AppendOrder
    <3> QED BY <3>1, <3>3
  <2> QED BY <1>4, <2>2, EmptyOrder
<1>6. /\ Weight(t.got, f) \in Nat /\ Weight(s.got, f) \in Nat
  <2>1. s.got \in Seq(Bytes) /\ t.got \in Seq(Bytes)
    BY <1>2 DEF Slips
  <2> QED BY <2>1, WeightIs
<1> DEFINE r == Rest(st, f)
           x == Rest(Tail(st), f)
           i == In(s, rb, f)
           j == In(t, rb, f)
           e == EscIn(s, rb)
           d == EscIn(t, rb)
           l == Left(st, s, rb, f)
           m == Left(Tail(st), t, rb, f)
<1>7. /\ r \in Nat /\ i \in Nat /\ e \in 0..1 /\ l \in Nat
      /\ r = 0 => l = i
      /\ r # 0 => l = r + i + e
  BY LeftIs
<1>8. /\ x \in Nat /\ j \in Nat /\ d \in 0..1 /\ m \in Nat
      /\ x = 0 => m = j
      /\ x # 0 => m = x + j + d
  <2> DEFINE w == Tail(st)
  <2>1. w \in Seq(Bytes)
    BY <1>1
  <2> HIDE DEF w
  <2>2. /\ Rest(w, f) \in Nat /\ In(t, rb, f) \in Nat /\ EscIn(t, rb) \in 0..1
        /\ Left(w, t, rb, f) \in Nat
        /\ Rest(w, f) = 0 => Left(w, t, rb, f) = In(t, rb, f)
        /\ Rest(w, f) # 0 => Left(w, t, rb, f) = Rest(w, f) + In(t, rb, f) + EscIn(t, rb)
    BY <1>2, <2>1, LeftIs
  <2> QED BY <2>2 DEF w
<1>9. /\ rb = TRUE  => i = Weight(s.got, f) /\ j = Weight(t.got, f) /\ e = Esc(s) /\ d = Esc(t)
      /\ rb = FALSE => i = 0 /\ j = 0 /\ e = 0 /\ d = 0
  BY DEF In, EscIn
<1> HIDE DEF r, x, i, j, e, d, l, m
<1>10. /\ j + d <= i + e + 1
       /\ st[1].frame # f => j <= i
  <2>1. rb = TRUE => j + d <= i + e + 1 /\ (st[1].frame # f => j <= i)
    BY <1>3, <1>9
  <2>2. rb = FALSE => j + d <= i + e + 1 /\ (st[1].frame # f => j <= i)
    BY <1>9
  <2> QED BY <2>1, <2>2
<1>11. /\ r = x + (IF st[1].frame = f THEN 1 ELSE 0)
       /\ FromOn(st, f) /\ st[1].frame # f => r = 0
  BY <1>1 DEF r, x
<1>12. FromOn(st, f) => m <= l
  <2>1. CASE st[1].frame = f
    <3>1. r = x + 1 /\ l = r + i + e
      BY <1>7, <1>8, <1>11, <2>1
    <3>2. m <= x + j + d
      BY <1>8
    <3> QED BY <1>7, <1>8, <1>10, <3>1, <3>2
  <2>2. CASE st[1].frame # f
    <3> SUFFICES ASSUME FromOn(st, f) PROVE m <= l
      OBVIOUS
    <3>1. r = 0 /\ x = 0
      BY <1>7, <1>8, <1>11, <2>2
    <3> QED BY <1>7, <1>8, <1>10, <2>2, <3>1
  <2> QED BY <2>1, <2>2
<1>13. CASE Early(st, s, rb, c, n, f)
  <2>1. c = 0 /\ r <= n /\ (rb = TRUE => i = 0)
    BY <1>9, <1>13 DEF Early, r
  <2>2. CASE st[1].frame # f
    <3>1. x <= n /\ (rb = TRUE => j = 0)
      BY <1>7, <1>8, <1>10, <1>11, <2>1, <2>2
    <3>2. rb => Weight(t.got, f) = 0
      BY <1>9, <3>1
    <3> QED BY <2>1, <3>1, <3>2 DEF Phased, Early, x
  <2>3. CASE st[1].frame = f
    <3>1. FromOn(Tail(st), f)
      BY <1>1, <2>3
    <3>2. i = 0
      BY <1>9, <2>1
    <3>3. m <= n + 1
      <4>1. m <= x + j + d
        BY <1>8
      <4>2. x + 1 <= n
        BY <1>11, <2>1, <2>3
      <4> QED BY <1>7, <1>8, <1>10, <3>2, <4>1, <4>2
    <3> QED BY <2>1, <3>1, <3>3 DEF Phased, Seen, m
  <2> QED BY <2>2, <2>3
<1>14. CASE Seen(st, s, rb, c, n, f)
  <2>1. c = 0 /\ FromOn(st, f) /\ l <= n + 1
    BY <1>14 DEF Seen, l
  <2>2. m <= n + 1
    BY <1>7, <1>8, <1>12, <2>1
  <2> QED BY <1>1, <2>1, <2>2 DEF Phased, Seen, m
<1>15. CASE Once(st, s, rb, c, f)
  <2>1. c = 1 /\ FromOn(st, f) /\ l <= 4 /\ (rb => FromOn(s.got, f))
    BY <1>15 DEF Once, l
  <2>2. m <= 4
    BY <1>7, <1>8, <1>12, <2>1
  <2> QED BY <1>1, <1>5, <2>1, <2>2 DEF Phased, Once, m
<1> QED BY <1>13, <1>14, <1>15 DEF Phased

\* What becomes of the buffer with a packet that ends, and the copies.
EndsTo(s, t, nb) == (nb = TRUE /\ t = SlipReady) \/ (nb = FALSE /\ t = s)
\* The copies g after a frame's end, from c of before: one more needs a packet
\* that weighs w, and its header too if the packet began with this frame.
CopiesTo(c, g, s, rb, w, f) ==
  \/ g = c
  \/ /\ g = c + 1 /\ rb = TRUE /\ w <= Weight(s.got, f)
     /\ FromOn(s.got, f) => w + 1 <= Weight(s.got, f)

\* The byte that ends a packet: c copies become g, one more only if the packet
\* holds at least the w bytes of the frame's payload.
LEMMA PhaseEnds ==
  ASSUME NEW st \in Seq(Bytes), st # <<>>, Sorted(st), NEW s \in Slips,
         NEW rb \in BOOLEAN, NEW c \in Nat, NEW n \in Nat, NEW f \in Nat,
         Phased(st, s, rb, c, n, f),
         NEW t \in Slips, NEW nb \in BOOLEAN,
         EndsTo(s, t, nb),
         NEW w \in Nat, w >= 4, n <= w + 4,
         NEW g, CopiesTo(c, g, s, rb, w, f)
  PROVE  Phased(Tail(st), t, nb, g, n, f)
<1>1. /\ Rest(st, f) = Rest(Tail(st), f) + (IF st[1].frame = f THEN 1 ELSE 0)
      /\ Rest(Tail(st), f) \in Nat /\ Tail(st) \in Seq(Bytes)
      /\ FromOn(st, f) => FromOn(Tail(st), f)
      /\ FromOn(st, f) /\ st[1].frame # f => Rest(st, f) = 0
  BY RestIs
<1>2. /\ nb => t.got = <<>> /\ Weight(t.got, f) = 0 /\ FromOn(t.got, f)
      /\ In(t, nb, f) = 0 /\ EscIn(t, nb) = 0
  <2>1. SlipReady.got = <<>> /\ Esc(SlipReady) = 0
    BY DEF SlipReady, Esc
  <2>2. Weight(<<>>, f) = 0
    BY NumEmpty DEF Weight
  <2> QED BY <2>1, <2>2, EmptyOrder DEF In, EscIn, EndsTo
<1> DEFINE r == Rest(st, f)
           x == Rest(Tail(st), f)
           i == In(s, rb, f)
           e == EscIn(s, rb)
           l == Left(st, s, rb, f)
           m == Left(Tail(st), t, nb, f)
           k == Weight(s.got, f)
<1>3. /\ r \in Nat /\ i \in Nat /\ e \in 0..1 /\ l \in Nat
      /\ r = 0 => l = i
      /\ r # 0 => l = r + i + e
  BY LeftIs
<1>4. x \in Nat /\ m = x
  <2>1. x = 0 => m = In(t, nb, f)
    BY <1>1, LeftIs
  <2>2. x # 0 => m = x + In(t, nb, f) + EscIn(t, nb)
    BY <1>1, LeftIs
  <2> HIDE DEF m, x
  <2>3. x \in Nat
    BY <1>1 DEF x
  <2> QED BY <1>2, <2>1, <2>2, <2>3
<1>5. rb = TRUE => i = k
  BY DEF In
<1>6. g = c \/ (/\ g = c + 1 /\ rb = TRUE /\ w <= k
                /\ FromOn(s.got, f) => w + 1 <= k)
  BY DEF CopiesTo
<1>7. k \in Nat
  BY WeightIs DEF Slips
<1>8. /\ r = x + (IF st[1].frame = f THEN 1 ELSE 0)
      /\ FromOn(st, f) /\ st[1].frame # f => r = 0
  BY <1>1
<1> HIDE DEF r, x, i, e, l, m, k
<1>9. x <= r /\ m <= l
  BY <1>3, <1>4, <1>8
<1>10. CASE Early(st, s, rb, c, n, f)
  <2>1. c = 0 /\ r <= n /\ (rb = TRUE => k = 0)
    BY <1>10 DEF Early, r, k
  <2>2. g = 0 /\ x <= n
    BY <1>3, <1>4, <1>6, <1>9, <2>1
  <2> QED BY <1>2, <2>2 DEF Phased, Early, x
<1>11. CASE Seen(st, s, rb, c, n, f)
  <2>1. c = 0 /\ FromOn(st, f) /\ l <= n + 1 /\ FromOn(Tail(st), f)
    BY <1>1, <1>11 DEF Seen, l
  <2>2. CASE g = c
    <3>1. m <= n + 1
      BY <1>3, <1>4, <1>9, <2>1
    <3> QED BY <2>1, <2>2, <3>1 DEF Phased, Seen, m
  <2>3. CASE g = c + 1 /\ rb = TRUE /\ w <= k
    <3>1. m <= 4
      <4>1. CASE r = 0
        BY <1>4, <1>9, <4>1
      <4>2. CASE r # 0
        <5>1. st[1].frame = f /\ l = r + i + e /\ i = k
          BY <1>3, <1>5, <1>8, <2>1, <2>3, <4>2
        <5>2. r = x + 1
          BY <1>8, <5>1
        <5> QED BY <1>3, <1>4, <1>7, <2>1, <2>3, <5>1, <5>2
      <4> QED BY <4>1, <4>2
    <3> QED BY <1>2, <2>1, <2>3, <3>1 DEF Phased, Once, m
  <2> QED BY <1>6, <2>2, <2>3
<1>12. CASE Once(st, s, rb, c, f)
  <2>1. c = 1 /\ FromOn(st, f) /\ l <= 4 /\ (rb = TRUE => FromOn(s.got, f)) /\ FromOn(Tail(st), f)
    BY <1>1, <1>12 DEF Once, l
  <2>2. g = c
    <3> SUFFICES ASSUME g # c PROVE FALSE
      OBVIOUS
    <3>1. rb = TRUE /\ w + 1 <= k
      BY <1>6, <2>1
    <3>2. i = k /\ i <= l
      BY <1>3, <1>5, <3>1
    <3> QED BY <1>3, <1>7, <2>1, <3>1, <3>2
  <2>3. m <= 4
    BY <1>3, <1>4, <1>9, <2>1
  <2> QED BY <1>2, <2>1, <2>2, <2>3 DEF Phased, Once, m
<1> QED BY <1>10, <1>11, <1>12 DEF Phased

\* What is handed on when a frame arrives whole.
CopyOf(p, f) == [kind : {"plain", "checked"}, data : {Tagged(p, f)}]

\* What a second copy would be made of does not suffice if payloads have four
\* bytes, the header of an LLC packet (mmagic_llc_agent.h).
LongEnough == \A p \in Payloads : Len(p) >= 4

\* What a payload weighs, and how much longer its frame is.
LEMMA TaggedWeighs ==
  ASSUME NEW s \in Seq(Values), NEW f \in 0..MaxFrames
  PROVE  Weight(Tagged(s, f), f) = Len(s) + Num(s, Escapable)
<1> DEFINE t == Tagged(s, f)
<1>1. /\ t \in Seq(Bytes) /\ Len(t) = Len(s) /\ Len(s) \in Nat
      /\ \A i \in 1..Len(s) : t[i] = Byte(s[i], f)
  BY TaggedIs, LenProperties
<1> HIDE DEF t
<1>2. \A i \in 1..Len(s) : t[i] \in Of(f) /\ (t[i] \in EscapedOf(f) <=> s[i] \in Escapable)
  <2> SUFFICES ASSUME NEW i \in 1..Len(s)
               PROVE  t[i] \in Of(f) /\ (t[i] \in EscapedOf(f) <=> s[i] \in Escapable)
    OBVIOUS
  <2>1. s[i] \in Values /\ t[i] = Byte(s[i], f)
    BY <1>1, ElementOfSeq
  <2>2. t[i].val = s[i] /\ t[i].frame = f /\ t[i] \in Bytes
    BY <2>1 DEF Byte, Bytes
  <2> QED BY <2>2, OfIs
<1>3. Num(t, Of(f)) = Len(s)
  <2>1. {i \in 1..Len(t) : t[i] \in Of(f)} = 1..Len(s)
    BY <1>1, <1>2
  <2>2. Cardinality(1..Len(s)) = Len(s)
    <3> DEFINE m == Len(s)
    <3>1. m \in Nat
      BY <1>1
    <3> HIDE DEF m
    <3>2. Cardinality(1..m) = m
      BY <3>1, FS_Interval
    <3> QED BY <3>2 DEF m
  <2> DEFINE T == Of(f)
  <2> HIDE DEF T
  <2>3. Num(t, T) = Cardinality({i \in 1..Len(t) : t[i] \in T})
    BY <1>1, NumIs
  <2> QED BY <2>1, <2>2, <2>3 DEF T
<1>4. Num(t, EscapedOf(f)) = Num(s, Escapable)
  <2>1. {i \in 1..Len(t) : t[i] \in EscapedOf(f)} = {i \in 1..Len(s) : s[i] \in Escapable}
    BY <1>1, <1>2
  <2>2. Num(t, EscapedOf(f)) = Cardinality({i \in 1..Len(t) : t[i] \in EscapedOf(f)})
    BY <1>1, NumIs
  <2>3. Num(s, Escapable) = Cardinality({i \in 1..Len(s) : s[i] \in Escapable})
    BY NumIs
  <2> QED BY <2>1, <2>2, <2>3
<1> QED BY <1>3, <1>4 DEF Weight, t

\* A frame is at most four bytes longer than its payload weighs: two of END,
\* the header and the checksum.
LEMMA FrameWeighs ==
  ASSUME LongEnough, NEW header \in Headers, NEW payload \in Payloads, NEW f \in 0..MaxFrames
  PROVE  /\ Weight(Tagged(payload, f), f) \in Nat /\ Weight(Tagged(payload, f), f) >= 4
         /\ Len(SlipFrame(Packet(header, payload))) <= Weight(Tagged(payload, f), f) + 4
         /\ Len(SlipFrame(Packet(header, payload))) \in Nat
         /\ Len(payload) > 0
<1> DEFINE P == Packet(header, payload)
<1>1. /\ P \in Seq(Values) /\ Len(P) = (IF header = "checked" THEN 2 ELSE 1) + Len(payload)
      /\ Num(P, Escapable) = Num(payload, Escapable) /\ payload \in Seq(Values)
  BY PacketIs
<1>2. Len(payload) \in Nat /\ Num(payload, Escapable) \in Nat /\ Len(payload) >= 4
  BY <1>1, NumNat, LenProperties DEF LongEnough
<1> HIDE DEF P
<1>3. Len(SlipFrame(P)) = Offset(P, Len(P)) + 2
  <2>1. Len(P) > 0
    BY <1>1, <1>2
  <2> QED BY <1>1, <2>1, FrameIs
<1>4. Offset(P, Len(P)) = Len(P) + Num(P, Escapable)
  BY <1>1, OffsetIs
<1>5. Weight(Tagged(payload, f), f) = Len(payload) + Num(payload, Escapable)
  BY <1>1, TaggedWeighs
<1> QED BY <1>1, <1>2, <1>3, <1>4, <1>5 DEF P

\* The copies of a frame are counted by Num.
LEMMA CopiesIs ==
  ASSUME LinkInv, NEW f \in 1..Len(sent)
  PROVE  /\ Cardinality(Copies(f)) = Num(delivered, CopyOf(sent[f].payload, f))
         /\ Copies(f) = {} <=> Num(delivered, CopyOf(sent[f].payload, f)) = 0
<1> DEFINE T == CopyOf(sent[f].payload, f)
<1>1. delivered \in Seq(Packets) /\ DOMAIN delivered = 1..Len(delivered)
  BY LenProperties DEF LinkInv, UartTypeOK, Packets
<1>2. Whole(f) = Tagged(sent[f].payload, f)
  BY DEF Whole, Tagged
<1>3. \A i \in 1..Len(delivered) : delivered[i] \in T <=> delivered[i].data = Whole(f)
  <2> SUFFICES ASSUME NEW i \in 1..Len(delivered)
               PROVE  delivered[i] \in T <=> delivered[i].data = Whole(f)
    OBVIOUS
  <2>1. delivered[i] \in Packets
    BY <1>1, ElementOfSeq
  <2> QED BY <1>2, <2>1 DEF Packets, CopyOf
<1>4. Copies(f) = {i \in 1..Len(delivered) : delivered[i] \in T}
  BY <1>1, <1>3 DEF Copies
<1> HIDE DEF T
<1>5. /\ Num(delivered, T) = Cardinality({i \in 1..Len(delivered) : delivered[i] \in T})
      /\ Num(delivered, T) = 0 <=> \A i \in 1..Len(delivered) : delivered[i] \notin T
  BY <1>1, NumIs
<1>6. Copies(f) = {} <=> \A i \in 1..Len(delivered) : delivered[i] \notin T
  BY <1>4
<1> QED BY <1>4, <1>5, <1>6 DEF T

\* A copy that is handed on weighs no more than what the decoder held.
LEMMA CopyWeighs ==
  ASSUME NEW heard \in Seq(Bytes), heard # <<>>, NEW kind \in Kinds(heard[1].val),
         ProcessRxbuf(heard, kind), delivered \in Seq(Packets),
         FromOn(heard, heard[1].frame),
         NEW p \in Seq(Values), Len(p) > 0, NEW f \in 0..MaxFrames,
         NEW w, w = Weight(Tagged(p, f), f)
  PROVE  \/ Num(delivered', CopyOf(p, f)) = Num(delivered, CopyOf(p, f))
         \/ /\ Num(delivered', CopyOf(p, f)) = Num(delivered, CopyOf(p, f)) + 1
            /\ w <= Weight(heard, f)
            /\ FromOn(heard, f) => w + 1 <= Weight(heard, f)
<1>1. CASE delivered' = delivered
  BY <1>1
<1>2. CASE delivered' # delivered
  <2>1. PICK d \in {1, 2}, data \in Seq(Bytes) :
              /\ kind \in {"plain", "checked"}
              /\ delivered' = Append(delivered, [kind |-> kind, data |-> data])
              /\ Len(heard) = d + Len(data) /\ \A i \in 1..Len(data) : data[i] = heard[d + i]
              /\ d = 1 => data = Tail(heard)
              /\ d = 2 => Tail(heard) # <<>> /\ data = Tail(Tail(heard))
    BY <1>2, ProcessIs
  <2> DEFINE x == [kind |-> kind, data |-> data]
             T == CopyOf(p, f)
  <2>2. x \in Packets /\ x.data = data
    BY <2>1 DEF Packets
  <2>3. x \in T => data = Tagged(p, f)
    BY DEF CopyOf
  <2>4. delivered' = Append(delivered, x)
    BY <2>1
  <2> HIDE DEF x, T
  <2>5. Num(delivered', T) = Num(delivered, T) + (IF x \in T THEN 1 ELSE 0)
    BY <2>2, <2>4, NumAppend
  <2>6. Num(delivered, T) \in Nat
    BY NumNat
  <2>7. ASSUME data = Tagged(p, f)
        PROVE  w <= Weight(heard, f) /\ (FromOn(heard, f) => w + 1 <= Weight(heard, f))
    <3>1. w = Weight(data, f)
      BY <2>7
    <3>2. /\ Tail(heard) \in Seq(Bytes)
          /\ Weight(Tail(heard), f) <= Weight(heard, f)
          /\ heard[1].frame = f => Weight(Tail(heard), f) + 1 <= Weight(heard, f)
      BY WeightTail, HeadTailProperties
    <3>3. Weight(data, f) <= Weight(Tail(heard), f)
      <4>1. CASE d = 1
        <5>1. Weight(Tail(heard), f) \in Nat
          BY <3>2, WeightIs
        <5>2. data = Tail(heard)
          BY <2>1, <4>1
        <5>3. Weight(data, f) = Weight(Tail(heard), f)
          BY <5>2
        <5> QED BY <5>1, <5>3
      <4>2. CASE d = 2
        BY <2>1, <3>2, <4>2, WeightTail
      <4> QED BY <2>1, <4>1, <4>2
    <3>4. FromOn(heard, f) => heard[1].frame = f
      <4>1. /\ 1 \in 1..Len(heard) /\ d + 1 \in 1..Len(heard) /\ 1 \in 1..Len(data)
            /\ Len(data) = Len(p)
        <5>1. Len(data) = Len(p)
          BY <2>7, TaggedIs
        <5>2. Len(data) \in Nat /\ Len(data) > 0
          BY <5>1, LenProperties
        <5> QED BY <2>1, <5>1, <5>2
      <4>2. data[1].frame = f
        <5>1. data[1] = Byte(p[1], f)
          BY <2>7, <4>1, TaggedIs
        <5> QED BY <5>1 DEF Byte
      <4>3. heard[1].frame <= f
        <5>1. heard[1].frame <= heard[d + 1].frame
          BY <4>1 DEF FromOn
        <5> QED BY <2>1, <4>1, <4>2, <5>1
      <4>4. heard[1].frame \in Nat
        <5>1. heard[1] \in Bytes
          BY <4>1, ElementOfSeq
        <5> QED BY <5>1 DEF Bytes
      <4>5. FromOn(heard, f) => f <= heard[1].frame
        BY <4>1 DEF FromOn
      <4> QED BY <4>3, <4>4, <4>5
    <3>5. Weight(data, f) \in Nat /\ Weight(heard, f) \in Nat /\ Weight(Tail(heard), f) \in Nat
      BY <3>2, WeightIs
    <3> QED BY <3>1, <3>2, <3>3, <3>4, <3>5
  <2> QED BY <2>3, <2>5, <2>6, <2>7 DEF T
<1> QED BY <1>1, <1>2

\* Each frame that was sent is in one of the phases.
PhaseInv ==
  \A f \in 1..Len(sent) :
    Phased(Stream, slip, rxbuf, Num(delivered, CopyOf(sent[f].payload, f)),
           Len(SlipFrame(Packet(sent[f].header, sent[f].payload))), f)

\* None was sent at first.
LEMMA PhaseInit ==
  ASSUME UartInit
  PROVE  PhaseInv
<1>1. Len(sent) = 0
  BY EmptySeq DEF UartInit
<1> QED BY <1>1 DEF PhaseInv

\* A step keeps what is known of a frame that was sent before it.
LEMMA PhaseKeeps ==
  ASSUME LongEnough, LinkInv, OrderInv, Loses \/ Changes \/ Grows \/ Handles \/ Renews \/ Stays,
         NEW h \in Headers, NEW p \in Payloads, NEW f \in 1..Len(sent), NEW n,
         n = Len(SlipFrame(Packet(h, p))),
         Phased(Stream, slip, rxbuf, Num(delivered, CopyOf(p, f)), n, f)
  PROVE  Phased(Stream', slip', rxbuf', Num(delivered', CopyOf(p, f)), n, f)
<1> DEFINE st == Stream
           c  == Num(delivered, CopyOf(p, f))
<1>1. /\ st \in Seq(Bytes) /\ slip \in Slips /\ slip.got \in Seq(Bytes)
      /\ delivered \in Seq(Packets) /\ rxbuf \in BOOLEAN /\ Len(slip.got) <= slip.limit
      /\ Len(sent) \in Nat /\ Len(sent) <= MaxFrames /\ MaxFrames \in Nat
  <2>1. /\ slip \in Slips /\ delivered \in Seq(Packets) /\ rxbuf \in BOOLEAN
        /\ Len(slip.got) <= slip.limit /\ Len(sent) <= MaxFrames
        /\ sent \in Seq([header : Headers, payload : Payloads])
    BY DEF LinkInv, UartTypeOK, Slips, Packets
  <2>2. MaxFrames \in Nat
    BY UartAssumption
  <2> QED BY <2>1, <2>2, StreamIs, LenProperties DEF Slips
<1>2. Sorted(st) /\ Within(st, Len(sent)) /\ (rxbuf => FromOn(slip.got, slip.got[1].frame))
  BY DEF OrderInv, Order
<1>3. f \in Nat /\ f \in 0..MaxFrames /\ n \in Nat /\ c \in Nat
  <2>1. n \in Nat
    BY FrameValues, LenProperties
  <2>2. c \in Nat
    <3> DEFINE T == CopyOf(p, f)
    <3> HIDE DEF T
    <3>1. Num(delivered, T) \in Nat
      BY <1>1, NumNat
    <3> QED BY <3>1 DEF T
  <2> QED BY <1>1, <2>1, <2>2
<1> HIDE DEF st, c
<1>4. Phased(st, slip, rxbuf, c, n, f)
  BY DEF st, c
<1>5. ASSUME NEW w \in Seq(Bytes), Stream' = w, UNCHANGED <<slip, rxbuf, delivered>>,
             Rest(w, f) <= Rest(st, f), FromOn(st, f) => FromOn(w, f)
      PROVE  Phased(Stream', slip', rxbuf', Num(delivered', CopyOf(p, f)), n, f)
  <2>1. Phased(w, slip, rxbuf, c, n, f)
    BY <1>1, <1>3, <1>4, <1>5, PhaseShrinks
  <2> QED BY <1>5, <2>1 DEF c
<1>6. CASE Loses
  <2>1. PICK q \in 1..Len(st) : Stream' = Without(st, q)
    BY <1>6 DEF Loses, st
  <2>2. UNCHANGED <<slip, rxbuf, delivered>>
    BY <1>6 DEF Loses
  <2> DEFINE w == Without(st, q)
  <2>3. w \in Seq(Bytes) /\ Rest(w, f) <= Rest(st, f)
    BY <1>1, WithoutIs DEF Rest
  <2>4. FromOn(st, f) => FromOn(w, f)
    BY <1>1, WithoutOrder
  <2> QED BY <1>5, <2>1, <2>2, <2>3, <2>4
<1>7. CASE Changes
  <2>1. PICK q \in 1..Len(st), v \in Values : Stream' = Changed(st, q, v)
    BY <1>7 DEF Changes, st
  <2>2. UNCHANGED <<slip, rxbuf, delivered>>
    BY <1>7 DEF Changes
  <2> DEFINE w == Changed(st, q, v)
  <2>3. w = Changed(st, q, v)
    OBVIOUS
  <2> HIDE DEF w
  <2>4. /\ w \in Seq(Bytes) /\ Len(w) = Len(st)
        /\ \A i \in 1..Len(st) : w[i].frame = st[i].frame
        /\ FromOn(st, f) => FromOn(w, f)
    BY <1>1, <2>3, ChangeOrder
  <2>5. Rest(w, f) = Rest(st, f)
    <3>1. \A i \in 1..Len(st) : w[i] \in Of(f) <=> st[i] \in Of(f)
      <4> SUFFICES ASSUME NEW i \in 1..Len(st) PROVE w[i] \in Of(f) <=> st[i] \in Of(f)
        OBVIOUS
      <4>1. w[i] \in Bytes /\ st[i] \in Bytes
        BY <1>1, <2>4, ElementOfSeq
      <4> QED BY <2>4, <4>1, OfIs
    <3> DEFINE T == Of(f)
    <3>2. {i \in 1..Len(w) : w[i] \in T} = {i \in 1..Len(st) : st[i] \in T}
      BY <2>4, <3>1
    <3> HIDE DEF T
    <3>3. Num(w, T) = Cardinality({i \in 1..Len(w) : w[i] \in T})
      BY <2>4, NumIs
    <3>4. Num(st, T) = Cardinality({i \in 1..Len(st) : st[i] \in T})
      BY <1>1, NumIs
    <3> QED BY <3>2, <3>3, <3>4 DEF Rest, T
  <2>6. Rest(w, f) <= Rest(st, f)
    BY <1>1, <2>5, WeightIs DEF Rest
  <2> QED BY <1>5, <2>1, <2>2, <2>3, <2>4, <2>6
<1>8. CASE Stays
  <2>1. Stream' = st /\ UNCHANGED <<slip, rxbuf, delivered>>
    BY <1>8 DEF Stays, st
  <2> QED BY <1>4, <2>1 DEF c
<1>9. CASE Renews
  <2>1. Stream' = st /\ rxbuf = FALSE /\ rxbuf' = TRUE /\ slip' = SlipReady /\ delivered' = delivered
    BY <1>1, <1>9 DEF Renews, st
  <2>2. Phased(st, slip, FALSE, c, n, f)
    BY <1>4, <2>1
  <2>3. Phased(st, SlipReady, TRUE, c, n, f)
    BY <1>1, <1>3, <2>2, PhaseRenews
  <2> QED BY <2>1, <2>3 DEF c
<1>10. CASE Grows
  <2>1. PICK header \in Headers, payload \in Payloads :
           /\ Stream' = st \o Tagged(SlipFrame(Packet(header, payload)), Len(sent) + 1)
           /\ Len(sent) < MaxFrames
    BY <1>10 DEF Grows, st
  <2>2. UNCHANGED <<slip, rxbuf, delivered>>
    BY <1>10 DEF Grows
  <2> DEFINE F == SlipFrame(Packet(header, payload))
             m == Len(sent)
             g == m + 1
             u == Tagged(F, g)
             w == st \o u
  <2>3. F \in Seq(Values) /\ m \in Nat /\ m <= MaxFrames /\ m < MaxFrames /\ f \in 1..m
    BY <1>1, <2>1, FrameValues
  <2> HIDE DEF F, m
  <2>4. g \in 0..MaxFrames /\ f # g /\ f <= g /\ g = m + 1
    BY <1>1, <2>3
  <2>5. /\ u \in Seq(Bytes) /\ Len(u) = Len(F)
        /\ \A i \in 1..Len(F) : u[i] = Byte(F[i], g)
    BY <2>3, <2>4, TaggedIs
  <2>6. \A i \in 1..Len(u) : u[i].frame = g
    <3>1. \A v : Byte(v, g).frame = g
      BY DEF Byte
    <3> HIDE DEF u, g
    <3> QED BY <2>5, <3>1
  <2> HIDE DEF u, g
  <2>7. Rest(u, f) = 0
    BY <2>4, <2>5, <2>6, WeightIs DEF Rest
  <2>8. w \in Seq(Bytes) /\ Rest(w, f) = Rest(st, f) + Rest(u, f)
    BY <1>1, <2>5, NumConcat, ConcatProperties DEF Rest
  <2>9. Rest(w, f) <= Rest(st, f)
    BY <1>1, <2>7, <2>8, WeightIs DEF Rest
  <2>10. FromOn(st, f) => FromOn(w, f)
    <3>1. Sorted(st) /\ Within(st, m)
      BY <1>2 DEF m
    <3>2. \A i \in 1..Len(u) : u[i].frame = m + 1
      BY <2>4, <2>6
    <3>3. f <= m + 1
      BY <2>4
    <3>4. FromOn(st, f) /\ f <= m + 1 => FromOn(st \o u, f)
      BY <1>1, <2>3, <2>5, <3>1, <3>2, ConcatOrder
    <3> QED BY <3>3, <3>4
  <2>11. Stream' = w
    BY <2>1 DEF w, u, g, F, m
  <2> HIDE DEF w
  <2> QED BY <1>5, <2>2, <2>8, <2>9, <2>10, <2>11
<1>11. CASE Handles
  <2> DEFINE b == st[1]
  <2>1. st # <<>> /\ Stream' = Tail(st)
    BY <1>11 DEF Handles, st
  <2>2. IF SlipComplete(slip, b)
     THEN /\ \/ rxbuf' = TRUE /\ slip' = SlipReady
             \/ rxbuf' = FALSE /\ slip' = slip
          /\ IF rxbuf THEN \E kind \in Kinds(slip.got[1].val) : ProcessRxbuf(slip.got, kind)
             ELSE UNCHANGED delivered
     ELSE slip' = SlipRx(slip, b) /\ UNCHANGED <<rxbuf, delivered>>
    BY <1>11 DEF Handles, st
  <2>3. CASE SlipComplete(slip, b)
    <3> DEFINE w == Weight(Tagged(p, f), f)
               g == Num(delivered', CopyOf(p, f))
               heard == slip.got
    <3>1. w \in Nat /\ w >= 4 /\ n <= w + 4 /\ p \in Seq(Values) /\ Len(p) > 0
      BY <1>3, FrameWeighs, FrameValues
    <3>2. /\ rxbuf' \in BOOLEAN /\ slip' \in Slips
          /\ (rxbuf' = TRUE /\ slip' = SlipReady) \/ (rxbuf' = FALSE /\ slip' = slip)
      <4>1. SlipReady \in Slips
        BY EmptySeq DEF SlipReady, Slips
      <4> QED BY <1>1, <2>2, <2>3, <4>1
    <3>3. g = c \/ (/\ g = c + 1 /\ rxbuf = TRUE /\ w <= Weight(heard, f)
                    /\ FromOn(heard, f) => w + 1 <= Weight(heard, f))
      <4>1. CASE delivered' = delivered
        BY <4>1 DEF c
      <4>2. CASE delivered' # delivered
        <5>1. rxbuf = TRUE
          BY <1>1, <2>2, <2>3, <4>2
        <5>2. PICK kind \in Kinds(heard[1].val) : ProcessRxbuf(heard, kind)
          BY <2>2, <2>3, <4>2
        <5>3. heard # <<>> /\ heard \in Seq(Bytes) /\ FromOn(heard, heard[1].frame)
          BY <1>1, <1>2, <2>3, <5>1 DEF SlipComplete
        <5>4. w = Weight(Tagged(p, f), f)
          OBVIOUS
        <5> HIDE DEF heard, w
        <5>5. \/ Num(delivered', CopyOf(p, f)) = Num(delivered, CopyOf(p, f))
              \/ /\ Num(delivered', CopyOf(p, f)) = Num(delivered, CopyOf(p, f)) + 1
                 /\ w <= Weight(heard, f)
                 /\ FromOn(heard, f) => w + 1 <= Weight(heard, f)
          BY <1>1, <1>3, <3>1, <5>2, <5>3, <5>4, CopyWeighs
        <5> QED BY <5>1, <5>5 DEF c
      <4> QED BY <4>1, <4>2
    <3> HIDE DEF w, g
    <3>4. Phased(Tail(st), slip', rxbuf', g, n, f)
      <4> DEFINE t  == slip'
                 nb == rxbuf'
                 s  == slip
                 rb == rxbuf
      <4>1. /\ t \in Slips /\ nb \in BOOLEAN
            /\ EndsTo(s, t, nb)
        BY <3>2 DEF EndsTo
      <4>2. CopiesTo(c, g, s, rb, w, f)
        BY <3>3 DEF CopiesTo
      <4>3. s \in Slips /\ rb \in BOOLEAN /\ Phased(st, s, rb, c, n, f)
        BY <1>1, <1>4
      <4> HIDE DEF t, nb, s, rb
      <4>4. Phased(Tail(st), t, nb, g, n, f)
        BY <1>1, <1>2, <1>3, <2>1, <3>1, <4>1, <4>2, <4>3, PhaseEnds
      <4> QED BY <4>4 DEF t, nb
    <3> QED BY <2>1, <3>4 DEF g
  <2>4. CASE ~SlipComplete(slip, b)
    <3>1. slip' = SlipRx(slip, st[1]) /\ UNCHANGED <<rxbuf, delivered>>
      BY <2>2, <2>4
    <3>2. Phased(Tail(st), slip', rxbuf, c, n, f)
      BY <1>1, <1>2, <1>3, <1>4, <2>1, <3>1, PhaseTakes
    <3> QED BY <2>1, <3>1, <3>2 DEF c
  <2> QED BY <2>3, <2>4
<1> QED BY <1>6, <1>7, <1>8, <1>9, <1>10, <1>11

\* A frame that is sent: none of it is anywhere else.
LEMMA PhaseBegins ==
  ASSUME LongEnough, LinkInv, OrderInv, Grows
  PROVE  \E h \in Headers, p \in Payloads :
           /\ sent' = Append(sent, [header |-> h, payload |-> p])
           /\ Phased(Stream', slip', rxbuf', Num(delivered', CopyOf(p, Len(sent) + 1)),
                     Len(SlipFrame(Packet(h, p))), Len(sent) + 1)
<1> DEFINE st == Stream
           m  == Len(sent)
           f  == m + 1
<1>1. /\ st \in Seq(Bytes) /\ slip.got \in Seq(Bytes) /\ delivered \in Seq(Packets)
      /\ m \in Nat /\ MaxFrames \in Nat /\ rxbuf \in BOOLEAN
      /\ sent \in Seq([header : Headers, payload : Payloads])
  <2>1. /\ slip.got \in Seq(Bytes) /\ delivered \in Seq(Packets) /\ rxbuf \in BOOLEAN
        /\ sent \in Seq([header : Headers, payload : Payloads])
    BY DEF LinkInv, UartTypeOK, Packets
  <2>2. MaxFrames \in Nat
    BY UartAssumption
  <2> QED BY <2>1, <2>2, StreamIs, LenProperties
<1>2. /\ Within(st, m) /\ Within(slip.got, m)
      /\ \A k \in 1..Len(delivered) : Within(delivered[k].data, m)
  BY DEF OrderInv, Order
<1>3. PICK h \in Headers, p \in Payloads :
           /\ sent' = Append(sent, [header |-> h, payload |-> p])
           /\ Stream' = st \o Tagged(SlipFrame(Packet(h, p)), f)
           /\ m < MaxFrames
  BY DEF Grows
<1>4. UNCHANGED <<slip, rxbuf, delivered>>
  BY DEF Grows
<1> DEFINE F == SlipFrame(Packet(h, p))
           u == Tagged(F, f)
<1>5. F \in Seq(Values) /\ p \in Seq(Values)
  BY FrameValues
<1> HIDE DEF F, m, st
<1>6. f \in 1..MaxFrames /\ f \in 0..MaxFrames /\ \A i \in 1..m : i # f
  BY <1>1, <1>3
<1>7. u \in Seq(Bytes) /\ Len(u) = Len(F)
  BY <1>5, <1>6, TaggedIs
<1> HIDE DEF f, u
<1>8. Rest(st, f) = 0
  BY <1>1, <1>2, <1>6, WeightIs DEF Rest, Within
<1>9. Weight(slip.got, f) = 0
  BY <1>1, <1>2, <1>6, WeightIs DEF Within
<1>10. Rest(u, f) \in Nat /\ Rest(u, f) <= Len(F)
  BY <1>7, WeightIs DEF Rest
<1>11. Rest(st \o u, f) = Rest(st, f) + Rest(u, f)
  BY <1>1, <1>7, NumConcat DEF Rest
<1>12. Num(delivered, CopyOf(p, f)) = 0
  <2>1. ASSUME NEW k \in 1..Len(delivered) PROVE delivered[k] \notin CopyOf(p, f)
    <3> SUFFICES ASSUME delivered[k].data = Tagged(p, f) PROVE FALSE
      BY DEF CopyOf
    <3>1. Len(p) > 0 /\ Len(Tagged(p, f)) = Len(p) /\ Tagged(p, f)[1] = Byte(p[1], f)
      <4>1. Len(p) \in Nat /\ Len(p) > 0
        BY <1>5, LenProperties DEF LongEnough
      <4>2. 1 \in 1..Len(p)
        BY <4>1
      <4> QED BY <1>5, <1>6, <4>1, <4>2, TaggedIs
    <3>2. 1 \in 1..Len(delivered[k].data)
      <4>1. Len(p) \in Nat
        BY <1>5, LenProperties
      <4> QED BY <3>1, <4>1
    <3>3. delivered[k].data[1].frame = f
      BY <3>1 DEF Byte
    <3> QED BY <1>2, <1>6, <3>2, <3>3 DEF Within
  <2> DEFINE T == CopyOf(p, f)
  <2>2. \A k \in 1..Len(delivered) : delivered[k] \notin T
    BY <2>1
  <2> HIDE DEF T
  <2>3. Num(delivered, T) = 0
    BY <1>1, <2>2, NumIs
  <2> QED BY <2>3 DEF T
<1>13. Phased(Stream', slip', rxbuf', Num(delivered', CopyOf(p, f)), Len(F), f)
  <2>1. Stream' = st \o u
    BY <1>3 DEF F, u, f
  <2>2. Rest(st \o u, f) <= Len(F)
    BY <1>8, <1>10, <1>11
  <2> QED BY <1>4, <1>9, <1>12, <2>1, <2>2 DEF Phased, Early
<1> QED BY <1>3, <1>13 DEF F, f, m

\* Every step keeps the phases.
LEMMA PhaseNext ==
  ASSUME LongEnough, LinkInv, OrderInv, PhaseInv, [UartNext]_uartVars
  PROVE  PhaseInv'
<1>0. Loses \/ Changes \/ Grows \/ Handles \/ Renews \/ Stays
  BY StreamSteps
<1>1. sent \in Seq([header : Headers, payload : Payloads]) /\ Len(sent) \in Nat
  BY LenProperties DEF LinkInv, UartTypeOK
<1> SUFFICES ASSUME NEW f \in 1..Len(sent')
             PROVE  Phased(Stream', slip', rxbuf', Num(delivered', CopyOf(sent'[f].payload, f)),
                           Len(SlipFrame(Packet(sent'[f].header, sent'[f].payload))), f)
  BY DEF PhaseInv
<1>2. CASE f \in 1..Len(sent) /\ sent'[f] = sent[f]
  <2>1. sent[f] \in [header : Headers, payload : Payloads]
    BY <1>1, <1>2, ElementOfSeq
  <2> DEFINE h == sent[f].header
             p == sent[f].payload
             n == Len(SlipFrame(Packet(h, p)))
  <2>2. h \in Headers /\ p \in Payloads /\ n = Len(SlipFrame(Packet(h, p)))
    BY <2>1
  <2>3. Phased(Stream, slip, rxbuf, Num(delivered, CopyOf(p, f)), n, f)
    BY <1>2 DEF PhaseInv
  <2>4. /\ Num(delivered', CopyOf(sent'[f].payload, f)) = Num(delivered', CopyOf(p, f))
        /\ Len(SlipFrame(Packet(sent'[f].header, sent'[f].payload))) = n
    BY <1>2
  <2> HIDE DEF h, p, n
  <2>5. Phased(Stream', slip', rxbuf', Num(delivered', CopyOf(p, f)), n, f)
    BY <1>0, <1>2, <2>2, <2>3, PhaseKeeps
  <2> QED BY <2>4, <2>5
<1>3. CASE Grows
  <2>1. PICK h \in Headers, p \in Payloads :
           /\ sent' = Append(sent, [header |-> h, payload |-> p])
           /\ Phased(Stream', slip', rxbuf', Num(delivered', CopyOf(p, Len(sent) + 1)),
                     Len(SlipFrame(Packet(h, p))), Len(sent) + 1)
    BY <1>3, PhaseBegins
  <2>2. /\ Len(sent') = Len(sent) + 1
        /\ \A i \in 1..Len(sent) : sent'[i] = sent[i]
        /\ sent'[Len(sent) + 1] = [header |-> h, payload |-> p]
    BY <1>1, <2>1, AppendProperties
  <2>3. f \in 1..Len(sent) \/ f = Len(sent) + 1
    BY <1>1, <2>2
  <2>4. CASE f = Len(sent) + 1
    <3>1. sent'[f].header = h /\ sent'[f].payload = p
      BY <2>2, <2>4
    <3> QED BY <2>1, <2>4, <3>1
  <2> QED BY <1>2, <2>2, <2>3, <2>4
<1>4. CASE sent' = sent
  BY <1>2, <1>4
<1> QED BY <1>0, <1>3, <1>4 DEF Loses, Changes, Handles, Renews, Stays

\* Of no frame are two copies handed on.
OneCopy == \A f \in DOMAIN sent : Cardinality(Copies(f)) <= 1

\* What LinkInv is an invariant for.
LEMMA PhaseOnce ==
  ASSUME LinkInv, PhaseInv
  PROVE  OneCopy
<1> SUFFICES ASSUME NEW f \in 1..Len(sent) PROVE Cardinality(Copies(f)) <= 1
  BY LenProperties DEF OneCopy, LinkInv, UartTypeOK
<1> DEFINE c == Num(delivered, CopyOf(sent[f].payload, f))
<1>1. Cardinality(Copies(f)) = c
  BY CopiesIs
<1>2. c = 0 \/ c = 1
  BY DEF PhaseInv, Phased, Early, Seen, Once
<1> QED BY <1>1, <1>2

\* Of no frame are two copies handed on, although noise may make an END or an
\* escape of any of its bytes, or take one away.
THEOREM OnceEach ==
  ASSUME LongEnough
  PROVE  UartSpec => [](LinkInv /\ OrderInv /\ PhaseInv /\ OneCopy)
<1>1. UartInit => LinkInv /\ OrderInv /\ PhaseInv
  BY LinkInit, OrderInit, PhaseInit
<1>2. LinkInv /\ OrderInv /\ PhaseInv /\ [UartNext]_uartVars => (LinkInv /\ OrderInv /\ PhaseInv)'
  BY LinkNext, OrderNext, PhaseNext
<1>3. LinkInv /\ OrderInv /\ PhaseInv => OneCopy
  BY PhaseOnce
<1> QED BY <1>1, <1>2, <1>3, PTL DEF UartSpec

-----------------------------------------------------------------------------
\* Where an unharmed frame F, sent as number f, is: the thread has handled k of
\* its bytes and the others are in the stream, after p bytes.
Window(st, F, f, k, p) ==
  /\ p + Len(F) - k <= Len(st)
  /\ \A i \in 1..Len(F) - k : st[p + i] = Byte(F[k + i], f)
  /\ \A i \in 1..Len(st) : st[i].frame = f => p < i /\ i <= p + Len(F) - k

\* The parts of a byte.
LEMMA WindowFrame ==
  ASSUME NEW v, NEW f
  PROVE  Byte(v, f).frame = f /\ Byte(v, f).val = v
BY DEF Byte

\* A byte of another frame is outside.
LEMMA WindowOutside ==
  ASSUME NEW st, NEW F \in Seq(Values), NEW f, NEW k \in 0..Len(F), NEW p \in Nat,
         Window(st, F, f, k, p), NEW q \in Nat \ {0}, st[q].frame # f
  PROVE  q <= p \/ p + Len(F) - k < q
<1> DEFINE l == Len(F)
           i == q - p
<1>1. l \in Nat /\ k \in 0..l
  BY LenProperties
<1>2. \A j \in 1..l - k : st[p + j].frame = f
  BY WindowFrame DEF Window
<1> HIDE DEF l
<1>3. SUFFICES ASSUME p < q, q <= p + l - k PROVE FALSE
  BY <1>1 DEF l
<1>4. i \in 1..l - k /\ p + i = q
  BY <1>1, <1>3
<1> HIDE DEF i
<1> QED BY <1>2, <1>4

\* A byte of another frame is lost,
LEMMA WindowLoses ==
  ASSUME NEW st \in Seq(Bytes), NEW F \in Seq(Values), NEW f, NEW k \in 0..Len(F),
         NEW p \in 0..Len(st), Window(st, F, f, k, p),
         NEW q \in 1..Len(st), st[q].frame # f, NEW w, w = Without(st, q)
  PROVE  \E r \in 0..Len(w) : Window(w, F, f, k, r) /\ (p = 0 => r = 0)
<1> DEFINE l == Len(F)
           n == Len(st)
<1>1. l \in Nat /\ k \in 0..l /\ n \in Nat /\ p \in 0..n /\ q \in 1..n
  BY LenProperties
<1>2. /\ Len(w) = n - 1
      /\ \A i \in 1..n - 1 : w[i] = IF i < q THEN st[i] ELSE st[i + 1]
  BY WithoutIs
<1>3. /\ p + l - k <= n
      /\ \A i \in 1..l - k : st[p + i] = Byte(F[k + i], f)
      /\ \A i \in 1..n : st[i].frame = f => p < i /\ i <= p + l - k
  BY DEF Window
<1>4. q <= p \/ p + l - k < q
  <2>1. q \in Nat \ {0} /\ p \in Nat
    BY <1>1
  <2> QED BY <2>1, WindowOutside
<1> HIDE DEF l, n
<1>5. CASE q <= p
  <2> DEFINE r == p - 1
  <2>1. r \in 0..n - 1 /\ p # 0 /\ r + l - k <= n - 1 /\ r + 1 = p
    BY <1>1, <1>3, <1>5
  <2> HIDE DEF r
  <2>2. ASSUME NEW i \in 1..l - k PROVE w[r + i] = Byte(F[k + i], f)
    <3>1. r + i \in 1..n - 1 /\ ~(r + i < q) /\ (r + i) + 1 = p + i
      BY <1>1, <1>3, <1>5, <2>1
    <3> QED BY <1>2, <1>3, <3>1
  <2>3. ASSUME NEW i \in 1..n - 1, w[i].frame = f PROVE r < i /\ i <= r + l - k
    <3>1. CASE i < q
      <4>1. i \in 1..n /\ st[i].frame = f
        BY <1>1, <1>2, <2>3, <3>1
      <4>2. p < i
        BY <1>3, <4>1
      <4> QED BY <1>1, <1>5, <3>1, <4>2
    <3>2. CASE ~(i < q)
      <4>1. i + 1 \in 1..n /\ st[i + 1].frame = f
        BY <1>1, <1>2, <2>3, <3>2
      <4>2. p < i + 1 /\ i + 1 <= p + l - k
        BY <1>3, <4>1
      <4> QED BY <1>1, <2>1, <4>2
    <3> QED BY <3>1, <3>2
  <2>4. Window(w, F, f, k, r)
    BY <1>2, <2>1, <2>2, <2>3 DEF Window, l
  <2> QED BY <1>2, <2>1, <2>4
<1>6. CASE p + l - k < q
  <2>1. p \in 0..n - 1 /\ p + l - k <= n - 1
    BY <1>1, <1>6
  <2>2. ASSUME NEW i \in 1..l - k PROVE w[p + i] = Byte(F[k + i], f)
    <3>1. p + i \in 1..n - 1 /\ p + i < q
      BY <1>1, <1>6
    <3> QED BY <1>2, <1>3, <3>1
  <2>3. ASSUME NEW i \in 1..n - 1, w[i].frame = f PROVE p < i /\ i <= p + l - k
    <3>1. CASE i < q
      <4>1. i \in 1..n /\ st[i].frame = f
        BY <1>1, <1>2, <2>3, <3>1
      <4> QED BY <1>3, <4>1
    <3>2. CASE ~(i < q)
      <4>1. i + 1 \in 1..n /\ st[i + 1].frame = f
        BY <1>1, <1>2, <2>3, <3>2
      <4>2. i + 1 <= p + l - k
        BY <1>3, <4>1
      <4> QED BY <1>1, <1>6, <3>2, <4>2
    <3> QED BY <3>1, <3>2
  <2>4. Window(w, F, f, k, p)
    BY <1>2, <2>1, <2>2, <2>3 DEF Window, l
  <2> QED BY <1>2, <2>1, <2>4
<1> QED BY <1>4, <1>5, <1>6 DEF l

\* or changed,
LEMMA WindowChanges ==
  ASSUME NEW st \in Seq(Bytes), NEW F \in Seq(Values), NEW f, NEW k \in 0..Len(F),
         NEW p \in 0..Len(st), Window(st, F, f, k, p),
         NEW q \in 1..Len(st), NEW v \in Values, st[q].frame # f, NEW w, w = Changed(st, q, v)
  PROVE  Window(w, F, f, k, p) /\ Len(w) = Len(st)
<1> DEFINE l == Len(F)
           n == Len(st)
<1>1. l \in Nat /\ k \in 0..l /\ n \in Nat /\ p \in 0..n /\ q \in 1..n
  BY LenProperties
<1>2. /\ Len(w) = n
      /\ \A i \in 1..n : w[i].frame = st[i].frame
      /\ \A i \in 1..n : i # q => w[i] = st[i]
  <2>1. Len(w) = Len(st)
    BY ChangeOrder
  <2>2. \A i \in 1..Len(st) : w[i].frame = st[i].frame
    BY ChangeOrder
  <2>3. \A i \in 1..Len(st) : i # q => w[i] = st[i]
    BY ChangeOrder
  <2> QED BY <2>1, <2>2, <2>3
<1>3. /\ p + l - k <= n
      /\ \A i \in 1..l - k : st[p + i] = Byte(F[k + i], f)
      /\ \A i \in 1..n : st[i].frame = f => p < i /\ i <= p + l - k
  BY DEF Window
<1>4. q <= p \/ p + l - k < q
  <2>1. q \in Nat \ {0} /\ p \in Nat
    BY <1>1
  <2> QED BY <2>1, WindowOutside
<1> HIDE DEF l, n
<1>5. ASSUME NEW i \in 1..l - k PROVE w[p + i] = Byte(F[k + i], f)
  <2>1. p + i \in 1..n /\ p + i # q
    BY <1>1, <1>3, <1>4
  <2> QED BY <1>2, <1>3, <2>1
<1>6. \A i \in 1..n : w[i].frame = f => p < i /\ i <= p + l - k
  BY <1>2, <1>3
<1> QED BY <1>2, <1>3, <1>5, <1>6 DEF Window, l, n

\* or a frame is sent behind it.
LEMMA WindowGrows ==
  ASSUME NEW st \in Seq(Bytes), NEW F \in Seq(Values), NEW f, NEW k \in 0..Len(F),
         NEW p \in 0..Len(st), Window(st, F, f, k, p),
         NEW u \in Seq(Bytes), \A i \in 1..Len(u) : u[i].frame # f
  PROVE  Window(st \o u, F, f, k, p) /\ p \in 0..Len(st \o u)
<1> DEFINE l == Len(F)
           n == Len(st)
           m == Len(u)
           w == st \o u
<1>1. l \in Nat /\ k \in 0..l /\ n \in Nat /\ p \in 0..n /\ m \in Nat
  BY LenProperties
<1>2. /\ Len(w) = n + m
      /\ \A i \in 1..n : w[i] = st[i]
      /\ \A i \in 1..m : w[n + i] = u[i]
  BY ConcatIs
<1>3. /\ p + l - k <= n
      /\ \A i \in 1..l - k : st[p + i] = Byte(F[k + i], f)
      /\ \A i \in 1..n : st[i].frame = f => p < i /\ i <= p + l - k
  BY DEF Window
<1>4. \A i \in 1..m : u[i].frame # f
  OBVIOUS
<1> HIDE DEF l, n, m, w
<1>5. ASSUME NEW i \in 1..l - k PROVE w[p + i] = Byte(F[k + i], f)
  <2>1. p + i \in 1..n
    BY <1>1, <1>3
  <2> QED BY <1>2, <1>3, <2>1
<1>6. ASSUME NEW i \in 1..n + m, w[i].frame = f PROVE p < i /\ i <= p + l - k
  <2>1. CASE i <= n
    <3>1. i \in 1..n
      BY <1>1, <2>1
    <3>2. w[i] = st[i]
      BY <1>2, <3>1
    <3>3. st[i].frame = f
      BY <1>6, <3>2
    <3> QED BY <1>3, <3>1, <3>3
  <2>2. CASE i > n
    <3> DEFINE j == i - n
    <3>1. j \in 1..m /\ i = n + j
      BY <1>1, <2>2
    <3> HIDE DEF j
    <3> QED BY <1>2, <1>4, <1>6, <3>1
  <2> QED BY <1>1, <2>1, <2>2
<1>7. p + l - k <= n + m /\ p \in 0..n + m
  BY <1>1, <1>3
<1> QED BY <1>2, <1>5, <1>6, <1>7 DEF Window, l, w

\* The thread takes the first byte: it is of the frame or comes before it, or
\* nothing of the frame was left.
LEMMA WindowTakes ==
  ASSUME NEW st \in Seq(Bytes), st # <<>>, NEW F \in Seq(Values), NEW f, NEW k \in 0..Len(F),
         NEW p \in 0..Len(st), Window(st, F, f, k, p)
  PROVE  /\ k = Len(F) => Window(Tail(st), F, f, k, 0)
         /\ k < Len(F) /\ p > 0 =>
              Window(Tail(st), F, f, k, p - 1) /\ p - 1 \in 0..Len(Tail(st))
         /\ k < Len(F) /\ p = 0 =>
              st[1] = Byte(F[k + 1], f) /\ Window(Tail(st), F, f, k + 1, 0)
<1> DEFINE l == Len(F)
           n == Len(st)
           w == Tail(st)
<1>1. l \in Nat /\ k \in 0..l /\ n \in Nat /\ p \in 0..n /\ n > 0
  BY LenProperties, EmptySeq
<1>2. Len(w) = n - 1 /\ \A i \in 1..n - 1 : w[i] = st[i + 1]
  BY HeadTailProperties
<1>3. /\ p + l - k <= n
      /\ \A i \in 1..l - k : st[p + i] = Byte(F[k + i], f)
      /\ \A i \in 1..n : st[i].frame = f => p < i /\ i <= p + l - k
  BY DEF Window
<1> HIDE DEF l, n, w
<1>4. ASSUME NEW i \in 1..n - 1, w[i].frame = f
      PROVE  p < i + 1 /\ i + 1 <= p + l - k
  <2>1. i + 1 \in 1..n /\ st[i + 1].frame = f
    BY <1>1, <1>2, <1>4
  <2> QED BY <1>3, <2>1
<1>5. ASSUME k = l PROVE Window(w, F, f, k, 0)
  <2>1. 0 + l - k <= n - 1 /\ \A i \in 1..l - k : FALSE
    BY <1>1, <1>5
  <2>2. ASSUME NEW i \in 1..n - 1, w[i].frame = f PROVE 0 < i /\ i <= 0 + l - k
    BY <1>1, <1>4, <1>5, <2>2
  <2> QED BY <1>2, <2>1, <2>2 DEF Window, l
<1>6. ASSUME k < l, p > 0 PROVE Window(w, F, f, k, p - 1) /\ p - 1 \in 0..n - 1
  <2> DEFINE r == p - 1
  <2>1. r \in 0..n - 1 /\ r + l - k <= n - 1 /\ r + 1 = p
    BY <1>1, <1>3, <1>6
  <2> HIDE DEF r
  <2>2. ASSUME NEW i \in 1..l - k PROVE w[r + i] = Byte(F[k + i], f)
    <3>1. r + i \in 1..n - 1 /\ (r + i) + 1 = p + i
      BY <1>1, <2>1
    <3> QED BY <1>2, <1>3, <3>1
  <2>3. ASSUME NEW i \in 1..n - 1, w[i].frame = f PROVE r < i /\ i <= r + l - k
    BY <1>1, <1>4, <2>1, <2>3
  <2>4. Window(w, F, f, k, r)
    BY <1>2, <2>1, <2>2, <2>3 DEF Window, l
  <2> QED BY <2>1, <2>4 DEF r
<1>7. ASSUME k < l, p = 0 PROVE st[1] = Byte(F[k + 1], f) /\ Window(w, F, f, k + 1, 0)
  <2> DEFINE j == k + 1
  <2>1. 0 + l - j <= n - 1 /\ 1 \in 1..l - k /\ 0 + 1 = 1 /\ j \in 1..l
    BY <1>1, <1>3, <1>7
  <2>2. st[1] = Byte(F[j], f)
    BY <1>3, <1>7, <2>1
  <2>3. ASSUME NEW i \in 1..l - j PROVE w[0 + i] = Byte(F[j + i], f)
    <3>1. i \in 1..n - 1 /\ i + 1 \in 1..l - k /\ 0 + i = i /\ k + (i + 1) = j + i
      BY <1>1, <2>1
    <3>2. st[0 + (i + 1)] = Byte(F[k + (i + 1)], f)
      BY <1>3, <1>7, <3>1
    <3>3. 0 + (i + 1) = i + 1
      BY <3>1
    <3> QED BY <1>2, <3>1, <3>2, <3>3
  <2>4. ASSUME NEW i \in 1..n - 1, w[i].frame = f PROVE 0 < i /\ i <= 0 + l - j
    BY <1>1, <1>4, <1>7, <2>1, <2>4
  <2> HIDE DEF j
  <2>5. Window(w, F, f, j, 0)
    BY <1>2, <2>1, <2>3, <2>4 DEF Window, l
  <2> QED BY <2>2, <2>5 DEF j
<1> QED BY <1>1, <1>2, <1>5, <1>6, <1>7 DEF l, n, w

\* The first bytes of a packet, as they were sent.
Lead(P, f, n) == [i \in 1..n |-> Byte(P[i], f)]

\* The decoder has handled the first k bytes of the frame of P and holds the
\* first bytes of P, and nothing else.
Decoded(s, P, f, k) ==
  \E n \in 0..Len(P) :
    /\ k = 1 + Offset(P, n) + Esc(s)
    /\ s.escape = TRUE => n < Len(P) /\ P[n + 1] \in Escapable
    /\ s.got = Lead(P, f, n)

\* One byte more is decoded.
LEMMA LeadIs ==
  ASSUME NEW P \in Seq(Values), NEW f \in 0..MaxFrames, NEW n \in 0..Len(P)
  PROVE  /\ Lead(P, f, n) \in Seq(Bytes) /\ Len(Lead(P, f, n)) = n
         /\ n < Len(P) => Append(Lead(P, f, n), Byte(P[n + 1], f)) = Lead(P, f, n + 1)
         /\ n = 0 => Lead(P, f, n) = <<>>
         /\ n # 0 => Lead(P, f, n) # <<>>
         /\ n = Len(P) => Lead(P, f, n) = Tagged(P, f)
<1>1. Len(P) \in Nat /\ DOMAIN P = 1..Len(P) /\ \A i \in 1..Len(P) : Byte(P[i], f) \in Bytes
  BY TaggedIs, LenProperties
<1>2. n \in Nat /\ \A i \in 1..n : i \in 1..Len(P)
  BY <1>1
<1>3. Lead(P, f, n) \in Seq(Bytes) /\ Len(Lead(P, f, n)) = n
  BY <1>1, <1>2 DEF Lead
<1>4. n < Len(P) => Append(Lead(P, f, n), Byte(P[n + 1], f)) = Lead(P, f, n + 1)
  <2> SUFFICES ASSUME n < Len(P)
               PROVE  Append(Lead(P, f, n), Byte(P[n + 1], f)) = Lead(P, f, n + 1)
    OBVIOUS
  <2> DEFINE a == Append(Lead(P, f, n), Byte(P[n + 1], f))
             l == Lead(P, f, n + 1)
  <2>1. n + 1 \in 1..Len(P) /\ n + 1 \in Nat
    BY <1>1
  <2>2. l \in Seq(Bytes) /\ Len(l) = n + 1 /\ \A i \in 1..n + 1 : l[i] = Byte(P[i], f)
    BY <1>1, <2>1 DEF Lead
  <2>3. \A i \in 1..n : Lead(P, f, n)[i] = Byte(P[i], f)
    BY DEF Lead
  <2>4. /\ a \in Seq(Bytes) /\ Len(a) = n + 1 /\ a[n + 1] = Byte(P[n + 1], f)
        /\ \A i \in 1..n : a[i] = Lead(P, f, n)[i]
    BY <1>1, <1>3, <2>1, AppendProperties
  <2>5. \A i \in 1..n + 1 : a[i] = l[i]
    <3>1. \A i \in 1..n + 1 : i \in 1..n \/ i = n + 1
      BY <1>2
    <3> QED BY <2>2, <2>3, <2>4, <3>1
  <2> HIDE DEF a, l
  <2>6. a = l
    BY <2>2, <2>4, <2>5, SeqEqual
  <2> QED BY <2>6 DEF a, l
<1>5. n = 0 => Lead(P, f, n) = <<>>
  BY <1>3, EmptySeq
<1>6. n # 0 => Lead(P, f, n) # <<>>
  BY <1>3, EmptySeq
<1>7. n = Len(P) => Lead(P, f, n) = Tagged(P, f)
  BY <1>1 DEF Lead, Tagged
<1> QED BY <1>3, <1>4, <1>5, <1>6, <1>7

LEMMA EscIs ==
  ASSUME NEW s
  PROVE  /\ s.escape = TRUE => Esc(s) = 1
         /\ s.escape = FALSE => Esc(s) = 0
BY DEF Esc

\* After the END that begins a frame the decoder is ready for it, whatever was
\* before.
LEMMA DecodeBegins ==
  ASSUME NEW P \in Seq(Values), Len(P) > 0, NEW f \in 0..MaxFrames, NEW s \in Slips,
         Len(s.got) <= s.limit, NEW b, b = Byte("END", f)
  PROVE  /\ Decoded(SlipReady, P, f, 1)
         /\ ~SlipComplete(s, b) => Decoded(SlipRx(s, b), P, f, 1)
<1>1. ASSUME NEW t, t.got = <<>>, t.escape = FALSE PROVE Decoded(t, P, f, 1)
  <2>1. Len(P) \in Nat /\ 0 \in 0..Len(P)
    BY LenProperties
  <2>2. Lead(P, f, 0) = <<>>
    BY <2>1, LeadIs
  <2>3. Offset(P, 0) = 0 /\ Esc(t) = 0
    BY <1>1, OffsetIs, EscIs
  <2>4. t.escape # TRUE
    BY <1>1
  <2>5. \E n \in 0..Len(P) :
          /\ 1 = 1 + Offset(P, n) + Esc(t)
          /\ t.escape = TRUE => n < Len(P) /\ P[n + 1] \in Escapable
          /\ t.got = Lead(P, f, n)
    <3> WITNESS 0 \in 0..Len(P)
    <3> QED BY <1>1, <2>2, <2>3, <2>4
  <2> QED BY <2>5 DEF Decoded
<1>2. SlipReady.got = <<>> /\ SlipReady.escape = FALSE
  BY DEF SlipReady
<1>3. b \in Bytes /\ b.val = "END"
  BY DEF Byte, Bytes, Values, Special
<1>4. ASSUME ~SlipComplete(s, b), NEW t, t = SlipRx(s, b) PROVE t.got = <<>> /\ t.escape = FALSE
  <2>1. SlipTo(s, b, t)
    BY <1>3, <1>4, SlipCases
  <2>2. s.escape = TRUE \/ (s.escape = FALSE /\ s.got = <<>>)
    BY <1>3, <1>4 DEF SlipComplete, Slips
  <2> QED BY <1>3, <2>1, <2>2 DEF SlipTo
<1> QED BY <1>1, <1>2, <1>4

\* Each byte of the frame takes the decoder one byte on, up to the END that
\* completes just this packet.
LEMMA DecodeTakes ==
  ASSUME NEW P \in Seq(Values), Len(P) > 0, NEW f \in 0..MaxFrames, NEW s \in Slips,
         Len(s.got) <= s.limit,
         NEW k \in Nat, k < Len(SlipFrame(P)), Decoded(s, P, f, k),
         NEW b, b = Byte(SlipFrame(P)[k + 1], f),
         Len(s.got) < s.limit \/ b.val = "END"
  PROVE  \/ k + 1 < Len(SlipFrame(P)) /\ ~SlipComplete(s, b) /\ Decoded(SlipRx(s, b), P, f, k + 1)
         \/ k + 1 = Len(SlipFrame(P)) /\ SlipComplete(s, b) /\ s.got = Tagged(P, f)
<1> DEFINE F == SlipFrame(P)
           l == Len(P)
           O(n) == Offset(P, n)
           t == SlipRx(s, b)
<1>1. PICK n \in 0..l :
         /\ k = 1 + O(n) + Esc(s)
         /\ s.escape = TRUE => n < l /\ P[n + 1] \in Escapable
         /\ s.got = Lead(P, f, n)
  BY DEF Decoded
<1>2. /\ l \in Nat /\ l > 0 /\ n \in 0..l
      /\ \A i \in 0..l : O(i) \in Nat
      /\ \A i \in 1..l : O(i) = O(i - 1) + Len(Escaped(P[i]))
  BY OffsetIs, LenProperties
<1>3. /\ Len(F) = O(l) + 2 /\ F[O(l) + 2] = "END"
      /\ \A i \in 1..l : O(i) <= O(l)
  BY FrameIs
<1>4. \A i \in 1..l : \A j \in 1..Len(Escaped(P[i])) : F[1 + O(i - 1) + j] = Escaped(P[i])[j]
  BY FrameIs
<1>5. F \in Seq(Values)
  BY FrameIs
<1>6. b \in Bytes /\ b.val = F[k + 1] /\ b.frame = f /\ b = Byte(b.val, f)
  <2>1. k + 1 \in 1..Len(F)
    BY <1>2, <1>3
  <2>2. F[k + 1] \in Values
    BY <1>5, <2>1, ElementOfSeq
  <2> HIDE DEF F
  <2> QED BY <2>2 DEF F, Byte, Bytes
<1> HIDE DEF F, O, t
<1>7. s.escape \in BOOLEAN
  BY DEF Slips
<1>8. SlipTo(s, b, t)
  BY <1>6, SlipCases DEF t
<1>a. b.val # "END" => Len(s.got) # s.limit
  <2>1. Len(s.got) \in Nat /\ s.limit \in Nat
    BY UartAssumption, LenProperties DEF Slips
  <2> QED BY <2>1
<1>9. CASE n < l
  <2> DEFINE m == n + 1
             v == P[m]
  <2>0. m \in 1..l /\ m - 1 = n /\ m \in 0..l
    BY <1>2, <1>9
  <2> HIDE DEF m
  <2>1. m \in 1..l /\ v \in Values /\ m - 1 = n /\ m \in 0..l
    BY <2>0, ElementOfSeq
  <2>2. /\ v \in Escapable => /\ Len(Escaped(v)) = 2 /\ Escaped(v)[1] = "ESC"
                              /\ Escaped(v)[2] = IF v = "END" THEN "ESC_END" ELSE "ESC_ESC"
        /\ v \notin Escapable => Len(Escaped(v)) = 1 /\ Escaped(v)[1] = v
    BY <2>1, EscapedIs
  <2>3. O(m) = O(n) + Len(Escaped(v)) /\ O(m) <= O(l) /\ O(n) \in Nat /\ O(m) \in Nat /\ O(l) \in Nat
    <3>1. l \in 0..l
      BY <1>2
    <3> QED BY <1>2, <1>3, <2>1, <3>1
  <2>4. \A j \in 1..Len(Escaped(v)) : F[1 + O(n) + j] = Escaped(v)[j]
    BY <1>4, <2>1
  <2>5. Append(Lead(P, f, n), Byte(v, f)) = Lead(P, f, m)
    BY <1>9, LeadIs DEF m
  <2>6. CASE s.escape = TRUE
    <3>1. v \in Escapable /\ k = O(n) + 2
      <4>1. Esc(s) = 1
        BY <2>6, EscIs
      <4>2. k = 1 + O(n) + 1
        BY <1>1, <4>1
      <4> QED BY <1>1, <2>3, <2>6, <4>2 DEF m
    <3>2. /\ k + 1 = 1 + O(n) + 2 /\ k + 1 = 1 + O(m) /\ k + 1 < Len(F)
      <4>1. Len(Escaped(v)) = 2 /\ Len(F) = O(l) + 2
        BY <1>3, <2>2, <3>1
      <4> QED BY <2>3, <3>1, <4>1
    <3>3. b.val = IF v = "END" THEN "ESC_END" ELSE "ESC_ESC"
      <4>1. 2 \in 1..Len(Escaped(v))
        BY <2>2, <3>1
      <4> QED BY <1>6, <2>2, <2>4, <3>1, <3>2, <4>1
    <3>4. b.val \in {"ESC_END", "ESC_ESC"} /\ b.val # "END" /\ (b.val = "ESC_END" <=> v = "END")
      BY <3>3
    <3>5. Unescaped(b) = Byte(v, f)
      BY <1>6, <3>1, <3>4 DEF Unescaped, Escapable
    <3>6. ~SlipComplete(s, b)
      BY <3>4 DEF SlipComplete
    <3>7. t.escape = FALSE /\ t.got = Append(s.got, Unescaped(b))
      BY <1>8, <1>a, <2>6, <3>4 DEF SlipTo
    <3>8. t.escape = FALSE /\ t.got = Lead(P, f, m)
      BY <1>1, <2>5, <3>5, <3>7
    <3>9. Decoded(t, P, f, k + 1)
      <4>1. k + 1 = 1 + O(m) + Esc(t)
        <5>1. Esc(t) = 0
          BY <3>8, EscIs
        <5> QED BY <2>3, <3>2, <5>1
      <4>2. t.escape # TRUE
        BY <3>8
      <4> QED BY <2>1, <3>8, <4>1, <4>2 DEF Decoded, O
    <3> QED BY <3>2, <3>6, <3>9 DEF F, t
  <2>7. CASE s.escape = FALSE
    <3>1. k = O(n) + 1 /\ k + 1 = 1 + O(n) + 1
      <4>1. Esc(s) = 0
        BY <2>7, EscIs
      <4> QED BY <1>1, <2>3, <4>1
    <3>2. 1 \in 1..Len(Escaped(v))
      BY <2>2
    <3>3. b.val = Escaped(v)[1]
      BY <1>6, <2>4, <3>1, <3>2
    <3>4. CASE v \in Escapable
      <4>1. b.val = "ESC" /\ b.val # "END"
        BY <2>2, <3>3, <3>4
      <4>2. ~SlipComplete(s, b)
        BY <4>1 DEF SlipComplete
      <4>3. t.got = s.got /\ t.escape = TRUE
        BY <1>8, <2>7, <4>1 DEF SlipTo
      <4>4. t.got = Lead(P, f, n) /\ t.escape = TRUE
        BY <1>1, <4>3
      <4>5. k + 1 < Len(F)
        <5>1. Len(Escaped(v)) = 2 /\ Len(F) = O(l) + 2
          BY <1>3, <2>2, <3>4
        <5> QED BY <2>3, <3>1, <5>1
      <4>6. Decoded(t, P, f, k + 1)
        <5>1. k + 1 = 1 + O(n) + Esc(t)
          <6>1. Esc(t) = 1
            BY <4>4, EscIs
          <6> QED BY <2>3, <3>1, <6>1
        <5>2. n < l /\ P[n + 1] \in Escapable
          BY <1>9, <3>4 DEF m
        <5> QED BY <4>4, <5>1, <5>2 DEF Decoded, O
      <4> QED BY <4>2, <4>5, <4>6 DEF F, t
    <3>5. CASE v \notin Escapable
      <4>1. b.val = v /\ v \notin {"END", "ESC"}
        BY <2>2, <3>3, <3>5 DEF Escapable
      <4>2. ~SlipComplete(s, b)
        BY <4>1 DEF SlipComplete
      <4>3. t.escape = FALSE /\ t.got = Append(s.got, b)
        BY <1>8, <1>a, <2>7, <4>1 DEF SlipTo
      <4>4. b = Byte(v, f)
        BY <1>6, <4>1
      <4>5. t.got = Lead(P, f, m) /\ t.escape = FALSE
        BY <1>1, <2>5, <4>3, <4>4
      <4>6. k + 1 < Len(F)
        <5>1. Len(Escaped(v)) = 1 /\ Len(F) = O(l) + 2
          BY <1>3, <2>2, <3>5
        <5> QED BY <2>3, <3>1, <5>1
      <4>7. Decoded(t, P, f, k + 1)
        <5>1. k + 1 = 1 + O(m) + Esc(t)
          <6>1. Esc(t) = 0
            BY <4>5, EscIs
          <6>2. O(m) = O(n) + 1
            BY <2>2, <2>3, <3>5
          <6> QED BY <2>3, <3>1, <6>1, <6>2
        <5>2. t.escape # TRUE
          BY <4>5
        <5> QED BY <2>1, <4>5, <5>1, <5>2 DEF Decoded, O
      <4> QED BY <4>2, <4>6, <4>7 DEF F, t
    <3> QED BY <3>4, <3>5
  <2> QED BY <1>7, <2>6, <2>7
<1>10. CASE n = l
  <2>1. s.escape = FALSE
    BY <1>1, <1>2, <1>7, <1>10
  <2>2. k = O(l) + 1 /\ O(l) \in Nat
    <3>1. Esc(s) = 0
      BY <2>1, EscIs
    <3>2. O(l) \in Nat
      BY <1>2, <1>10
    <3> QED BY <1>1, <1>10, <3>1, <3>2
  <2>3. k + 1 = Len(F) /\ b.val = "END"
    <3>1. k + 1 = O(l) + 2
      BY <2>2
    <3> QED BY <1>3, <1>6, <3>1
  <2>4. s.got = Tagged(P, f) /\ s.got # <<>>
    <3>1. Lead(P, f, n) = Tagged(P, f) /\ Lead(P, f, n) # <<>>
      BY <1>2, <1>10, LeadIs
    <3> QED BY <1>1, <3>1
  <2>5. SlipComplete(s, b)
    BY <2>1, <2>3, <2>4 DEF SlipComplete
  <2> QED BY <2>3, <2>4, <2>5 DEF F
<1> QED BY <1>2, <1>9, <1>10

\* The kind of an unharmed header is known.
LEMMA KindOf ==
  ASSUME NEW v \in {"plain", "checked"}
  PROVE  Kinds(v) = {v}
BY DEF Kinds, Special

\* Nothing that was handed on is taken back.
LEMMA CopiesStay ==
  ASSUME NEW heard \in Seq(Bytes), heard # <<>>, NEW kind \in Kinds(heard[1].val),
         ProcessRxbuf(heard, kind), delivered \in Seq(Packets), NEW T
  PROVE  Num(delivered', T) \in Nat /\ Num(delivered', T) >= Num(delivered, T)
<1>1. Num(delivered, T) \in Nat
  BY NumNat
<1>2. CASE delivered' = delivered
  BY <1>1, <1>2
<1>3. CASE delivered' # delivered
  <2>1. PICK data \in Seq(Bytes) :
              /\ kind \in {"plain", "checked"}
              /\ delivered' = Append(delivered, [kind |-> kind, data |-> data])
    BY <1>3, ProcessIs
  <2> DEFINE x == [kind |-> kind, data |-> data]
  <2>2. x \in Packets /\ delivered' = Append(delivered, x)
    BY <2>1 DEF Packets
  <2> HIDE DEF x
  <2>3. Num(delivered', T) = Num(delivered, T) + (IF x \in T THEN 1 ELSE 0)
    BY <2>2, NumAppend
  <2> QED BY <1>1, <2>3
<1> QED BY <1>2, <1>3

\* The payload of a packet.
LEMMA PayloadIs ==
  ASSUME NEW h \in Headers, NEW p \in Payloads, NEW f \in 0..MaxFrames,
         NEW heard, heard = Tagged(Packet(h, p), f)
  PROVE  /\ heard \in Seq(Bytes) /\ heard # <<>> /\ heard[1].val = h /\ h \in {"plain", "checked"}
         /\ h = "plain" => Tail(heard) = Tagged(p, f)
         /\ h = "checked" => /\ Len(heard) # 1 /\ heard[2].val = "crc" /\ heard[2].frame = f
                             /\ Tail(Tail(heard)) = Tagged(p, f)
<1> DEFINE P == Packet(h, p)
           l == Len(p)
           t == Tagged(p, f)
<1>1. /\ h \in {"plain", "checked"} /\ p \in Seq(Values)
      /\ P \in Seq(Values) /\ Len(P) = (IF h = "checked" THEN 2 ELSE 1) + l /\ P[1] = h
      /\ h = "checked" => P[2] = "crc"
      /\ \A i \in 1..l : P[(IF h = "checked" THEN 2 ELSE 1) + i] = p[i]
  BY PacketIs
<1>2. l \in Nat
  BY <1>1, LenProperties
<1>3. /\ t \in Seq(Bytes) /\ Len(t) = l /\ \A i \in 1..l : t[i] = Byte(p[i], f)
  BY <1>1, TaggedIs
<1> HIDE DEF P
<1>4. /\ heard \in Seq(Bytes) /\ Len(heard) = Len(P)
      /\ \A i \in 1..Len(P) : heard[i] = Byte(P[i], f)
  BY <1>1, TaggedIs DEF P
<1> HIDE DEF l, t
<1>5. heard # <<>> /\ heard[1] = Byte(h, f)
  <2>1. 1 \in 1..Len(P)
    BY <1>1, <1>2
  <2> QED BY <1>1, <1>4, <2>1, EmptySeq
<1>6. /\ Tail(heard) \in Seq(Bytes) /\ Len(Tail(heard)) = Len(heard) - 1
      /\ \A i \in 1..Len(heard) - 1 : Tail(heard)[i] = heard[i + 1]
  <2>1. /\ Tail(heard) \in Seq(Bytes) /\ Len(Tail(heard)) = Len(heard) - 1
        /\ \A i \in 1..Len(Tail(heard)) : Tail(heard)[i] = heard[i + 1]
    BY <1>4, <1>5, HeadTailProperties
  <2> QED BY <2>1
<1>7. ASSUME h = "plain" PROVE Tail(heard) = t
  <2>1. Len(heard) = 1 + l /\ \A i \in 1..l : P[1 + i] = p[i]
    BY <1>1, <1>4, <1>7
  <2>2. Len(Tail(heard)) = l
    BY <1>2, <1>6, <2>1
  <2>3. ASSUME NEW i \in 1..l PROVE Tail(heard)[i] = t[i]
    <3>1. i \in 1..Len(heard) - 1 /\ i + 1 \in 1..Len(P) /\ i + 1 = 1 + i
      BY <1>2, <1>4, <2>1
    <3> QED BY <1>3, <1>4, <1>6, <2>1, <3>1
  <2> QED BY <1>3, <1>6, <2>2, <2>3, SeqEqual
<1>8. ASSUME h = "checked"
      PROVE  Len(heard) # 1 /\ heard[2].val = "crc" /\ heard[2].frame = f /\ Tail(Tail(heard)) = t
  <2>1. Len(heard) = 2 + l /\ P[2] = "crc" /\ \A i \in 1..l : P[2 + i] = p[i]
    BY <1>1, <1>4, <1>8
  <2>2. heard[2] = Byte("crc", f)
    <3>1. 2 \in 1..Len(P)
      BY <1>2, <1>4, <2>1
    <3> QED BY <1>4, <2>1, <3>1
  <2> DEFINE u == Tail(heard)
  <2>3. u \in Seq(Bytes) /\ Len(u) = 1 + l /\ \A i \in 1..1 + l : u[i] = heard[i + 1]
    BY <1>2, <1>6, <2>1
  <2> HIDE DEF u
  <2>4. u # <<>>
    BY <1>2, <2>3, EmptySeq
  <2>5. /\ Tail(u) \in Seq(Bytes) /\ Len(Tail(u)) = Len(u) - 1
        /\ \A i \in 1..Len(Tail(u)) : Tail(u)[i] = u[i + 1]
    BY <2>3, <2>4, HeadTailProperties
  <2>6. Len(Tail(u)) = l
    BY <1>2, <2>3, <2>5
  <2>7. ASSUME NEW i \in 1..l PROVE Tail(u)[i] = t[i]
    <3>1. i + 1 \in 1..1 + l /\ (i + 1) + 1 = 2 + i /\ 2 + i \in 1..Len(P)
      BY <1>2, <1>4, <2>1
    <3> QED BY <1>3, <1>4, <2>1, <2>3, <2>5, <2>6, <3>1
  <2>8. Tail(u) = t
    BY <1>3, <2>5, <2>6, <2>7, SeqEqual
  <2>9. Len(heard) # 1
    BY <1>2, <2>1
  <2> QED BY <2>2, <2>8, <2>9, WindowFrame DEF u
<1> QED BY <1>1, <1>4, <1>5, <1>7, <1>8, WindowFrame DEF t

\* A packet that was received whole is handed on.
LEMMA WholeHanded ==
  ASSUME LinkInv, NEW f \in 1..Len(sent),
         NEW heard, heard = Tagged(Packet(sent[f].header, sent[f].payload), f),
         NEW kind \in Kinds(heard[1].val), ProcessRxbuf(heard, kind)
  PROVE  Num(delivered', CopyOf(sent[f].payload, f)) = Num(delivered, CopyOf(sent[f].payload, f)) + 1
<1> DEFINE h == sent[f].header
           p == sent[f].payload
           t == Tagged(p, f)
           T == CopyOf(p, f)
<1>1. h \in Headers /\ p \in Payloads /\ f \in 0..MaxFrames /\ delivered \in Seq(Packets)
  <2>1. /\ sent \in Seq([header : Headers, payload : Payloads]) /\ Len(sent) <= MaxFrames
        /\ delivered \in Seq(Packets)
    BY DEF LinkInv, UartTypeOK, Packets
  <2>2. sent[f] \in [header : Headers, payload : Payloads]
    BY <2>1, ElementOfSeq
  <2>3. Len(sent) \in Nat /\ MaxFrames \in Nat
    BY <2>1, LenProperties, UartAssumption
  <2>4. f \in 0..MaxFrames
    BY <2>1, <2>3
  <2> QED BY <2>1, <2>2, <2>4
<1>2. heard = Tagged(Packet(h, p), f)
  OBVIOUS
<1>3. p \in Seq(Values)
  BY <1>1, FrameValues
<1>4. t \in Seq(Bytes) /\ Vals(t) = p
  <2>1. /\ t \in Seq(Bytes) /\ Len(t) = Len(p) /\ \A i \in 1..Len(p) : t[i] = Byte(p[i], f)
    BY <1>1, <1>3, TaggedIs
  <2>2. DOMAIN t = 1..Len(p) /\ DOMAIN p = 1..Len(p)
    BY <1>3, <2>1, LenProperties
  <2>3. \A i \in 1..Len(p) : t[i].val = p[i]
    BY <2>1, WindowFrame
  <2>4. p = [i \in 1..Len(p) |-> p[i]]
    BY <1>3, LenProperties
  <2> HIDE DEF t
  <2> QED BY <2>1, <2>2, <2>3, <2>4 DEF Vals
<1>5. kind \in Kinds(heard[1].val) /\ ProcessRxbuf(heard, kind)
  OBVIOUS
<1> HIDE DEF h, p
<1>6. /\ heard[1].val = h /\ h \in {"plain", "checked"}
      /\ h = "plain" => Tail(heard) = t
      /\ h = "checked" => /\ Len(heard) # 1 /\ heard[2].val = "crc" /\ heard[2].frame = f
                          /\ Tail(Tail(heard)) = t
  <2>1. heard[1].val = h /\ h \in {"plain", "checked"}
    BY <1>1, <1>2, PayloadIs
  <2>2. h = "plain" => Tail(heard) = t
    BY <1>1, <1>2, PayloadIs
  <2>3. h = "checked" => Len(heard) # 1 /\ heard[2].val = "crc" /\ heard[2].frame = f
    BY <1>1, <1>2, PayloadIs
  <2>4. h = "checked" => Tail(Tail(heard)) = t
    BY <1>1, <1>2, PayloadIs
  <2> QED BY <2>1, <2>2, <2>3, <2>4
<1>7. kind = h
  BY <1>5, <1>6, KindOf
<1> HIDE DEF t, T
<1>8. delivered' = Append(delivered, [kind |-> h, data |-> t])
  <2>1. CASE h = "plain"
    BY <1>5, <1>6, <1>7, <2>1 DEF ProcessRxbuf
  <2>2. CASE h = "checked"
    <3>1. ChecksumFits(heard[2], t)
      BY <1>4, <1>6, <2>2 DEF ChecksumFits, p
    <3>2. /\ ~(kind = "other") /\ kind = "checked" /\ Len(heard) # 1 /\ Tail(Tail(heard)) = t
      BY <1>6, <1>7, <2>2
    <3> QED BY <1>5, <1>7, <3>1, <3>2 DEF ProcessRxbuf
  <2> QED BY <1>6, <2>1, <2>2
<1> DEFINE x == [kind |-> h, data |-> t]
<1>9. x \in Packets /\ x \in T
  BY <1>4, <1>6 DEF Packets, CopyOf, T, t
<1> HIDE DEF x
<1>10. Num(delivered', T) = Num(delivered, T) + (IF x \in T THEN 1 ELSE 0)
  BY <1>1, <1>8, <1>9, NumAppend DEF x
<1> QED BY <1>9, <1>10 DEF T, p

\* A frame is arriving: k of its bytes were handled, the rest is in the stream,
\* and the decoder holds what it must, until it has handed the payload on.
Arriving(st, s, rb, c, P, f) ==
  \E k \in 0..Len(SlipFrame(P)), p \in 0..Len(st) :
    /\ Window(st, SlipFrame(P), f, k, p)
    /\ k > 0 => p = 0
    /\ k > 1 /\ k < Len(SlipFrame(P)) => rb = TRUE
    /\ k > 0 /\ k < Len(SlipFrame(P)) /\ rb = TRUE => Decoded(s, P, f, k)
    /\ k = Len(SlipFrame(P)) => c > 0

\* The same, with the witnesses named.
ArrivesAt(st, s, rb, c, P, f, k, p) ==
  /\ k \in 0..Len(SlipFrame(P)) /\ p \in 0..Len(st)
  /\ Window(st, SlipFrame(P), f, k, p)
  /\ k > 0 => p = 0
  /\ k > 1 /\ k < Len(SlipFrame(P)) => rb = TRUE
  /\ k > 0 /\ k < Len(SlipFrame(P)) /\ rb = TRUE => Decoded(s, P, f, k)
  /\ k = Len(SlipFrame(P)) => c > 0

\* The definition above, as a fact.
LEMMA ArrivingIs ==
  ASSUME NEW st, NEW s, NEW rb, NEW c, NEW P, NEW f
  PROVE  Arriving(st, s, rb, c, P, f) <=> \E k, p : ArrivesAt(st, s, rb, c, P, f, k, p)
BY DEF Arriving, ArrivesAt

\* A frame has an END before and one behind.
LEMMA FrameLong ==
  ASSUME NEW P \in Seq(Values), Len(P) > 0
  PROVE  SlipFrame(P) \in Seq(Values) /\ Len(SlipFrame(P)) \in Nat /\ Len(SlipFrame(P)) > 1
         /\ SlipFrame(P)[1] = "END"
<1>1. /\ SlipFrame(P) \in Seq(Values) /\ Len(SlipFrame(P)) = Offset(P, Len(P)) + 2
      /\ SlipFrame(P)[1] = "END"
  BY FrameIs
<1>2. Len(P) \in 0..Len(P)
  BY LenProperties
<1>3. Offset(P, Len(P)) \in Nat
  BY <1>2, OffsetIs
<1> QED BY <1>1, <1>3

\* The byte that the thread takes of an unharmed frame, or before it.
LEMMA ArriveTakes ==
  ASSUME LinkInv, NEW f \in 1..Len(sent), NEW P,
         P = Packet(sent[f].header, sent[f].payload),
         NEW T, T = CopyOf(sent[f].payload, f),
         Handles, f \notin harmed',
         Arriving(Stream, slip, rxbuf, Num(delivered, T), P, f)
  PROVE  Arriving(Stream', slip', rxbuf', Num(delivered', T), P, f)
<1> DEFINE st == Stream
           b == st[1]
           F == SlipFrame(P)
           c == Num(delivered, T)
           g == Num(delivered', T)
<1>1. /\ st \in Seq(Bytes) /\ slip \in Slips /\ slip.got \in Seq(Bytes)
      /\ delivered \in Seq(Packets) /\ rxbuf \in BOOLEAN /\ Len(slip.got) <= slip.limit
      /\ Len(slip.got) \in Nat /\ slip.limit \in Nat
  <2>1. /\ slip \in Slips /\ delivered \in Seq(Packets) /\ rxbuf \in BOOLEAN
        /\ Len(slip.got) <= slip.limit
    BY DEF LinkInv, UartTypeOK, Slips, Packets
  <2>2. slip.got \in Seq(Bytes) /\ slip.limit \in Nat
    BY <2>1, UartAssumption DEF Slips
  <2> QED BY <2>1, <2>2, StreamIs, LenProperties
<1>2. /\ sent[f].header \in Headers /\ sent[f].payload \in Payloads /\ f \in 0..MaxFrames
      /\ P \in Seq(Values) /\ Len(P) > 0
  <2>1. sent \in Seq([header : Headers, payload : Payloads]) /\ Len(sent) <= MaxFrames
    BY DEF LinkInv, UartTypeOK
  <2>2. sent[f] \in [header : Headers, payload : Payloads]
    BY <2>1, ElementOfSeq
  <2>3. Len(sent) \in Nat /\ MaxFrames \in Nat
    BY <2>1, LenProperties, UartAssumption
  <2>4. f \in 0..MaxFrames
    BY <2>1, <2>3
  <2> QED BY <2>2, <2>4, FrameValues
<1>3. F \in Seq(Values) /\ Len(F) \in Nat /\ Len(F) > 1 /\ F[1] = "END"
  BY <1>2, FrameLong
<1>4. c \in Nat /\ g \in Int /\ g >= c
  <2>1. c \in Nat
    BY <1>1, NumNat
  <2>2. CASE delivered' = delivered
    BY <2>1, <2>2
  <2>3. CASE delivered' # delivered
    <3>1. PICK kind \in Kinds(slip.got[1].val) : ProcessRxbuf(slip.got, kind)
      BY <2>3 DEF Handles
    <3>2. slip.got # <<>>
      BY <2>3 DEF Handles, SlipComplete
    <3> DEFINE heard == slip.got
    <3>3. heard \in Seq(Bytes) /\ heard # <<>> /\ kind \in Kinds(heard[1].val) /\ ProcessRxbuf(heard, kind)
      BY <1>1, <3>1, <3>2
    <3> HIDE DEF heard
    <3>4. Num(delivered', T) \in Nat /\ Num(delivered', T) >= Num(delivered, T)
      BY <1>1, <3>3, CopiesStay
    <3> QED BY <2>1, <3>4
  <2> QED BY <2>2, <2>3
<1>5. PICK k, p : ArrivesAt(st, slip, rxbuf, c, P, f, k, p)
  BY ArrivingIs
<1>6. /\ k \in 0..Len(F) /\ p \in 0..Len(st) /\ Window(st, F, f, k, p)
      /\ k > 0 => p = 0
      /\ k > 1 /\ k < Len(F) => rxbuf = TRUE
      /\ k > 0 /\ k < Len(F) /\ rxbuf = TRUE => Decoded(slip, P, f, k)
      /\ k = Len(F) => c > 0
  BY <1>5 DEF ArrivesAt
<1>7. /\ st # <<>> /\ Stream' = Tail(st)
      /\ harmed' = IF Kept(b) THEN harmed ELSE harmed \cup {b.frame}
      /\ IF SlipComplete(slip, b)
         THEN /\ \/ rxbuf' = TRUE /\ slip' = SlipReady
                 \/ rxbuf' = FALSE /\ slip' = slip
              /\ IF rxbuf THEN \E kind \in Kinds(slip.got[1].val) : ProcessRxbuf(slip.got, kind)
                 ELSE UNCHANGED delivered
         ELSE slip' = SlipRx(slip, b) /\ UNCHANGED <<rxbuf, delivered>>
  BY DEF Handles
<1> HIDE DEF st, b, F, c, g
<1>8. /\ Len(st) \in Nat /\ Len(Tail(st)) \in Nat /\ 0 \in 0..Len(Tail(st)) /\ k \in Nat /\ p \in Nat
  <2>1. Tail(st) \in Seq(Bytes)
    BY <1>1, <1>7, HeadTailProperties
  <2>2. Len(st) \in Nat /\ Len(Tail(st)) \in Nat
    BY <1>1, <2>1, LenProperties
  <2> QED BY <1>3, <1>6, <2>2
<1>9. /\ k = Len(F) => Window(Tail(st), F, f, k, 0)
      /\ k < Len(F) /\ p > 0 =>
           Window(Tail(st), F, f, k, p - 1) /\ p - 1 \in 0..Len(Tail(st))
      /\ k < Len(F) /\ p = 0 =>
           st[1] = Byte(F[k + 1], f) /\ Window(Tail(st), F, f, k + 1, 0)
  BY <1>1, <1>3, <1>6, <1>7, WindowTakes
<1>10. SUFFICES ASSUME TRUE
                PROVE  \E i, j : ArrivesAt(Tail(st), slip', rxbuf', g, P, f, i, j)
  BY <1>7, ArrivingIs DEF g
<1>11. CASE k = Len(F)
  <2>0. g > 0 /\ ~(k < Len(F)) /\ Window(Tail(st), F, f, k, 0)
    BY <1>3, <1>4, <1>6, <1>9, <1>11
  <2>1. ArrivesAt(Tail(st), slip', rxbuf', g, P, f, k, 0)
    BY <1>6, <1>8, <2>0 DEF ArrivesAt, F
  <2> QED BY <2>1
<1>12. CASE k < Len(F) /\ p > 0
  <2>1. k = 0
    BY <1>6, <1>8, <1>12
  <2>2. ArrivesAt(Tail(st), slip', rxbuf', g, P, f, k, p - 1)
    BY <1>3, <1>6, <1>8, <1>9, <1>12, <2>1 DEF ArrivesAt, F
  <2> QED BY <2>2
<1>13. CASE k < Len(F) /\ p = 0
  <2>1. b = Byte(F[k + 1], f) /\ Window(Tail(st), F, f, k + 1, 0) /\ b.frame = f
    BY <1>9, <1>13, WindowFrame DEF b
  <2>2. Kept(b)
    BY <1>7, <2>1
  <2>3. rxbuf = TRUE /\ (Len(slip.got) < slip.limit \/ b.val = "END")
    BY <1>1, <2>2 DEF Kept
  <2>4. k + 1 \in 0..Len(F) /\ k + 1 > 0
    BY <1>3, <1>6, <1>8, <1>13
  <2>5. CASE k = 0
    <3>1. b = Byte("END", f)
      BY <1>3, <2>1, <2>5
    <3>2. /\ Decoded(SlipReady, P, f, 1)
          /\ ~SlipComplete(slip, b) => Decoded(SlipRx(slip, b), P, f, 1)
      BY <1>1, <1>2, <3>1, DecodeBegins
    <3>3. rxbuf' = TRUE => Decoded(slip', P, f, 1)
      BY <1>7, <3>2
    <3>5. k + 1 = 1
      BY <2>5
    <3>7. Window(Tail(st), F, f, 1, 0)
      BY <2>1, <3>5
    <3>8. 1 \in 0..Len(F) /\ 1 # Len(F)
      <4> DEFINE l == Len(F)
      <4>1. l \in Nat /\ l > 1
        BY <1>3
      <4> HIDE DEF l
      <4>2. 1 \in 0..l /\ 1 # l
        BY <4>1
      <4> QED BY <4>2 DEF l
    <3>6. Window(Tail(st), F, f, 1, 0) /\ 1 \in 0..Len(F) /\ 1 # Len(F) /\ ~(1 > 1)
      BY <3>7, <3>8
    <3>4. ArrivesAt(Tail(st), slip', rxbuf', g, P, f, 1, 0)
      BY <1>8, <3>3, <3>6 DEF ArrivesAt, F
    <3> QED BY <3>4
  <2>6. CASE k > 0
    <3>1. Decoded(slip, P, f, k)
      BY <1>6, <1>13, <2>3, <2>6
    <3> DEFINE s == slip
               n == k + 1
    <3>2. s \in Slips /\ Len(s.got) <= s.limit /\ (Len(s.got) < s.limit \/ b.val = "END")
          /\ Decoded(s, P, f, k)
      BY <1>1, <2>3, <3>1
    <3>3. k \in Nat /\ k < Len(SlipFrame(P)) /\ b = Byte(SlipFrame(P)[k + 1], f)
      BY <1>8, <1>13, <2>1 DEF F
    <3> HIDE DEF s
    <3>4. \/ k + 1 < Len(SlipFrame(P)) /\ ~SlipComplete(s, b) /\ Decoded(SlipRx(s, b), P, f, k + 1)
          \/ k + 1 = Len(SlipFrame(P)) /\ SlipComplete(s, b) /\ s.got = Tagged(P, f)
      BY <1>2, <3>2, <3>3, DecodeTakes
    <3>5. CASE n < Len(F) /\ ~SlipComplete(s, b) /\ Decoded(SlipRx(s, b), P, f, n)
      <4>1. slip' = SlipRx(s, b) /\ rxbuf' = TRUE
        BY <1>7, <2>3, <3>5 DEF s
      <4>2. n \in Nat /\ n > 1 /\ n \in 0..Len(F) /\ n # Len(F)
        BY <1>8, <2>4, <2>6, <3>5
      <4>3. Window(Tail(st), F, f, n, 0)
        BY <2>1
      <4>4. Decoded(slip', P, f, n)
        BY <3>5, <4>1
      <4> HIDE DEF n
      <4>5. ArrivesAt(Tail(st), slip', rxbuf', g, P, f, n, 0)
        BY <1>8, <4>1, <4>2, <4>3, <4>4 DEF ArrivesAt, F
      <4> QED BY <4>5
    <3>6. CASE n = Len(F) /\ SlipComplete(s, b) /\ s.got = Tagged(P, f)
      <4>1. PICK kind \in Kinds(slip.got[1].val) : ProcessRxbuf(slip.got, kind)
        BY <1>7, <2>3, <3>6 DEF s
      <4> DEFINE heard == slip.got
      <4>2. heard = Tagged(P, f) /\ kind \in Kinds(heard[1].val) /\ ProcessRxbuf(heard, kind)
        BY <3>6, <4>1 DEF s
      <4> HIDE DEF heard
      <4>3. Num(delivered', CopyOf(sent[f].payload, f))
              = Num(delivered, CopyOf(sent[f].payload, f)) + 1
        BY <4>2, WholeHanded
      <4>4. g > 0
        BY <1>4, <4>3 DEF g, c
      <4>5. Window(Tail(st), F, f, n, 0) /\ n \in 0..Len(F) /\ n = Len(F)
        BY <2>1, <2>4, <3>6
      <4> HIDE DEF n
      <4>6. ArrivesAt(Tail(st), slip', rxbuf', g, P, f, n, 0)
        BY <1>3, <1>8, <4>4, <4>5 DEF ArrivesAt, F
      <4> QED BY <4>6
    <3> QED BY <3>4, <3>5, <3>6 DEF F, s
  <2> QED BY <1>8, <2>5, <2>6
<1> QED BY <1>6, <1>8, <1>3, <1>11, <1>12, <1>13

\* Each unharmed frame is arriving or has arrived.
ArriveInv ==
  \A f \in 1..Len(sent) : f \notin harmed =>
    Arriving(Stream, slip, rxbuf, Num(delivered, CopyOf(sent[f].payload, f)),
             Packet(sent[f].header, sent[f].payload), f)

\* None was sent at first.
LEMMA ArriveInit ==
  ASSUME UartInit
  PROVE  ArriveInv
<1>1. Len(sent) = 0
  BY EmptySeq DEF UartInit
<1> QED BY <1>1 DEF ArriveInv

\* A step keeps what is known of a frame that was sent before it and that it
\* does not harm.
LEMMA ArriveKeeps ==
  ASSUME LinkInv, OrderInv, Loses \/ Changes \/ Grows \/ Handles \/ Renews \/ Stays,
         NEW f \in 1..Len(sent), f \notin harmed', NEW P,
         P = Packet(sent[f].header, sent[f].payload),
         NEW T, T = CopyOf(sent[f].payload, f),
         Arriving(Stream, slip, rxbuf, Num(delivered, T), P, f)
  PROVE  Arriving(Stream', slip', rxbuf', Num(delivered', T), P, f)
<1> DEFINE st == Stream
           F == SlipFrame(P)
           c == Num(delivered, T)
<1>1. /\ st \in Seq(Bytes) /\ rxbuf \in BOOLEAN /\ Len(st) \in Nat
      /\ Len(sent) \in Nat /\ MaxFrames \in Nat /\ Len(sent) <= MaxFrames
  <2>1. rxbuf \in BOOLEAN /\ Len(sent) <= MaxFrames
        /\ sent \in Seq([header : Headers, payload : Payloads])
    BY DEF LinkInv, UartTypeOK
  <2>2. MaxFrames \in Nat
    BY UartAssumption
  <2> QED BY <2>1, <2>2, StreamIs, LenProperties
<1>2. P \in Seq(Values) /\ Len(P) > 0 /\ f \in 0..MaxFrames
  <2>1. sent \in Seq([header : Headers, payload : Payloads])
    BY DEF LinkInv, UartTypeOK
  <2>2. sent[f] \in [header : Headers, payload : Payloads]
    BY <2>1, ElementOfSeq
  <2>3. f \in 0..MaxFrames
    BY <1>1
  <2> QED BY <2>2, <2>3, FrameValues
<1>3. F \in Seq(Values) /\ Len(F) \in Nat
  BY <1>2, FrameLong
<1>4. PICK k, p : ArrivesAt(st, slip, rxbuf, c, P, f, k, p)
  BY ArrivingIs
<1>5. /\ k \in 0..Len(F) /\ p \in 0..Len(st) /\ Window(st, F, f, k, p)
      /\ k > 0 => p = 0
      /\ k > 1 /\ k < Len(F) => rxbuf = TRUE
      /\ k > 0 /\ k < Len(F) /\ rxbuf = TRUE => Decoded(slip, P, f, k)
      /\ k = Len(F) => c > 0
  BY <1>4 DEF ArrivesAt
<1> HIDE DEF st, F, c
<1>6. ASSUME NEW w, NEW r \in 0..Len(w), Stream' = w, UNCHANGED <<slip, rxbuf, delivered>>,
             Window(w, F, f, k, r), p = 0 => r = 0
      PROVE  Arriving(Stream', slip', rxbuf', Num(delivered', T), P, f)
  <2>1. ArrivesAt(w, slip, rxbuf, c, P, f, k, r)
    BY <1>5, <1>6 DEF ArrivesAt, F
  <2>2. Arriving(w, slip, rxbuf, c, P, f)
    BY <2>1, ArrivingIs
  <2> QED BY <1>6, <2>2 DEF c
<1>7. CASE Loses
  <2>1. PICK q \in 1..Len(st) :
          Stream' = Without(st, q) /\ harmed' = harmed \cup {st[q].frame}
    BY <1>7 DEF Loses, st
  <2>2. UNCHANGED <<slip, rxbuf, delivered>>
    BY <1>7 DEF Loses
  <2>3. st[q].frame # f
    BY <2>1
  <2> DEFINE w == Without(st, q)
  <2>4. w = Without(st, q) /\ Stream' = w
    BY <2>1
  <2> HIDE DEF w
  <2>5. \E r \in 0..Len(w) : Window(w, F, f, k, r) /\ (p = 0 => r = 0)
    BY <1>1, <1>3, <1>5, <2>3, <2>4, WindowLoses
  <2> QED BY <1>6, <2>2, <2>4, <2>5
<1>8. CASE Changes
  <2>1. PICK q \in 1..Len(st), v \in Values :
          Stream' = Changed(st, q, v) /\ harmed' = harmed \cup {st[q].frame}
    BY <1>8 DEF Changes, st
  <2>2. UNCHANGED <<slip, rxbuf, delivered>>
    BY <1>8 DEF Changes
  <2>3. st[q].frame # f
    BY <2>1
  <2> DEFINE w == Changed(st, q, v)
  <2>4. w = Changed(st, q, v) /\ Stream' = w
    BY <2>1
  <2> HIDE DEF w
  <2>5. Window(w, F, f, k, p)
    <3>1. /\ st \in Seq(Bytes) /\ F \in Seq(Values) /\ k \in 0..Len(F) /\ p \in 0..Len(st)
          /\ Window(st, F, f, k, p) /\ w = Changed(st, q, v) /\ st[q].frame # f
      BY <1>1, <1>3, <1>5, <2>3, <2>4
    <3> HIDE DEF F, st, c
    <3> QED BY <2>1, <3>1, WindowChanges
  <2>6. p \in 0..Len(w)
    <3>1. Len(w) = Len(st)
      BY <1>1, <2>1, <2>4, ChangeOrder
    <3> QED BY <1>5, <3>1
  <2> QED BY <1>6, <2>2, <2>4, <2>5, <2>6
<1>9. CASE Stays
  <2>1. Stream' = st /\ UNCHANGED <<slip, rxbuf, delivered>>
    BY <1>9 DEF Stays, st
  <2> QED BY <1>5, <1>6, <2>1
<1>10. CASE Grows
  <2>1. PICK header \in Headers, payload \in Payloads :
           /\ Stream' = st \o Tagged(SlipFrame(Packet(header, payload)), Len(sent) + 1)
           /\ Len(sent) < MaxFrames
    BY <1>10 DEF Grows, st
  <2>2. UNCHANGED <<slip, rxbuf, delivered>>
    BY <1>10 DEF Grows
  <2> DEFINE G == SlipFrame(Packet(header, payload))
             m == Len(sent)
             g == m + 1
             u == Tagged(G, g)
  <2>3. G \in Seq(Values) /\ m \in Nat /\ m < MaxFrames /\ f \in 1..m
    BY <1>1, <2>1, FrameValues
  <2> HIDE DEF G, m
  <2>4. g \in 0..MaxFrames /\ f # g
    BY <1>1, <2>3
  <2>5. u \in Seq(Bytes) /\ Len(u) = Len(G) /\ \A i \in 1..Len(G) : u[i] = Byte(G[i], g)
    BY <2>3, <2>4, TaggedIs
  <2> HIDE DEF u, g
  <2>6. \A i \in 1..Len(u) : u[i].frame # f
    BY <2>4, <2>5, WindowFrame
  <2>7. Window(st \o u, F, f, k, p) /\ p \in 0..Len(st \o u)
    BY <1>1, <1>3, <1>5, <2>5, <2>6, WindowGrows
  <2>8. Stream' = st \o u
    BY <2>1 DEF u, g, m, G
  <2> QED BY <1>6, <2>2, <2>7, <2>8
<1>11. CASE Renews
  <2>1. /\ Stream' = st /\ rxbuf = FALSE /\ rxbuf' = TRUE /\ slip' = SlipReady
        /\ delivered' = delivered
    BY <1>1, <1>11 DEF Renews, st
  <2>2. Decoded(SlipReady, P, f, 1)
    <3> DEFINE b == Byte("END", f)
    <3>1. SlipReady \in Slips /\ Len(SlipReady.got) <= SlipReady.limit
      BY UartAssumption, EmptySeq DEF SlipReady, Slips
    <3>2. b = Byte("END", f)
      OBVIOUS
    <3> HIDE DEF b
    <3> QED BY <1>2, <3>1, <3>2, DecodeBegins
  <2>3. k > 0 /\ k < Len(F) => k = 1
    BY <1>3, <1>5, <2>1
  <2>4. ArrivesAt(st, SlipReady, TRUE, c, P, f, k, p)
    BY <1>5, <2>2, <2>3 DEF ArrivesAt, F
  <2>5. Arriving(st, SlipReady, TRUE, c, P, f)
    BY <2>4, ArrivingIs
  <2> QED BY <2>1, <2>5 DEF c
<1>12. CASE Handles
  BY <1>12, ArriveTakes
<1> QED BY <1>7, <1>8, <1>9, <1>10, <1>11, <1>12

\* A frame that is sent: all of it is at the end of the stream.
LEMMA ArriveBegins ==
  ASSUME LinkInv, OrderInv, Grows
  PROVE  \E h \in Headers, p \in Payloads :
           /\ sent' = Append(sent, [header |-> h, payload |-> p])
           /\ \A s, rb, c : Arriving(Stream', s, rb, c, Packet(h, p), Len(sent) + 1)
<1> DEFINE st == Stream
           m  == Len(sent)
           f  == m + 1
           n  == Len(st)
<1>1. st \in Seq(Bytes) /\ n \in Nat /\ m \in Nat /\ MaxFrames \in Nat
  <2>1. sent \in Seq([header : Headers, payload : Payloads])
    BY DEF LinkInv, UartTypeOK
  <2>2. MaxFrames \in Nat
    BY UartAssumption
  <2> QED BY <2>1, <2>2, StreamIs, LenProperties
<1>2. \A i \in 1..n : st[i].frame \in 1..m
  BY DEF OrderInv, Order, Within
<1>3. PICK h \in Headers, p \in Payloads :
           /\ sent' = Append(sent, [header |-> h, payload |-> p])
           /\ Stream' = st \o Tagged(SlipFrame(Packet(h, p)), f)
           /\ m < MaxFrames
  BY DEF Grows
<1> DEFINE P == Packet(h, p)
           F == SlipFrame(P)
           u == Tagged(F, f)
           w == st \o u
<1>4. P \in Seq(Values) /\ Len(P) > 0 /\ F \in Seq(Values) /\ Len(F) \in Nat /\ Len(F) > 1
  BY FrameValues, FrameLong
<1>5. Stream' = w
  BY <1>3
<1> HIDE DEF F, P, m, st
<1>6. f \in 0..MaxFrames /\ \A i \in 1..m : i # f
  BY <1>1, <1>3
<1>7. u \in Seq(Bytes) /\ Len(u) = Len(F) /\ \A i \in 1..Len(F) : u[i] = Byte(F[i], f)
  BY <1>4, <1>6, TaggedIs
<1> HIDE DEF f, u, n
<1>8. /\ Len(w) = n + Len(F)
      /\ \A i \in 1..n : w[i] = st[i]
      /\ \A i \in 1..Len(F) : w[n + i] = u[i]
  BY <1>1, <1>7, ConcatIs DEF n
<1> HIDE DEF w
<1>9. Window(w, F, f, 0, n)
  <2> DEFINE l == Len(F)
  <2>1. n + l - 0 <= n + l /\ l - 0 = l /\ n + l - 0 = n + l
    BY <1>1, <1>4
  <2>2. ASSUME NEW i \in 1..l PROVE w[n + i] = Byte(F[0 + i], f)
    <3>1. 0 + i = i
      OBVIOUS
    <3> QED BY <1>7, <1>8, <3>1
  <2>3. ASSUME NEW i \in 1..n + l, w[i].frame = f PROVE n < i /\ i <= n + l
    <3>1. ~(i <= n)
      <4> SUFFICES ASSUME i <= n PROVE FALSE
        OBVIOUS
      <4>1. i \in 1..n
        BY <1>1
      <4> QED BY <1>2, <1>6, <1>8, <2>3, <4>1
    <3> QED BY <1>1, <1>4, <3>1
  <2>4. Len(w) = n + l
    BY <1>8
  <2> QED BY <2>1, <2>2, <2>3, <2>4 DEF Window
<1>10. ASSUME NEW s, NEW rb, NEW c PROVE Arriving(Stream', s, rb, c, P, f)
  <2>1. 0 \in 0..Len(F) /\ n \in 0..Len(w) /\ 0 # Len(F) /\ ~(0 > 0) /\ ~(0 > 1)
    BY <1>1, <1>4, <1>8
  <2>2. ArrivesAt(w, s, rb, c, P, f, 0, n)
    BY <1>9, <2>1 DEF ArrivesAt, F
  <2>3. Arriving(w, s, rb, c, P, f)
    BY <2>2, ArrivingIs
  <2> QED BY <1>5, <2>3
<1> QED BY <1>3, <1>10 DEF P, f, m

\* Every step keeps that.
LEMMA ArriveNext ==
  ASSUME LinkInv, OrderInv, ArriveInv, [UartNext]_uartVars
  PROVE  ArriveInv'
<1>0. Loses \/ Changes \/ Grows \/ Handles \/ Renews \/ Stays
  BY StreamSteps
<1>1. sent \in Seq([header : Headers, payload : Payloads]) /\ Len(sent) \in Nat
  BY LenProperties DEF LinkInv, UartTypeOK
<1> SUFFICES ASSUME NEW f \in 1..Len(sent'), f \notin harmed'
             PROVE  Arriving(Stream', slip', rxbuf',
                             Num(delivered', CopyOf(sent'[f].payload, f)),
                             Packet(sent'[f].header, sent'[f].payload), f)
  BY DEF ArriveInv
<1>2. CASE f \in 1..Len(sent) /\ sent'[f] = sent[f]
  <2> DEFINE P == Packet(sent[f].header, sent[f].payload)
             T == CopyOf(sent[f].payload, f)
  <2>1. f \notin harmed
    BY <1>0 DEF Loses, Changes, Grows, Handles, Renews, Stays
  <2>2. Arriving(Stream, slip, rxbuf, Num(delivered, T), P, f)
    BY <1>2, <2>1 DEF ArriveInv
  <2>3. /\ Num(delivered', CopyOf(sent'[f].payload, f)) = Num(delivered', T)
        /\ Packet(sent'[f].header, sent'[f].payload) = P
    BY <1>2
  <2>4. P = Packet(sent[f].header, sent[f].payload) /\ T = CopyOf(sent[f].payload, f)
    OBVIOUS
  <2> HIDE DEF P, T
  <2>5. Arriving(Stream', slip', rxbuf', Num(delivered', T), P, f)
    BY <1>0, <1>2, <2>2, <2>4, ArriveKeeps
  <2> QED BY <2>3, <2>5
<1>3. CASE Grows
  <2>1. PICK h \in Headers, p \in Payloads :
           /\ sent' = Append(sent, [header |-> h, payload |-> p])
           /\ \A s, rb, c : Arriving(Stream', s, rb, c, Packet(h, p), Len(sent) + 1)
    BY <1>3, ArriveBegins
  <2>2. /\ Len(sent') = Len(sent) + 1
        /\ \A i \in 1..Len(sent) : sent'[i] = sent[i]
        /\ sent'[Len(sent) + 1] = [header |-> h, payload |-> p]
    BY <1>1, <2>1, AppendProperties
  <2>3. f \in 1..Len(sent) \/ f = Len(sent) + 1
    BY <1>1, <2>2
  <2>4. CASE f = Len(sent) + 1
    <3>1. sent'[f].header = h /\ sent'[f].payload = p
      BY <2>2, <2>4
    <3> QED BY <2>1, <2>4, <3>1
  <2> QED BY <1>2, <2>2, <2>3, <2>4
<1>4. CASE sent' = sent
  BY <1>2, <1>4
<1> QED BY <1>0, <1>3, <1>4 DEF Loses, Changes, Handles, Renews, Stays

\* A frame of which nothing was harmed and nothing is under way was handed on.
UnharmedArrive ==
  \A f \in DOMAIN sent : ~Passing(f) /\ f \notin harmed => Copies(f) # {}

\* A frame of which nothing is under way has been handled to its end.
LEMMA ArriveWhole ==
  ASSUME LinkInv, ArriveInv
  PROVE  UnharmedArrive
<1> SUFFICES ASSUME NEW f \in 1..Len(sent), ~Passing(f), f \notin harmed
             PROVE  Copies(f) # {}
  BY LenProperties DEF UnharmedArrive, LinkInv, UartTypeOK
<1> DEFINE P == Packet(sent[f].header, sent[f].payload)
           F == SlipFrame(P)
           c == Num(delivered, CopyOf(sent[f].payload, f))
           st == Stream
<1>1. st \in Seq(Bytes) /\ Unseen \in Seq(Bytes) /\ line \in Seq(Bytes) /\ Len(st) \in Nat
  BY StreamIs, LenProperties
<1>2. P \in Seq(Values) /\ Len(P) > 0
  <2>1. sent \in Seq([header : Headers, payload : Payloads])
    BY DEF LinkInv, UartTypeOK
  <2>2. sent[f] \in [header : Headers, payload : Payloads]
    BY <2>1, ElementOfSeq
  <2> QED BY <2>2, FrameValues
<1>3. Len(F) \in Nat /\ Len(F) > 1
  BY <1>2, FrameLong
<1>4. PICK k, p : ArrivesAt(st, slip, rxbuf, c, P, f, k, p)
  <2>1. Arriving(st, slip, rxbuf, c, P, f)
    BY DEF ArriveInv
  <2> QED BY <2>1, ArrivingIs
<1>5. /\ k \in 0..Len(F) /\ p \in 0..Len(st) /\ Window(st, F, f, k, p)
      /\ k = Len(F) => c > 0
  BY <1>4 DEF ArrivesAt
<1>6. \A i \in 1..Len(st) : st[i].frame # f
  <2> SUFFICES ASSUME NEW i \in 1..Len(st) PROVE st[i].frame # f
    OBVIOUS
  <2>1. st[i] \in ToSet(line \o Unseen)
    <3> DEFINE u == Unseen
               a == Len(u)
               b == Len(line)
    <3>1. u \in Seq(Bytes) /\ line \in Seq(Bytes) /\ st = u \o line
      BY <1>1 DEF Stream
    <3>2. i \in 1..Len(st)
      OBVIOUS
    <3> HIDE DEF u, st
    <3>3. /\ a \in Nat /\ b \in Nat /\ Len(u \o line) = a + b
          /\ \A j \in 1..a + b : (u \o line)[j] = IF j <= a THEN u[j] ELSE line[j - a]
      BY <3>1, ConcatProperties, LenProperties
    <3>4. /\ line \o u \in Seq(Bytes) /\ Len(line \o u) = b + a
          /\ \A j \in 1..b + a : (line \o u)[j] = IF j <= b THEN line[j] ELSE u[j - b]
      BY <3>1, ConcatProperties
    <3>5. i \in 1..a + b
      BY <3>1, <3>2, <3>3
    <3> HIDE DEF a, b
    <3>6. \E j \in 1..b + a : (line \o u)[j] = st[i]
      <4>1. CASE i <= a
        <5>1. b + i \in 1..b + a /\ (i # 0 => ~(b + i <= b)) /\ i # 0 /\ (b + i) - b = i
          BY <3>3, <3>5, <4>1
        <5>2. (line \o u)[b + i] = st[i]
          BY <3>1, <3>3, <3>4, <3>5, <4>1, <5>1
        <5> QED BY <5>1, <5>2
      <4>2. CASE ~(i <= a)
        <5>1. i - a \in 1..b + a /\ i - a <= b
          BY <3>3, <3>5, <4>2
        <5>2. (line \o u)[i - a] = st[i]
          BY <3>1, <3>3, <3>4, <3>5, <4>2, <5>1
        <5> QED BY <5>1, <5>2
      <4> QED BY <4>1, <4>2
    <3>7. DOMAIN (line \o u) = 1..b + a
      BY <3>4, LenProperties
    <3> QED BY <3>6, <3>7 DEF ToSet, u
  <2> QED BY <2>1 DEF Passing
<1>7. k = Len(F)
  <2> SUFFICES ASSUME k # Len(F) PROVE FALSE
    OBVIOUS
  <2> DEFINE l == Len(F)
             n == Len(st)
  <2>1. /\ p + l - k <= n /\ k \in 0..l /\ p \in 0..n /\ l \in Nat /\ n \in Nat /\ k # l
        /\ \A i \in 1..l - k : st[p + i] = Byte(F[k + i], f)
    BY <1>1, <1>3, <1>5 DEF Window
  <2>2. \A i \in 1..n : st[i].frame # f
    BY <1>6
  <2> HIDE DEF l, n, F, st
  <2>3. 1 \in 1..l - k /\ p + 1 \in 1..n
    BY <2>1
  <2>4. st[p + 1].frame = f
    BY <2>1, <2>3, WindowFrame
  <2> QED BY <2>2, <2>3, <2>4
<1>8. c # 0
  BY <1>5, <1>7
<1> QED BY <1>8, CopiesIs

\* A frame of which no byte was lost or changed is handed on whole, whatever
\* became of the bytes before, between and behind.
THEOREM UnharmedAlways == UartSpec => []UnharmedArrive
<1>1. UartInit => LinkInv /\ OrderInv /\ ArriveInv
  BY LinkInit, OrderInit, ArriveInit
<1>2. LinkInv /\ OrderInv /\ ArriveInv /\ [UartNext]_uartVars => (LinkInv /\ OrderInv /\ ArriveInv)'
  BY LinkNext, OrderNext, ArriveNext
<1>3. LinkInv /\ ArriveInv => UnharmedArrive
  BY ArriveWhole
<1> QED BY <1>1, <1>2, <1>3, PTL DEF UartSpec

\* SLIP recovers at the next frame: an unharmed one is handed on whole exactly
\* once, and of none are two copies handed on.
THEOREM FramesArrive ==
  ASSUME LongEnough
  PROVE  UartSpec => []WholeFramesArrive
<1>1. OneCopy /\ UnharmedArrive => WholeFramesArrive
  BY DEF OneCopy, UnharmedArrive, WholeFramesArrive
<1>2. UartSpec => []OneCopy
  BY OnceEach, PTL
<1> QED BY <1>1, <1>2, UnharmedAlways, PTL


-----------------------------------------------------------------------------
\* The bytes that were handed on come in the order in which they were sent.

\* No byte of s is of a later frame than one of t.
Ahead(s, t) == \A i \in 1..Len(s) : FromOn(t, s[i].frame)

\* What was handed on is in order, before what the decoder holds in a buffer
\* and before the stream.
Turn(st, held, rb, del) ==
  /\ \A k \in 1..Len(del) : Sorted(del[k].data) /\ Ahead(del[k].data, st)
  /\ \A k, l \in 1..Len(del) : k < l => Ahead(del[k].data, del[l].data)
  /\ rb => /\ Sorted(held) /\ Ahead(held, st)
           /\ \A k \in 1..Len(del) : Ahead(del[k].data, held)

\* A part of a sequence, from some place on.
LEMMA PartOrder ==
  ASSUME NEW s \in Seq(Bytes), NEW d \in Nat, NEW t \in Seq(Bytes), Len(s) = d + Len(t),
         \A i \in 1..Len(t) : t[i] = s[d + i]
  PROVE  /\ Sorted(s) => Sorted(t)
         /\ \A u : Ahead(s, u) => Ahead(t, u)
         /\ \A u : Ahead(u, s) => Ahead(u, t)
<1>1. Len(t) \in Nat /\ Len(s) = d + Len(t)
  BY LenProperties
<1>2. \A i \in 1..Len(t) : d + i \in 1..Len(s)
  BY <1>1
<1>3. \A i, j \in 1..Len(t) : i <= j => d + i <= d + j
  BY <1>1
<1>4. Sorted(s) => Sorted(t)
  BY <1>2, <1>3 DEF Sorted
<1>5. \A u : Ahead(s, u) => Ahead(t, u)
  BY <1>2 DEF Ahead
<1>6. \A f : FromOn(s, f) => FromOn(t, f)
  BY <1>2 DEF FromOn
<1>7. \A u : Ahead(u, s) => Ahead(u, t)
  BY <1>6 DEF Ahead
<1> QED BY <1>4, <1>5, <1>7

\* A byte behind all others.
LEMMA AppendSorted ==
  ASSUME NEW s \in Seq(Bytes), NEW c \in Bytes, Sorted(s),
         \A i \in 1..Len(s) : s[i].frame <= c.frame
  PROVE  Sorted(Append(s, c))
<1>1. /\ Len(Append(s, c)) = Len(s) + 1 /\ Append(s, c)[Len(s) + 1] = c
      /\ \A i \in 1..Len(s) : Append(s, c)[i] = s[i]
      /\ Len(s) \in Nat
  BY AppendProperties, LenProperties
<1>2. c.frame \in Nat
  BY UartAssumption DEF Bytes
<1> DEFINE w == Append(s, c)
           n == Len(s)
<1> HIDE DEF w, n
<1>3. SUFFICES ASSUME NEW i \in 1..n + 1, NEW j \in 1..n + 1, i <= j
               PROVE  w[i].frame <= w[j].frame
  BY <1>1 DEF Sorted, w, n
<1>4. CASE j \in 1..n
  <2>1. i \in 1..n
    BY <1>1, <1>3, <1>4 DEF n
  <2> QED BY <1>1, <1>3, <1>4, <2>1 DEF Sorted, w, n
<1>5. CASE j = n + 1 /\ i \in 1..n
  <2>1. w[i] = s[i] /\ s[i].frame <= c.frame
    BY <1>1, <1>5 DEF w, n
  <2>2. w[j] = c
    BY <1>1, <1>5 DEF w, n
  <2> QED BY <2>1, <2>2
<1>6. CASE j = n + 1 /\ i = n + 1
  <2>1. w[i] = c /\ w[j] = c
    BY <1>1, <1>6 DEF w, n
  <2> QED BY <1>2, <2>1
<1>7. n \in Nat
  BY <1>1 DEF n
<1> QED BY <1>3, <1>4, <1>5, <1>6, <1>7

\* A new packet behind the others.
LEMMA TurnAppends ==
  ASSUME NEW del \in Seq(Packets), NEW x \in Packets, NEW t,
         Turn(t, x.data, TRUE, del), NEW w, w = Append(del, x)
  PROVE  /\ \A k \in 1..Len(w) : Sorted(w[k].data) /\ Ahead(w[k].data, t)
         /\ \A k, l \in 1..Len(w) : k < l => Ahead(w[k].data, w[l].data)
<1>1. /\ Len(w) = Len(del) + 1 /\ w[Len(del) + 1] = x /\ Len(del) \in Nat
      /\ \A i \in 1..Len(del) : w[i] = del[i]
  BY AppendProperties, LenProperties
<1> DEFINE n == Len(del)
<1> HIDE DEF n
<1>2. \A k \in 1..n + 1 : k \in 1..n \/ k = n + 1
  BY <1>1 DEF n
<1>3. \A k \in 1..n + 1 : Sorted(w[k].data) /\ Ahead(w[k].data, t)
  BY <1>1, <1>2 DEF Turn, n
<1>4. ASSUME NEW k \in 1..n + 1, NEW l \in 1..n + 1, k < l PROVE Ahead(w[k].data, w[l].data)
  <2>1. k \in 1..n
    BY <1>1, <1>4 DEF n
  <2>2. CASE l \in 1..n
    BY <1>1, <1>4, <2>1, <2>2 DEF Turn, n
  <2>3. CASE l = n + 1
    BY <1>1, <2>1, <2>3 DEF Turn, n
  <2> QED BY <1>2, <2>2, <2>3
<1> QED BY <1>1, <1>3, <1>4 DEF n

\* A packet that is handed on was what the decoder held.
LEMMA ProcessTurn ==
  ASSUME NEW held \in Seq(Bytes), held # <<>>, NEW kind \in Kinds(held[1].val), NEW t,
         ProcessRxbuf(held, kind), delivered \in Seq(Packets),
         Turn(t, held, TRUE, delivered)
  PROVE  /\ \A k \in 1..Len(delivered') : Sorted(delivered'[k].data) /\ Ahead(delivered'[k].data, t)
         /\ \A k, l \in 1..Len(delivered') :
              k < l => Ahead(delivered'[k].data, delivered'[l].data)
<1>1. CASE delivered' = delivered
  BY <1>1 DEF Turn
<1>2. CASE delivered' # delivered
  <2>1. PICK d \in {1, 2}, data \in Seq(Bytes) :
              /\ kind \in {"plain", "checked"}
              /\ delivered' = Append(delivered, [kind |-> kind, data |-> data])
              /\ Len(held) = d + Len(data) /\ \A i \in 1..Len(data) : data[i] = held[d + i]
    BY <1>2, ProcessIs
  <2> DEFINE x == [kind |-> kind, data |-> data]
             w == delivered'
  <2>2. x \in Packets /\ x.data = data /\ w = Append(delivered, x)
    BY <2>1 DEF Packets
  <2>3. /\ Sorted(held) => Sorted(data)
        /\ \A u : Ahead(held, u) => Ahead(data, u)
        /\ \A u : Ahead(u, held) => Ahead(u, data)
    <3>1. d \in Nat /\ Len(held) = d + Len(data) /\ \A i \in 1..Len(data) : data[i] = held[d + i]
      BY <2>1
    <3> HIDE DEF x, w
    <3> QED BY <3>1, PartOrder
  <2> HIDE DEF x
  <2>4. Turn(t, x.data, TRUE, delivered)
    BY <2>2, <2>3 DEF Turn
  <2>5. w = Append(delivered, x)
    BY <2>2
  <2> HIDE DEF w
  <2>6. /\ \A k \in 1..Len(w) : Sorted(w[k].data) /\ Ahead(w[k].data, t)
        /\ \A k, l \in 1..Len(w) : k < l => Ahead(w[k].data, w[l].data)
    BY <2>2, <2>4, <2>5, TurnAppends
  <2> QED BY <2>6 DEF w
<1> QED BY <1>1, <1>2

\* The order of the bytes, from the packets that were handed on to those still
\* on their way.
TurnInv == Turn(Stream, slip.got, rxbuf, delivered)

\* Nothing is under way at first.
LEMMA TurnInit ==
  ASSUME UartInit
  PROVE  TurnInv
<1>1. slip.got = <<>> /\ delivered = <<>>
  BY DEF UartInit, SlipReady, SlipEmpty
<1>2. Len(delivered) = 0 /\ Len(slip.got) = 0
  BY <1>1, EmptySeq
<1> QED BY <1>2 DEF TurnInv, Turn, Ahead, Sorted

\* A stream with no earlier frames in it.
LEMMA TurnMoves ==
  ASSUME NEW st, NEW w, NEW held, NEW rb, NEW del, Turn(st, held, rb, del),
         \A f : FromOn(st, f) => FromOn(w, f)
  PROVE  Turn(w, held, rb, del)
<1>1. \A s : Ahead(s, st) => Ahead(s, w)
  BY DEF Ahead
<1> QED BY <1>1 DEF Turn

\* A decoder that holds nothing.
LEMMA TurnEmpty ==
  ASSUME NEW st, NEW held, NEW rb, NEW del, Turn(st, held, rb, del), NEW r
  PROVE  Turn(st, <<>>, r, del)
<1>1. \A s : Ahead(s, <<>>) /\ Ahead(<<>>, s)
  BY EmptyOrder, EmptySeq DEF Ahead
<1> QED BY <1>1, EmptyOrder DEF Turn

\* A decoder that takes a byte of a frame f that the stream has reached.
LEMMA TurnTakes ==
  ASSUME NEW st \in Seq(Bytes), NEW held \in Seq(Bytes), NEW rb, NEW del, Turn(st, held, rb, del),
         NEW c \in Bytes, \A f : FromOn(st, f) => f <= c.frame, FromOn(st, c.frame)
  PROVE  Turn(st, Append(held, c), rb, del)
<1> DEFINE g == Append(held, c)
<1>1. SUFFICES ASSUME rb PROVE /\ Sorted(g) /\ Ahead(g, st)
                               /\ \A k \in 1..Len(del) : Ahead(del[k].data, g)
  BY DEF Turn
<1>2. /\ Len(g) = Len(held) + 1 /\ g[Len(held) + 1] = c /\ Len(held) \in Nat
      /\ \A i \in 1..Len(held) : g[i] = held[i]
  BY AppendProperties, LenProperties
<1>3. Sorted(held) /\ Ahead(held, st) /\ \A k \in 1..Len(del) : Ahead(del[k].data, held)
  BY <1>1 DEF Turn
<1>4. \A i \in 1..Len(held) : FromOn(st, held[i].frame) /\ held[i].frame <= c.frame
  BY <1>3 DEF Ahead
<1>5. Sorted(g)
  BY <1>3, <1>4, AppendSorted
<1>6. \A f : FromOn(held, f) /\ f <= c.frame => FromOn(g, f)
  BY AppendOrder
<1> HIDE DEF g
<1>7. \A i \in 1..Len(g) : i \in 1..Len(held) \/ i = Len(held) + 1
  BY <1>2
<1>8. Ahead(g, st)
  BY <1>2, <1>4, <1>7 DEF Ahead
<1>9. ASSUME NEW k \in 1..Len(del) PROVE Ahead(del[k].data, g)
  <2>1. Ahead(del[k].data, held) /\ Ahead(del[k].data, st)
    BY <1>3 DEF Turn
  <2>2. \A i \in 1..Len(del[k].data) :
          FromOn(held, del[k].data[i].frame) /\ FromOn(st, del[k].data[i].frame)
    BY <2>1 DEF Ahead
  <2>3. \A i \in 1..Len(del[k].data) : FromOn(g, del[k].data[i].frame)
    BY <1>6, <2>2
  <2> QED BY <2>3 DEF Ahead
<1> QED BY <1>5, <1>8, <1>9

\* What a step may do to the stream keeps the order in it, and a frame that is
\* sent comes behind everything.
LEMMA TurnGrows ==
  ASSUME NEW st \in Seq(Bytes), NEW u \in Seq(Bytes), NEW n \in Nat,
         NEW held \in Seq(Bytes), NEW rb, NEW del, Turn(st, held, rb, del),
         Sorted(st), Within(st, n), \A i \in 1..Len(u) : u[i].frame = n + 1,
         Within(held, n), \A k \in 1..Len(del) : Within(del[k].data, n)
  PROVE  Turn(st \o u, held, rb, del)
<1>1. \A f : FromOn(st, f) /\ f <= n + 1 => FromOn(st \o u, f)
  BY ConcatOrder
<1>2. \A f \in 1..n : f <= n + 1
  OBVIOUS
<1>3. \A s : Ahead(s, st) /\ Within(s, n) => Ahead(s, st \o u)
  BY <1>1, <1>2 DEF Ahead, Within
<1> QED BY <1>3 DEF Turn

\* A step that takes bytes off the stream takes the first one.
LEMMA TurnNext ==
  ASSUME LinkInv, OrderInv, TurnInv, [UartNext]_uartVars
  PROVE  TurnInv'
<1> DEFINE st == Stream
           n  == Len(sent)
           held == slip.got
<1>1. /\ st \in Seq(Bytes) /\ n \in Nat /\ slip \in Slips /\ held \in Seq(Bytes)
      /\ delivered \in Seq(Packets) /\ rxbuf \in BOOLEAN /\ Len(slip.got) <= slip.limit
      /\ Len(sent) <= MaxFrames
  BY StreamIs, LenProperties DEF LinkInv, UartTypeOK, Slips, Packets
<1>2. /\ Sorted(st) /\ Within(st, n) /\ Within(held, n)
      /\ \A k \in 1..Len(delivered) : Within(delivered[k].data, n)
  BY DEF OrderInv, Order
<1>3. Turn(st, held, rxbuf, delivered)
  BY DEF TurnInv
<1>4. SUFFICES Turn(Stream', slip'.got, rxbuf', delivered')
  BY DEF TurnInv
<1>5. Loses \/ Changes \/ Grows \/ Handles \/ Renews \/ Stays
  BY StreamSteps
<1>6. SlipReady.got = <<>>
  BY DEF SlipReady
<1>7. ASSUME NEW w, Stream' = w, UNCHANGED <<slip, rxbuf, delivered>>,
             \A f : FromOn(st, f) => FromOn(w, f)
      PROVE  Turn(Stream', slip'.got, rxbuf', delivered')
  BY <1>3, <1>7, TurnMoves
<1> HIDE DEF st
<1>8. CASE Loses
  <2>1. PICK q \in 1..Len(st) : Stream' = Without(st, q)
    BY <1>8 DEF Loses, st
  <2>2. UNCHANGED <<slip, rxbuf, delivered>>
    BY <1>8 DEF Loses
  <2>3. \A f : FromOn(st, f) => FromOn(Without(st, q), f)
    BY <1>1, WithoutOrder
  <2> QED BY <1>7, <2>1, <2>2, <2>3
<1>9. CASE Changes
  <2>1. PICK q \in 1..Len(st), v \in Values : Stream' = Changed(st, q, v)
    BY <1>9 DEF Changes, st
  <2>2. UNCHANGED <<slip, rxbuf, delivered>>
    BY <1>9 DEF Changes
  <2>3. \A f : FromOn(st, f) => FromOn(Changed(st, q, v), f)
    BY <1>1, ChangeOrder
  <2> QED BY <1>7, <2>1, <2>2, <2>3
<1>10. CASE Stays
  BY <1>7, <1>10 DEF Stays, st
<1>11. CASE Renews
  <2>1. Stream' = st /\ slip'.got = <<>> /\ UNCHANGED delivered
    BY <1>11, <1>6 DEF Renews, st
  <2> QED BY <1>3, <2>1, TurnEmpty
<1>12. CASE Grows
  <2>1. PICK header \in Headers, payload \in Payloads :
           /\ Stream' = st \o Tagged(SlipFrame(Packet(header, payload)), n + 1)
           /\ Len(sent) < MaxFrames
    BY <1>12 DEF Grows, st
  <2> DEFINE F == SlipFrame(Packet(header, payload))
             f == n + 1
             u == Tagged(F, f)
  <2>2. F \in Seq(Values) /\ f \in 0..MaxFrames
    <3>1. F \in Seq(Values)
      BY FrameValues
    <3>2. MaxFrames \in Nat
      BY UartAssumption
    <3>3. n < MaxFrames
      BY <2>1
    <3> HIDE DEF n, F
    <3> QED BY <1>1, <3>1, <3>2, <3>3
  <2>3. Stream' = st \o u
    BY <2>1
  <2> HIDE DEF F, f
  <2>4. /\ Tagged(F, f) \in Seq(Bytes) /\ Len(Tagged(F, f)) = Len(F)
        /\ \A i \in 1..Len(F) : Tagged(F, f)[i] = Byte(F[i], f)
    BY <2>2, TaggedIs
  <2>5. \A v : Byte(v, f).frame = f
    BY DEF Byte
  <2>6. \A i \in 1..Len(u) : u[i].frame = f
    BY <2>4, <2>5
  <2>7. u \in Seq(Bytes)
    BY <2>4
  <2> HIDE DEF u
  <2>8. \A i \in 1..Len(u) : u[i].frame = n + 1
    BY <2>6 DEF f
  <2> HIDE DEF n, held
  <2>9. Turn(st \o u, held, rxbuf, delivered)
    BY <1>1, <1>2, <1>3, <2>7, <2>8, TurnGrows
  <2>10. UNCHANGED <<slip, rxbuf, delivered>>
    BY <1>12 DEF Grows
  <2> QED BY <2>3, <2>9, <2>10 DEF held
<1>13. CASE Handles
  <2> DEFINE b == st[1]
  <2>1. st # <<>> /\ Stream' = Tail(st)
    BY <1>13 DEF Handles, st
  <2>2. /\ b \in Bytes /\ FromOn(st, b.frame)
        /\ \A f : FromOn(st, f) => FromOn(Tail(st), f) /\ f <= b.frame
    BY <1>1, <1>2, <2>1, TailOrder
  <2>3. IF SlipComplete(slip, b)
     THEN /\ \/ rxbuf' = TRUE /\ slip' = SlipReady
             \/ rxbuf' = FALSE /\ slip' = slip
          /\ IF rxbuf THEN \E kind \in Kinds(slip.got[1].val) : ProcessRxbuf(slip.got, kind)
             ELSE UNCHANGED delivered
     ELSE slip' = SlipRx(slip, b) /\ UNCHANGED <<rxbuf, delivered>>
    BY <1>13 DEF Handles, st
  <2> HIDE DEF b
  <2>4. SUFFICES Turn(st, slip'.got, rxbuf', delivered')
    BY <2>1, <2>2, TurnMoves
  <2>5. CASE SlipComplete(slip, b)
    <3>1. /\ \A k \in 1..Len(delivered') :
               Sorted(delivered'[k].data) /\ Ahead(delivered'[k].data, st)
          /\ \A k, l \in 1..Len(delivered') :
               k < l => Ahead(delivered'[k].data, delivered'[l].data)
      <4>1. CASE delivered' = delivered
        BY <1>3, <4>1 DEF Turn
      <4>2. CASE delivered' # delivered
        <5>1. PICK kind \in Kinds(held[1].val) : ProcessRxbuf(held, kind)
          BY <2>3, <2>5, <4>2
        <5>2. held # <<>>
          BY <2>5 DEF SlipComplete
        <5>3. rxbuf = TRUE
          BY <1>1, <2>3, <2>5, <4>2
        <5> HIDE DEF held
        <5>4. Turn(st, held, TRUE, delivered)
          BY <1>3, <5>3
        <5> QED BY <1>1, <5>1, <5>2, <5>4, ProcessTurn
      <4> QED BY <4>1, <4>2
    <3>2. \/ rxbuf' = TRUE /\ slip'.got = <<>>
          \/ rxbuf' = FALSE
      BY <1>6, <2>3, <2>5
    <3>3. Turn(st, slip'.got, FALSE, delivered')
      BY <3>1 DEF Turn
    <3>4. Turn(st, <<>>, TRUE, delivered')
      BY <3>3, TurnEmpty
    <3> QED BY <3>2, <3>3, <3>4
  <2>6. CASE ~SlipComplete(slip, b)
    <3>1. slip' = SlipRx(slip, b) /\ UNCHANGED <<rxbuf, delivered>>
      BY <2>3, <2>6
    <3>2. \/ slip'.got = held \/ slip'.got = <<>>
          \/ \E c \in Bytes : c.frame = b.frame /\ slip'.got = Append(held, c)
      BY <1>1, <2>2, <3>1, SlipGot
    <3>3. CASE slip'.got = held
      BY <1>3, <3>1, <3>3
    <3>4. CASE slip'.got = <<>>
      BY <1>3, <3>1, <3>4, TurnEmpty
    <3>5. CASE \E c \in Bytes : c.frame = b.frame /\ slip'.got = Append(held, c)
      <4>1. PICK c \in Bytes : c.frame = b.frame /\ slip'.got = Append(held, c)
        BY <3>5
      <4> HIDE DEF held
      <4>2. Turn(st, Append(held, c), rxbuf, delivered)
        BY <1>1, <1>3, <2>2, <4>1, TurnTakes
      <4> QED BY <3>1, <4>1, <4>2
    <3> QED BY <3>2, <3>3, <3>4, <3>5
  <2> QED BY <2>5, <2>6
<1> QED BY <1>5, <1>8, <1>9, <1>10, <1>11, <1>12, <1>13

\* Sequences each of which is in order and before the next ones are in order
\* when they are put together.
LEMMA FlattenOrder ==
  ASSUME NEW len \in Nat \ {0}, NEW seqs, Len(seqs) = len,
         \A k \in 1..len : seqs[k] \in Seq(Bytes) /\ Sorted(seqs[k]),
         \A k, l \in 1..len : k < l => Ahead(seqs[k], seqs[l])
  PROVE  FlattenSeq(seqs) \in Seq(Bytes) /\ Sorted(FlattenSeq(seqs))
<1>1. PICK g : Joins(g, seqs, len) /\ FlattenSeq(seqs) = g[len]
  BY FlattenIs
<1>2. \A n \in 1..len : g[n] = IF n = 1 THEN seqs[n] ELSE g[n - 1] \o seqs[n]
  BY <1>1 DEF Joins
<1> DEFINE Good(n) == /\ g[n] \in Seq(Bytes) /\ Sorted(g[n])
                      /\ \A l \in 1..len : n < l => Ahead(g[n], seqs[l])
           Wrong == {n \in 1..len : ~Good(n)}
<1>3. ASSUME Wrong # {} PROVE FALSE
  <2>1. Wrong \in SUBSET Nat OBVIOUS
  <2> HIDE DEF Wrong
  <2>2. PICK n \in Wrong : \A m \in Wrong : ~(m < n)
    BY <1>3, <2>1, Least
  <2>3. n \in 1..len /\ ~Good(n)
    BY DEF Wrong
  <2>4. n # 1
    <3> SUFFICES ASSUME n = 1 PROVE FALSE
      OBVIOUS
    <3>1. g[n] = seqs[n]
      BY <1>2, <2>3
    <3> QED BY <2>3, <3>1
  <2>5. n - 1 \in 1..len /\ n - 1 < n
    BY <2>3, <2>4
  <2>6. Good(n - 1)
    <3>1. n - 1 \notin Wrong
      BY <2>2, <2>5
    <3> QED BY <2>5, <3>1 DEF Wrong
  <2> DEFINE h == g[n - 1]
             e == seqs[n]
  <2>7. /\ h \in Seq(Bytes) /\ Sorted(h) /\ Ahead(h, e)
        /\ \A l \in 1..len : n < l => Ahead(h, seqs[l])
    <3>1. \A l \in 1..len : n < l => n - 1 < l
      BY <2>3
    <3> QED BY <2>3, <2>5, <2>6, <3>1
  <2>8. /\ e \in Seq(Bytes) /\ Sorted(e) /\ \A l \in 1..len : n < l => Ahead(e, seqs[l])
    BY <2>3
  <2>9. g[n] = h \o e
    BY <1>2, <2>3, <2>4
  <2> HIDE DEF h, e
  <2>10. /\ h \o e \in Seq(Bytes)
         /\ \A i \in 1..Len(h) : (h \o e)[i] = h[i]
         /\ \A i \in 1..Len(e) : (h \o e)[Len(h) + i] = e[i]
         /\ Len(h \o e) = Len(h) + Len(e) /\ Len(h) \in Nat /\ Len(e) \in Nat
    BY <2>7, <2>8, ConcatIs
  <2> DEFINE w == h \o e
             p == Len(h)
             q == Len(e)
  <2> HIDE DEF w, p, q
  <2>11. p \in Nat /\ q \in Nat /\ Len(w) = p + q /\ w \in Seq(Bytes) /\ g[n] = w
    BY <2>9, <2>10 DEF w, p, q
  <2>12. \A i \in 1..p : w[i] = h[i]
    BY <2>10 DEF w, p
  <2>13. \A i \in 1..p + q : i \in 1..p \/ \E j \in 1..q : i = p + j
    <3> SUFFICES ASSUME NEW i \in 1..p + q, i \notin 1..p PROVE \E j \in 1..q : i = p + j
      OBVIOUS
    <3>1. i - p \in 1..q /\ i = p + (i - p)
      BY <2>11
    <3> QED BY <3>1
  <2>14. \A j \in 1..q : w[p + j] = e[j]
    BY <2>10 DEF w, p, q
  <2>15. Sorted(w)
    <3> SUFFICES ASSUME NEW i \in 1..p + q, NEW j \in 1..p + q, i <= j
                 PROVE  w[i].frame <= w[j].frame
      BY <2>11 DEF Sorted
    <3>1. CASE i \in 1..p /\ j \in 1..p
      <4>1. h[i].frame <= h[j].frame
        BY <2>7, <3>1 DEF Sorted, p
      <4> QED BY <2>12, <3>1, <4>1
    <3>2. CASE i \in 1..p /\ j \notin 1..p
      <4>1. PICK k \in 1..q : j = p + k
        BY <2>13, <3>2
      <4>2. h[i].frame <= e[k].frame
        BY <2>7, <3>2, <4>1 DEF Ahead, FromOn, p, q
      <4> QED BY <2>12, <2>14, <3>2, <4>1, <4>2
    <3>3. CASE i \notin 1..p
      <4>1. PICK k \in 1..q : i = p + k
        BY <2>13, <3>3
      <4>2. j \notin 1..p
        BY <2>11, <3>3
      <4>3. PICK l \in 1..q : j = p + l
        BY <2>13, <4>2
      <4>4. k <= l
        BY <2>11, <4>1, <4>3
      <4>5. e[k].frame <= e[l].frame
        BY <2>8, <4>4 DEF Sorted, q
      <4> QED BY <2>14, <4>1, <4>3, <4>5
    <3> QED BY <3>1, <3>2, <3>3
  <2>16. ASSUME NEW l \in 1..len, n < l PROVE Ahead(w, seqs[l])
    <3>1. Ahead(h, seqs[l]) /\ Ahead(e, seqs[l])
      BY <2>7, <2>8, <2>16
    <3> SUFFICES ASSUME NEW i \in 1..p + q PROVE FromOn(seqs[l], w[i].frame)
      BY <2>11 DEF Ahead
    <3>2. CASE i \in 1..p
      BY <2>12, <3>1, <3>2 DEF Ahead, p
    <3>3. CASE i \notin 1..p
      <4>1. PICK k \in 1..q : i = p + k
        BY <2>13, <3>3
      <4> QED BY <2>14, <3>1, <4>1 DEF Ahead, q
    <3> QED BY <3>2, <3>3
  <2> QED BY <2>3, <2>11, <2>15, <2>16
<1>4. Good(len)
  <2> HIDE DEF Good
  <2>1. len \in 1..len
    OBVIOUS
  <2>2. len \notin Wrong
    BY <1>3
  <2> QED BY <2>1, <2>2
<1> QED BY <1>1, <1>4

\* What was handed on, put together.
LEMMA TurnInOrder ==
  ASSUME LinkInv, TurnInv
  PROVE  InOrder
<1> DEFINE n == Len(delivered)
           seqs == [i \in DOMAIN delivered |-> delivered[i].data]
           all == FlattenSeq(seqs)
<1>1. delivered \in Seq(Packets)
  BY DEF LinkInv, UartTypeOK, Packets
<1>2. n \in Nat /\ DOMAIN delivered = 1..n
  BY <1>1, LenProperties
<1>3. /\ \A k \in 1..n : Sorted(delivered[k].data)
      /\ \A k, l \in 1..n : k < l => Ahead(delivered[k].data, delivered[l].data)
  BY DEF TurnInv, Turn
<1>4. \A k \in 1..n : delivered[k].data \in Seq(Bytes)
  <2> TAKE k \in 1..n
  <2>1. delivered[k] \in Packets
    BY <1>1, <1>2, ElementOfSeq
  <2> QED BY <2>1 DEF Packets
<1>5. \A k \in 1..n : seqs[k] = delivered[k].data
  BY <1>2
<1>6. Len(seqs) = n
  BY <1>2
<1> HIDE DEF n, seqs
<1>7. CASE n = 0
  <2>1. seqs = <<>>
    <3>1. DOMAIN seqs = 1..0
      BY <1>2, <1>7 DEF seqs
    <3> QED BY <3>1 DEF seqs
  <2>2. all = <<>>
    BY <2>1 DEF FlattenSeq
  <2> QED BY <2>2 DEF InOrder, seqs
<1>8. CASE n # 0
  <2>1. n \in Nat \ {0}
    BY <1>2, <1>8
  <2>2. \A k \in 1..n : seqs[k] \in Seq(Bytes) /\ Sorted(seqs[k])
    BY <1>3, <1>4, <1>5
  <2>3. \A k, l \in 1..n : k < l => Ahead(seqs[k], seqs[l])
    BY <1>3, <1>5
  <2>4. all \in Seq(Bytes) /\ Sorted(all)
    BY <1>6, <2>1, <2>2, <2>3, FlattenOrder
  <2> HIDE DEF all
  <2>5. DOMAIN all = 1..Len(all) /\ Len(all) \in Nat
    BY <2>4, LenProperties
  <2>6. \A i, j \in 1..Len(all) : i < j => i <= j
    BY <2>5
  <2>7. \A i, j \in DOMAIN all : i < j => all[i].frame <= all[j].frame
    BY <2>4, <2>5, <2>6 DEF Sorted
  <2> QED BY <2>7 DEF InOrder, all, seqs
<1> QED BY <1>7, <1>8

\* Bytes are handed on in the order in which they were sent, across packets and
\* whatever happened to them: the interrupt handler never overtakes the thread
\* in the ring buffer, and nothing of a lost packet comes later.
THEOREM BytesInOrder == UartSpec => []InOrder
<1>1. UartInit => LinkInv /\ OrderInv /\ TurnInv
  BY LinkInit, OrderInit, TurnInit
<1>2. LinkInv /\ OrderInv /\ TurnInv /\ [UartNext]_uartVars => LinkInv' /\ OrderInv' /\ TurnInv'
  BY LinkNext, OrderNext, TurnNext
<1>3. LinkInv /\ TurnInv => InOrder
  BY TurnInOrder
<1> QED BY <1>1, <1>2, <1>3, PTL DEF UartSpec

-----------------------------------------------------------------------------
\* Deep sleep.

\* The thread waits without a notification only when it has read everything.
ReadWhenWaiting ==
  /\ rx.step = "wait" /\ ~rx.notice => ring.rd = ring.wr
  /\ sleep.deep => rx.step = "wait" /\ ~rx.notice

\* The thread waits only where it saw both indices equal, and from then on every
\* byte that is stored notifies it.
LEMMA ReadNext ==
  ASSUME LinkInv, ReadWhenWaiting, [UartNext]_uartVars
  PROVE  ReadWhenWaiting'
<1>1. /\ rx \in Rxs /\ sleep \in Sleeps
  BY DEF LinkInv, UartTypeOK, Rxs, Sleeps
<1>2. CASE UNCHANGED <<ring, rx, sleep>>
  BY <1>2 DEF ReadWhenWaiting
<1>3. CASE Line
  <2>1. CASE ByteArrives
    <3>1. rx' = [rx EXCEPT !.notice = TRUE] /\ ~sleep.deep
      BY <2>1 DEF ByteArrives, Put
    <3>2. ~sleep'.deep
      BY <1>1, <2>1, <3>1 DEF ByteArrives, Edge, Sleeps
    <3> QED BY <1>1, <3>1, <3>2 DEF ReadWhenWaiting, Rxs
  <2>2. CASE ByteWhileAsleep
    <3>1. UNCHANGED <<ring, rx>> /\ (sleep'.deep => sleep.deep)
      BY <1>1, <2>2 DEF ByteWhileAsleep, Edge, Sleeps
    <3> QED BY <3>1 DEF ReadWhenWaiting
  <2> QED BY <1>3, <2>1, <2>2 DEF Line
<1>4. CASE RxThread
  <2>1. UNCHANGED sleep
    BY <1>4 DEF RxThread, RxBegin, RxByte, RxEnd, RxWait, RxNoticed
  <2>2. ~sleep.deep
    BY <1>4 DEF ReadWhenWaiting, RxThread, RxBegin, RxByte, RxEnd, RxWait, RxNoticed
  <2>3. CASE RxWait
    BY <1>1, <2>1, <2>2, <2>3 DEF RxWait, ReadWhenWaiting, Rxs
  <2>4. CASE RxBegin \/ RxByte \/ RxEnd \/ RxNoticed
    <3>1. rx'.step # "wait"
      <4>0. "burst" # "wait" /\ "check" # "wait"
        OBVIOUS
      <4>1. CASE RxBegin
        BY <1>1, <4>0, <4>1 DEF RxBegin, Rxs
      <4>2. CASE RxByte
        <5>1. rx.step = "burst" /\ rx' = [rx EXCEPT !.at = @ + 1]
          BY <4>2 DEF RxByte
        <5> QED BY <1>1, <4>0, <5>1 DEF Rxs
      <4>3. CASE RxEnd
        BY <1>1, <4>0, <4>3 DEF RxEnd, Rxs
      <4>4. CASE RxNoticed
        BY <1>1, <4>0, <4>4 DEF RxNoticed, Rxs
      <4> QED BY <2>4, <4>1, <4>2, <4>3, <4>4
    <3> QED BY <2>1, <2>2, <3>1 DEF ReadWhenWaiting
  <2> QED BY <1>4, <2>3, <2>4 DEF RxThread
<1>5. CASE Sleeping
  <2>1. UNCHANGED <<ring, rx>>
    BY <1>5 DEF Sleeping, ArmWakeUp, ClearVeto, DisableSleep, DeepSleep, WakeUp
  <2>2. sleep'.deep => sleep.deep \/ (rx.step = "wait" /\ ~rx.notice)
    BY <1>1, <1>5 DEF Sleeping, ArmWakeUp, ClearVeto, DisableSleep, DeepSleep, WakeUp, Sleeps
  <2> QED BY <2>1, <2>2 DEF ReadWhenWaiting
<1>6. CASE ControllerSends \/ LineFault \/ UNCHANGED uartVars
  BY <1>2, <1>6 DEF ControllerSends, LineFault, uartVars
<1> QED BY <1>3, <1>4, <1>5, <1>6 DEF UartNext

\* The processor goes into deep sleep, and stays there, with every byte in the
\* ring buffer handled: no notification of the thread is lost.
THEOREM SleepsRead == UartSpec => []SleepsWhenRead
<1>1. UartInit => LinkInv /\ ReadWhenWaiting
  BY LinkInit DEF UartInit, ReadWhenWaiting
<1>2. LinkInv /\ ReadWhenWaiting /\ [UartNext]_uartVars => LinkInv' /\ ReadWhenWaiting'
  BY LinkNext, ReadNext
<1>3. LinkInv /\ ReadWhenWaiting => SleepsWhenRead
  <2> SUFFICES ASSUME LinkInv, ReadWhenWaiting, sleep.deep PROVE Unseen = <<>>
    BY DEF SleepsWhenRead
  <2>1. ring.rd = ring.wr /\ rx.step = "wait"
    BY DEF ReadWhenWaiting
  <2>2. From = ring.wr
    BY <2>1 DEF From
  <2>3. /\ ring.wr \in 0..RingSize - 1 /\ RingSize \in Nat
        /\ ring.buf \in [0..RingSize - 1 -> Bytes]
    BY UartAssumption DEF LinkInv, UartTypeOK
  <2>4. Span(ring.wr, ring.wr) = 0
    BY <2>3 DEF Span
  <2>5. ring.wr \in 0..RingSize
    BY <2>3
  <2>6. Unseen \in Seq(Bytes) /\ Len(Unseen) = 0
    BY <2>2, <2>3, <2>4, <2>5, UnseenIs, SliceIs
  <2> QED BY <2>6, EmptySeq
<1> QED BY <1>1, <1>2, <1>3, PTL DEF UartSpec
=============================================================================
