------------------------------- MODULE M2mLlc -------------------------------
(***************************************************************************)
(* Commands, responses and events between the tasks of the Controller and  *)
(* the streams of the Agent: the LLC and M2M layers of both sides          *)
(* (mmagic_controller.c; mmagic_llc_agent.c, mmagic_m2m_agent.c).          *)
(*                                                                         *)
(* The data link below is what DatalinkSpi shows of it.  The Controller's  *)
(* mutex makes each transfer a step.  A write is tried three times: an     *)
(* acknowledged attempt was passed on, a failed one may have been.  A read *)
(* returns the packet in the Agent's tx_buffer; a fault may lose it, or    *)
(* return the one before it again.                                         *)
(*                                                                         *)
(* A packet is a record; a command is known by its task and its number,    *)
(* and the only contents told apart are the fields of its header that      *)
(* mmagic_controller_rx compares (cmd).                                    *)
(***************************************************************************)
EXTENDS Naturals, FiniteSets

CONSTANTS
  Tasks,          \* tasks of the Controller that call the API
  Streams,        \* streams in use
  ControlStream,  \* the one the Agent opens at its start
  StreamOf,       \* the stream each task uses
  Commands,       \* <<subsystem, command, subcommand>>
  SeqMod,         \* sequence numbers are counted modulo this: 16
  Retries,        \* MMAGIC_DATALINK_RETRY_ATTEMPTS
  OutOfMemory,    \* may an allocation fail?
  MaxCalls, MaxFaults, MaxEvents, MaxResets,   \* bounds
  None

\* What the Agent sends.
Kinds == {"response", "event", "start", "invalid", "loss"}

ASSUME LlcAssumption ==
  /\ ControlStream \in Streams /\ StreamOf \in [Tasks -> Streams]
  /\ SeqMod \in Nat /\ SeqMod > 1
  /\ Retries \in Nat /\ Retries > 0
  /\ {MaxCalls, MaxFaults, MaxEvents, MaxResets} \subseteq Nat /\ OutOfMemory \in BOOLEAN
  /\ None \notin Streams /\ {"rx", "event"} \cap (Streams \cup {None}) = {}
  /\ LET CallIds == [task : Tasks, n : Nat, cmd : Commands] IN
       /\ None \notin [seq : Nat, stream : Streams, id : CallIds]
       /\ None \notin [seq : Nat, kind : Kinds, stream : Streams, id : CallIds \cup {None}]

VARIABLES
  \* Controller
  pc, cmd, calls,  \* step of each task, its command and number of calls
  answer,          \* answer the last call returned with MMAGIC_STATUS_OK
  tries,           \* attempts of the write in progress
  cSent, cSeen,    \* controller_llc.last_sent_seq, last_seen_seq
  cRx,             \* packet in the data link's rx task
  streamQ,         \* controller->stream_queue[sid], one entry each
  started,         \* agent_start_cb was called
  \* Agent
  boot,            \* start notification: "start", "sending", "up"; or "assert"
  opened,          \* streams with an entry in core->stream
  aSent, aSeen,    \* agent_llc->last_sent_seq, last_seen_seq
  aRx, aStep,      \* packet in the data link's rx task, what is left to do
  agentQ, job,     \* queue of each stream, the command its task works on
  sender,          \* holder of datalink_mutex, waiting in tx_buffer
  dlTx, dlPrev,    \* agent_dl->tx_buf, prev_tx_buf
  \* history, bounds
  handed,          \* commands pushed to a stream since the Agent's start
  failed,          \* a write has returned MMAGIC_STATUS_TX_ERROR
  cLast, aLast,    \* packet each rx task handled last
  faults, events, resets

ctrlVars  == <<pc, cmd, calls, answer, tries, cSent, cSeen, cRx, streamQ, started, cLast>>
agentVars == <<boot, opened, aSent, aSeen, aRx, aStep, agentQ, job, sender, dlTx,
               dlPrev, handed, aLast>>
vars == <<ctrlVars, agentVars, failed, faults, events, resets>>

Seqs    == 0..SeqMod - 1
Invalid == SeqMod + 1                                \* 0xFF

NextSeq(seq) == IF seq = Invalid THEN 0 ELSE (seq + 1) % SeqMod

Id(t) == [task |-> t, n |-> calls[t], cmd |-> cmd[t]]

Init ==
  /\ pc = [t \in Tasks |-> "idle"] /\ cmd = [t \in Tasks |-> None]
  /\ calls = [t \in Tasks |-> 0] /\ answer = [t \in Tasks |-> None]
  /\ tries = 0 /\ cSent = Invalid /\ cSeen = Invalid /\ cRx = None
  /\ streamQ = [s \in Streams |-> None] /\ started = FALSE
  /\ boot = "start" /\ opened = Streams
  /\ aSent = Invalid /\ aSeen = Invalid /\ aRx = None /\ aStep = "check"
  /\ agentQ = [s \in Streams |-> None] /\ job = [s \in Streams |-> None]
  /\ sender = None /\ dlTx = None /\ dlPrev = None
  /\ handed = {} /\ failed = FALSE /\ cLast = None /\ aLast = None
  /\ faults = 0 /\ events = 0 /\ resets = 0

Fault == faults < MaxFaults /\ faults' = faults + 1

NoMemory == OutOfMemory /\ Fault

-----------------------------------------------------------------------------
\* A task of the Controller: mmagic_controller_tx, then mmagic_controller_rx.

Call(t) ==
  /\ started /\ pc[t] = "idle" /\ calls[t] < MaxCalls
  /\ pc' = [pc EXCEPT ![t] = "lock"]
  /\ \E c \in Commands : cmd' = [cmd EXCEPT ![t] = c]
  /\ calls' = [calls EXCEPT ![t] = @ + 1]
  /\ answer' = [answer EXCEPT ![t] = None]
  /\ UNCHANGED <<tries, cSent, cSeen, cRx, streamQ, started, cLast, agentVars, failed,
                 faults, events, resets>>

\* mmagic_controller_tx returns MMAGIC_STATUS_NO_MEM.
CallNoMemory(t) ==
  /\ pc[t] = "lock" /\ NoMemory
  /\ pc' = [pc EXCEPT ![t] = "idle"]
  /\ UNCHANGED <<cmd, calls, answer, tries, cSent, cSeen, cRx, streamQ, started, cLast,
                 agentVars, failed, events, resets>>

\* mmagic_llc_controller_tx under tx_mutex: the next sequence number.
Lock(t) ==
  /\ pc[t] = "lock" /\ \A u \in Tasks : pc[u] # "write"
  /\ pc' = [pc EXCEPT ![t] = "write"]
  /\ cSent' = NextSeq(cSent) /\ tries' = 1
  /\ UNCHANGED <<cmd, calls, answer, cSeen, cRx, streamQ, started, cLast, agentVars,
                 failed, faults, events, resets>>

Command(t) == [seq |-> cSent, stream |-> StreamOf[t], id |-> Id(t)]

\* The Agent's data link can take a packet when its rx task is free.
Accepts == aRx = None /\ boot # "assert"

\* The rx task waits for room in a stream's queue or for the data link.
AgentRxBlocked ==
  /\ aRx # None
  /\ aStep = "check" => aRx.seq # aSeen /\ aRx.stream \in opened /\ agentQ[aRx.stream] # None

WriteStep(t) ==
  /\ pc[t] = "write"
  /\ UNCHANGED <<cmd, calls, answer, cSent, cSeen, cRx, streamQ, started, cLast, boot,
                 opened, aSent, aSeen, aStep, agentQ, job, sender, dlTx, dlPrev,
                 handed, aLast, events, resets>>

\* The last attempt gives the call up.
Retry(t) ==
  IF tries < Retries
    THEN tries' = tries + 1 /\ UNCHANGED <<pc, failed>>
    ELSE pc' = [pc EXCEPT ![t] = "idle"] /\ failed' = TRUE /\ UNCHANGED tries

WriteAcked(t) ==
  /\ WriteStep(t) /\ Accepts
  /\ aRx' = Command(t)
  /\ pc' = [pc EXCEPT ![t] = "wait"]
  /\ UNCHANGED <<tries, failed, faults>>

WriteAckLost(t) ==
  /\ WriteStep(t) /\ Accepts /\ Fault
  /\ aRx' = Command(t)
  /\ Retry(t)

\* A corrupted transfer; or the timeout, when the rx task of the Agent is
\* blocked.  (It is longer than any other delay of that task.)
WriteNotAccepted(t) ==
  /\ WriteStep(t)
  /\ IF Accepts THEN Fault ELSE AgentRxBlocked \/ boot = "assert"
  /\ ~Accepts => UNCHANGED faults
  /\ UNCHANGED aRx
  /\ Retry(t)

\* mmagic_controller_rx: whatever response its stream's queue holds.  One that
\* reports a failure or answers another kind of command is an error.
TakeAnswer(t) ==
  LET r == streamQ[StreamOf[t]] IN
  /\ pc[t] = "wait" /\ r # None
  /\ pc' = [pc EXCEPT ![t] = "idle"]
  /\ streamQ' = [streamQ EXCEPT ![StreamOf[t]] = None]
  /\ \E ok \in BOOLEAN :
       answer' = [answer EXCEPT ![t] = IF ok /\ r.cmd = cmd[t] THEN r ELSE None]
  /\ UNCHANGED <<cmd, calls, tries, cSent, cSeen, cRx, started, cLast, agentVars, failed,
                 faults, events, resets>>

-----------------------------------------------------------------------------
\* The Controller's rx task.

ReadStep ==
  /\ cRx = None /\ boot # "assert"
  /\ UNCHANGED <<pc, cmd, calls, answer, tries, cSent, cSeen, streamQ, started, cLast,
                 opened, aSent, aSeen, aRx, aStep, agentQ, job, sender, handed,
                 aLast, failed, events, resets>>

\* The Agent's tx_buffer is free again; of its waiters, the start
\* notification has no mutex to release.
PacketGone ==
  /\ dlPrev' = dlTx /\ dlTx' = None
  /\ boot' = IF dlTx.kind = "start" THEN "up" ELSE boot

Read == ReadStep /\ dlTx # None /\ cRx' = dlTx /\ PacketGone /\ UNCHANGED faults

\* The Agent has sent the packet and every attempt to read it failed.
ReadLost == ReadStep /\ dlTx # None /\ Fault /\ PacketGone /\ UNCHANGED cRx

\* A REREAD although the packet before it had arrived.
ReadAgain ==
  /\ ReadStep /\ dlPrev # None /\ Fault
  /\ cRx' = dlPrev /\ UNCHANGED <<boot, dlTx, dlPrev>>

\* mmagic_llc_controller_rx_callback.
RxTaskStep ==
  /\ cRx # None
  /\ cRx' = None /\ cSeen' = cRx.seq /\ cLast' = cRx
  /\ UNCHANGED <<pc, cmd, calls, answer, tries, cSent, agentVars, failed, faults,
                 events, resets>>

\* Mutant: packets read again are not recognised.
NeverRepeat == FALSE

IsRepeat == cRx.seq = cSeen /\ cRx.kind # "start"

CtrlDropRepeat ==
  /\ RxTaskStep /\ IsRepeat
  /\ UNCHANGED <<streamQ, started>>

\* The push to the stream's queue waits until there is room.
CtrlResponse ==
  /\ RxTaskStep /\ ~IsRepeat /\ cRx.kind = "response"
  /\ streamQ[cRx.stream] = None
  /\ streamQ' = [streamQ EXCEPT ![cRx.stream] = cRx.id]
  /\ UNCHANGED started

CtrlStart ==
  /\ RxTaskStep /\ cRx.kind = "start"
  /\ started' = TRUE /\ UNCHANGED streamQ

\* Events go to their handler, reports of the Agent to the log.
CtrlNotice ==
  /\ RxTaskStep /\ ~IsRepeat /\ cRx.kind \in {"event", "invalid", "loss"}
  /\ UNCHANGED <<streamQ, started>>

-----------------------------------------------------------------------------
\* The Agent's rx task: mmagic_llc_agent_rx_buffer_callback.

AgentRxStep(step) ==
  /\ aRx # None /\ aStep = step /\ boot # "assert"
  /\ UNCHANGED <<ctrlVars, boot, opened, aSent, job, sender, dlTx, dlPrev, failed,
                 faults, events, resets>>

\* Mutant: the sequence number of the packet is not kept.
NotSeen == aRx' = None /\ aStep' = "check" /\ aLast' = aRx /\ UNCHANGED aSeen

Seen == aSeen' = aRx.seq /\ aRx' = None /\ aStep' = "check" /\ aLast' = aRx

\* Mutant: the first packet after a start is compared as well.
CheckLossAlways ==
  IF aRx.seq # NextSeq(aSeen)
    THEN aStep' = "loss" /\ UNCHANGED <<aRx, aSeen, aLast>>
    ELSE Seen

\* After a packet that was not a repeat: have others been missed?
CheckLoss ==
  IF aSeen # Invalid /\ aRx.seq # NextSeq(aSeen)
    THEN aStep' = "loss" /\ UNCHANGED <<aRx, aSeen, aLast>>
    ELSE Seen

AgentDropRepeat ==
  /\ AgentRxStep("check") /\ aRx.seq = aSeen
  /\ Seen /\ UNCHANGED <<agentQ, handed>>

\* Mutant: repeats are handed over too.
AgentHandOverAll ==
  /\ AgentRxStep("check")
  /\ aRx.stream \in opened /\ agentQ[aRx.stream] = None
  /\ agentQ' = [agentQ EXCEPT ![aRx.stream] = aRx.id]
  /\ handed' = handed \cup {aRx.id}
  /\ CheckLoss

\* mmagic_m2m_rx_callback: the push waits until there is room.
AgentHandOver ==
  /\ AgentRxStep("check") /\ aRx.seq # aSeen
  /\ aRx.stream \in opened /\ agentQ[aRx.stream] = None
  /\ agentQ' = [agentQ EXCEPT ![aRx.stream] = aRx.id]
  /\ handed' = handed \cup {aRx.id}
  /\ CheckLoss

\* INVALID_STREAM: the callback has released the packet and its caller does so
\* again; the heap is taken to survive it.
AgentNoStream ==
  /\ AgentRxStep("check") /\ aRx.seq # aSeen /\ aRx.stream \notin opened
  /\ aStep' = "invalid"
  /\ UNCHANGED <<aRx, aSeen, agentQ, handed, aLast>>

-----------------------------------------------------------------------------
\* The Agent's senders, each under datalink_mutex.

\* The call of mmagic_llc_agent_tx returns and its task goes on.
Returned(who) ==
  /\ job' = IF who \in Streams THEN [job EXCEPT ![who] = None] ELSE job
  /\ IF who # "rx" THEN UNCHANGED <<aRx, aStep, aSeen, aLast>>
     ELSE IF aStep = "invalid" THEN CheckLoss ELSE Seen

\* The data link refuses a second packet: nobody looks, and it is gone.
Transmit(who, kind, stream, id) ==
  /\ sender = None /\ boot # "assert"
  /\ aSent' = NextSeq(aSent)
  /\ IF dlTx = None
       THEN /\ dlTx' = [seq |-> NextSeq(aSent), kind |-> kind, stream |-> stream, id |-> id]
            /\ sender' = who
            /\ UNCHANGED <<job, aRx, aStep, aSeen, aLast>>
       ELSE Returned(who) /\ UNCHANGED <<dlTx, sender>>
  /\ UNCHANGED <<ctrlVars, boot, opened, agentQ, dlPrev, handed, failed, faults, resets>>

\* Mutant: the mutex is kept after the transfer, but for a report.
TransmitDoneKeeps ==
  /\ sender # None /\ dlTx = None
  /\ sender' = (IF sender = "rx" THEN None ELSE sender) /\ Returned(sender)
  /\ UNCHANGED <<ctrlVars, boot, opened, aSent, agentQ, dlTx, dlPrev, handed,
                 failed, faults, events, resets>>

\* The semaphore is given by the end of the transfer, the mutex released.
TransmitDone ==
  /\ sender # None /\ dlTx = None
  /\ sender' = None /\ Returned(sender)
  /\ UNCHANGED <<ctrlVars, boot, opened, aSent, agentQ, dlTx, dlPrev, handed,
                 failed, faults, events, resets>>

\* The rx task reports an invalid stream or a loss.
RxReport ==
  /\ aRx # None /\ aStep \in {"invalid", "loss"}
  /\ Transmit("rx", aStep, IF aStep = "loss" THEN ControlStream ELSE aRx.stream, None)
  /\ UNCHANGED events

\* A report without a buffer.  That of a loss leaves the callback at once, by
\* "goto exit", without the update of last_seen_seq.
RxReportNoMemory ==
  /\ aRx # None /\ sender # "rx" /\ boot # "assert" /\ NoMemory
  /\ \/ /\ aStep = "invalid" /\ sender = None
        /\ aSent' = NextSeq(aSent) /\ CheckLoss
     \/ /\ aStep = "loss"
        /\ aRx' = None /\ aStep' = "check" /\ aLast' = aRx
        /\ UNCHANGED <<aSent, aSeen>>
  /\ UNCHANGED <<ctrlVars, boot, opened, agentQ, job, sender, dlTx, dlPrev, handed,
                 failed, events, resets>>

\* A stream task takes a command from its queue and carries it out ...
StreamTake(s) ==
  /\ job[s] = None /\ agentQ[s] # None /\ boot # "assert"
  /\ job' = [job EXCEPT ![s] = agentQ[s]]
  /\ agentQ' = [agentQ EXCEPT ![s] = None]
  /\ UNCHANGED <<ctrlVars, boot, opened, aSent, aSeen, aRx, aStep, sender, dlTx,
                 dlPrev, handed, aLast, failed, faults, events, resets>>

\* ... and sends the response.
StreamRespond(s) ==
  /\ job[s] # None
  /\ Transmit(s, "response", s, job[s])
  /\ UNCHANGED events

\* MMOSAL_ASSERT(resp_buf) of the stream task.
RespondNoMemory(s) ==
  /\ job[s] # None /\ boot # "assert" /\ NoMemory
  /\ boot' = "assert"
  /\ UNCHANGED <<ctrlVars, opened, aSent, aSeen, aRx, aStep, agentQ, job, sender, dlTx,
                 dlPrev, handed, aLast, failed, events, resets>>

\* mmagic_m2m_event_handler, called by a task of the WLAN stack: beacons and
\* the end of standby, which commands have asked for.
SendEvent ==
  /\ handed # {} /\ events < MaxEvents /\ events' = events + 1
  /\ Transmit("event", "event", ControlStream, None)

\* mmagic_llc_send_start_notification: without the mutex.
SendStart ==
  /\ boot = "start"
  /\ aSent' = NextSeq(aSent)
  /\ IF dlTx = None
       THEN /\ boot' = "sending"
            /\ dlTx' = [seq |-> aSent', kind |-> "start", stream |-> ControlStream,
                        id |-> None]
       ELSE boot' = "assert" /\ UNCHANGED dlTx
  /\ UNCHANGED <<ctrlVars, opened, aSeen, aRx, aStep, agentQ, job, sender, dlPrev,
                 handed, aLast, failed, faults, events, resets>>

\* Mutant: last_seen_seq survives the restart.
AgentResetKeepsSeen ==
  /\ resets < MaxResets /\ resets' = resets + 1
  /\ boot' = "start" /\ opened' = {ControlStream}
  /\ aSent' = Invalid /\ aRx' = None /\ aStep' = "check"
  /\ agentQ' = [s \in Streams |-> None] /\ job' = [s \in Streams |-> None]
  /\ sender' = None /\ dlTx' = None /\ dlPrev' = None
  /\ handed' = {} /\ aLast' = None
  /\ UNCHANGED <<ctrlVars, aSeen, failed, faults, events>>

\* The Agent restarts: power, watchdog or mmhal_reset.
AgentReset ==
  /\ resets < MaxResets /\ resets' = resets + 1
  /\ boot' = "start" /\ opened' = {ControlStream}
  /\ aSent' = Invalid /\ aSeen' = Invalid /\ aRx' = None /\ aStep' = "check"
  /\ agentQ' = [s \in Streams |-> None] /\ job' = [s \in Streams |-> None]
  /\ sender' = None /\ dlTx' = None /\ dlPrev' = None
  /\ handed' = {} /\ aLast' = None
  /\ UNCHANGED <<ctrlVars, failed, faults, events>>

-----------------------------------------------------------------------------
TaskStep(t) ==
  \/ Call(t) \/ CallNoMemory(t) \/ Lock(t) \/ WriteAcked(t) \/ WriteAckLost(t)
  \/ WriteNotAccepted(t) \/ TakeAnswer(t)

CtrlRx == CtrlDropRepeat \/ CtrlResponse \/ CtrlStart \/ CtrlNotice

AgentRx == AgentDropRepeat \/ AgentHandOver \/ AgentNoStream \/ RxReport \/ RxReportNoMemory

Next ==
  \/ \E t \in Tasks : TaskStep(t)
  \/ Read \/ ReadLost \/ ReadAgain \/ CtrlRx \/ AgentRx
  \/ \E s \in Streams : StreamTake(s) \/ StreamRespond(s) \/ RespondNoMemory(s)
  \/ SendEvent \/ SendStart \/ TransmitDone \/ AgentReset

Spec == Init /\ [][Next]_vars

\* Every task that can go on does; the Controller reads what the Agent has to
\* send.  Nobody is obliged to call.
Fairness ==
  /\ \A t \in Tasks :
       /\ WF_vars(Lock(t)) /\ WF_vars(TakeAnswer(t))
       /\ WF_vars(WriteAcked(t) \/ WriteNotAccepted(t))
  /\ WF_vars(Read) /\ WF_vars(CtrlRx) /\ WF_vars(AgentDropRepeat \/ AgentHandOver \/ AgentNoStream)
  /\ SF_vars(RxReport)
  /\ \A s \in Streams : WF_vars(StreamTake(s)) /\ SF_vars(StreamRespond(s))
  /\ WF_vars(SendStart) /\ WF_vars(TransmitDone)

FairSpec == Spec /\ Fairness
-----------------------------------------------------------------------------
Ids  == [task : Tasks, n : 1..MaxCalls, cmd : Commands]

TypeOK ==
  /\ pc \in [Tasks -> {"idle", "lock", "write", "wait"}]
  /\ cmd \in [Tasks -> Commands \cup {None}] /\ calls \in [Tasks -> 0..MaxCalls]
  /\ answer \in [Tasks -> Ids \cup {None}] /\ tries \in 0..Retries
  /\ {cSent, cSeen, aSent, aSeen} \subseteq Seqs \cup {Invalid}
  /\ streamQ \in [Streams -> Ids \cup {None}]
  /\ boot \in {"start", "sending", "up", "assert"} /\ opened \subseteq Streams
  /\ aRx \in [seq : Seqs, stream : Streams, id : Ids] \cup {None}
  /\ aStep \in {"check", "invalid", "loss"}
  /\ agentQ \in [Streams -> Ids \cup {None}] /\ job \in [Streams -> Ids \cup {None}]
  /\ sender \in Streams \cup {"rx", "event", None}
  /\ {dlTx, dlPrev, cRx, cLast} \subseteq {None} \cup
       [seq : Seqs, kind : Kinds, stream : Streams, id : Ids \cup {None}]
  /\ handed \subseteq Ids /\ aLast \in [seq : Seqs, stream : Streams, id : Ids] \cup {None}
  /\ {started, failed} \subseteq BOOLEAN
  /\ faults \in 0..MaxFaults /\ events \in 0..MaxEvents /\ resets \in 0..MaxResets

\* A command reaches its stream at most once in the life of an Agent, however
\* often the data link delivers it ("the upper layers handle duplicates",
\* mmagic_datalink_spi.c:408).
HandedOnce ==
  [][\A s \in Streams : agentQ'[s] # agentQ[s] /\ agentQ'[s] # None
       => agentQ'[s] \notin handed]_vars

\* A call that returns MMAGIC_STATUS_OK returns the answer to its own command:
\* the LLC "is responsible for multiplexing and synchronizing commands,
\* responses, and events" (mmagic.h:84).
OwnAnswer == \A t \in Tasks : answer[t] # None => answer[t] = Id(t)

\* The Agent reports a loss only after a command was given up.
NoFalseLoss == aStep = "loss" => failed

\* "Only process if it is not a retransmission of a packet we have already
\* seen" (mmagic_llc_agent.c:80, mmagic_controller.c:272): what either side
\* ignores is the packet it handled last.  A restarted Agent begins with the
\* number 0, which the Controller may have seen last.
OnlyRepeatsIgnored ==
  [][/\ AgentDropRepeat => aRx = aLast
     /\ CtrlDropRepeat /\ resets = 0 => cRx = cLast]_vars

\* MMOSAL_ASSERT(mmagic_llc_send_start_notification(...)) holds.
StartNotified == boot # "assert"

\* Without faults and restarts a task that waits for an answer gets one.
CallReturns ==
  \A t \in Tasks : pc[t] # "idle" ~> pc[t] = "idle" \/ faults > 0 \/ resets > 0

Key(id) == <<id.task, id.n>>
Rpc == INSTANCE M2mRpc WITH
         Callers <- Tasks, NoAnswer <- None, issued <- calls,
         open <- [t \in Tasks |-> pc[t] # "idle"],
         done <- {Key(id) : id \in handed},
         answer <- [t \in Tasks |-> IF answer[t] = None THEN None ELSE Key(answer[t])]
RefinesRpc == Rpc!RpcSpec
=============================================================================
