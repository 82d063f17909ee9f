---------------------------- MODULE M2mLlcProofs ----------------------------
(***************************************************************************)
(* For any number of tasks, streams and commands and any modulus of the    *)
(* sequence numbers:                                                       *)
(*                                                                         *)
(*   - a command is handed to its stream at most once in the life of an    *)
(*     Agent that does not run out of memory;                              *)
(*   - an Agent, whether it does or not, reports a loss only after a       *)
(*     command was given up, and until then ignores nothing but copies of  *)
(*     its last packet;                                                    *)
(*   - while no call is given up (Steady), each call returns the answer to *)
(*     its own command, the two sides implement M2mRpc, and neither        *)
(*     ignores anything but copies.                                        *)
(*                                                                         *)
(* The sequence number is compared with that of the last packet only.      *)
(* That is enough because one task writes at a time: while it repeats its  *)
(* write, a copy that was handed over is still the Agent's last packet     *)
(* (RetriesAreRecognised, LastCopy).  The answer is the right one because  *)
(* a stream holds one command at a time, in one of five stages (OneStage), *)
(* and that command is the one its task waits for (OnItsWay).              *)
(***************************************************************************)
EXTENDS M2mLlc, TLAPS

ProofTypes ==
  /\ pc \in [Tasks -> {"idle", "lock", "write", "wait"}]
  /\ cmd \in [Tasks -> Commands \cup {None}]
  /\ calls \in [Tasks -> Nat]
  /\ cSent \in Nat
  /\ \A t \in Tasks : pc[t] # "idle" => cmd[t] \in Commands
  /\ DOMAIN agentQ = Streams

\* The numbers of the commands in the Agent are not ahead of the calls.
Issued(id) == id.task \in Tasks /\ id.n \in Nat /\ id.n <= calls[id.task]

OnlyIssued ==
  /\ \A id \in handed : Issued(id)
  /\ aRx # None => Issued(aRx.id)

OneWriter == \A t, u \in Tasks : pc[t] = "write" /\ pc[u] = "write" => t = u

\* A command that was not written yet is not in the Agent.
NewIsUnknown ==
  \A t \in Tasks : pc[t] = "lock" =>
    /\ Id(t) \notin handed
    /\ aRx # None => aRx.id # Id(t)

\* A packet that passes the comparison of sequence numbers is not handed over yet.
FreshIsNotHanded ==
  aRx # None /\ aStep = "check" /\ aRx.seq # aSeen => aRx.id \notin handed

\* The command being written: its copy in the Agent has its sequence number,
\* and once it is handed over the Agent's last packet is one of its copies.
RetriesAreRecognised ==
  \A t \in Tasks : pc[t] = "write" =>
    /\ aRx # None /\ aRx.id = Id(t) => aRx.seq = cSent
    /\ Id(t) \in handed => IF aRx = None THEN aSeen = cSent ELSE aRx.seq = cSent

ReporterHasPacket == sender = "rx" => aRx # None /\ aStep # "check"

IInv ==
  /\ ProofTypes /\ OnlyIssued /\ OneWriter /\ NewIsUnknown /\ FreshIsNotHanded
  /\ RetriesAreRecognised /\ ReporterHasPacket
-----------------------------------------------------------------------------
\* What the steps that leave the Agent's packet and history alone share.
agentPart == <<aRx, aStep, aSeen, handed, agentQ, sender>>
ctrlPart  == <<pc, cmd, calls, cSent>>

LEMMA LlcInit == Init => IInv
BY LlcAssumption DEF Init, IInv, ProofTypes, OnlyIssued, OneWriter, NewIsUnknown,
  FreshIsNotHanded, RetriesAreRecognised, ReporterHasPacket, Invalid

LEMMA NextSeqIsNat == ASSUME NEW q \in Nat PROVE NextSeq(q) \in Nat
BY LlcAssumption DEF NextSeq, Invalid

\* A command is a packet, never the absence of one.
LEMMA CommandIsPacket ==
  ASSUME ProofTypes, NEW t \in Tasks, pc[t] = "write"
  PROVE  Command(t) # None /\ Command(t).seq = cSent /\ Command(t).id = Id(t)
<1>1. Id(t) \in [task : Tasks, n : Nat, cmd : Commands]
  BY DEF ProofTypes, Id
<1>2. cSent \in Nat /\ StreamOf[t] \in Streams
  BY LlcAssumption DEF ProofTypes
<1>3. Command(t) \in [seq : Nat, stream : Streams,
                      id : [task : Tasks, n : Nat, cmd : Commands]]
  BY <1>1, <1>2 DEF Command
<1> QED BY <1>3, LlcAssumption DEF Command

LEMMA CallStep == ASSUME IInv, NEW t \in Tasks, Call(t) PROVE IInv'
<1> USE DEF Call, agentVars
<1>1. ProofTypes' BY DEF IInv, ProofTypes
<1>2. OnlyIssued' BY DEF IInv, ProofTypes, OnlyIssued, Issued
<1>3. OneWriter' BY DEF IInv, ProofTypes, OneWriter
<1>4. NewIsUnknown'
  <2> SUFFICES ASSUME NEW u \in Tasks, pc'[u] = "lock"
               PROVE  Id(u)' \notin handed /\ (aRx # None => aRx.id # Id(u)')
    BY DEF NewIsUnknown
  <2>1. CASE u = t
    <3>1. Id(u)'.task = t /\ Id(u)'.n = calls[t] + 1
      BY <2>1 DEF Id, IInv, ProofTypes
    <3>2. \A id : Issued(id) => id # Id(u)'
      BY <3>1 DEF Issued, IInv, ProofTypes
    <3> QED BY <3>2 DEF IInv, OnlyIssued
  <2>2. CASE u # t
    BY <2>2 DEF IInv, NewIsUnknown, Id, ProofTypes
  <2> QED BY <2>1, <2>2
<1>5. FreshIsNotHanded' BY DEF IInv, FreshIsNotHanded
<1>6. RetriesAreRecognised'
  <2> SUFFICES ASSUME NEW u \in Tasks, pc'[u] = "write"
               PROVE  /\ aRx # None /\ aRx.id = Id(u)' => aRx.seq = cSent
                      /\ Id(u)' \in handed => IF aRx = None THEN aSeen = cSent
                                                            ELSE aRx.seq = cSent
    BY DEF RetriesAreRecognised
  <2>1. u # t /\ pc[u] = "write" /\ Id(u)' = Id(u)
    BY DEF Id, IInv, ProofTypes
  <2> QED BY <2>1 DEF IInv, RetriesAreRecognised
<1>7. ReporterHasPacket' BY DEF IInv, ReporterHasPacket
<1> QED BY <1>1, <1>2, <1>3, <1>4, <1>5, <1>6, <1>7 DEF IInv

LEMMA LockStep == ASSUME IInv, NEW t \in Tasks, Lock(t) PROVE IInv'
<1> USE DEF Lock, agentVars
<1>1. ProofTypes' BY NextSeqIsNat DEF IInv, ProofTypes
<1>2. OnlyIssued' BY DEF IInv, OnlyIssued, Issued
<1>3. OneWriter' BY DEF IInv, ProofTypes, OneWriter
<1>4. NewIsUnknown' BY DEF IInv, ProofTypes, NewIsUnknown, Id
<1>5. FreshIsNotHanded' BY DEF IInv, FreshIsNotHanded
<1>6. RetriesAreRecognised'
  BY DEF IInv, ProofTypes, NewIsUnknown, RetriesAreRecognised, Id
<1>7. ReporterHasPacket' BY DEF IInv, ReporterHasPacket
<1> QED BY <1>1, <1>2, <1>3, <1>4, <1>5, <1>6, <1>7 DEF IInv

\* The copy of the command in the Agent is the one just written.
LEMMA WriteAckedStep == ASSUME IInv, NEW t \in Tasks, WriteAcked(t) PROVE IInv'
<1> USE DEF WriteAcked, WriteStep, Accepts
<1>0. Command(t) # None /\ Command(t).seq = cSent /\ Command(t).id = Id(t)
  BY CommandIsPacket DEF IInv
<1>1. ProofTypes' BY DEF IInv, ProofTypes
<1>2. OnlyIssued' BY <1>0 DEF IInv, ProofTypes, OnlyIssued, Issued, Id
<1>3. OneWriter' BY DEF IInv, ProofTypes, OneWriter
<1>4. NewIsUnknown' BY <1>0 DEF IInv, ProofTypes, NewIsUnknown, Id
<1>5. FreshIsNotHanded'
  BY <1>0 DEF IInv, FreshIsNotHanded, RetriesAreRecognised
<1>6. RetriesAreRecognised'
  BY DEF IInv, ProofTypes, OneWriter, RetriesAreRecognised, Id
<1>7. ReporterHasPacket' BY DEF IInv, ReporterHasPacket
<1> QED BY <1>1, <1>2, <1>3, <1>4, <1>5, <1>6, <1>7 DEF IInv

LEMMA WriteAckLostStep == ASSUME IInv, NEW t \in Tasks, WriteAckLost(t) PROVE IInv'
<1> USE DEF WriteAckLost, WriteStep, Accepts, Retry
<1>0. Command(t) # None /\ Command(t).seq = cSent /\ Command(t).id = Id(t)
  BY CommandIsPacket DEF IInv
<1>1. ProofTypes' BY DEF IInv, ProofTypes
<1>2. OnlyIssued' BY <1>0 DEF IInv, ProofTypes, OnlyIssued, Issued, Id
<1>3. OneWriter' BY DEF IInv, ProofTypes, OneWriter
<1>4. NewIsUnknown' BY <1>0 DEF IInv, ProofTypes, NewIsUnknown, Id
<1>5. FreshIsNotHanded'
  BY <1>0 DEF IInv, FreshIsNotHanded, RetriesAreRecognised
<1>6. RetriesAreRecognised'
  <2> SUFFICES ASSUME NEW u \in Tasks, pc'[u] = "write"
               PROVE  aRx'.seq = cSent
    BY <1>0 DEF RetriesAreRecognised
  <2> QED BY <1>0
<1>7. ReporterHasPacket' BY DEF IInv, ReporterHasPacket
<1> QED BY <1>1, <1>2, <1>3, <1>4, <1>5, <1>6, <1>7 DEF IInv

\* A task that gives up or gets its answer leaves the rest as it is.
LEMMA TaskLeaves ==
  ASSUME IInv, NEW t \in Tasks,
         pc' = pc \/ pc' = [pc EXCEPT ![t] = "idle"],
         UNCHANGED <<cmd, calls, cSent, agentPart>>
  PROVE  IInv'
<1> USE DEF agentPart
<1>0. \A u \in Tasks : pc'[u] # "idle" => pc'[u] = pc[u]
  BY DEF IInv, ProofTypes
<1>00. \A u \in Tasks : Id(u)' = Id(u) BY DEF Id
<1>1. ProofTypes' BY DEF IInv, ProofTypes
<1>2. OnlyIssued' BY DEF IInv, OnlyIssued, Issued
<1>3. OneWriter' BY <1>0 DEF IInv, OneWriter
<1>4. NewIsUnknown' BY <1>0, <1>00 DEF IInv, NewIsUnknown
<1>5. FreshIsNotHanded' BY DEF IInv, FreshIsNotHanded
<1>6. RetriesAreRecognised' BY <1>0, <1>00 DEF IInv, RetriesAreRecognised
<1>7. ReporterHasPacket' BY DEF IInv, ReporterHasPacket
<1> QED BY <1>1, <1>2, <1>3, <1>4, <1>5, <1>6, <1>7 DEF IInv

LEMMA TaskSteps == ASSUME IInv, NEW t \in Tasks, TaskStep(t) PROVE IInv'
<1>1. CASE Call(t) BY <1>1, CallStep
<1>2. CASE Lock(t) BY <1>2, LockStep
<1>3. CASE WriteAcked(t) BY <1>3, WriteAckedStep
<1>4. CASE WriteAckLost(t) BY <1>4, WriteAckLostStep
<1>5. CASE WriteNotAccepted(t)
  BY <1>5, TaskLeaves DEF WriteNotAccepted, WriteStep, Retry, agentPart
<1>6. CASE TakeAnswer(t)
  BY <1>6, TaskLeaves DEF TakeAnswer, agentVars, agentPart
<1>7. CASE CallNoMemory(t)
  BY <1>7, TaskLeaves DEF CallNoMemory, agentVars, agentPart
<1> QED BY <1>1, <1>2, <1>3, <1>4, <1>5, <1>6, <1>7 DEF TaskStep

-----------------------------------------------------------------------------
\* The Agent's side: the Controller's tasks stand still.

LEMMA Untouched == ASSUME IInv, UNCHANGED <<ctrlPart, agentPart>> PROVE IInv'
<1> USE DEF ctrlPart, agentPart
<1>0. \A u \in Tasks : Id(u)' = Id(u) BY DEF Id
<1>1. ProofTypes' BY DEF IInv, ProofTypes
<1>2. OnlyIssued' BY DEF IInv, OnlyIssued, Issued
<1>3. OneWriter' BY DEF IInv, OneWriter
<1>4. NewIsUnknown' BY <1>0 DEF IInv, NewIsUnknown
<1>5. FreshIsNotHanded' BY DEF IInv, FreshIsNotHanded
<1>6. RetriesAreRecognised' BY <1>0 DEF IInv, RetriesAreRecognised
<1>7. ReporterHasPacket' BY DEF IInv, ReporterHasPacket
<1> QED BY <1>1, <1>2, <1>3, <1>4, <1>5, <1>6, <1>7 DEF IInv

\* The rx task is done with its packet, goes on to report a loss, or keeps
\* the packet after a report that could not be sent.
Settled ==
  \/ aSeen' = aRx.seq /\ aRx' = None
  \/ aStep' # "check" /\ UNCHANGED <<aRx, aSeen>>

LEMMA PacketSettled ==
  ASSUME IInv, aRx # None, Settled,
         UNCHANGED <<ctrlPart, handed>>, DOMAIN agentQ' = Streams,
         sender' # "rx" \/ aRx' # None
  PROVE  IInv'
<1> USE DEF ctrlPart, Settled
<1>0. \A u \in Tasks : Id(u)' = Id(u) BY DEF Id
<1>1. ProofTypes' BY DEF IInv, ProofTypes
<1>2. OnlyIssued' BY DEF IInv, OnlyIssued, Issued
<1>3. OneWriter' BY DEF IInv, OneWriter
<1>4. NewIsUnknown' BY <1>0 DEF IInv, NewIsUnknown
<1>5. FreshIsNotHanded' BY DEF IInv, FreshIsNotHanded
<1>6. RetriesAreRecognised' BY <1>0 DEF IInv, RetriesAreRecognised
<1>7. ReporterHasPacket' BY DEF IInv, ReporterHasPacket
<1> QED BY <1>1, <1>2, <1>3, <1>4, <1>5, <1>6, <1>7 DEF IInv

LEMMA DropRepeatStep == ASSUME IInv, AgentDropRepeat PROVE IInv'
BY PacketSettled
   DEF AgentDropRepeat, AgentRxStep, Seen, Settled, ctrlVars, ctrlPart, IInv, ProofTypes,
       ReporterHasPacket

LEMMA NoStreamStep == ASSUME IInv, AgentNoStream PROVE IInv'
BY PacketSettled
   DEF AgentNoStream, AgentRxStep, Settled, ctrlVars, ctrlPart, IInv, ProofTypes

\* The packet joins those handed over, with the number it is recognised by.
LEMMA HandOverStep == ASSUME IInv, AgentHandOver PROVE IInv'
<1> USE DEF AgentHandOver, AgentRxStep, ctrlVars
<1>0. \A u \in Tasks : Id(u)' = Id(u) BY DEF Id
<1>1. Settled BY DEF CheckLoss, Seen, Settled
<1>2. ProofTypes' BY DEF IInv, ProofTypes
<1>3. OnlyIssued' BY <1>1 DEF IInv, OnlyIssued, Issued, Settled
<1>4. OneWriter' BY DEF IInv, OneWriter
<1>5. NewIsUnknown' BY <1>0, <1>1 DEF IInv, NewIsUnknown, Settled
<1>6. FreshIsNotHanded' BY <1>1 DEF IInv, FreshIsNotHanded, Settled
<1>7. RetriesAreRecognised' BY <1>0, <1>1 DEF IInv, RetriesAreRecognised, Settled
<1>8. ReporterHasPacket' BY DEF IInv, ReporterHasPacket
<1> QED BY <1>2, <1>3, <1>4, <1>5, <1>6, <1>7, <1>8 DEF IInv

LEMMA TransmitStep ==
  ASSUME IInv, NEW who, NEW kind, NEW stream, NEW id, Transmit(who, kind, stream, id),
         who = "rx" => aRx # None /\ aStep \in {"invalid", "loss"}
  PROVE  IInv'
<1> USE DEF Transmit, ctrlVars
<1>1. CASE dlTx = None /\ who # "rx"
  <2>0. UNCHANGED ctrlPart BY DEF ctrlPart
  <2>1. \A u \in Tasks : Id(u)' = Id(u) BY DEF Id
  <2> QED
    BY <1>1, <2>0, <2>1
       DEF ctrlPart, IInv, ProofTypes, OnlyIssued, Issued, OneWriter, NewIsUnknown,
           FreshIsNotHanded, RetriesAreRecognised, ReporterHasPacket
<1>2. CASE dlTx = None /\ who = "rx"
  BY <1>2, PacketSettled DEF Settled, ctrlPart, IInv, ProofTypes
<1>3. CASE dlTx # None /\ who # "rx"
  BY <1>3, Untouched DEF Returned, ctrlPart, agentPart
<1>4. CASE dlTx # None /\ who = "rx"
  BY <1>4, LlcAssumption, PacketSettled
     DEF Returned, CheckLoss, Seen, Settled, ctrlPart, IInv, ProofTypes, ReporterHasPacket
<1> QED BY <1>1, <1>2, <1>3, <1>4

LEMMA TransmitDoneStep == ASSUME IInv, TransmitDone PROVE IInv'
<1> USE DEF TransmitDone, ctrlVars
<1>1. CASE sender = "rx"
  BY <1>1, LlcAssumption, PacketSettled
     DEF Returned, CheckLoss, Seen, Settled, ctrlPart, IInv, ProofTypes, ReporterHasPacket
<1>2. CASE sender # "rx"
  <2>1. \A u \in Tasks : Id(u)' = Id(u) BY DEF Id
  <2>2. UNCHANGED <<ctrlPart, aRx, aStep, aSeen, handed, agentQ>> /\ sender' # "rx"
    BY <1>2, LlcAssumption DEF Returned, ctrlPart
  <2> QED
    BY <2>1, <2>2
       DEF ctrlPart, IInv, ProofTypes, OnlyIssued, Issued, OneWriter, NewIsUnknown,
           FreshIsNotHanded, RetriesAreRecognised, ReporterHasPacket
<1> QED BY <1>1, <1>2

LEMMA StreamTakeStep == ASSUME IInv, NEW s \in Streams, StreamTake(s) PROVE IInv'
<1> USE DEF StreamTake, ctrlVars
<1>1. \A u \in Tasks : Id(u)' = Id(u) BY DEF Id
<1>2. UNCHANGED <<ctrlPart, aRx, aStep, aSeen, handed, sender>> BY DEF ctrlPart
<1> QED
  BY <1>1, <1>2
     DEF ctrlPart, IInv, ProofTypes, OnlyIssued, Issued, OneWriter, NewIsUnknown,
         FreshIsNotHanded, RetriesAreRecognised, ReporterHasPacket

LEMMA ResetStep == ASSUME IInv, AgentReset PROVE IInv'
<1> USE DEF AgentReset, ctrlVars
<1>1. sender' # "rx" BY LlcAssumption
<1> QED
  BY <1>1
     DEF IInv, ProofTypes, OnlyIssued, Issued, OneWriter, NewIsUnknown,
         FreshIsNotHanded, RetriesAreRecognised, ReporterHasPacket

LEMMA RestLeaves ==
  ASSUME IInv, \/ Read \/ ReadLost \/ ReadAgain \/ CtrlRx \/ SendStart
               \/ \E s \in Streams : RespondNoMemory(s)
  PROVE  IInv'
<1>1. UNCHANGED <<ctrlPart, agentPart>>
  BY DEF Read, ReadLost, ReadAgain, ReadStep, CtrlRx, CtrlDropRepeat, CtrlResponse,
         CtrlStart, CtrlNotice, RxTaskStep, SendStart, RespondNoMemory, ctrlVars,
         agentVars, ctrlPart, agentPart
<1> QED BY <1>1, Untouched

LEMMA LlcNext == ASSUME ~OutOfMemory, IInv, [Next]_vars PROVE IInv'
<1>1. ASSUME NEW t \in Tasks, TaskStep(t) PROVE IInv'
  BY <1>1, TaskSteps
<1>2. CASE Read \/ ReadLost \/ ReadAgain \/ CtrlRx \/ SendStart
  BY <1>2, RestLeaves
<1>3. CASE AgentRx
  <2>1. CASE RxReport BY <2>1, TransmitStep DEF RxReport
  <2>2. ~RxReportNoMemory BY DEF RxReportNoMemory, NoMemory
  <2> QED BY <1>3, <2>1, <2>2, DropRepeatStep, HandOverStep, NoStreamStep DEF AgentRx
<1>4. ASSUME NEW s \in Streams, StreamTake(s) \/ StreamRespond(s) \/ RespondNoMemory(s)
      PROVE  IInv'
  <2>1. CASE StreamRespond(s)
    BY <2>1, LlcAssumption, TransmitStep DEF StreamRespond
  <2>2. CASE RespondNoMemory(s) BY <2>2, RestLeaves
  <2> QED BY <1>4, <2>1, <2>2, StreamTakeStep
<1>5. CASE SendEvent BY <1>5, TransmitStep DEF SendEvent
<1>6. CASE TransmitDone BY <1>6, TransmitDoneStep
<1>7. CASE AgentReset BY <1>7, ResetStep
<1>8. CASE UNCHANGED vars
  BY <1>8, Untouched DEF vars, ctrlVars, agentVars, ctrlPart, agentPart
<1> QED BY <1>1, <1>2, <1>3, <1>4, <1>5, <1>6, <1>7, <1>8 DEF Next

-----------------------------------------------------------------------------
\* The invariant behind the Agent's recognition of repeats
\* (mmagic_llc_agent.c:80).
THEOREM LlcInvariant == ASSUME ~OutOfMemory PROVE Spec => []IInv
<1>1. IInv /\ [Next]_vars => IInv' BY LlcNext
<1> QED BY <1>1, LlcInit, PTL DEF Spec

\* mmagic_m2m_rx_callback pushes a command to a stream at most once in the
\* life of an Agent, however often its data link delivers it, unless the
\* allocation of a report fails.
THEOREM LlcHandedOnce == ASSUME ~OutOfMemory PROVE Spec => HandedOnce
<1> DEFINE Once == \A s \in Streams : agentQ'[s] # agentQ[s] /\ agentQ'[s] # None
                     => agentQ'[s] \notin handed
<1>1. IInv /\ [Next]_vars => [Once]_vars
  <2> SUFFICES ASSUME IInv, [Next]_vars, NEW s \in Streams,
                      agentQ'[s] # agentQ[s], agentQ'[s] # None
               PROVE  agentQ'[s] \notin handed
    OBVIOUS
  <2>1. AgentHandOver
    <3>1. CASE UNCHANGED agentQ BY <3>1
    <3>2. ASSUME NEW x \in Streams, StreamTake(x) PROVE FALSE
      BY <3>2 DEF StreamTake, IInv, ProofTypes
    <3>3. CASE AgentReset BY <3>3 DEF AgentReset
    <3> QED
      BY <3>1, <3>2, <3>3
         DEF Next, TaskStep, Call, CallNoMemory, Lock, WriteAcked, WriteAckLost, WriteNotAccepted,
             WriteStep, TakeAnswer, Read, ReadLost, ReadAgain, ReadStep, CtrlRx,
             CtrlDropRepeat, CtrlResponse, CtrlStart, CtrlNotice, RxTaskStep, AgentRx,
             AgentDropRepeat, AgentNoStream, RxReport, RxReportNoMemory, Transmit,
             StreamRespond, RespondNoMemory,
             SendEvent, SendStart, TransmitDone, vars, agentVars
  <2>2. s = aRx.stream /\ agentQ'[s] = aRx.id
    BY <2>1 DEF AgentHandOver, IInv, ProofTypes
  <2> QED BY <2>1, <2>2 DEF AgentHandOver, AgentRxStep, IInv, FreshIsNotHanded
<1> QED BY <1>1, LlcInvariant, PTL DEF Spec, HandedOnce

-----------------------------------------------------------------------------
\* While no command was given up, the Agent's packet, or the last one it saw,
\* is the Controller's last or, during a write, the one before it.
Writing == \E t \in Tasks : pc[t] = "write"
LastOrBefore(seq) == seq = cSent \/ (Writing /\ cSent = NextSeq(seq))

NoGap ==
  /\ aStep = "loss" => failed
  /\ ~failed =>
       IF aRx = None
         THEN aStep = "check" /\ (aSeen = Invalid \/ LastOrBefore(aSeen))
         ELSE /\ LastOrBefore(aRx.seq)
              /\ aSeen = Invalid \/ aSeen = aRx.seq \/ aRx.seq = NextSeq(aSeen)
              /\ aStep = "invalid" => aRx.seq # aSeen

LossInv == ProofTypes /\ ReporterHasPacket /\ NoGap

LEMMA LossInit == Init => LossInv
BY LlcAssumption DEF Init, LossInv, ProofTypes, ReporterHasPacket, NoGap, Invalid

LEMMA TypesKept == ASSUME ProofTypes, [Next]_vars PROVE ProofTypes'
<1>1. ASSUME NEW t \in Tasks, TaskStep(t) PROVE ProofTypes'
  <2> USE DEF ProofTypes, agentVars
  <2>1. CASE Call(t) BY <2>1 DEF Call
  <2>2. CASE CallNoMemory(t) BY <2>2 DEF CallNoMemory
  <2>3. CASE Lock(t) BY <2>3, NextSeqIsNat DEF Lock
  <2>4. CASE WriteAcked(t) BY <2>4 DEF WriteAcked, WriteStep
  <2>5. CASE WriteAckLost(t) BY <2>5 DEF WriteAckLost, WriteStep, Retry
  <2>6. CASE WriteNotAccepted(t) BY <2>6 DEF WriteNotAccepted, WriteStep, Retry
  <2>7. CASE TakeAnswer(t) BY <2>7 DEF TakeAnswer
  <2> QED BY <1>1, <2>1, <2>2, <2>3, <2>4, <2>5, <2>6, <2>7 DEF TaskStep
<1>2. ASSUME ~(\E t \in Tasks : TaskStep(t)) PROVE UNCHANGED ctrlPart
  BY <1>2
     DEF Next, Read, ReadLost, ReadAgain, ReadStep, CtrlRx, CtrlDropRepeat, CtrlResponse,
         CtrlStart, CtrlNotice, RxTaskStep, AgentRx, AgentDropRepeat, AgentHandOver,
         AgentNoStream, AgentRxStep, RxReport, RxReportNoMemory, StreamTake,
         StreamRespond, RespondNoMemory, SendEvent, SendStart, Transmit, TransmitDone,
         AgentReset, vars, ctrlVars, ctrlPart
<1>3. ASSUME ~(\E t \in Tasks : TaskStep(t)) PROVE DOMAIN agentQ' = Streams
  BY <1>3
     DEF Next, Read, ReadLost, ReadAgain, ReadStep, CtrlRx, CtrlDropRepeat, CtrlResponse,
         CtrlStart, CtrlNotice, RxTaskStep, AgentRx, AgentDropRepeat, AgentHandOver,
         AgentNoStream, AgentRxStep, RxReport, RxReportNoMemory, StreamTake,
         StreamRespond, RespondNoMemory, SendEvent, SendStart, Transmit, TransmitDone,
         AgentReset, vars, ctrlVars, agentVars, ProofTypes
<1> QED BY <1>1, <1>2, <1>3 DEF ctrlPart, ProofTypes

\* A task's steps, seen from the Agent: nothing, a new command, another copy
\* of it, or a command given up.
LEMMA GapTaskSteps == ASSUME LossInv, NEW t \in Tasks, TaskStep(t) PROVE NoGap'
<1> USE DEF LossInv, ProofTypes, NoGap, LastOrBefore, Writing
<1>0. pc[t] = "write" => Command(t) # None /\ Command(t).seq = cSent
  BY CommandIsPacket
<1>1. CASE Call(t) BY <1>1 DEF Call, agentVars
<1>2. CASE CallNoMemory(t) BY <1>2 DEF CallNoMemory, agentVars
<1>3. CASE Lock(t) BY <1>3 DEF Lock, agentVars
<1>4. CASE WriteAcked(t) BY <1>0, <1>4 DEF WriteAcked, WriteStep, Accepts
<1>5. CASE WriteAckLost(t) BY <1>0, <1>5 DEF WriteAckLost, WriteStep, Accepts, Retry
<1>6. CASE WriteNotAccepted(t) BY <1>6 DEF WriteNotAccepted, WriteStep, Retry
<1>7. CASE TakeAnswer(t) BY <1>7 DEF TakeAnswer, agentVars
<1> QED BY <1>1, <1>2, <1>3, <1>4, <1>5, <1>6, <1>7, TaskStep(t) DEF TaskStep

\* The rx task's packet becomes the last one seen, or is found after a gap.
LEMMA GapSettled ==
  ASSUME NoGap, aRx # None, UNCHANGED <<pc, cSent, failed>>,
         Seen \/ (CheckLoss /\ (~failed => aRx.seq # aSeen))
  PROVE  NoGap'
BY DEF NoGap, LastOrBefore, Writing, Seen, CheckLoss

LEMMA GapUntouched ==
  ASSUME NoGap, UNCHANGED <<pc, cSent, failed, aRx, aStep, aSeen>> PROVE NoGap'
BY DEF NoGap, LastOrBefore, Writing

LEMMA GapReturned ==
  ASSUME NoGap, NEW who, Returned(who), UNCHANGED <<pc, cSent, failed>>,
         who = "rx" => aRx # None /\ aStep # "check"
  PROVE  NoGap'
<1>1. CASE who # "rx" BY <1>1, GapUntouched DEF Returned
<1>2. CASE who = "rx" BY <1>2, GapSettled DEF Returned, NoGap
<1> QED BY <1>1, <1>2

LEMMA GapTransmit ==
  ASSUME NoGap, NEW who, NEW kind, NEW stream, NEW id, Transmit(who, kind, stream, id),
         who = "rx" => aRx # None /\ aStep # "check"
  PROVE  NoGap'
<1>1. CASE dlTx = None BY <1>1, GapUntouched DEF Transmit, ctrlVars
<1>2. CASE dlTx # None BY <1>2, GapReturned DEF Transmit, ctrlVars
<1> QED BY <1>1, <1>2

LEMMA GapReport == ASSUME LossInv, RxReport \/ RxReportNoMemory PROVE NoGap'
<1> USE DEF LossInv
<1>1. CASE RxReport BY <1>1, GapTransmit DEF RxReport
<1>2. CASE RxReportNoMemory
  <2>1. CASE aStep = "invalid"
    BY <1>2, <2>1, GapSettled DEF RxReportNoMemory, NoGap, ctrlVars
  <2>2. CASE aStep # "invalid"
    BY <1>2, <2>2 DEF RxReportNoMemory, NoGap, ctrlVars
  <2> QED BY <2>1, <2>2
<1> QED BY <1>1, <1>2

LEMMA GapAgentRx == ASSUME LossInv, AgentRx PROVE NoGap'
<1> USE DEF LossInv
<1>1. CASE AgentDropRepeat
  BY <1>1, GapSettled DEF AgentDropRepeat, AgentRxStep, ctrlVars
<1>2. CASE AgentHandOver
  BY <1>2, GapSettled DEF AgentHandOver, AgentRxStep, ctrlVars
<1>3. CASE AgentNoStream
  BY <1>3 DEF AgentNoStream, AgentRxStep, ctrlVars, NoGap, LastOrBefore, Writing
<1> QED BY <1>1, <1>2, <1>3, GapReport DEF AgentRx

LEMMA GapRest ==
  ASSUME LossInv,
         \/ Read \/ ReadLost \/ ReadAgain \/ CtrlRx \/ SendStart \/ UNCHANGED vars
         \/ \E s \in Streams : StreamTake(s) \/ RespondNoMemory(s)
  PROVE  NoGap'
<1>1. UNCHANGED <<pc, cSent, failed, aRx, aStep, aSeen>>
  BY DEF Read, ReadLost, ReadAgain, ReadStep, CtrlRx, CtrlDropRepeat, CtrlResponse,
         CtrlStart, CtrlNotice, RxTaskStep, SendStart, StreamTake, RespondNoMemory, vars,
         ctrlVars, agentVars
<1> QED BY <1>1, GapUntouched DEF LossInv

\* Who reports has a packet, whether memory runs out or not.
LEMMA ReporterKept == ASSUME LossInv, [Next]_vars PROVE ReporterHasPacket'
<1> USE DEF LossInv, ReporterHasPacket
<1>1. ASSUME NEW who, NEW kind, NEW stream, NEW id, Transmit(who, kind, stream, id),
             who = "rx" => aRx # None /\ aStep # "check"
      PROVE  ReporterHasPacket'
  BY <1>1, LlcAssumption DEF Transmit, Returned
<1>2. CASE RxReport BY <1>1, <1>2 DEF RxReport
<1>3. ASSUME NEW s \in Streams, StreamRespond(s) PROVE ReporterHasPacket'
  BY <1>1, <1>3, LlcAssumption DEF StreamRespond
<1>4. CASE SendEvent BY <1>1, <1>4 DEF SendEvent
<1>5. CASE TransmitDone BY <1>5, LlcAssumption DEF TransmitDone
<1>6. CASE AgentReset BY <1>6, LlcAssumption DEF AgentReset
<1>7. CASE RxReportNoMemory
  BY <1>7 DEF RxReportNoMemory, CheckLoss, Seen
<1>8. CASE AgentDropRepeat \/ AgentHandOver \/ AgentNoStream
  BY <1>8 DEF AgentDropRepeat, AgentHandOver, AgentNoStream, AgentRxStep
<1>9. ASSUME NEW t \in Tasks, TaskStep(t) PROVE ReporterHasPacket'
  BY <1>9
     DEF TaskStep, Call, CallNoMemory, Lock, WriteAcked, WriteAckLost, WriteNotAccepted,
         WriteStep, Accepts, TakeAnswer, agentVars
<1>10. CASE \/ Read \/ ReadLost \/ ReadAgain \/ CtrlRx \/ SendStart \/ UNCHANGED vars
            \/ \E s \in Streams : StreamTake(s) \/ RespondNoMemory(s)
  BY <1>10
     DEF Read, ReadLost, ReadAgain, ReadStep, CtrlRx, CtrlDropRepeat, CtrlResponse,
         CtrlStart, CtrlNotice, RxTaskStep, SendStart, StreamTake, RespondNoMemory, vars,
         agentVars
<1> QED
  BY <1>2, <1>3, <1>4, <1>5, <1>6, <1>7, <1>8, <1>9, <1>10 DEF Next, AgentRx

LEMMA GapKept == ASSUME LossInv, [Next]_vars PROVE NoGap'
<1>0. NoGap /\ ReporterHasPacket BY DEF LossInv
<1>1. ASSUME NEW s \in Streams, StreamRespond(s) PROVE NoGap'
  BY <1>0, <1>1, LlcAssumption, GapTransmit DEF StreamRespond
<1>2. CASE SendEvent BY <1>0, <1>2, GapTransmit DEF SendEvent
<1>3. CASE TransmitDone
  <2>1. Returned(sender) /\ UNCHANGED <<pc, cSent, failed>>
    BY <1>3 DEF TransmitDone, ctrlVars
  <2> QED BY <1>0, <2>1, GapReturned DEF ReporterHasPacket
<1>4. CASE AgentReset
  BY <1>0, <1>4 DEF AgentReset, NoGap
<1>5. CASE AgentRx BY <1>5, GapAgentRx
<1>6. ASSUME NEW t \in Tasks, TaskStep(t) PROVE NoGap'
  BY <1>6, GapTaskSteps
<1>7. CASE \/ Read \/ ReadLost \/ ReadAgain \/ CtrlRx \/ SendStart \/ UNCHANGED vars
           \/ \E s \in Streams : StreamTake(s) \/ RespondNoMemory(s)
  BY <1>7, GapRest
<1> QED
  BY <1>1, <1>2, <1>3, <1>4, <1>5, <1>6, <1>7 DEF Next

LEMMA LossNext == ASSUME LossInv, [Next]_vars PROVE LossInv'
BY TypesKept, ReporterKept, GapKept DEF LossInv

\* The "packet loss" the rx callback reports (mmagic_llc_agent.c:160) is one: a
\* write has failed before, however the attempts of it and of others fared and
\* whatever allocation failed.
THEOREM LlcNoFalseLoss == Spec => []NoFalseLoss
<1>1. LossInv /\ [Next]_vars => LossInv' BY LossNext
<1>2. LossInv => NoFalseLoss BY DEF LossInv, NoGap, NoFalseLoss
<1> QED BY <1>1, <1>2, LossInit, PTL DEF Spec


-----------------------------------------------------------------------------
\* What the Agent ignores.

\* The remainder of a number below the modulus is the number.
LEMMA SmallRest == ASSUME NEW m \in Nat, NEW k \in Nat, k < m PROVE k % m = k
OBVIOUS

\* Numbers follow one another and start again at 0.
LEMMA NextSeqIs ==
  ASSUME NEW q \in Seqs
  PROVE  NextSeq(q) = IF q = SeqMod - 1 THEN 0 ELSE q + 1
<1>0. SeqMod \in Nat /\ SeqMod > 1 /\ q \in Nat /\ q < SeqMod /\ q # Invalid
  BY LlcAssumption DEF Seqs, Invalid
<1>1. NextSeq(q) = (q + 1) % SeqMod
  BY <1>0 DEF NextSeq
<1>2. CASE q = SeqMod - 1
  <2>1. q + 1 = SeqMod /\ SeqMod % SeqMod = 0
    BY <1>0, <1>2
  <2> QED BY <1>1, <1>2, <2>1
<1>3. CASE q # SeqMod - 1
  <2>1. q + 1 \in Nat /\ q + 1 < SeqMod
    BY <1>0, <1>3
  <2>2. (q + 1) % SeqMod = q + 1
    BY <1>0, <2>1, SmallRest
  <2> QED BY <1>1, <1>3, <2>2
<1> QED BY <1>2, <1>3

\* A new number is a number, and not the one before it.
LEMMA NextSeqIsNew ==
  ASSUME NEW q \in Seqs \cup {Invalid}
  PROVE  NextSeq(q) \in Seqs /\ NextSeq(q) # q /\ NextSeq(q) # Invalid
<1>0. SeqMod \in Nat /\ SeqMod > 1
  BY LlcAssumption
<1>1. CASE q = Invalid
  BY <1>0, <1>1 DEF NextSeq, Seqs, Invalid
<1>2. CASE q \in Seqs
  BY <1>0, <1>2, NextSeqIs DEF Seqs, Invalid
<1> QED BY <1>1, <1>2

\* While no command was given up: what has the number of the Agent's last
\* packet is that packet, and what has the number of the command being written
\* is one of its copies.
LastCopy ==
  /\ cSent \in Seqs \cup {Invalid} /\ (Writing => cSent # Invalid)
  /\ ~failed =>
       IF aRx = None
         THEN \A t \in Tasks : pc[t] = "write" /\ aSeen = cSent => aLast = Command(t)
         ELSE /\ aRx.seq = aSeen => aRx = aLast
              /\ \A t \in Tasks : pc[t] = "write" /\ aRx.seq = cSent => aRx = Command(t)

CopyInv == LossInv /\ OneWriter /\ LastCopy

LEMMA CopyInit == Init => CopyInv
BY LossInit, LlcAssumption DEF Init, CopyInv, OneWriter, LastCopy, Writing

\* Only the steps of a task change what it writes.
LEMMA OneWriterKept == ASSUME ProofTypes, OneWriter, [Next]_vars PROVE OneWriter'
<1>1. ASSUME NEW t \in Tasks, TaskStep(t) PROVE OneWriter'
  <2> USE DEF ProofTypes, OneWriter
  <2>1. CASE Lock(t)
    BY <2>1 DEF Lock
  <2>2. CASE Call(t) \/ CallNoMemory(t) \/ TakeAnswer(t)
    BY <2>2 DEF Call, CallNoMemory, TakeAnswer
  <2>3. CASE WriteAcked(t) \/ WriteAckLost(t) \/ WriteNotAccepted(t)
    BY <2>3 DEF WriteAcked, WriteAckLost, WriteNotAccepted, Retry
  <2> QED BY <1>1, <2>1, <2>2, <2>3 DEF TaskStep
<1>2. ASSUME UNCHANGED pc PROVE OneWriter'
  BY <1>2 DEF OneWriter
<1>3. ASSUME ~(\E t \in Tasks : TaskStep(t)) PROVE UNCHANGED pc
  BY <1>3
     DEF Next, Read, ReadLost, ReadAgain, ReadStep, CtrlRx, CtrlDropRepeat, CtrlResponse,
         CtrlStart, CtrlNotice, RxTaskStep, AgentRx, AgentDropRepeat, AgentHandOver,
         AgentNoStream, AgentRxStep, RxReport, RxReportNoMemory, StreamTake,
         StreamRespond, RespondNoMemory, SendEvent, SendStart, Transmit, TransmitDone,
         AgentReset, vars, ctrlVars
<1> QED BY <1>1, <1>2, <1>3

LEMMA CopyTaskSteps == ASSUME CopyInv, NEW t \in Tasks, TaskStep(t) PROVE LastCopy'
<1>0. ProofTypes /\ OneWriter /\ NoGap /\ LastCopy
  BY DEF CopyInv, LossInv
<1>1. ASSUME NEW u \in Tasks, pc[u] = "write", UNCHANGED <<cSent, cmd, calls>>
      PROVE  Command(u)' = Command(u)
  BY <1>1 DEF Command, Id
<1>2. CASE Call(t) \/ CallNoMemory(t) \/ TakeAnswer(t)
  <2>1. /\ \A u \in Tasks : pc'[u] = "write" => pc[u] = "write" /\ Command(u)' = Command(u)
        /\ UNCHANGED <<cSent, aRx, aSeen, aLast, failed>>
    BY <1>0, <1>2 DEF Call, CallNoMemory, TakeAnswer, agentVars, ProofTypes, Command, Id
  <2> QED BY <1>0, <2>1 DEF LastCopy, Writing
<1>3. CASE Lock(t)
  <2>1. /\ \A u \in Tasks : pc'[u] = "write" => u = t
        /\ ~Writing /\ cSent' = NextSeq(cSent) /\ UNCHANGED <<aRx, aSeen, aLast, failed>>
    BY <1>0, <1>3 DEF Lock, agentVars, ProofTypes, Writing
  <2>2. cSent' \in Seqs /\ cSent' # cSent /\ cSent' # Invalid
    BY <1>0, <2>1, NextSeqIsNew DEF LastCopy
  <2> QED BY <1>0, <2>1, <2>2 DEF LastCopy, NoGap, LastOrBefore
<1>4. CASE WriteAcked(t) \/ WriteAckLost(t)
  <2>1. /\ aRx = None /\ aRx' = Command(t) /\ UNCHANGED <<cSent, cmd, calls, aSeen, aLast>>
        /\ pc[t] = "write" /\ \A u \in Tasks : pc'[u] = "write" => pc[u] = "write"
        /\ failed => failed'
    BY <1>0, <1>4 DEF WriteAcked, WriteAckLost, WriteStep, Accepts, Retry, ProofTypes
  <2>2. Command(t) # None /\ Command(t).seq = cSent
    BY <1>0, <2>1, CommandIsPacket
  <2>3. \A u \in Tasks : pc'[u] = "write" => u = t
    BY <1>0, <2>1 DEF OneWriter
  <2> QED BY <1>0, <1>1, <2>1, <2>2, <2>3 DEF LastCopy, Writing
<1>5. CASE WriteNotAccepted(t)
  <2>1. /\ UNCHANGED <<cSent, cmd, calls, aRx, aSeen, aLast>> /\ (failed => failed')
        /\ \A u \in Tasks : pc'[u] = "write" => pc[u] = "write"
    BY <1>0, <1>5 DEF WriteNotAccepted, WriteStep, Retry, ProofTypes
  <2> QED BY <1>0, <1>1, <2>1 DEF LastCopy, Writing
<1> QED BY <1>2, <1>3, <1>4, <1>5, TaskStep(t) DEF TaskStep

\* The Agent's rx task keeps its packet or makes it the last one.
LEMMA CopySettled ==
  ASSUME LastCopy, UNCHANGED <<pc, cmd, calls, cSent, failed>>,
         \/ UNCHANGED <<aRx, aSeen, aLast>>
         \/ aRx # None /\ aRx' = None /\ aSeen' = aRx.seq /\ aLast' = aRx
  PROVE  LastCopy'
<1>1. \A t \in Tasks : Command(t)' = Command(t)
  BY DEF Command, Id
<1> QED BY <1>1 DEF LastCopy, Writing

LEMMA CopyKept == ASSUME CopyInv, [Next]_vars PROVE LastCopy'
<1>0. LastCopy /\ NoGap /\ ReporterHasPacket
  BY DEF CopyInv, LossInv
<1>1. ASSUME NEW t \in Tasks, TaskStep(t) PROVE LastCopy'
  BY <1>1, CopyTaskSteps
<1>2. CASE AgentReset
  BY <1>0, <1>2 DEF AgentReset, ctrlVars, LastCopy, Writing
<1>3. CASE RxReportNoMemory /\ aStep = "loss"
  <2>1. failed' /\ UNCHANGED <<cSent, pc>>
    BY <1>0, <1>3 DEF RxReportNoMemory, NoGap, ctrlVars
  <2> QED BY <1>0, <2>1 DEF LastCopy, Writing
<1>4. ASSUME ~(\E t \in Tasks : TaskStep(t)), ~AgentReset,
             ~(RxReportNoMemory /\ aStep = "loss")
      PROVE  LastCopy'
  <2>1. UNCHANGED <<pc, cmd, calls, cSent, failed>>
    BY <1>4
       DEF Next, Read, ReadLost, ReadAgain, ReadStep, CtrlRx, CtrlDropRepeat, CtrlResponse,
           CtrlStart, CtrlNotice, RxTaskStep, AgentRx, AgentDropRepeat, AgentHandOver,
           AgentNoStream, AgentRxStep, RxReport, RxReportNoMemory, StreamTake,
           StreamRespond, RespondNoMemory, SendEvent, SendStart, Transmit, TransmitDone,
           vars, ctrlVars
  <2> DEFINE Moved == \/ UNCHANGED <<aRx, aSeen, aLast>>
                      \/ aRx # None /\ aRx' = None /\ aSeen' = aRx.seq /\ aLast' = aRx
  <2>2. ASSUME TransmitDone PROVE Moved
    BY <1>0, <2>2 DEF TransmitDone, Returned, Seen, CheckLoss, ReporterHasPacket
  <2>3. ASSUME \/ RxReport \/ SendEvent
               \/ \E s \in Streams : StreamRespond(s)
        PROVE  Moved
    BY <2>3, LlcAssumption
       DEF RxReport, SendEvent, StreamRespond, Transmit, Returned, Seen, CheckLoss
  <2>4. ASSUME RxReportNoMemory \/ AgentDropRepeat \/ AgentHandOver \/ AgentNoStream
        PROVE  Moved
    BY <1>4, <2>4
       DEF RxReportNoMemory, AgentDropRepeat, AgentHandOver, AgentNoStream, AgentRxStep,
           Seen, CheckLoss
  <2>5. ASSUME \/ Read \/ ReadLost \/ ReadAgain \/ CtrlRx \/ SendStart
               \/ UNCHANGED vars \/ \E s \in Streams : StreamTake(s) \/ RespondNoMemory(s)
        PROVE  Moved
    BY <2>5
       DEF Read, ReadLost, ReadAgain, ReadStep, CtrlRx, CtrlDropRepeat, CtrlResponse,
           CtrlStart, CtrlNotice, RxTaskStep, SendStart, StreamTake, RespondNoMemory,
           vars, agentVars
  <2>6. Moved
    BY <1>4, <2>2, <2>3, <2>4, <2>5 DEF Next, AgentRx
  <2> QED BY <1>0, <2>1, <2>6, CopySettled
<1> QED BY <1>1, <1>2, <1>3, <1>4

\* Until a command is given up the Agent ignores nothing but copies of the
\* packet it handled last (mmagic_llc_agent.c:80), whatever is lost, however
\* often it restarts and whatever allocation fails.
THEOREM LlcAgentIgnoresRepeats ==
  Spec => [][AgentDropRepeat /\ ~failed => aRx = aLast]_vars
<1>1. CopyInv /\ [Next]_vars => CopyInv'
  BY LossNext, OneWriterKept, CopyKept DEF CopyInv, LossInv
<1>2. CopyInv => (AgentDropRepeat /\ ~failed => aRx = aLast)
  BY DEF CopyInv, LastCopy, AgentDropRepeat, AgentRxStep
<1> QED BY <1>1, <1>2, CopyInit, PTL DEF Spec

-----------------------------------------------------------------------------
\* The conditions of the next theorems: the Agent has memory and does not
\* restart, fewer transfers fail than a write has attempts, and each task has a
\* stream to itself, as a TCP connection has.
Steady ==
  /\ ~OutOfMemory /\ MaxResets = 0 /\ MaxFaults < Retries
  /\ \A t, u \in Tasks : StreamOf[t] = StreamOf[u] => t = u

\* The task's command may be in the Agent, and its answer is awaited.
Open(t) == pc[t] \in {"write", "wait"}

\* The stages of a command between mmagic_m2m_rx_callback and the task that
\* waits for its answer.  A packet the Controller has read stays in dlPrev.
Queued(s)   == agentQ[s] # None
AtWork(s)   == job[s] # None /\ sender # s
Sent(s)     == dlTx # None /\ dlTx.kind = "response" /\ dlTx.stream = s
Fetched(s)  == dlPrev # None /\ dlPrev.kind = "response" /\ dlPrev.stream = s /\ dlPrev.seq # cSeen
Answered(s) == streamQ[s] # None

RpcTypes ==
  /\ DOMAIN streamQ = Streams /\ DOMAIN job = Streams /\ DOMAIN answer = Tasks
  /\ tries \in Nat /\ faults \in Nat /\ resets \in Nat /\ aSent \in Seqs \cup {Invalid}
  /\ \A t \in Tasks : pc[t] # "idle" => calls[t] > 0

\* Nothing is sent before the start notification was.
Booting ==
  /\ boot \in {"start", "sending", "up"} /\ opened = Streams /\ aStep = "check"
  /\ boot = "start" => dlTx = None
  /\ boot = "sending" => dlTx # None /\ dlTx.kind = "start"
  /\ dlPrev # None => boot = "up"
  /\ started => boot = "up"
  /\ cRx # None => cRx = dlPrev

\* The Controller's tasks call nothing before they know of the start.
Quiet ==
  ~started =>
    /\ handed = {} /\ aRx = None /\ sender = None
    /\ \A t \in Tasks : pc[t] = "idle"
    /\ \A s \in Streams : agentQ[s] = None /\ job[s] = None

\* Each attempt after the first is paid for by a fault.
NotGivenUp == ~failed /\ \A t \in Tasks : pc[t] = "write" => tries <= faults + 1

\* The command of a call that is still open.
Wanted(id, s) == \E t \in Tasks : StreamOf[t] = s /\ id = Id(t) /\ Open(t)

\* A packet of the Agent that was not handed over yet is awaited by its task.
FreshIsWanted == aRx # None /\ aRx.id \notin handed => Wanted(aRx.id, aRx.stream)

\* Whatever is in one of the stages is the command, or the answer, its stream's
\* task waits for.
OnItsWay ==
  \A s \in Streams :
    /\ Queued(s)   => Wanted(agentQ[s], s) /\ agentQ[s] \in handed
    /\ AtWork(s)   => Wanted(job[s], s) /\ job[s] \in handed
    /\ Sent(s)     => Wanted(dlTx.id, s) /\ dlTx.id \in handed
    /\ Fetched(s)  => Wanted(dlPrev.id, s) /\ dlPrev.id \in handed
    /\ Answered(s) => Wanted(streamQ[s], s) /\ streamQ[s] \in handed

\* A stream's command is in one stage only.
OneStage ==
  \A s \in Streams :
    /\ Queued(s)  => ~AtWork(s) /\ ~Sent(s) /\ ~Fetched(s) /\ ~Answered(s)
    /\ AtWork(s)  => ~Sent(s) /\ ~Fetched(s) /\ ~Answered(s)
    /\ Sent(s)    => ~Fetched(s) /\ ~Answered(s)
    /\ Fetched(s) => ~Answered(s)

\* Answers are kept by idle tasks alone; a task's number names one command.
Answers ==
  /\ OwnAnswer
  /\ \A t \in Tasks : pc[t] # "idle" => answer[t] = None
  /\ \A t \in Tasks, id \in handed : id.task = t /\ id.n = calls[t] => id = Id(t)

RpcInv ==
  /\ RpcTypes /\ Booting /\ Quiet /\ NotGivenUp /\ FreshIsWanted /\ OnItsWay
  /\ OneStage /\ Answers

\* The variables of the stages.
Way == <<agentQ, job, sender, dlTx, dlPrev, cSeen, streamQ>>

\* A stream has one task, so what is on its way there is that task's command.
LEMMA OneOwner ==
  ASSUME Steady, NEW s \in Streams, NEW x, NEW y, Wanted(x, s), Wanted(y, s)
  PROVE  x = y
BY DEF Steady, Wanted

LEMMA WantedKept ==
  ASSUME NEW id, NEW s, Wanted(id, s),
         \A t \in Tasks : Open(t) => Open(t)' /\ Id(t)' = Id(t)
  PROVE  Wanted(id, s)'
BY DEF Wanted

\* What is on its way stays so while the calls that are open do.
LEMMA WayKept ==
  ASSUME OnItsWay, OneStage, UNCHANGED Way, handed \subseteq handed',
         \A t \in Tasks : Open(t) => Open(t)' /\ Id(t)' = Id(t)
  PROVE  OnItsWay' /\ OneStage'
<1>1. \A id, s : Wanted(id, s) => Wanted(id, s)'
  BY WantedKept
<1>2. OnItsWay'
  BY <1>1 DEF Way, OnItsWay, Queued, AtWork, Sent, Fetched, Answered
<1>3. OneStage'
  BY DEF Way, OneStage, Queued, AtWork, Sent, Fetched, Answered
<1> QED BY <1>2, <1>3

LEMMA RpcStart == ASSUME Steady, Init PROVE RpcInv
BY LlcAssumption
   DEF Init, RpcInv, RpcTypes, Booting, Quiet, NotGivenUp, FreshIsWanted, OnItsWay, OneStage,
       Answers, OwnAnswer, Queued, AtWork, Sent, Fetched, Answered

\* The rx task of the Agent is never stuck: its packet is a copy, or the
\* queue of its stream is empty.
LEMMA NotBlocked == ASSUME Steady, IInv, RpcInv PROVE ~AgentRxBlocked
<1> SUFFICES ASSUME AgentRxBlocked PROVE FALSE
  OBVIOUS
<1>1. aRx # None /\ aRx.seq # aSeen /\ agentQ[aRx.stream] # None /\ aStep = "check"
  BY DEF AgentRxBlocked, RpcInv, Booting
<1>2. aRx.id \notin handed
  BY <1>1 DEF IInv, FreshIsNotHanded
<1>3. Wanted(aRx.id, aRx.stream)
  BY <1>1, <1>2 DEF RpcInv, FreshIsWanted
<1>4. aRx.stream \in Streams
  BY <1>3, LlcAssumption DEF Wanted
<1>5. Wanted(agentQ[aRx.stream], aRx.stream) /\ agentQ[aRx.stream] \in handed
  BY <1>1, <1>4 DEF RpcInv, OnItsWay, Queued
<1> QED BY <1>2, <1>3, <1>4, <1>5, OneOwner

\* A write that fails has an attempt left.
LEMMA AttemptLeft ==
  ASSUME Steady, RpcInv, NEW t \in Tasks, pc[t] = "write", Fault
  PROVE  tries < Retries /\ tries + 1 <= faults' + 1 /\ faults' \in Nat
<1>1. tries <= faults + 1 /\ faults < MaxFaults /\ faults' = faults + 1
  BY DEF Fault, RpcInv, NotGivenUp
<1>2. tries \in Nat /\ faults \in Nat /\ MaxFaults \in Nat /\ Retries \in Nat /\ MaxFaults < Retries
  BY LlcAssumption DEF Steady, RpcInv, RpcTypes
<1> QED BY <1>1, <1>2

\* Another attempt: the Agent has a copy of the command, or what it had.
LEMMA RpcWriteFails ==
  ASSUME Steady, IInv, RpcInv, NEW t \in Tasks, WriteAckLost(t) \/ WriteNotAccepted(t)
  PROVE  RpcInv'
<1>1. ~AgentRxBlocked /\ boot # "assert"
  BY NotBlocked DEF RpcInv, Booting
<1>2. WriteStep(t) /\ pc[t] = "write" /\ Fault /\ Retry(t) /\ (aRx' = Command(t) \/ UNCHANGED aRx)
  BY <1>1 DEF WriteAckLost, WriteNotAccepted, WriteStep, Accepts
<1>3. tries < Retries /\ tries + 1 <= faults' + 1 /\ faults' \in Nat
  BY <1>2, AttemptLeft
<1>4. tries' = tries + 1 /\ UNCHANGED <<pc, failed>>
  BY <1>2, <1>3 DEF Retry
<1>5. \A u \in Tasks : Open(u)' = Open(u) /\ Id(u)' = Id(u)
  BY <1>2, <1>4 DEF WriteStep, Open, Id
<1> USE <1>2, <1>4 DEF WriteStep
<1>6. RpcTypes'
  BY <1>3 DEF RpcInv, RpcTypes
<1>7. Booting'
  BY DEF RpcInv, Booting
<1>8. Quiet'
  BY DEF RpcInv, Quiet
<1>9. NotGivenUp'
  <2>1. \A u \in Tasks : pc[u] = "write" => u = t
    BY DEF IInv, OneWriter
  <2> QED BY <1>3, <2>1 DEF RpcInv, NotGivenUp
<1>10. FreshIsWanted'
  <2>1. CASE aRx' = Command(t)
    BY <2>1, <1>5 DEF FreshIsWanted, Wanted, Command, Open
  <2>2. CASE UNCHANGED aRx
    BY <2>2, <1>5 DEF RpcInv, FreshIsWanted, Wanted
  <2> QED BY <2>1, <2>2
<1>11. OnItsWay' /\ OneStage'
  BY <1>5, WayKept DEF RpcInv, Way
<1>12. Answers'
  BY <1>5 DEF RpcInv, Answers, OwnAnswer
<1> QED BY <1>6, <1>7, <1>8, <1>9, <1>10, <1>11, <1>12 DEF RpcInv

LEMMA RpcWriteAcked == ASSUME Steady, IInv, RpcInv, NEW t \in Tasks, WriteAcked(t) PROVE RpcInv'
<1> USE DEF WriteAcked, WriteStep
<1>1. \A u \in Tasks : (Open(u) <=> Open(u)') /\ Id(u)' = Id(u)
  BY DEF Open, Id, IInv, ProofTypes
<1>2. RpcTypes'
  BY DEF RpcInv, RpcTypes, IInv, ProofTypes
<1>3. Booting'
  BY DEF RpcInv, Booting
<1>4. Quiet'
  BY DEF RpcInv, Quiet
<1>5. NotGivenUp'
  BY DEF RpcInv, NotGivenUp, IInv, ProofTypes
<1>6. FreshIsWanted'
  BY <1>1 DEF FreshIsWanted, Wanted, Command, Open
<1>7. OnItsWay' /\ OneStage'
  BY <1>1, WayKept DEF RpcInv, Way
<1>8. Answers'
  BY <1>1 DEF RpcInv, Answers, OwnAnswer, IInv, ProofTypes
<1> QED BY <1>2, <1>3, <1>4, <1>5, <1>6, <1>7, <1>8 DEF RpcInv

LEMMA RpcCall == ASSUME Steady, IInv, RpcInv, NEW t \in Tasks, Call(t) PROVE RpcInv'
<1> USE DEF Call, agentVars
<1>0. calls[t] \in Nat /\ calls'[t] = calls[t] + 1
  BY DEF IInv, ProofTypes
<1>1. \A u \in Tasks : u # t => pc'[u] = pc[u] /\ Id(u)' = Id(u) /\ answer'[u] = answer[u]
  BY DEF Id, IInv, ProofTypes
<1>2. ~Open(t) /\ pc'[t] = "lock" /\ answer'[t] = None
  BY DEF Open, IInv, ProofTypes, RpcInv, RpcTypes
<1>3. \A u \in Tasks : Open(u) => Open(u)' /\ Id(u)' = Id(u)
  BY <1>1, <1>2 DEF Open
<1>4. RpcTypes'
  BY <1>0, <1>1 DEF RpcInv, RpcTypes, IInv, ProofTypes
<1>5. Booting'
  BY DEF RpcInv, Booting
<1>6. Quiet'
  BY DEF RpcInv, Quiet
<1>7. NotGivenUp'
  BY <1>1, <1>2 DEF RpcInv, NotGivenUp
<1>8. FreshIsWanted'
  BY <1>3 DEF RpcInv, FreshIsWanted, Wanted
<1>9. OnItsWay' /\ OneStage'
  BY <1>3, WayKept DEF RpcInv, Way
<1>10. Answers'
  <2>1. \A id \in handed : id.task = t => id.n # calls'[t]
    BY <1>0 DEF IInv, OnlyIssued, Issued
  <2>2. \A u \in Tasks : u # t => calls'[u] = calls[u]
    BY DEF IInv, ProofTypes
  <2> QED BY <1>1, <1>2, <2>1, <2>2 DEF RpcInv, Answers, OwnAnswer
<1> QED BY <1>4, <1>5, <1>6, <1>7, <1>8, <1>9, <1>10 DEF RpcInv

LEMMA RpcLock == ASSUME Steady, IInv, RpcInv, NEW t \in Tasks, Lock(t) PROVE RpcInv'
<1> USE DEF Lock, agentVars
<1>1. \A u \in Tasks : u # t => pc'[u] = pc[u]
  BY DEF IInv, ProofTypes
<1>2. ~Open(t) /\ pc'[t] = "write" /\ \A u \in Tasks : Id(u)' = Id(u)
  BY DEF Open, Id, IInv, ProofTypes
<1>3. \A u \in Tasks : Open(u) => Open(u)' /\ Id(u)' = Id(u)
  BY <1>1, <1>2 DEF Open
<1>4. RpcTypes'
  BY <1>1 DEF RpcInv, RpcTypes
<1>5. Booting'
  BY DEF RpcInv, Booting
<1>6. Quiet'
  BY DEF RpcInv, Quiet
<1>7. NotGivenUp'
  BY <1>1 DEF RpcInv, NotGivenUp, RpcTypes
<1>8. FreshIsWanted'
  BY <1>3 DEF RpcInv, FreshIsWanted, Wanted
<1>9. OnItsWay' /\ OneStage'
  BY <1>3, WayKept DEF RpcInv, Way
<1>10. Answers'
  BY <1>1, <1>2 DEF RpcInv, Answers, OwnAnswer
<1> QED BY <1>4, <1>5, <1>6, <1>7, <1>8, <1>9, <1>10 DEF RpcInv

\* The answer taken is that of the task's own command, and the last that is
\* on its way at its stream.
LEMMA RpcTakeAnswer ==
  ASSUME Steady, IInv, RpcInv, NEW t \in Tasks, TakeAnswer(t)
  PROVE  RpcInv'
<1> USE DEF TakeAnswer, agentVars
<1> DEFINE own == StreamOf[t]
<1>0. own \in Streams /\ Answered(own) /\ Open(t)
  BY LlcAssumption DEF Answered, Open
<1>1. streamQ[own] = Id(t) /\ Id(t) \in handed
  BY <1>0, OneOwner DEF RpcInv, OnItsWay, Wanted
<1>2. \A u \in Tasks : u # t => pc'[u] = pc[u] /\ answer'[u] = answer[u] /\ (Open(u) <=> Open(u)')
  BY DEF IInv, ProofTypes, RpcInv, RpcTypes, Open
<1>3. pc'[t] = "idle" /\ answer'[t] \in {Id(t), None} /\ \A u \in Tasks : Id(u)' = Id(u)
  BY <1>1 DEF IInv, ProofTypes, RpcInv, RpcTypes, Id
<1>4. RpcTypes'
  BY <1>2, <1>3 DEF RpcInv, RpcTypes
<1>5. Booting'
  BY DEF RpcInv, Booting
<1>6. Quiet'
  BY DEF RpcInv, Quiet
<1>7. NotGivenUp'
  BY <1>2, <1>3 DEF RpcInv, NotGivenUp
<1>8. FreshIsWanted'
  <2> SUFFICES ASSUME aRx # None, aRx.id \notin handed PROVE Wanted(aRx.id, aRx.stream)'
    BY DEF FreshIsWanted
  <2>1. PICK u \in Tasks : StreamOf[u] = aRx.stream /\ aRx.id = Id(u) /\ Open(u)
    BY DEF RpcInv, FreshIsWanted, Wanted
  <2>2. u # t
    BY <1>1, <2>1
  <2> QED BY <1>2, <1>3, <2>1, <2>2 DEF Wanted
<1>9. \A s \in Streams :
        s # own => streamQ'[s] = streamQ[s] /\ \A id : Wanted(id, s) => Wanted(id, s)'
  BY <1>2, <1>3 DEF Wanted, RpcInv, RpcTypes
<1>10. ~Queued(own) /\ ~AtWork(own) /\ ~Sent(own) /\ ~Fetched(own)
  BY <1>0 DEF RpcInv, OneStage
<1>11. streamQ'[own] = None
  BY <1>0 DEF RpcInv, RpcTypes
<1>12. OnItsWay'
  BY <1>9, <1>10, <1>11 DEF RpcInv, OnItsWay, Queued, AtWork, Sent, Fetched, Answered
<1>13. OneStage'
  BY <1>9, <1>10, <1>11 DEF RpcInv, OneStage, Queued, AtWork, Sent, Fetched, Answered
<1>14. Answers'
  BY <1>2, <1>3 DEF RpcInv, Answers, OwnAnswer
<1> QED BY <1>4, <1>5, <1>6, <1>7, <1>8, <1>12, <1>13, <1>14 DEF RpcInv

-----------------------------------------------------------------------------
\* The tasks of the Controller stand still.
callPart == <<pc, cmd, calls, answer, tries, failed>>

LEMMA CallsStand ==
  ASSUME UNCHANGED callPart
  PROVE  \A t \in Tasks : Id(t)' = Id(t) /\ Open(t)' = Open(t)
BY DEF callPart, Id, Open

LEMMA WantedStands ==
  ASSUME UNCHANGED callPart PROVE \A id, s : Wanted(id, s) => Wanted(id, s)'
BY CallsStand DEF Wanted

\* A bound that rises stays one.
LEMMA BoundRises ==
  ASSUME NEW x \in Nat, NEW y \in Nat, NEW z \in Nat, z >= y, x <= y + 1
  PROVE  x <= z + 1
OBVIOUS

\* What is about the calls alone.
LEMMA CallsKept ==
  ASSUME RpcInv, UNCHANGED <<callPart, resets>>, aSent' \in Seqs \cup {Invalid},
         DOMAIN streamQ' = Streams, DOMAIN job' = Streams,
         faults' \in Nat, faults' >= faults
  PROVE  RpcTypes' /\ NotGivenUp'
<1>1. RpcTypes'
  BY DEF RpcInv, RpcTypes, callPart
<1>2. NotGivenUp'
  <2>1. faults \in Nat /\ tries \in Nat /\ UNCHANGED <<pc, tries, failed>>
    BY DEF RpcInv, RpcTypes, callPart
  <2>2. tries <= faults + 1 => tries <= faults' + 1
    BY <2>1, BoundRises
  <2> QED BY <2>1, <2>2 DEF RpcInv, NotGivenUp
<1> QED BY <1>1, <1>2

LEMMA AnswersKept ==
  ASSUME RpcInv, UNCHANGED <<callPart, handed>> PROVE Answers'
<1>1. \A t \in Tasks : Id(t)' = Id(t)
  BY CallsStand
<1> QED BY <1>1 DEF RpcInv, Answers, OwnAnswer, callPart

LEMMA FreshKept ==
  ASSUME RpcInv, UNCHANGED <<callPart, handed>>, aRx' = None \/ UNCHANGED aRx
  PROVE  FreshIsWanted'
BY WantedStands DEF RpcInv, FreshIsWanted

LEMMA FaultIsNat ==
  ASSUME RpcInv, UNCHANGED faults \/ Fault PROVE faults' \in Nat /\ faults' >= faults
BY DEF RpcInv, RpcTypes, Fault

\* The data link moves the packet on, or reads the one before it again.
LEMMA RpcRead == ASSUME Steady, RpcInv, Read \/ ReadLost \/ ReadAgain PROVE RpcInv'
<1> USE DEF Read, ReadLost, ReadAgain, ReadStep
<1>1. UNCHANGED callPart
  BY DEF callPart
<1>2. RpcTypes' /\ NotGivenUp'
  BY <1>1, CallsKept, FaultIsNat DEF RpcInv, RpcTypes
<1>3. Booting'
  BY DEF RpcInv, Booting, PacketGone
<1>4. Quiet'
  BY DEF RpcInv, Quiet
<1>5. FreshIsWanted' /\ Answers'
  BY <1>1, FreshKept, AnswersKept
<1>6. OnItsWay' /\ OneStage'
  <2>1. CASE ReadAgain
    <3>1. UNCHANGED Way /\ UNCHANGED handed
      BY <2>1 DEF Way
    <3> QED BY <1>1, <3>1, WayKept, CallsStand DEF RpcInv
  <2>2. CASE dlPrev' = dlTx /\ dlTx' = None
    <3>1. \A s \in Streams : Fetched(s)' => Sent(s)
      BY <2>2 DEF Fetched, Sent
    <3>2. \A s \in Streams : ~Sent(s)'
      BY <2>2 DEF Sent
    <3>3. OnItsWay'
      BY <1>1, <2>2, <3>1, <3>2, WantedStands DEF RpcInv, OnItsWay, Queued, AtWork, Answered
    <3>4. OneStage'
      BY <2>2, <3>1, <3>2 DEF RpcInv, OneStage, Queued, AtWork, Answered
    <3> QED BY <3>3, <3>4
  <2> QED BY <2>1, <2>2 DEF PacketGone
<1> QED BY <1>2, <1>3, <1>4, <1>5, <1>6 DEF RpcInv

\* The Controller's rx task is done with the packet that was read last.
LEMMA RpcCtrlRx == ASSUME Steady, RpcInv, CtrlRx PROVE RpcInv'
<1>0. RxTaskStep /\ cRx = dlPrev /\ cRx # None
  BY DEF CtrlRx, CtrlDropRepeat, CtrlResponse, CtrlStart, CtrlNotice, RxTaskStep, RpcInv, Booting
<1> USE <1>0 DEF RxTaskStep, agentVars
<1>1. UNCHANGED callPart
  BY DEF callPart
<1>2. RpcTypes' /\ NotGivenUp'
  <2>1. DOMAIN streamQ' = Streams
    BY DEF CtrlRx, CtrlDropRepeat, CtrlResponse, CtrlStart, CtrlNotice, RpcInv, RpcTypes
  <2> QED BY <1>1, <2>1, CallsKept, FaultIsNat DEF RpcInv, RpcTypes
<1>3. Booting'
  BY DEF RpcInv, Booting
<1>4. Quiet'
  BY DEF RpcInv, Quiet, CtrlRx, CtrlDropRepeat, CtrlResponse, CtrlStart, CtrlNotice
<1>5. FreshIsWanted' /\ Answers'
  BY <1>1, FreshKept, AnswersKept
<1>6. \A s \in Streams : ~Fetched(s)'
  BY DEF Fetched
<1>7. \A s \in Streams : Answered(s)' =>
        \/ Answered(s) /\ streamQ'[s] = streamQ[s]
        \/ Fetched(s) /\ streamQ'[s] = dlPrev.id
  <2>1. CASE CtrlResponse
    BY <2>1 DEF CtrlResponse, IsRepeat, Answered, Fetched, RpcInv, RpcTypes
  <2>2. CASE UNCHANGED streamQ
    BY <2>2 DEF Answered
  <2> QED BY <2>1, <2>2 DEF CtrlRx, CtrlDropRepeat, CtrlStart, CtrlNotice
<1>8. OnItsWay'
  BY <1>1, <1>6, <1>7, WantedStands DEF RpcInv, OnItsWay, Queued, AtWork, Sent
<1>9. OneStage'
  BY <1>6, <1>7 DEF RpcInv, OneStage, Queued, AtWork, Sent
<1> QED BY <1>2, <1>3, <1>4, <1>5, <1>8, <1>9 DEF RpcInv

\* The Agent's rx task: a copy is dropped, a fresh command handed over.
LEMMA RpcAgentRx ==
  ASSUME Steady, IInv, NoGap', RpcInv, AgentRx PROVE RpcInv'
<1>0. aStep = "check" /\ aRx # None /\ UNCHANGED <<callPart, ctrlVars>>
  BY DEF AgentRx, AgentDropRepeat, AgentHandOver, AgentNoStream, AgentRxStep, RxReport,
         RxReportNoMemory, RpcInv, Booting, ctrlVars, callPart, Transmit
<1>1. CASE AgentDropRepeat
  <2> USE <1>1 DEF AgentDropRepeat, AgentRxStep, ctrlVars, Seen
  <2>1. RpcTypes' /\ NotGivenUp'
    BY <1>0, CallsKept, FaultIsNat DEF RpcInv, RpcTypes
  <2>2. Booting' /\ Quiet'
    BY DEF RpcInv, Booting, Quiet
  <2>3. FreshIsWanted' /\ Answers'
    BY <1>0, FreshKept, AnswersKept
  <2>4. OnItsWay' /\ OneStage'
    BY <1>0, WayKept, CallsStand DEF RpcInv, Way
  <2> QED BY <2>1, <2>2, <2>3, <2>4 DEF RpcInv
<1>2. aRx.seq # aSeen =>
        aRx.id \notin handed /\ Wanted(aRx.id, aRx.stream) /\ aRx.stream \in Streams
  BY <1>0, LlcAssumption DEF IInv, FreshIsNotHanded, RpcInv, FreshIsWanted, Wanted
<1>3. CASE AgentHandOver
  <2> DEFINE x == aRx.id
             own == aRx.stream
  <2> USE <1>3 DEF AgentHandOver, AgentRxStep, ctrlVars
  <2>1. x \notin handed /\ Wanted(x, own) /\ own \in Streams
    BY <1>2
  <2>2. aRx' = None /\ aStep' = "check" /\ handed' = handed \cup {x}
    BY <1>0 DEF CheckLoss, Seen, NoGap, callPart, RpcInv, NotGivenUp
  <2>3. agentQ' = [agentQ EXCEPT ![own] = x] /\ DOMAIN agentQ = Streams
    BY DEF IInv, ProofTypes
  <2>4. RpcTypes' /\ NotGivenUp'
    BY <1>0, CallsKept, FaultIsNat DEF RpcInv, RpcTypes
  <2>5. Booting' /\ Quiet'
    BY <1>0, <2>2 DEF RpcInv, Booting, Quiet
  <2>6. FreshIsWanted'
    BY <2>2 DEF FreshIsWanted
  <2>7. Answers'
    <3>1. \A t \in Tasks : x.task = t /\ x.n = calls[t] => x = Id(t)
      BY <2>1 DEF Wanted, Id
    <3>2. \A t \in Tasks : Id(t)' = Id(t)
      BY <1>0, CallsStand
    <3> QED BY <1>0, <2>2, <3>1, <3>2 DEF RpcInv, Answers, OwnAnswer, callPart
  <2>8. ~Queued(own) /\ ~AtWork(own) /\ ~Sent(own) /\ ~Fetched(own) /\ ~Answered(own)
    <3>1. \A id : Wanted(id, own) => id \notin handed
      BY <2>1, OneOwner
    <3> QED BY <2>1, <3>1 DEF RpcInv, OnItsWay
  <2>9. \A s \in Streams : s # own => agentQ'[s] = agentQ[s]
    BY <2>3
  <2>10. OnItsWay'
    BY <1>0, <2>1, <2>2, <2>3, <2>8, <2>9, WantedStands
       DEF RpcInv, OnItsWay, Queued, AtWork, Sent, Fetched, Answered
  <2>11. OneStage'
    BY <2>8, <2>9 DEF RpcInv, OneStage, Queued, AtWork, Sent, Fetched, Answered
  <2> QED BY <2>4, <2>5, <2>6, <2>7, <2>10, <2>11 DEF RpcInv
<1>4. ~AgentNoStream
  BY <1>2 DEF AgentNoStream, AgentRxStep, RpcInv, Booting
<1>5. ~RxReport /\ ~RxReportNoMemory
  BY <1>0 DEF RxReport, RxReportNoMemory
<1> QED BY <1>1, <1>3, <1>4, <1>5 DEF AgentRx

LEMMA RpcStreamTake == ASSUME Steady, IInv, RpcInv, NEW s \in Streams, StreamTake(s) PROVE RpcInv'
<1> USE DEF StreamTake, ctrlVars
<1>1. UNCHANGED callPart
  BY DEF callPart
<1>2. RpcTypes' /\ NotGivenUp'
  BY <1>1, CallsKept, FaultIsNat DEF RpcInv, RpcTypes
<1>3. Booting'
  BY DEF RpcInv, Booting
<1>4. Quiet'
  BY DEF RpcInv, Quiet
<1>5. FreshIsWanted' /\ Answers'
  BY <1>1, FreshKept, AnswersKept
<1>6. \A x \in Streams : x # s => agentQ'[x] = agentQ[x] /\ job'[x] = job[x]
  BY DEF IInv, ProofTypes, RpcInv, RpcTypes
<1>7. agentQ'[s] = None /\ job'[s] = agentQ[s] /\ Queued(s)
  BY DEF IInv, ProofTypes, RpcInv, RpcTypes, Queued
<1>8. OnItsWay'
  BY <1>1, <1>6, <1>7, WantedStands DEF RpcInv, OnItsWay, Queued, AtWork, Sent, Fetched, Answered
<1>9. OneStage'
  BY <1>6, <1>7 DEF RpcInv, OneStage, Queued, AtWork, Sent, Fetched, Answered
<1> QED BY <1>2, <1>3, <1>4, <1>5, <1>8, <1>9 DEF RpcInv

\* The command of a stream is at work until its response is with the data link.
LEMMA RpcRespond == ASSUME Steady, RpcInv, NEW s \in Streams, StreamRespond(s) PROVE RpcInv'
<1> USE DEF StreamRespond, Transmit, ctrlVars
<1>0. started /\ boot = "up" /\ s # "rx" /\ s # None
  BY LlcAssumption DEF RpcInv, Quiet, Booting
<1>1. UNCHANGED <<callPart, aRx, handed, aStep>>
  BY <1>0 DEF callPart, Returned
<1>2. DOMAIN job' = Streams /\ \A x \in Streams : x # s => job'[x] = job[x]
  BY DEF Returned, RpcInv, RpcTypes
<1>3. RpcTypes' /\ NotGivenUp'
  BY <1>1, <1>2, CallsKept, FaultIsNat, NextSeqIsNew DEF RpcInv, RpcTypes
<1>4. Booting' /\ Quiet'
  BY <1>0, <1>1 DEF RpcInv, Booting, Quiet
<1>5. FreshIsWanted' /\ Answers'
  BY <1>1, FreshKept, AnswersKept
<1>6. AtWork(s) /\ sender = None
  BY <1>0 DEF AtWork
<1>7. CASE dlTx = None
  <2>1. sender' = s /\ UNCHANGED job
    BY <1>7
  <2>2. dlTx'.kind = "response" /\ dlTx'.stream = s /\ dlTx'.id = job[s]
    BY <1>7
  <2>3. \A x \in Streams : Sent(x)' => x = s
    BY <2>2 DEF Sent
  <2>4. \A x \in Streams : ~Sent(x)
    BY <1>7 DEF Sent
  <2>5. \A x \in Streams : AtWork(x)' => x # s /\ AtWork(x)
    BY <1>6, <2>1, LlcAssumption DEF AtWork
  <2>6. OnItsWay'
    BY <1>1, <1>6, <2>1, <2>2, <2>3, <2>5, WantedStands
       DEF RpcInv, OnItsWay, Queued, Fetched, Answered
  <2>7. OneStage'
    BY <1>6, <2>3, <2>4, <2>5 DEF RpcInv, OneStage, Queued, Fetched, Answered
  <2> QED BY <1>3, <1>4, <1>5, <2>6, <2>7 DEF RpcInv
<1>8. CASE dlTx # None
  <2>1. job'[s] = None /\ UNCHANGED <<dlTx, sender>>
    BY <1>8 DEF Returned, RpcInv, RpcTypes
  <2>2. \A x \in Streams : AtWork(x)' => x # s /\ AtWork(x)
    BY <1>2, <2>1 DEF AtWork
  <2>3. OnItsWay'
    BY <1>1, <1>2, <2>1, <2>2, WantedStands DEF RpcInv, OnItsWay, Queued, Sent, Fetched, Answered
  <2>4. OneStage'
    BY <2>1, <2>2 DEF RpcInv, OneStage, Queued, Sent, Fetched, Answered
  <2> QED BY <1>3, <1>4, <1>5, <2>3, <2>4 DEF RpcInv
<1> QED BY <1>7, <1>8

\* The end of a transfer: the command of the sender is no longer at work.
LEMMA RpcTransmitDone == ASSUME Steady, IInv, RpcInv, TransmitDone PROVE RpcInv'
<1> USE DEF TransmitDone, ctrlVars
<1>0. sender # "rx" /\ sender # None
  BY DEF IInv, ReporterHasPacket, RpcInv, Booting
<1>1. UNCHANGED <<callPart, aRx, handed, aStep>>
  BY <1>0 DEF callPart, Returned
<1>2. /\ DOMAIN job' = Streams
      /\ \A x \in Streams : job'[x] = IF x = sender THEN None ELSE job[x]
  BY DEF Returned, RpcInv, RpcTypes
<1>3. RpcTypes' /\ NotGivenUp'
  BY <1>1, <1>2, CallsKept, FaultIsNat DEF RpcInv, RpcTypes
<1>4. Booting' /\ Quiet'
  BY <1>0, <1>1 DEF RpcInv, Booting, Quiet
<1>5. FreshIsWanted' /\ Answers'
  BY <1>1, FreshKept, AnswersKept
<1>6. \A x \in Streams : AtWork(x)' => AtWork(x) /\ job'[x] = job[x]
  BY <1>2 DEF AtWork
<1>7. OnItsWay'
  BY <1>1, <1>6, WantedStands DEF RpcInv, OnItsWay, Queued, Sent, Fetched, Answered
<1>8. OneStage'
  BY <1>6 DEF RpcInv, OneStage, Queued, Sent, Fetched, Answered
<1> QED BY <1>3, <1>4, <1>5, <1>7, <1>8 DEF RpcInv

\* A packet of the Agent is never the absence of one.
LEMMA PacketIsPacket ==
  ASSUME NEW q \in Nat, NEW s \in Streams, NEW kind \in Kinds,
         NEW id \in [task : Tasks, n : Nat, cmd : Commands] \cup {None}
  PROVE  [seq |-> q, kind |-> kind, stream |-> s, id |-> id] # None
<1>1. [seq |-> q, kind |-> kind, stream |-> s, id |-> id] \in
        [seq : Nat, kind : Kinds, stream : Streams,
         id : [task : Tasks, n : Nat, cmd : Commands] \cup {None}]
  OBVIOUS
<1> QED BY <1>1, LlcAssumption

\* The start notification is the first packet.
LEMMA RpcSendStart == ASSUME Steady, RpcInv, SendStart PROVE RpcInv'
<1> USE DEF SendStart, ctrlVars
<1>1. UNCHANGED callPart
  BY DEF callPart
<1>2. dlTx = None /\ boot' = "sending" /\ dlTx'.kind = "start" /\ dlPrev = None /\ ~started
  BY DEF RpcInv, Booting
<1>3. dlTx' # None
  <2>1. NextSeq(aSent) \in Seqs
    BY NextSeqIsNew DEF RpcInv, RpcTypes
  <2>2. \A q \in Seqs : q \in Nat
    BY DEF Seqs
  <2>3. dlTx' = [seq |-> NextSeq(aSent), kind |-> "start", stream |-> ControlStream, id |-> None]
    BY <1>2
  <2>4. NextSeq(aSent) \in Nat /\ "start" \in Kinds /\ ControlStream \in Streams
    BY <2>1, <2>2, LlcAssumption DEF Kinds
  <2> HIDE DEF SendStart
  <2> QED BY <2>3, <2>4, PacketIsPacket
<1>4. RpcTypes' /\ NotGivenUp'
  BY <1>1, CallsKept, FaultIsNat, NextSeqIsNew DEF RpcInv, RpcTypes
<1>5. Booting' /\ Quiet'
  BY <1>2, <1>3 DEF RpcInv, Booting, Quiet
<1>6. FreshIsWanted' /\ Answers'
  BY <1>1, FreshKept, AnswersKept
<1>7. \A s \in Streams : ~Sent(s)'
  BY <1>2 DEF Sent
<1>8. OnItsWay'
  BY <1>1, <1>7, WantedStands DEF RpcInv, OnItsWay, Queued, AtWork, Fetched, Answered
<1>9. OneStage'
  BY <1>7 DEF RpcInv, OneStage, Queued, AtWork, Fetched, Answered
<1> QED BY <1>4, <1>5, <1>6, <1>8, <1>9 DEF RpcInv

\* Events are not answers.
LEMMA RpcSendEvent == ASSUME Steady, RpcInv, SendEvent PROVE RpcInv'
<1> USE DEF SendEvent, Transmit, ctrlVars
<1>0. started /\ boot = "up" /\ "event" # "rx" /\ "event" \notin Streams /\ sender = None
  BY LlcAssumption DEF RpcInv, Quiet, Booting
<1>1. UNCHANGED <<callPart, aRx, handed, aStep, job, agentQ, dlPrev, streamQ, cSeen>>
  BY <1>0 DEF callPart, Returned
<1>2. UNCHANGED dlTx \/ (dlTx = None /\ dlTx'.kind = "event")
  OBVIOUS
<1>3. RpcTypes' /\ NotGivenUp'
  BY <1>1, CallsKept, FaultIsNat, NextSeqIsNew DEF RpcInv, RpcTypes
<1>4. Booting' /\ Quiet'
  BY <1>0, <1>1 DEF RpcInv, Booting, Quiet
<1>5. FreshIsWanted' /\ Answers'
  BY <1>1, FreshKept, AnswersKept
<1>6. \A s \in Streams : (Sent(s)' => Sent(s) /\ UNCHANGED dlTx) /\ (AtWork(s)' => AtWork(s))
  BY <1>0, <1>1, <1>2, LlcAssumption DEF Sent, AtWork
<1>7. OnItsWay'
  BY <1>1, <1>6, WantedStands DEF RpcInv, OnItsWay, Queued, Fetched, Answered
<1>8. OneStage'
  BY <1>1, <1>6 DEF RpcInv, OneStage, Queued, Fetched, Answered
<1> QED BY <1>3, <1>4, <1>5, <1>7, <1>8 DEF RpcInv

LEMMA RpcStep == ASSUME Steady, IInv, LossInv, RpcInv, [Next]_vars PROVE RpcInv'
<1>1. ~OutOfMemory
  BY DEF Steady
<1>2. ASSUME NEW t \in Tasks, TaskStep(t) PROVE RpcInv'
  <2>1. ~CallNoMemory(t)
    BY <1>1 DEF CallNoMemory, NoMemory
  <2> QED
    BY <1>2, <2>1, RpcCall, RpcLock, RpcWriteAcked, RpcWriteFails, RpcTakeAnswer DEF TaskStep
<1>3. CASE AgentRx
  BY <1>3, RpcAgentRx, LossNext DEF LossInv
<1>4. ASSUME NEW s \in Streams, StreamTake(s) \/ StreamRespond(s) \/ RespondNoMemory(s)
      PROVE  RpcInv'
  <2>1. ~RespondNoMemory(s)
    BY <1>1 DEF RespondNoMemory, NoMemory
  <2> QED BY <1>4, <2>1, RpcStreamTake, RpcRespond
<1>5. CASE UNCHANGED vars
  <2>1. UNCHANGED <<callPart, Way, handed, aRx, boot, started, opened, aStep, cRx, aSent,
                    faults, resets>>
    BY <1>5 DEF vars, ctrlVars, agentVars, callPart, Way
  <2>2. RpcTypes' /\ NotGivenUp'
    BY <2>1, CallsKept, FaultIsNat DEF RpcInv, RpcTypes, Way
  <2>3. Booting' /\ Quiet'
    BY <2>1 DEF RpcInv, Booting, Quiet, Way, callPart
  <2>4. FreshIsWanted' /\ Answers'
    BY <2>1, FreshKept, AnswersKept
  <2>5. OnItsWay' /\ OneStage'
    BY <2>1, WayKept, CallsStand DEF RpcInv
  <2> QED BY <2>2, <2>3, <2>4, <2>5 DEF RpcInv
<1>6. ~AgentReset
  BY DEF AgentReset, Steady, RpcInv, RpcTypes
<1> QED
  BY <1>2, <1>3, <1>4, <1>5, <1>6, RpcRead, RpcCtrlRx, RpcSendStart, RpcSendEvent, RpcTransmitDone
     DEF Next

\* With a stream for each task, memory, and fewer faults than attempts no call
\* is given up, and at most one packet carries each command or its answer.
THEOREM LlcSteady == ASSUME Steady PROVE Spec => [](IInv /\ LossInv /\ RpcInv)
<1>1. Init => IInv /\ LossInv /\ RpcInv
  BY LlcInit, LossInit, RpcStart
<1>2. IInv /\ LossInv /\ RpcInv /\ [Next]_vars => IInv' /\ LossInv' /\ RpcInv'
  BY LlcNext, LossNext, RpcStep DEF Steady
<1> QED BY <1>1, <1>2, PTL DEF Spec

\* mmagic_controller_rx returns MMAGIC_STATUS_OK with the answer to the call's
\* own command, whatever is read twice, lost or delayed.
THEOREM LlcOwnAnswer == ASSUME Steady PROVE Spec => []OwnAnswer
<1>1. RpcInv => OwnAnswer
  BY DEF RpcInv, Answers
<1> QED BY <1>1, LlcSteady, PTL

-----------------------------------------------------------------------------
\* What the refinement shows of the calls and of the commands carried out.
OpenCalls   == [t \in Tasks |-> pc[t] # "idle"]
CarriedOut  == {Key(id) : id \in handed}
LastAnswers == [t \in Tasks |-> IF answer[t] = None THEN None ELSE Key(answer[t])]

\* Steps of which the callers see nothing.
LEMMA RefineStutter ==
  ASSUME UNCHANGED <<calls, answer, handed>>,
         \A t \in Tasks : (pc'[t] = "idle") <=> (pc[t] = "idle")
  PROVE  UNCHANGED Rpc!rpcVars
<1>1. UNCHANGED OpenCalls
  <2>1. \A t \in Tasks : (pc'[t] # "idle") = (pc[t] # "idle")
    OBVIOUS
  <2> QED BY <2>1, Zenon DEF OpenCalls
<1>2. UNCHANGED CarriedOut
  BY DEF CarriedOut
<1>3. UNCHANGED LastAnswers
  BY DEF LastAnswers
<1> QED BY <1>1, <1>2, <1>3 DEF Rpc!rpcVars, OpenCalls, CarriedOut, LastAnswers

\* A call that begins issues the next command of its task.
LEMMA RefineCall ==
  ASSUME IInv, RpcInv, NEW t \in Tasks, Call(t) PROVE Rpc!Issue(t)
<1> USE DEF Call, agentVars
<1>1. ~OpenCalls[t]
  BY DEF OpenCalls
<1>2. OpenCalls' = [OpenCalls EXCEPT ![t] = TRUE]
  <2>1. \A u \in Tasks : (pc'[u] # "idle") = IF u = t THEN TRUE ELSE (pc[u] # "idle")
    BY DEF IInv, ProofTypes
  <2> HIDE DEF Call
  <2> QED BY <2>1 DEF OpenCalls
<1>3. LastAnswers' = [LastAnswers EXCEPT ![t] = None]
  BY DEF LastAnswers, RpcInv, RpcTypes
<1>4. CarriedOut' = CarriedOut
  BY DEF CarriedOut
<1>5. calls' = [calls EXCEPT ![t] = @ + 1]
  OBVIOUS
<1> HIDE DEF Call
<1> QED BY <1>1, <1>2, <1>3, <1>4, <1>5 DEF Rpc!Issue, OpenCalls, LastAnswers, CarriedOut

\* mmagic_m2m_rx_callback hands over a command that was not carried out yet.
LEMMA RefineHandOver ==
  ASSUME Steady, IInv, RpcInv, AgentHandOver
  PROVE  \E t \in Tasks : Rpc!CarryOut(t)
<1> USE DEF AgentHandOver, AgentRxStep, ctrlVars
<1>1. aRx # None /\ aRx.id \notin handed
  BY DEF IInv, FreshIsNotHanded
<1>2. PICK t \in Tasks : aRx.id = Id(t) /\ Open(t)
  BY <1>1 DEF RpcInv, FreshIsWanted, Wanted
<1>3. Key(aRx.id) = <<t, calls[t]>>
  BY <1>2 DEF Key, Id
<1>4. <<t, calls[t]>> \notin CarriedOut
  <2>1. ASSUME NEW id \in handed, Key(id) = <<t, calls[t]>> PROVE FALSE
    <3>1. id.task = t /\ id.n = calls[t]
      BY <2>1 DEF Key
    <3> QED BY <1>1, <1>2, <3>1 DEF RpcInv, Answers
  <2> QED BY <2>1 DEF CarriedOut
<1>5. CarriedOut' = CarriedOut \cup {<<t, calls[t]>>}
  BY <1>3 DEF CarriedOut
<1>6. calls[t] \in 1..calls[t]
  BY <1>2 DEF IInv, ProofTypes, RpcInv, RpcTypes, Open
<1>7. UNCHANGED <<calls, OpenCalls, LastAnswers>>
  BY DEF OpenCalls, LastAnswers
<1>8. Rpc!CarryOut(t)
  <2> HIDE DEF AgentHandOver
  <2> QED BY <1>4, <1>5, <1>6, <1>7 DEF Rpc!CarryOut, OpenCalls, LastAnswers, CarriedOut
<1> QED BY <1>8

\* mmagic_controller_rx returns the answer to the call's command, or an error.
LEMMA RefineTakeAnswer ==
  ASSUME Steady, IInv, RpcInv, NEW t \in Tasks, TakeAnswer(t)
  PROVE  Rpc!Return(t) \/ Rpc!Fail(t)
<1> USE DEF TakeAnswer, agentVars
<1>1. streamQ[StreamOf[t]] = Id(t) /\ Id(t) \in handed
  <2>1. StreamOf[t] \in Streams /\ Answered(StreamOf[t]) /\ Wanted(Id(t), StreamOf[t])
    BY LlcAssumption DEF Answered, Wanted, Open
  <2> QED BY <2>1, OneOwner DEF RpcInv, OnItsWay
<1>2. OpenCalls[t] /\ OpenCalls' = [OpenCalls EXCEPT ![t] = FALSE]
  <2>1. \A u \in Tasks : (pc'[u] # "idle") = IF u = t THEN FALSE ELSE (pc[u] # "idle")
    BY DEF IInv, ProofTypes
  <2>2. pc[t] # "idle"
    OBVIOUS
  <2> HIDE DEF TakeAnswer
  <2> QED BY <2>1, <2>2 DEF OpenCalls
<1>3. UNCHANGED <<calls, CarriedOut>> /\ <<t, calls[t]>> \in CarriedOut
  <2>1. Key(Id(t)) = <<t, calls[t]>>
    BY DEF Key, Id
  <2> QED BY <1>1, <2>1 DEF CarriedOut
<1>4. answer[t] = None /\ DOMAIN answer = Tasks
  BY DEF RpcInv, Answers, RpcTypes
<1>5. PICK x \in {Id(t), None} : answer' = [answer EXCEPT ![t] = x]
  BY <1>1
<1>6. CASE x = None
  <2>1. UNCHANGED LastAnswers
    BY <1>4, <1>5, <1>6 DEF LastAnswers
  <2> HIDE DEF TakeAnswer
  <2> QED BY <1>2, <1>3, <2>1 DEF Rpc!Fail, OpenCalls, LastAnswers, CarriedOut
<1>7. CASE x # None
  <2>1. LastAnswers' = [LastAnswers EXCEPT ![t] = <<t, calls[t]>>]
    <3>1. answer'[t] = Id(t) /\ \A u \in Tasks : u # t => answer'[u] = answer[u]
      BY <1>4, <1>5, <1>7
    <3>2. Key(answer'[t]) = <<t, calls[t]>> /\ answer'[t] # None
      BY <1>4, <1>5, <1>7, <3>1 DEF Key, Id
    <3> HIDE DEF TakeAnswer
    <3> QED BY <3>1, <3>2 DEF LastAnswers
  <2> HIDE DEF TakeAnswer
  <2> QED BY <1>2, <1>3, <2>1 DEF Rpc!Return, OpenCalls, LastAnswers, CarriedOut
<1> QED BY <1>6, <1>7

LEMMA RefineStep ==
  ASSUME Steady, IInv, RpcInv, [Next]_vars PROVE [Rpc!RpcNext]_(Rpc!rpcVars)
<1>1. ASSUME NEW t \in Tasks, TaskStep(t) PROVE [Rpc!RpcNext]_(Rpc!rpcVars)
  <2>1. CASE Call(t)
    BY <2>1, RefineCall DEF Rpc!RpcNext
  <2>2. CASE TakeAnswer(t)
    BY <2>2, RefineTakeAnswer DEF Rpc!RpcNext
  <2>3. ~CallNoMemory(t)
    BY DEF CallNoMemory, NoMemory, Steady
  <2>4. CASE Lock(t)
    BY <2>4, RefineStutter DEF Lock, agentVars, IInv, ProofTypes
  <2>5. CASE WriteAcked(t)
    BY <2>5, RefineStutter DEF WriteAcked, WriteStep, IInv, ProofTypes
  <2>6. CASE WriteAckLost(t) \/ WriteNotAccepted(t)
    <3>1. UNCHANGED <<calls, answer, handed>> /\ Fault /\ Retry(t) /\ pc[t] = "write"
      BY <2>6, NotBlocked DEF WriteAckLost, WriteNotAccepted, WriteStep, Accepts, RpcInv, Booting
    <3>2. UNCHANGED pc
      BY <3>1, AttemptLeft DEF Retry
    <3> QED BY <3>1, <3>2, RefineStutter
  <2> QED BY <1>1, <2>1, <2>2, <2>3, <2>4, <2>5, <2>6 DEF TaskStep
<1>2. CASE AgentHandOver
  BY <1>2, RefineHandOver DEF Rpc!RpcNext
<1>3. ASSUME ~(\E t \in Tasks : TaskStep(t)), ~AgentHandOver
      PROVE  UNCHANGED <<pc, calls, answer, handed>>
  <2>1. ~AgentReset
    BY DEF AgentReset, Steady, RpcInv, RpcTypes
  <2> QED
    BY <1>3, <2>1
       DEF Next, Read, ReadLost, ReadAgain, ReadStep, CtrlRx, CtrlDropRepeat, CtrlResponse,
           CtrlStart, CtrlNotice, RxTaskStep, AgentRx, AgentDropRepeat, AgentNoStream,
           AgentRxStep, RxReport, RxReportNoMemory, StreamTake, StreamRespond,
           RespondNoMemory, SendEvent, SendStart, Transmit, TransmitDone, vars, ctrlVars,
           agentVars
<1> QED BY <1>1, <1>2, <1>3, RefineStutter

\* The calls of the tasks are remote procedure calls: at most once carried out,
\* answered with the answer to the call's own command.
THEOREM LlcRefinesRpc == ASSUME Steady PROVE Spec => RefinesRpc
<1>1. Init => Rpc!RpcInit
  BY DEF Init, Rpc!RpcInit
<1>2. IInv /\ RpcInv /\ [Next]_vars => [Rpc!RpcNext]_(Rpc!rpcVars)
  BY RefineStep
<1> QED BY <1>1, <1>2, LlcSteady, PTL DEF Spec, RefinesRpc, Rpc!RpcSpec

-----------------------------------------------------------------------------
\* How far q is after p, counting modulo SeqMod.
Dist(p, q) == IF q >= p THEN q - p ELSE q + SeqMod - p

\* The numbers of the Agent's packets, and the bound of the faults.
SendTypes ==
  /\ cSeen \in Seqs \cup {Invalid} /\ faults <= MaxFaults
  /\ dlTx # None => dlTx.seq \in Seqs
  /\ dlPrev # None => dlPrev.seq \in Seqs

\* The Agent's packets are numbered in the order in which they are sent, and
\* none is refused by its data link.
InSequence ==
  /\ boot = "up" /\ dlTx # None => sender # None
  /\ dlTx # None => dlTx.seq = aSent
  /\ dlPrev # None => aSent = IF dlTx = None THEN dlPrev.seq ELSE NextSeq(dlPrev.seq)
  /\ dlPrev = None => cSeen = Invalid

\* The Controller has missed no more packets than reads have failed, so a
\* number it has seen has not come round again.
SeenLast ==
  cSeen # Invalid =>
    /\ dlPrev.seq = cSeen => dlPrev = cLast
    /\ Dist(cSeen, dlPrev.seq) <= IF cRx = None THEN faults ELSE faults + 1

SeqInv == SendTypes /\ InSequence /\ SeenLast

\* The next number is one further, and not the one counted from, unless the
\* numbers have come round.
LEMMA DistGrows ==
  ASSUME NEW p \in Seqs, NEW q \in Seqs, Dist(p, q) < SeqMod - 1
  PROVE  Dist(p, NextSeq(q)) = Dist(p, q) + 1 /\ NextSeq(q) # p
<1>1. SeqMod \in Nat /\ p \in Nat /\ q \in Nat /\ p < SeqMod /\ q < SeqMod
  BY LlcAssumption DEF Seqs
<1>2. NextSeq(q) = IF q = SeqMod - 1 THEN 0 ELSE q + 1
  BY NextSeqIs
<1> QED BY <1>1, <1>2 DEF Dist

LEMMA DistIsNat ==
  ASSUME NEW p \in Seqs, NEW q \in Seqs
  PROVE  Dist(p, q) \in Nat /\ Dist(p, p) = 0
BY LlcAssumption DEF Dist, Seqs

LEMMA SeqStart == ASSUME Init PROVE SeqInv
BY LlcAssumption DEF Init, SeqInv, SendTypes, InSequence, SeenLast

\* Steps that do not move the Agent's packets.
LEMMA SeqKept ==
  ASSUME SeqInv, faults \in Nat, faults' \in Nat, faults' >= faults, faults' <= MaxFaults,
         UNCHANGED <<cSeen, cRx, cLast, boot, aSent, dlTx, dlPrev>>,
         sender' = sender \/ dlTx = None
  PROVE  SeqInv'
<1> USE DEF SeqInv
<1>1. SendTypes'
  BY DEF SendTypes
<1>2. InSequence'
  BY DEF InSequence
<1>3. SeenLast'
  <2> SUFFICES ASSUME cSeen # Invalid
               PROVE  /\ dlPrev.seq = cSeen => dlPrev = cLast
                      /\ Dist(cSeen, dlPrev.seq) <= IF cRx = None THEN faults' ELSE faults' + 1
    BY DEF SeenLast
  <2>1. cSeen \in Seqs /\ dlPrev.seq \in Seqs
    BY DEF SendTypes, InSequence
  <2>2. Dist(cSeen, dlPrev.seq) \in Nat
    BY <2>1, DistIsNat
  <2>3. /\ dlPrev.seq = cSeen => dlPrev = cLast
        /\ Dist(cSeen, dlPrev.seq) <= IF cRx = None THEN faults ELSE faults + 1
    BY DEF SeenLast
  <2> HIDE DEF SeqInv
  <2> QED BY <2>2, <2>3
<1> QED BY <1>1, <1>2, <1>3

\* The data link: the next packet, lost or not, or the one before it again.
LEMMA SeqRead ==
  ASSUME Steady, MaxFaults + 1 < SeqMod, RpcInv, SeqInv, Read \/ ReadLost \/ ReadAgain
  PROVE  SeqInv'
<1>0. /\ faults \in Nat /\ MaxFaults \in Nat /\ SeqMod \in Nat /\ cRx = None /\ faults <= MaxFaults
      /\ UNCHANGED <<cSeen, cLast, aSent, sender>>
  BY LlcAssumption DEF RpcInv, RpcTypes, SeqInv, SendTypes, Read, ReadLost, ReadAgain, ReadStep
<1>1. CASE ReadAgain
  <2>1. /\ dlPrev # None /\ cRx' = dlPrev /\ UNCHANGED <<boot, dlTx, dlPrev>>
        /\ faults < MaxFaults /\ faults' = faults + 1
    BY <1>1 DEF ReadAgain, Fault
  <2>2. SendTypes'
    BY <1>0, <2>1 DEF SeqInv, SendTypes
  <2>3. InSequence'
    BY <1>0, <2>1 DEF SeqInv, InSequence
  <2>4. SeenLast'
    <3> SUFFICES ASSUME cSeen # Invalid
                 PROVE  /\ dlPrev.seq = cSeen => dlPrev = cLast
                        /\ Dist(cSeen, dlPrev.seq) <= faults' + 1
      BY <1>0, <2>1 DEF SeenLast
    <3>1. Dist(cSeen, dlPrev.seq) \in Nat
      BY <2>1, DistIsNat DEF SeqInv, SendTypes
    <3>2. /\ dlPrev.seq = cSeen => dlPrev = cLast
          /\ Dist(cSeen, dlPrev.seq) <= faults
      BY <1>0 DEF SeqInv, SeenLast
    <3> QED BY <1>0, <2>1, <3>1, <3>2
  <2> QED BY <2>2, <2>3, <2>4 DEF SeqInv
<1>2. CASE Read \/ ReadLost
  <2>1. /\ dlTx # None /\ dlPrev' = dlTx /\ dlTx' = None
        /\ \/ cRx' = dlTx /\ faults' = faults
           \/ cRx' = None /\ faults < MaxFaults /\ faults' = faults + 1
    BY <1>0, <1>2 DEF Read, ReadLost, PacketGone, Fault
  <2>2. SendTypes'
    BY <1>0, <2>1 DEF SeqInv, SendTypes
  <2>3. InSequence'
    BY <1>0, <2>1 DEF SeqInv, InSequence
  <2>4. SeenLast'
    <3> SUFFICES ASSUME cSeen # Invalid
                 PROVE  /\ dlTx.seq # cSeen
                        /\ Dist(cSeen, dlTx.seq) <= IF cRx' = None THEN faults' ELSE faults' + 1
      BY <1>0, <2>1 DEF SeenLast
    <3>1. cSeen \in Seqs /\ dlPrev.seq \in Seqs /\ dlTx.seq = NextSeq(dlPrev.seq)
      BY <2>1 DEF SeqInv, SendTypes, InSequence
    <3>2. Dist(cSeen, dlPrev.seq) \in Nat /\ Dist(cSeen, dlPrev.seq) <= faults
      BY <1>0, <3>1, DistIsNat DEF SeqInv, SeenLast
    <3>3. Dist(cSeen, dlPrev.seq) < SeqMod - 1
      BY <1>0, <3>2
    <3>4. Dist(cSeen, dlTx.seq) = Dist(cSeen, dlPrev.seq) + 1 /\ dlTx.seq # cSeen
      BY <3>1, <3>3, DistGrows
    <3> QED BY <1>0, <2>1, <3>2, <3>4
  <2> QED BY <2>2, <2>3, <2>4 DEF SeqInv
<1> QED BY <1>1, <1>2

\* The Controller has seen the packet that was read last.
LEMMA SeqCtrlRx == ASSUME RpcInv, SeqInv, CtrlRx PROVE SeqInv'
<1>1. /\ cRx = dlPrev /\ dlPrev # None /\ cRx' = None /\ cSeen' = dlPrev.seq /\ cLast' = dlPrev
      /\ UNCHANGED <<boot, aSent, dlTx, dlPrev, sender, faults>>
  BY DEF CtrlRx, CtrlDropRepeat, CtrlResponse, CtrlStart, CtrlNotice, RxTaskStep, agentVars,
         RpcInv, Booting
<1>2. dlPrev.seq \in Seqs /\ faults \in Nat
  BY <1>1 DEF SeqInv, SendTypes, RpcInv, RpcTypes
<1>3. SendTypes'
  BY <1>1, <1>2 DEF SeqInv, SendTypes
<1>4. InSequence'
  BY <1>1 DEF SeqInv, InSequence
<1>5. Dist(dlPrev.seq, dlPrev.seq) = 0
  BY <1>2, DistIsNat
<1>6. SeenLast'
  BY <1>1, <1>2, <1>5 DEF SeenLast
<1> QED BY <1>3, <1>4, <1>6 DEF SeqInv

\* A packet with the next number is given to an idle data link.
LEMMA SeqSend ==
  ASSUME RpcInv, SeqInv, dlTx = None, aSent' = NextSeq(aSent), dlTx' # None,
         dlTx'.seq = aSent', boot' = "up" => sender' # None,
         UNCHANGED <<cSeen, cRx, cLast, dlPrev, faults>>
  PROVE  SeqInv'
<1>1. aSent' \in Seqs
  BY NextSeqIsNew DEF RpcInv, RpcTypes
<1>2. SendTypes'
  BY <1>1 DEF SeqInv, SendTypes
<1>3. InSequence'
  BY DEF SeqInv, InSequence
<1>4. SeenLast'
  BY DEF SeqInv, SeenLast
<1> QED BY <1>2, <1>3, <1>4 DEF SeqInv

LEMMA SeqTransmit ==
  ASSUME Steady, RpcInv, SeqInv, boot = "up",
         NEW who, who # None, NEW kind \in Kinds, NEW stream \in Streams,
         NEW id \in [task : Tasks, n : Nat, cmd : Commands] \cup {None},
         Transmit(who, kind, stream, id)
  PROVE  SeqInv'
<1> USE DEF Transmit, ctrlVars
<1>1. dlTx = None
  BY DEF SeqInv, InSequence
<1>2. NextSeq(aSent) \in Seqs
  BY NextSeqIsNew DEF RpcInv, RpcTypes
<1>3. \A q \in Seqs : q \in Nat
  BY DEF Seqs
<1>4. dlTx' = [seq |-> NextSeq(aSent), kind |-> kind, stream |-> stream, id |-> id]
  BY <1>1
<1>5. dlTx' # None
  BY <1>2, <1>3, <1>4, PacketIsPacket
<1>6. dlTx'.seq = aSent' /\ sender' = who
  BY <1>1, <1>4
<1> QED BY <1>1, <1>5, <1>6, SeqSend

LEMMA SeqStep ==
  ASSUME Steady, MaxFaults + 1 < SeqMod, IInv, RpcInv, SeqInv, [Next]_vars PROVE SeqInv'
<1>0. faults \in Nat /\ MaxFaults \in Nat /\ faults <= MaxFaults /\ ~OutOfMemory
  BY LlcAssumption DEF RpcInv, RpcTypes, SeqInv, SendTypes, Steady
<1>1. CASE Read \/ ReadLost \/ ReadAgain
  BY <1>1, SeqRead
<1>2. CASE CtrlRx
  BY <1>2, SeqCtrlRx
<1>3. ASSUME NEW s \in Streams, StreamRespond(s) PROVE SeqInv'
  <2>1. job[s] # None /\ sender = None /\ Transmit(s, "response", s, job[s])
    BY <1>3 DEF StreamRespond, Transmit
  <2>2. boot = "up" /\ s # None
    BY <2>1, LlcAssumption DEF RpcInv, Quiet, Booting
  <2>3. PICK t \in Tasks : job[s] = Id(t) /\ Open(t)
    BY <2>1, <2>2 DEF RpcInv, OnItsWay, AtWork, Wanted
  <2>4. job[s] \in [task : Tasks, n : Nat, cmd : Commands]
    BY <2>3 DEF IInv, ProofTypes, Id, Open
  <2>5. "response" \in Kinds
    BY DEF Kinds
  <2> QED BY <2>1, <2>2, <2>4, <2>5, SeqTransmit
<1>4. CASE SendEvent
  <2>1. Transmit("event", "event", ControlStream, None) /\ boot = "up"
    BY <1>4 DEF SendEvent, RpcInv, Quiet, Booting
  <2>2. "event" # None /\ "event" \in Kinds /\ ControlStream \in Streams
    BY LlcAssumption DEF Kinds
  <2> QED BY <2>1, <2>2, SeqTransmit
<1>5. CASE SendStart
  <2>1. /\ dlTx = None /\ boot' = "sending" /\ aSent' = NextSeq(aSent)
        /\ dlTx' = [seq |-> NextSeq(aSent), kind |-> "start", stream |-> ControlStream, id |-> None]
        /\ UNCHANGED <<cSeen, cRx, cLast, dlPrev, faults>>
    BY <1>5 DEF SendStart, ctrlVars, RpcInv, Booting
  <2>2. NextSeq(aSent) \in Seqs
    BY NextSeqIsNew DEF RpcInv, RpcTypes
  <2>3. \A q \in Seqs : q \in Nat
    BY DEF Seqs
  <2>4. "start" \in Kinds /\ ControlStream \in Streams
    BY LlcAssumption DEF Kinds
  <2>5. dlTx' # None
    BY <2>1, <2>2, <2>3, <2>4, PacketIsPacket
  <2> QED BY <2>1, <2>5, SeqSend
<1>6. ~AgentReset /\ ~RxReport /\ ~RxReportNoMemory
  BY DEF AgentReset, Steady, RpcInv, RpcTypes, RxReport, RxReportNoMemory, Booting
<1>7. ASSUME ~(Read \/ ReadLost \/ ReadAgain), ~CtrlRx, ~SendEvent, ~SendStart,
             ~(\E s \in Streams : StreamRespond(s))
      PROVE  SeqInv'
  <2>1. /\ UNCHANGED <<cSeen, cRx, cLast, boot, aSent, dlTx, dlPrev>>
        /\ sender' = sender \/ dlTx = None
    BY <1>0, <1>6, <1>7
       DEF Next, TaskStep, Call, CallNoMemory, Lock, WriteAcked, WriteAckLost, WriteNotAccepted,
           WriteStep, TakeAnswer, AgentRx, AgentDropRepeat, AgentHandOver, AgentNoStream,
           AgentRxStep, StreamTake, RespondNoMemory, NoMemory, TransmitDone, vars, ctrlVars,
           agentVars
  <2>2. UNCHANGED faults \/ Fault
    BY <1>0, <1>6, <1>7
       DEF Next, TaskStep, Call, CallNoMemory, Lock, WriteAcked, WriteAckLost, WriteNotAccepted,
           Accepts, TakeAnswer, AgentRx, AgentDropRepeat, AgentHandOver, AgentNoStream,
           AgentRxStep, StreamTake, RespondNoMemory, NoMemory, TransmitDone, vars
  <2>3. faults' \in Nat /\ faults' >= faults /\ faults' <= MaxFaults
    BY <1>0, <2>2 DEF Fault
  <2> QED BY <1>0, <2>1, <2>3, SeqKept
<1> QED BY <1>1, <1>2, <1>3, <1>4, <1>5, <1>7

\* Neither side ignores a packet but for copies of the last one it handled, if
\* the numbers do not come round within the packets that can be lost.
THEOREM LlcOnlyRepeatsIgnored ==
  ASSUME Steady, MaxFaults + 1 < SeqMod PROVE Spec => OnlyRepeatsIgnored
<1> DEFINE All == IInv /\ LossInv /\ RpcInv /\ LastCopy /\ SeqInv
<1>1. Init => All
  BY LlcInit, LossInit, RpcStart, CopyInit, SeqStart DEF CopyInv
<1>2. All /\ [Next]_vars => All'
  BY LlcNext, LossNext, RpcStep, CopyKept, SeqStep DEF Steady, CopyInv, IInv
<1>3. All => (AgentDropRepeat => aRx = aLast)
  BY DEF RpcInv, NotGivenUp, LastCopy, AgentDropRepeat, AgentRxStep
<1>4. All => (CtrlDropRepeat => cRx = cLast)
  <2> SUFFICES ASSUME All, CtrlDropRepeat PROVE cRx = cLast
    OBVIOUS
  <2>1. cRx = dlPrev /\ dlPrev # None /\ dlPrev.seq = cSeen
    BY DEF CtrlDropRepeat, RxTaskStep, IsRepeat, RpcInv, Booting
  <2>2. cSeen # Invalid
    BY <2>1, LlcAssumption DEF SeqInv, SendTypes, Seqs, Invalid
  <2> QED BY <2>1, <2>2 DEF SeqInv, SeenLast
<1> HIDE DEF All
<1> QED BY <1>1, <1>2, <1>3, <1>4, PTL DEF Spec, OnlyRepeatsIgnored

=============================================================================
