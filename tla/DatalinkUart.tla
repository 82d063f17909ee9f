---------------------------- MODULE DatalinkUart ----------------------------
(***************************************************************************)
(* The Agent's UART data link on its receive side: the interrupt handlers, *)
(* ring buffer and thread of mm_shims/mmhal_uart.c, the SLIP decoder of    *)
(* slip/slip.c and the framing of mmagic_datalink_uart.c, fed by a         *)
(* Controller that sends SLIP frames over a line that may harm a byte.     *)
(*                                                                         *)
(* A byte is its value and, for the properties and for the checksum, the   *)
(* number of the frame it was sent in.  Values stand for what the code     *)
(* tells apart; both bytes of a checksum are one.                          *)
(***************************************************************************)
EXTENDS Integers, Sequences, SequencesExt, FiniteSets

CONSTANTS
  RingSize,        \* RX_RINGBUF_SIZE (128)
  MaxLength,       \* max_rx_packet_size
  Payloads,        \* what the Controller sends, sequences of values
  Headers,         \* and the headers it sends them with
  MaxFrames,       \* bound on the frames sent
  MaxNoise,        \* bound on the bytes harmed on the line
  FaultValues,     \* what noise may make of a byte
  MaxAllocFails    \* bound on the failures of mmbuf_alloc_on_heap

\* SLIP_FRAME_*, "data" for any other value; 0x00, the header of a plain
\* packet; 0x80, that of a packet with a checksum; the checksum.
Special == {"END", "ESC", "ESC_END", "ESC_ESC"}
Values  == Special \cup {"data", "plain", "checked", "crc"}

ASSUME UartAssumption ==
  /\ RingSize \in Nat /\ RingSize > 1
  /\ MaxLength \in Nat \ {0}
  /\ Payloads \subseteq Seq(Values \ {"crc"})
  /\ Headers \subseteq {"plain", "checked"} /\ FaultValues \subseteq Values \ {"crc"}
  /\ {MaxFrames, MaxNoise, MaxAllocFails} \subseteq Nat

VARIABLES
  sent,        \* the packets the Controller has sent
  line,        \* bytes under way
  ring,        \* mmhal_uart.rx_ringbuf: buf, wr, rd
  rx,          \* the receive thread: its step, the bytes of its burst still
               \* to hand on, as indices, and its notification
  slip,        \* slip_rx_state: what is received, the limit, escape
  rxbuf,       \* is there a receive buffer?
  delivered,   \* what rx_buffer_callback was given
  sleep,       \* the veto, EXTI10, a task inside set_deep_sleep_mode, and
               \* whether the processor is in deep sleep
  harmed,      \* frames of which a byte was lost or changed
  bounds       \* faults, allocFails, and calls of set_deep_sleep_mode so far

uartVars == <<sent, line, ring, rx, slip, rxbuf, delivered, sleep, harmed, bounds>>

Byte(v, f)  == [val |-> v, frame |-> f]
Vals(bytes) == [i \in DOMAIN bytes |-> bytes[i].val]
Harm(bytes) == harmed \cup {bytes[i].frame : i \in DOMAIN bytes}
Count(what) == bounds' = [bounds EXCEPT ![what] = @ + 1]
-----------------------------------------------------------------------------
\* The Controller, whose framing is slip_tx.

Escaped(v) ==
  CASE v = "END" -> <<"ESC", "ESC_END">>
    [] v = "ESC" -> <<"ESC", "ESC_ESC">>
    [] OTHER     -> <<v>>

SlipFrame(packet) ==
  <<"END">> \o FlattenSeq([i \in DOMAIN packet |-> Escaped(packet[i])]) \o <<"END">>

Packet(header, payload) ==
  <<header>> \o (IF header = "checked" THEN <<"crc">> ELSE <<>>) \o payload

ControllerSends ==
  \E header \in Headers, payload \in Payloads :
    LET frame == SlipFrame(Packet(header, payload)) IN
    /\ line = <<>> /\ Len(sent) < MaxFrames
    /\ sent' = Append(sent, [header |-> header, payload |-> payload])
    /\ line' = [i \in DOMAIN frame |-> Byte(frame[i], Len(sent) + 1)]
    /\ UNCHANGED <<ring, rx, slip, rxbuf, delivered, sleep, harmed, bounds>>
-----------------------------------------------------------------------------
\* Interrupts.

Next1(i) == (i + 1) % RingSize

\* Bytes that the thread has not seen, oldest first.
Unseen ==
  LET from  == IF rx.step = "burst" THEN rx.at ELSE ring.rd
      count == (ring.wr + RingSize - from) % RingSize
  IN [i \in 1..count |-> ring.buf[(from + i - 1) % RingSize]]

\* EXTI10_IRQHandler, at the falling edge that starts a byte.
Edge == sleep' = IF sleep.exti THEN [sleep EXCEPT !.veto = TRUE, !.exti = FALSE, !.deep = FALSE]
                 ELSE sleep

\* Mutant: the handler does not see that the ring buffer is full.
PutUnchecked(b) ==
  /\ ring' = [ring EXCEPT !.buf[ring.wr] = b, !.wr = Next1(@)] /\ UNCHANGED harmed
  /\ rx' = [rx EXCEPT !.notice = TRUE]

\* LOG_USART_IRQ_HANDLER with uart_rx_ringbuf_put: bytes that do not fit are
\* dropped, the thread is told either way.
Put(b) ==
  /\ IF Next1(ring.wr) = ring.rd
     THEN ring' = ring /\ harmed' = Harm(<<b>>)
     ELSE ring' = [ring EXCEPT !.buf[ring.wr] = b, !.wr = Next1(@)] /\ UNCHANGED harmed
  /\ rx' = [rx EXCEPT !.notice = TRUE]

ByteArrives ==
  /\ line # <<>> /\ ~sleep.deep
  /\ line' = Tail(line)
  /\ Edge /\ Put(Head(line))
  /\ UNCHANGED <<sent, slip, rxbuf, delivered, bounds>>

\* The peripheral's clock is off: the byte can only wake the processor.
ByteWhileAsleep ==
  /\ line # <<>> /\ sleep.deep
  /\ line' = Tail(line)
  /\ Edge /\ harmed' = Harm(<<Head(line)>>)
  /\ UNCHANGED <<sent, ring, rx, slip, rxbuf, delivered, bounds>>

\* Noise changes a byte; bytes are lost where the ring buffer is full.
LineFault ==
  /\ line # <<>> /\ bounds.faults < MaxNoise
  /\ \E v \in FaultValues \ {Head(line).val} :
       line' = <<Byte(v, Head(line).frame)>> \o Tail(line)
  /\ harmed' = Harm(<<Head(line)>>) /\ Count("faults")
  /\ UNCHANGED <<sent, ring, rx, slip, rxbuf, delivered, sleep>>
-----------------------------------------------------------------------------
\* slip_rx.

SlipAppend(s, b) ==
  IF Len(s.got) = s.limit THEN s ELSE [s EXCEPT !.got = Append(@, b)]

Unescaped(b) == Byte(IF b.val = "ESC_END" THEN "END" ELSE "ESC", b.frame)

SlipComplete(s, b) == b.val = "END" /\ ~s.escape /\ s.got # <<>>

\* The state after a byte that completes no packet.
SlipRx(s, b) ==
  LET plain == [s EXCEPT !.escape = FALSE]
      error == [plain EXCEPT !.got = <<>>]
  IN CASE b.val = "END" -> IF s.escape THEN error ELSE s
       [] b.val # "END" /\ s.escape ->
            IF b.val \in {"ESC_END", "ESC_ESC"} THEN SlipAppend(plain, Unescaped(b)) ELSE error
       [] b.val = "ESC" /\ ~s.escape -> [s EXCEPT !.escape = TRUE]
       [] OTHER -> SlipAppend(s, b)

\* slip_rx_state_reinit and the state of a link that never had a buffer.
SlipReady == [got |-> <<>>, limit |-> MaxLength, escape |-> FALSE]
SlipEmpty == [got |-> <<>>, limit |-> 0, escape |-> FALSE]

\* Mutant: a new buffer does not start a new packet.
NewBufferGoesOn ==
  \/ rxbuf' = TRUE /\ slip' = [slip EXCEPT !.limit = MaxLength] /\ UNCHANGED bounds
  \/ /\ bounds.allocFails < MaxAllocFails /\ Count("allocFails")
     /\ rxbuf' = FALSE /\ UNCHANGED slip

\* datalink_init_slip_rx_state; without memory slip_rx_state stays as it was.
NewBuffer ==
  \/ rxbuf' = TRUE /\ slip' = SlipReady /\ UNCHANGED bounds
  \/ /\ bounds.allocFails < MaxAllocFails /\ Count("allocFails")
     /\ rxbuf' = FALSE /\ UNCHANGED slip
-----------------------------------------------------------------------------
\* mmagic_datalink_uart.c.

\* What a byte means as a header: 0xc0 has UART_DATALINK_FLAG_CRC_PRESENT and
\* the type of data, the other special ones no known type; "data" and "crc"
\* stand for bytes of every kind.
Kinds(v) ==
  CASE v \in {"plain", "checked"} -> {v}
    [] v = "END"                  -> {"checked"}
    [] v \in Special \ {"END"}    -> {"other"}
    [] OTHER                      -> {"plain", "checked", "other"}

\* An ideal checksum, which fits the payload it was computed of and no other.
ChecksumFits(crc, data) ==
  crc.val = "crc" /\ Vals(data) = sent[crc.frame].payload

\* datalink_process_rxbuf.
ProcessRxbuf(got, kind) ==
  LET data == IF kind = "checked" THEN Tail(Tail(got)) ELSE Tail(got) IN
  IF \/ kind = "other"
     \/ kind = "checked" /\ (Len(got) = 1 \/ ~ChecksumFits(got[2], data))
  THEN UNCHANGED delivered
  ELSE delivered' = Append(delivered, [kind |-> kind, data |-> data])

\* A byte that SLIP cannot keep harms its frame.
Kept(b) == rxbuf /\ (slip.limit > Len(slip.got) \/ b.val = "END")

\* datalink_uart_rx_handler, one byte of its loop.
RxByte ==
  /\ rx.step = "burst" /\ rx.at # rx.end
  /\ rx' = [rx EXCEPT !.at = @ + 1]
  /\ LET b == ring.buf[rx.at] IN
     /\ harmed' = IF Kept(b) THEN harmed ELSE Harm(<<b>>)
     /\ IF SlipComplete(slip, b)
        THEN /\ NewBuffer
             /\ IF rxbuf THEN \E kind \in Kinds(slip.got[1].val) : ProcessRxbuf(slip.got, kind)
                ELSE UNCHANGED delivered
        ELSE slip' = SlipRx(slip, b) /\ UNCHANGED <<rxbuf, delivered, bounds>>
  /\ UNCHANGED <<sent, line, ring, sleep>>

\* Mutant: the bytes are given back before the callback has read them.
RxBeginReleases ==
  /\ rx.step = "check" /\ ring.rd # ring.wr
  /\ LET end == IF ring.wr < ring.rd THEN RingSize ELSE ring.wr IN
     /\ rx' = [rx EXCEPT !.step = "burst", !.at = ring.rd, !.end = end]
     /\ ring' = [ring EXCEPT !.rd = end % RingSize]
  /\ IF rxbuf THEN UNCHANGED <<slip, rxbuf, bounds>> ELSE NewBuffer
  /\ UNCHANGED <<sent, line, delivered, sleep, harmed>>

\* uart_rx_process up to the callback, whose handler first tries again to get
\* a buffer.
RxBegin ==
  /\ rx.step = "check" /\ ring.rd # ring.wr
  /\ rx' = [rx EXCEPT !.step = "burst", !.at = ring.rd,
                      !.end = IF ring.wr < ring.rd THEN RingSize ELSE ring.wr]
  /\ IF rxbuf THEN UNCHANGED <<slip, rxbuf, bounds>> ELSE NewBuffer
  /\ UNCHANGED <<sent, line, ring, delivered, sleep, harmed>>

\* Mutant: the thread waits after every burst, as if there were no wrapping.
RxEndWaits ==
  /\ rx.step = "burst" /\ rx.at = rx.end
  /\ ring' = [ring EXCEPT !.rd = rx.end % RingSize]
  /\ rx' = [rx EXCEPT !.step = "wait", !.at = 0, !.end = 0]
  /\ UNCHANGED <<sent, line, slip, rxbuf, delivered, sleep, harmed, bounds>>

\* The rest of uart_rx_process.
RxEnd ==
  /\ rx.step = "burst" /\ rx.at = rx.end
  /\ ring' = [ring EXCEPT !.rd = rx.end % RingSize]
  /\ rx' = [rx EXCEPT !.step = "check", !.at = 0, !.end = 0]
  /\ UNCHANGED <<sent, line, slip, rxbuf, delivered, sleep, harmed, bounds>>

\* uart_rx_main between two calls of uart_rx_process.
RxWait ==
  /\ rx.step = "check" /\ ring.rd = ring.wr
  /\ rx' = [rx EXCEPT !.step = "wait"]
  /\ UNCHANGED <<sent, line, ring, slip, rxbuf, delivered, sleep, harmed, bounds>>

RxNoticed ==
  /\ rx.step = "wait" /\ rx.notice
  /\ rx' = [rx EXCEPT !.step = "check", !.notice = FALSE]
  /\ UNCHANGED <<sent, line, ring, slip, rxbuf, delivered, sleep, harmed, bounds>>
-----------------------------------------------------------------------------
\* Deep sleep.

\* The task of the control stream carries out a sys-deep_sleep command, which
\* came in a packet.
SetsMode == ~sleep.call /\ ~sleep.deep /\ bounds.modes < Len(delivered) /\ Count("modes")

\* mmhal_uart_set_deep_sleep_mode(ONE_SHOT): the interrupt is enabled, then the
\* veto cleared.
ArmWakeUp ==
  /\ SetsMode
  /\ sleep' = [sleep EXCEPT !.exti = TRUE, !.call = TRUE]
  /\ UNCHANGED <<sent, line, ring, rx, slip, rxbuf, delivered, harmed>>

ClearVeto ==
  /\ sleep.call
  /\ sleep' = [sleep EXCEPT !.veto = FALSE, !.call = FALSE]
  /\ UNCHANGED <<sent, line, ring, rx, slip, rxbuf, delivered, harmed, bounds>>

\* The same with DISABLED; mmagic_datalink_agent_init has done this.
DisableSleep ==
  /\ SetsMode
  /\ sleep' = [sleep EXCEPT !.veto = TRUE, !.exti = FALSE]
  /\ UNCHANGED <<sent, line, ring, rx, slip, rxbuf, delivered, harmed>>

\* mmhal_sleep_prepare, with every task blocked.
DeepSleep ==
  /\ ~sleep.veto /\ ~sleep.call /\ ~sleep.deep
  /\ rx.step = "wait" /\ ~rx.notice
  /\ sleep' = [sleep EXCEPT !.deep = TRUE]
  /\ UNCHANGED <<sent, line, ring, rx, slip, rxbuf, delivered, harmed, bounds>>

\* Something else, a timer or the transceiver, ends the sleep.
WakeUp ==
  /\ sleep.deep
  /\ sleep' = [sleep EXCEPT !.deep = FALSE]
  /\ UNCHANGED <<sent, line, ring, rx, slip, rxbuf, delivered, harmed, bounds>>
-----------------------------------------------------------------------------
\* mmagic_datalink_agent_init and mmhal_uart_init.
UartInit ==
  /\ sent = <<>> /\ line = <<>> /\ delivered = <<>> /\ harmed = {}
  /\ ring = [buf |-> [i \in 0..RingSize - 1 |-> Byte("data", 0)], wr |-> 0, rd |-> 0]
  /\ rx = [step |-> "check", at |-> 0, end |-> 0, notice |-> FALSE]
  /\ sleep = [veto |-> TRUE, exti |-> FALSE, call |-> FALSE, deep |-> FALSE]
  /\ \E ok \in BOOLEAN :
       /\ ok \/ MaxAllocFails > 0
       /\ rxbuf = ok /\ slip = IF ok THEN SlipReady ELSE SlipEmpty
       /\ bounds = [faults |-> 0, allocFails |-> IF ok THEN 0 ELSE 1, modes |-> 0]

RxThread == RxBegin \/ RxByte \/ RxEnd \/ RxWait \/ RxNoticed
Line     == ByteArrives \/ ByteWhileAsleep
Sleeping == ArmWakeUp \/ ClearVeto \/ DisableSleep \/ DeepSleep \/ WakeUp

UartNext == ControllerSends \/ Line \/ LineFault \/ RxThread \/ Sleeping

UartSpec == UartInit /\ [][UartNext]_uartVars

\* Bytes under way arrive and the scheduler runs a thread that is ready; no
\* frame has to be sent and no mode set.
UartFairSpec == UartSpec /\ WF_uartVars(Line) /\ WF_uartVars(RxThread)
-----------------------------------------------------------------------------
\* Properties.

Bytes == [val : Values, frame : 0..MaxFrames]

\* Every variable keeps its type, and nothing received exceeds its buffer.
UartTypeOK ==
  /\ sent \in Seq([header : Headers, payload : Payloads]) /\ Len(sent) <= MaxFrames
  /\ line \in Seq(Bytes)
  /\ ring \in [buf : [0..RingSize - 1 -> Bytes], wr : 0..RingSize - 1, rd : 0..RingSize - 1]
  /\ rx \in [step : {"check", "burst", "wait"}, at : 0..RingSize, end : 0..RingSize,
             notice : BOOLEAN]
  /\ rx.at <= rx.end
  /\ slip \in [got : Seq(Bytes), limit : {0, MaxLength}, escape : BOOLEAN]
  /\ Len(slip.got) <= slip.limit
  /\ rxbuf \in BOOLEAN
  /\ delivered \in Seq([kind : {"plain", "checked"}, data : Seq(Bytes)])
  /\ sleep \in [veto : BOOLEAN, exti : BOOLEAN, call : BOOLEAN, deep : BOOLEAN]
  /\ harmed \subseteq 0..MaxFrames
  /\ bounds \in [faults : 0..MaxNoise, allocFails : 0..MaxAllocFails, modes : Nat]

Whole(f)   == [i \in DOMAIN sent[f].payload |-> Byte(sent[f].payload[i], f)]
Copies(f)  == {i \in DOMAIN delivered : delivered[i].data = Whole(f)}
Passing(f) == \E b \in ToSet(line \o Unseen) : b.frame = f

\* SLIP recovers at the next frame: one of which no byte was lost or changed
\* is handed on whole and exactly once, whatever became of those before it,
\* and of none are two copies handed on.
WholeFramesArrive ==
  \A f \in DOMAIN sent :
    /\ Cardinality(Copies(f)) <= 1
    /\ ~Passing(f) /\ f \notin harmed => Copies(f) # {}

\* Bytes are handed on in the order in which they were sent, across packets:
\* the interrupt handler never overtakes the thread in the ring buffer.
InOrder ==
  LET all == FlattenSeq([i \in DOMAIN delivered |-> delivered[i].data]) IN
  \A i, j \in DOMAIN all : i < j => all[i].frame <= all[j].frame

\* The processor goes into deep sleep only after the thread has handled every
\* byte in the ring buffer: its notification is not lost.
SleepsWhenRead == sleep.deep => Unseen = <<>>

\* While the UART does not veto it, deep sleep ends with the next byte: "Enable
\* deep sleep until activity occurs on data-link transport" (mmhal_uart.h:75).
\* An edge between the two steps of ONE_SHOT uses the interrupt up, then the
\* veto is cleared.
CanWake == sleep.deep => sleep.exti

\* A packet that was handed on is not written to: "The callback takes ownership
\* of the buffer" (mmagic_datalink_agent.h:75).
OwnBufferOnly == [][slip'.got # slip.got => rxbuf \/ rxbuf']_uartVars

\* The ring buffer is a queue of RingSize - 1 bytes that refuses one only when
\* it is full and gives up bytes from its front.
Held == [i \in 1..(ring.wr + RingSize - ring.rd) % RingSize |->
           ring.buf[(ring.rd + i - 1) % RingSize]]
Fifo == INSTANCE ByteFifo WITH queue <- Held, Capacity <- RingSize - 1, Items <- Bytes
RefinesFifo == Fifo!Spec

\* The thread sleeps on no byte: every frame sent is handed on or has lost a
\* byte.
FrameDecided ==
  \A f \in 1..MaxFrames :
    f \in DOMAIN sent ~> f \in harmed \/ (f \in DOMAIN sent /\ Copies(f) # {})
=============================================================================
