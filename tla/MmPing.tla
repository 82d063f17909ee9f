------------------------------- MODULE MmPing -------------------------------
(***************************************************************************)
(* mmping/mmping_lwip.c: the one ping session, shared by the application's *)
(* calls, which take no lock, and by the ping task and lwIP's thread,      *)
(* which hold the lock of the TCP/IP core from their first look at the     *)
(* session to their last store.                                            *)
(*                                                                         *)
(* Time is left out: a timeout may have passed whenever it is looked at.   *)
(* An echo request is its session ID and sequence number; the network      *)
(* answers it, or not, once or repeatedly, in any order.                   *)
(***************************************************************************)
EXTENDS Integers, FiniteSets

CONSTANTS
  DupBits,         \* N_DUP_CHECK_BITS (128)
  MaxRetries,      \* MMPING_MAX_RETRIES (2)
  Counts,          \* values of args->ping_count
  MaxStarts,       \* bound on the sessions
  MaxFailures,     \* bound on requests not sent and on tasks not created
  QuietStarts      \* do the other threads keep away from mmping_start?

ASSUME PingAssumption ==
  /\ DupBits \in Nat /\ DupBits > 1
  /\ MaxRetries \in Nat /\ MaxStarts \in Nat /\ MaxFailures \in Nat
  /\ Counts \subseteq Nat \ {0} /\ \E c \in Counts : \A d \in Counts : d <= c
  /\ QuietStarts \in BOOLEAN

VARIABLES
  session,     \* ping_session: state, id, total, recv, last, retries, count
  dup,         \* dup_check_bitmap, the set of bits that are set
  handle,      \* is ping_task_handle other than NULL?
  nextId,      \* ping_next_session_id
  api,         \* the application's call: "none" or the step it is at
  task,        \* the ping task: "off" or the step it is at
  rx,          \* lwIP's thread in ping_recv: its step and the reply
  net,         \* replies under way
  counted,     \* replies of this session that were added to recv_count
  tries,       \* for each sequence number, how often it was to be sent
  stopped,     \* was mmping_stop called in this session?
  failures     \* so far

vars == <<session, dup, handle, nextId, api, task, rx, net, counted, tries,
          stopped, failures>>

\* mmping_start assigns IDs from a random one on; it is 1 here.
Ids      == 1..MaxStarts
MaxCount == CHOOSE c \in Counts : \A d \in Counts : d <= c
Seqs     == 0..(MaxCount - 1)
NoRx     == [pc |-> "idle", id |-> 0, seq |-> 0]
Zeroed   == [state |-> "IDLE", id |-> 0, total |-> 0, recv |-> 0, last |-> 0,
             retries |-> 0, count |-> 0]

\* The lock of the TCP/IP core.
LockFree == task \notin {"due", "unanswered"} /\ rx.pc = "idle"
Quiet    == QuietStarts => LockFree /\ task # "ending"
Entered  == LockFree /\ (QuietStarts => api = "none")

Init ==
  /\ session = Zeroed /\ dup = {} /\ handle = FALSE /\ nextId = 1
  /\ api = "none" /\ task = "off" /\ rx = NoRx /\ net = {}
  /\ counted = {} /\ tries = [s \in Seqs |-> 0] /\ stopped = FALSE
  /\ failures = 0
-----------------------------------------------------------------------------
\* The application.

\* mmping_start, to the assignment of session_id: nothing another thread does
\* between memset and that assignment depends on which of the two it saw.
StartReset ==
  /\ api = "none" /\ Quiet /\ nextId <= MaxStarts
  /\ session.state = "IDLE"
  /\ session' = [Zeroed EXCEPT !.id = nextId]
  /\ dup' = {} /\ nextId' = nextId + 1
  /\ counted' = {} /\ tries' = [s \in Seqs |-> 0] /\ stopped' = FALSE
  /\ api' = "reset"
  /\ UNCHANGED <<handle, task, rx, net, failures>>

\* ipaddr_aton does not know the address: the call returns 0.
StartRefused ==
  /\ api = "reset"
  /\ api' = "none"
  /\ stopped' = TRUE
  /\ UNCHANGED <<session, dup, handle, nextId, task, rx, net, counted, tries,
                 failures>>

StartArm ==
  /\ api = "reset"
  /\ \E c \in Counts :
       session' = [session EXCEPT !.count = c, !.state = "AWAITING_SND"]
  /\ api' = "armed"
  /\ UNCHANGED <<dup, handle, nextId, task, rx, net, counted, tries, stopped,
                 failures>>

StartLastSeq ==
  /\ api = "armed"
  /\ session' = [session EXCEPT !.last = -1]
  /\ api' = "task"
  /\ UNCHANGED <<dup, handle, nextId, task, rx, net, counted, tries, stopped,
                 failures>>

\* The new task has a low priority: its handle is stored before it runs.
StartCreate ==
  /\ api = "task" /\ ~handle
  /\ handle' = TRUE /\ task' = "loop" /\ api' = "none"
  /\ UNCHANGED <<session, dup, nextId, rx, net, counted, tries, stopped,
                 failures>>

\* No memory for the task: 0 is returned, and the state stays as it is.
StartNoTask ==
  /\ api = "task" /\ ~handle /\ failures < MaxFailures
  /\ failures' = failures + 1
  /\ api' = "none"
  /\ UNCHANGED <<session, dup, handle, nextId, task, rx, net, counted, tries,
                 stopped>>

\* A notification only shortens a wait that ends by itself.
StartNotify ==
  /\ api = "task" /\ handle
  /\ api' = "none"
  /\ UNCHANGED <<session, dup, handle, nextId, task, rx, net, counted, tries,
                 stopped, failures>>

\* mmping_stop, whatever the other threads are doing.
Stop ==
  /\ api = "none" /\ session.state # "IDLE"
  /\ session' = [session EXCEPT !.state = "IDLE"]
  /\ stopped' = TRUE
  /\ UNCHANGED <<dup, handle, nextId, api, task, rx, net, counted, tries,
                 failures>>
-----------------------------------------------------------------------------
\* The ping task.

\* The loop's test and that of the timeout, which has passed; the state that
\* ping_session_timeout finds decides what it does.
TaskLook ==
  /\ task = "loop" /\ Entered
  /\ task' = CASE session.state = "AWAITING_SND" -> "due"
               [] session.state = "AWAITING_RSP" -> "unanswered"
               [] session.state = "IDLE"         -> "ending"
  /\ UNCHANGED <<session, dup, handle, nextId, api, rx, net, counted, tries,
                 stopped, failures>>

\* ping_echo_pbuf: what a reply returns of the request.
Echo(seq) == [id |-> session.id, seq |-> seq]

\* ping_send_req: the request goes out, and the network makes a reply of it;
\* or no buffer, no route, or the network loses one of the two.
SendReq(seq) ==
  /\ tries' = [tries EXCEPT ![seq] = @ + 1]
  /\ \/ net' = net \cup {Echo(seq)} /\ UNCHANGED failures
     \/ failures < MaxFailures /\ failures' = failures + 1 /\ UNCHANGED net

\* Mutant: the retries of the request before are not forgotten.
TaskSendKeepsRetries ==
  /\ task = "due"
  /\ LET seq == session.total IN
       /\ session' = [session EXCEPT !.total = seq + 1, !.state = "AWAITING_RSP"]
       /\ dup' = dup \ {(seq + 1) % DupBits}
       /\ SendReq(seq)
  /\ task' = "loop"
  /\ UNCHANGED <<handle, nextId, api, rx, counted, stopped>>

\* The bit that is cleared is that of the next request.
TaskSend ==
  /\ task = "due"
  /\ LET seq == session.total IN
       /\ session' = [session EXCEPT !.total = seq + 1, !.retries = 0,
                                     !.state = "AWAITING_RSP"]
       /\ dup' = dup \ {(seq + 1) % DupBits}
       /\ SendReq(seq)
  /\ task' = "loop"
  /\ UNCHANGED <<handle, nextId, api, rx, counted, stopped>>

TaskRetry ==
  /\ task = "unanswered" /\ session.retries < MaxRetries
  /\ session' = [session EXCEPT !.retries = @ + 1]
  /\ SendReq(session.total - 1)
  /\ task' = "loop"
  /\ UNCHANGED <<dup, handle, nextId, api, rx, counted, stopped>>

\* Mutant: after the last request the session waits on.
TaskGivesUpNever ==
  /\ task = "unanswered" /\ session.retries >= MaxRetries
  /\ session' = [session EXCEPT !.state = IF session.total < session.count
                                          THEN "AWAITING_SND" ELSE @]
  /\ task' = "loop"
  /\ UNCHANGED <<dup, handle, nextId, api, rx, net, counted, tries, stopped,
                 failures>>

TaskGivesUp ==
  /\ task = "unanswered" /\ session.retries >= MaxRetries
  /\ session' = [session EXCEPT !.state = IF session.total < session.count
                                          THEN "AWAITING_SND" ELSE "IDLE"]
  /\ task' = "loop"
  /\ UNCHANGED <<dup, handle, nextId, api, rx, net, counted, tries, stopped,
                 failures>>

\* raw_remove was called under the lock; the handle is cleared after it.
TaskEnds ==
  /\ task = "ending"
  /\ task' = "off" /\ handle' = FALSE
  /\ UNCHANGED <<session, dup, nextId, api, rx, net, counted, tries, stopped,
                 failures>>
-----------------------------------------------------------------------------
\* lwIP's thread.  Replies come while the task's raw PCB exists.

\* The network holds no reply while DupBits requests are sent.
TooOld(r) == r.id = session.id /\ r.seq + DupBits <= session.total

Stays(r) == net' = net \ {r} \/ net' = net

\* Mutant: the session ID of a reply is not compared.
RecvCheckAnyId ==
  /\ task = "loop" /\ Entered
  /\ \E r \in net :
       /\ ~TooOld(r) /\ Stays(r)
       /\ IF r.seq % DupBits \in dup
            THEN UNCHANGED <<dup, rx>>
            ELSE /\ dup' = dup \cup {r.seq % DupBits}
                 /\ rx' \in {NoRx, [pc |-> "count", id |-> r.id, seq |-> r.seq]}
  /\ UNCHANGED <<session, handle, nextId, api, task, counted, tries, stopped,
                 failures>>

\* process_ping_response, to the test and the setting of the duplicate bit;
\* a reply without the payload that was sent is not counted.
RecvCheck ==
  /\ task = "loop" /\ Entered
  /\ \E r \in net :
       /\ ~TooOld(r) /\ Stays(r)
       /\ IF r.id # session.id \/ r.seq % DupBits \in dup
            THEN UNCHANGED <<dup, rx>>
            ELSE /\ dup' = dup \cup {r.seq % DupBits}
                 /\ rx' \in {NoRx, [pc |-> "count", id |-> r.id, seq |-> r.seq]}
  /\ UNCHANGED <<session, handle, nextId, api, task, counted, tries, stopped,
                 failures>>

\* Mutant: the test for the latest request is off by one.
RecvCountLate ==
  /\ rx.pc = "count"
  /\ session' = [session EXCEPT !.recv = @ + 1, !.last = rx.seq]
  /\ counted' = counted \cup {s \in {rx.seq} : rx.id = session.id}
  /\ rx' = IF rx.seq = session.total /\ session.state = "AWAITING_RSP"
             THEN [rx EXCEPT !.pc = "ack"] ELSE NoRx
  /\ UNCHANGED <<dup, handle, nextId, api, task, net, tries, stopped, failures>>

\* The statistics, and the test whether this answers the latest request.
RecvCount ==
  /\ rx.pc = "count"
  /\ session' = [session EXCEPT !.recv = @ + 1, !.last = rx.seq]
  /\ counted' = counted \cup {s \in {rx.seq} : rx.id = session.id}
  /\ rx' = IF rx.seq = session.total - 1 /\ session.state = "AWAITING_RSP"
             THEN [rx EXCEPT !.pc = "ack"] ELSE NoRx
  /\ UNCHANGED <<dup, handle, nextId, api, task, net, tries, stopped, failures>>

\* process_ping_acknowledgement behind its test of the state.
RecvAck ==
  /\ rx.pc = "ack"
  /\ session' = [session EXCEPT !.state = IF session.last >= session.count - 1
                                          THEN "IDLE" ELSE "AWAITING_SND"]
  /\ rx' = NoRx
  /\ UNCHANGED <<dup, handle, nextId, api, task, net, counted, tries, stopped,
                 failures>>

NetLoses ==
  /\ \E r \in net : net' = net \ {r}
  /\ UNCHANGED <<session, dup, handle, nextId, api, task, rx, counted, tries,
                 stopped, failures>>
-----------------------------------------------------------------------------
Start == \/ StartReset \/ StartRefused \/ StartArm \/ StartLastSeq
         \/ StartCreate \/ StartNoTask \/ StartNotify
Task  == TaskLook \/ TaskSend \/ TaskRetry \/ TaskGivesUp \/ TaskEnds
Recv  == RecvCheck \/ RecvCount \/ RecvAck

Next == Start \/ Stop \/ Task \/ Recv \/ NetLoses

Spec == Init /\ [][Next]_vars

\* A call that has begun goes on, timeouts pass, and the scheduler runs the
\* task and lwIP's thread; nobody must call and no reply must come.  The task
\* waits for the lock in a queue: it does not lose it to replies for ever.
FairSpec == /\ Spec
            /\ WF_vars(Start /\ api # "none")
            /\ SF_vars(TaskLook) /\ WF_vars(Task /\ task # "loop")
            /\ WF_vars(RecvCount \/ RecvAck)
-----------------------------------------------------------------------------
TypeOK ==
  /\ session \in [state: {"IDLE", "AWAITING_SND", "AWAITING_RSP"},
                  id: Ids \cup {0}, total: Nat, recv: Nat,
                  last: Seqs \cup {-1}, retries: 0..MaxRetries,
                  count: Counts \cup {0}]
  /\ dup \subseteq 0..(DupBits - 1) /\ handle \in BOOLEAN
  /\ nextId \in 1..(MaxStarts + 1)
  /\ api \in {"none", "reset", "armed", "task"}
  /\ task \in {"off", "loop", "due", "unanswered", "ending"}
  /\ rx \in [pc: {"idle", "count", "ack"}, id: Ids \cup {0}, seq: Seqs]
  /\ net \subseteq [id: Ids, seq: Seqs]
  /\ counted \subseteq Seqs /\ tries \in [Seqs -> 0..(MaxRetries + 1)]
  /\ stopped \in BOOLEAN /\ failures \in 0..MaxFailures

\* The statistics are those of this session: each sequence number that was
\* sent is counted at most once as received, however often it was retried or
\* the reply repeated, and no reply of an earlier session is counted
\* (process_ping_response, its ID and duplicate tests; mmping_start's memset).
CountsAgree ==
  /\ session.recv = Cardinality(counted)
  /\ counted \subseteq 0..(session.total - 1)
  /\ session.total <= session.count

\* A session that nobody stops leaves no request behind: each is answered or
\* was sent MMPING_MAX_RETRIES more times before the next is sent or the
\* session ends, and it ends with the last (ping_session_timeout, retries).
GivesUpAfterRetries ==
  ~stopped /\ api = "none" =>
    \A s \in 0..(session.count - 1) :
      \/ s \in counted
      \/ tries[s] = MaxRetries + 1
      \/ session.state # "IDLE" /\ s >= session.total - 1

\* No request is sent, or sent again, once its reply was counted: the
\* acknowledgement reaches the task whatever is under way between lwIP's thread
\* and mmping_stop (process_ping_acknowledgement, ping_session_timeout).
NoNeedlessRequest ==
  [][\A s \in Seqs : tries'[s] > tries[s] => s \notin counted]_vars

\* "Stop any running ping request" (mmping.h): the session that mmping_stop
\* ended is not going on.
StopIsHeard == stopped => session.state = "IDLE"

\* A session ends: its task finds the state idle and leaves
\* (ping_task; ping_session_timeout, process_ping_acknowledgement).
SessionEnds == handle ~> ~handle
=============================================================================
