---------------------------- MODULE MmPingProofs ----------------------------
(***************************************************************************)
(* The statistics of a ping session are those of the session, for any      *)
(* window of the duplicate check, any number of requests, retries and      *)
(* sessions, whatever the network does within the window and whenever      *)
(* mmping_stop is called, as long as the threads keep away from            *)
(* mmping_start.                                                           *)
(*                                                                         *)
(* The duplicate check forgets: the bit of a request is cleared when the   *)
(* one before it is sent.  It still recognises every reply that can come,  *)
(* because two numbers less than DupBits apart have different bits         *)
(* (Remembered, BitsApart).                                                *)
(***************************************************************************)
EXTENDS MmPing, FiniteSetTheorems, TLAPS

States == {"IDLE", "AWAITING_SND", "AWAITING_RSP"}

Types ==
  /\ session \in [state: States, id: Nat, total: Nat, recv: Nat, last: Int,
                  retries: Nat, count: Nat]
  /\ dup \subseteq Nat /\ nextId \in Nat
  /\ api \in {"none", "reset", "armed", "task"}
  /\ task \in {"off", "loop", "due", "unanswered", "ending"}
  /\ rx \in [pc: {"idle", "count", "ack"}, id: Nat, seq: Nat]
  /\ net \subseteq [id: Nat, seq: Nat]
  /\ counted \subseteq Nat /\ IsFiniteSet(counted)

\* One thread is inside the session at a time, and none during mmping_start.
Exclusive ==
  /\ task \in {"due", "unanswered"} => rx.pc = "idle"
  /\ api # "none" => task \in {"off", "loop"} /\ rx.pc = "idle"
  /\ api = "reset" => session.state = "IDLE" /\ session.total = 0

\* A request is sent only while one is left, and answered only after one was.
InRange ==
  /\ session.state = "AWAITING_SND" \/ task = "due" => session.total < session.count
  /\ session.state = "AWAITING_RSP" \/ task = "unanswered" => session.total > 0

\* Replies are of requests that were sent; the one that lwIP's thread has is
\* of this session and, before it is counted, new.
RepliesKnown ==
  /\ session.id < nextId
  /\ \A r \in net : r.id < nextId /\ (r.id = session.id => r.seq < session.total)
  /\ rx.pc # "idle" => rx.id = session.id /\ rx.seq < session.total
  /\ rx.pc = "count" => rx.seq \notin counted /\ rx.seq % DupBits \in dup
  /\ rx.pc = "ack" => session.last = session.total - 1

\* The bitmap remembers the replies that may come again.
Remembered ==
  \A s \in counted : s + DupBits > session.total => s % DupBits \in dup

PingInv ==
  /\ Types /\ Exclusive /\ InRange /\ RepliesKnown /\ Remembered /\ CountsAgree
-----------------------------------------------------------------------------
\* Numbers less than D apart leave different remainders.
LEMMA Multiple ==
  ASSUME NEW D \in Nat \ {0}, NEW k \in Int, k >= 1
  PROVE  D * k >= D
BY SMT

LEMMA BitsApart ==
  ASSUME NEW D \in Nat \ {0}, NEW a \in Nat, NEW b \in Nat, a < b, b < a + D
  PROVE  a % D # b % D
<1> DEFINE p == a \div D
           q == b \div D
<1>1. SUFFICES ASSUME a % D = b % D PROVE FALSE
  OBVIOUS
<1>2. /\ p \in Int /\ q \in Int
      /\ a = D * p + (a % D) /\ b = D * q + (b % D)
  OBVIOUS
<1> HIDE DEF p, q
<1>3. b - a = D * (q - p)
  BY <1>1, <1>2
<1>4. CASE q - p >= 1
  BY <1>2, <1>3, <1>4, Multiple
<1>5. CASE q - p <= 0
  <2>1. D * (p - q) >= 0
    BY <1>2, <1>5
  <2> QED BY <1>2, <1>3, <2>1
<1> QED BY <1>2, <1>4, <1>5

LEMMA BitRange ==
  ASSUME NEW s \in Nat
  PROVE  s % DupBits \in Nat
BY PingAssumption
-----------------------------------------------------------------------------
LEMMA PingInit == Init => PingInv
BY FS_EmptySet DEF Init, PingInv, Types, States, Exclusive, InRange, RepliesKnown,
   Remembered, CountsAgree, Zeroed, NoRx

LEMMA StartKeeps ==
  ASSUME QuietStarts, PingInv, Start
  PROVE  PingInv'
<1> USE DEF PingInv
<1>1. CASE StartReset
  BY <1>1, FS_EmptySet, PingAssumption
     DEF StartReset, Quiet, LockFree, Zeroed, Types, States, Exclusive, InRange,
         RepliesKnown, Remembered, CountsAgree
<1>2. CASE StartRefused
  BY <1>2 DEF StartRefused, Types, States, Exclusive, InRange, RepliesKnown,
              Remembered, CountsAgree
<1>3. CASE StartArm
  <2>1. PICK c \in Counts :
          session' = [session EXCEPT !.count = c, !.state = "AWAITING_SND"]
    BY <1>3 DEF StartArm
  <2>2. /\ session'.total = 0 /\ session.total = 0 /\ session'.count \in Nat \ {0}
        /\ session'.recv = session.recv /\ session'.id = session.id
        /\ session'.last = session.last /\ session'.state = "AWAITING_SND"
    BY <1>3, <2>1, PingAssumption DEF StartArm, Types, States, Exclusive
  <2>3. Types'
    BY <1>3, <2>1, PingAssumption DEF StartArm, Types, States
  <2> QED
    BY <1>3, <2>2, <2>3
       DEF StartArm, Types, Exclusive, InRange, RepliesKnown, Remembered, CountsAgree
<1>4. CASE StartLastSeq
  BY <1>4 DEF StartLastSeq, Types, States, Exclusive, InRange, RepliesKnown,
              Remembered, CountsAgree
<1>5. CASE StartCreate
  BY <1>5 DEF StartCreate, Types, States, Exclusive, InRange, RepliesKnown,
              Remembered, CountsAgree
<1>6. CASE StartNoTask \/ StartNotify
  BY <1>6 DEF StartNoTask, StartNotify, Types, States, Exclusive, InRange,
              RepliesKnown, Remembered, CountsAgree
<1> QED BY <1>1, <1>2, <1>3, <1>4, <1>5, <1>6 DEF Start

LEMMA StopKeeps ==
  ASSUME QuietStarts, PingInv, Stop \/ NetLoses
  PROVE  PingInv'
<1> USE DEF PingInv
<1>1. CASE Stop
  BY <1>1 DEF Stop, Types, States, Exclusive, InRange, RepliesKnown, Remembered,
              CountsAgree
<1>2. CASE NetLoses
  BY <1>2 DEF NetLoses, Types, States, Exclusive, InRange, RepliesKnown,
              Remembered, CountsAgree
<1> QED BY <1>1, <1>2
-----------------------------------------------------------------------------
\* A request adds at most its own reply to the network.
LEMMA SendReqAdds ==
  ASSUME NEW seq, SendReq(seq)
  PROVE  net \subseteq net' /\ net' \subseteq net \cup {Echo(seq)}
BY DEF SendReq

\* Sending the next request clears a bit that no reply can need: the counted
\* replies of the window have other bits.
LEMMA SendKeeps ==
  ASSUME PingInv, TaskSend
  PROVE  PingInv'
<1> USE DEF PingInv
<1> DEFINE n == session.total
<1>1. /\ task = "due" /\ rx.pc = "idle" /\ api = "none" /\ n \in Nat
      /\ n < session.count
      /\ UNCHANGED <<nextId, api, rx, counted>> /\ task' = "loop"
  BY DEF TaskSend, Exclusive, InRange, Types
<1>2. /\ session'.total = n + 1 /\ session'.state = "AWAITING_RSP"
      /\ session'.id = session.id /\ session'.recv = session.recv
      /\ session'.count = session.count
      /\ session' \in [state: States, id: Nat, total: Nat, recv: Nat, last: Int,
                       retries: Nat, count: Nat]
  <2>1. session' = [session EXCEPT !.total = n + 1, !.retries = 0,
                                   !.state = "AWAITING_RSP"]
    BY DEF TaskSend
  <2>2. session \in [state: States, id: Nat, total: Nat, recv: Nat, last: Int,
                     retries: Nat, count: Nat]
    BY DEF Types
  <2>3. "AWAITING_RSP" \in States /\ n + 1 \in Nat /\ 0 \in Nat
    BY <1>1 DEF States
  <2> HIDE DEF n
  <2> QED BY <2>1, <2>2, <2>3
<1>3. net' \subseteq net \cup {[id |-> session.id, seq |-> n]}
  BY SendReqAdds DEF TaskSend, Echo
<1>4. dup' = dup \ {(n + 1) % DupBits}
  BY DEF TaskSend
<1>5. Types'
  <2>1. [id |-> session.id, seq |-> n] \in [id: Nat, seq: Nat]
    BY <1>1 DEF Types
  <2>2. net' \subseteq [id: Nat, seq: Nat] /\ dup' \subseteq Nat
    BY <1>3, <1>4, <2>1 DEF Types
  <2> QED BY <1>1, <1>2, <2>2 DEF Types
<1>6. Exclusive' /\ InRange'
  BY <1>1, <1>2 DEF Exclusive, InRange
<1>7. RepliesKnown'
  BY <1>1, <1>2, <1>3 DEF RepliesKnown, Types
<1>8. Remembered'
  <2> SUFFICES ASSUME NEW s \in counted, s + DupBits > n + 1
               PROVE  s % DupBits \in dup'
    BY <1>1, <1>2 DEF Remembered
  <2>1. s \in Nat /\ s < n
    BY <1>1 DEF CountsAgree, Types
  <2>2. s % DupBits \in dup
    BY <1>1, <2>1, PingAssumption DEF Remembered
  <2>3. s % DupBits # (n + 1) % DupBits
    BY <1>1, <2>1, PingAssumption, BitsApart
  <2> QED BY <1>4, <2>2, <2>3
<1>9. CountsAgree'
  BY <1>1, <1>2 DEF CountsAgree, Types
<1> QED BY <1>5, <1>6, <1>7, <1>8, <1>9

LEMMA TaskKeeps ==
  ASSUME QuietStarts, PingInv, Task
  PROVE  PingInv'
<1> USE DEF PingInv
<1>1. CASE TaskLook
  BY <1>1 DEF TaskLook, Entered, LockFree, Types, States, Exclusive, InRange,
              RepliesKnown, Remembered, CountsAgree
<1>2. CASE TaskSend
  BY <1>2, SendKeeps
<1>3. CASE TaskRetry
  <2>1. net' \subseteq net \cup {[id |-> session.id, seq |-> session.total - 1]}
    BY <1>3, SendReqAdds DEF TaskRetry, Echo
  <2>2. session.total - 1 \in Nat /\ session.total > 0 /\ rx.pc = "idle"
    BY <1>3 DEF TaskRetry, Types, InRange, Exclusive
  <2>3. /\ session'.total = session.total /\ session'.state = session.state
        /\ session'.id = session.id /\ session'.recv = session.recv
        /\ session'.count = session.count
        /\ session' \in [state: States, id: Nat, total: Nat, recv: Nat, last: Int,
                         retries: Nat, count: Nat]
    BY <1>3 DEF TaskRetry, Types
  <2>4. UNCHANGED <<dup, nextId, api, rx, counted>> /\ task' = "loop"
    BY <1>3 DEF TaskRetry
  <2>5. Types' /\ Exclusive'
    BY <2>1, <2>2, <2>3, <2>4 DEF Types, Exclusive
  <2>6. RepliesKnown'
    BY <2>1, <2>2, <2>3, <2>4 DEF RepliesKnown, Types
  <2> QED
    BY <2>3, <2>4, <2>5, <2>6 DEF InRange, Remembered, CountsAgree
<1>4. CASE TaskGivesUp
  BY <1>4 DEF TaskGivesUp, Types, States, Exclusive, InRange, RepliesKnown,
              Remembered, CountsAgree
<1>5. CASE TaskEnds
  BY <1>5 DEF TaskEnds, Types, States, Exclusive, InRange, RepliesKnown,
              Remembered, CountsAgree
<1> QED BY <1>1, <1>2, <1>3, <1>4, <1>5 DEF Task
-----------------------------------------------------------------------------
\* A reply within the window whose bit is clear has not been counted.
LEMMA CheckKeeps ==
  ASSUME QuietStarts, PingInv, RecvCheck
  PROVE  PingInv'
<1> USE DEF PingInv
<1>1. /\ task = "loop" /\ rx.pc = "idle" /\ api = "none"
      /\ UNCHANGED <<session, nextId, api, task, counted>> /\ net' \subseteq net
  BY DEF RecvCheck, Entered, LockFree, Stays
<1>2. PICK r \in net :
        /\ ~TooOld(r)
        /\ IF r.id # session.id \/ r.seq % DupBits \in dup
             THEN UNCHANGED <<dup, rx>>
             ELSE /\ dup' = dup \cup {r.seq % DupBits}
                  /\ rx' \in {NoRx, [pc |-> "count", id |-> r.id, seq |-> r.seq]}
  BY DEF RecvCheck
<1>3. r.id \in Nat /\ r.seq \in Nat /\ r.seq % DupBits \in Nat
  BY <1>2, BitRange DEF Types
<1>4. CASE UNCHANGED <<dup, rx>>
  BY <1>1, <1>4 DEF Types, Exclusive, InRange, RepliesKnown, Remembered, CountsAgree
<1>5. ASSUME r.id = session.id, r.seq % DupBits \notin dup,
             dup' = dup \cup {r.seq % DupBits},
             rx' \in {NoRx, [pc |-> "count", id |-> r.id, seq |-> r.seq]}
      PROVE  PingInv'
  <2>1. r.seq \notin counted
    BY <1>2, <1>3, <1>5, PingAssumption DEF TooOld, Remembered, Types
  <2>2. r.seq < session.total
    BY <1>2, <1>5 DEF RepliesKnown
  <2>3. Types' /\ Exclusive' /\ InRange'
    <3>1. rx' \in [pc: {"idle", "count", "ack"}, id: Nat, seq: Nat]
      BY <1>3, <1>5 DEF NoRx
    <3>2. net' \subseteq [id: Nat, seq: Nat] /\ dup' \subseteq Nat
      BY <1>1, <1>3, <1>5 DEF Types
    <3> QED BY <1>1, <3>1, <3>2 DEF Types, Exclusive, InRange
  <2>4. RepliesKnown'
    BY <1>1, <1>3, <1>5, <2>1, <2>2 DEF RepliesKnown, NoRx
  <2> QED
    BY <1>1, <1>5, <2>3, <2>4 DEF Remembered, CountsAgree
<1> QED BY <1>2, <1>4, <1>5

LEMMA CountKeeps ==
  ASSUME PingInv, RecvCount
  PROVE  PingInv'
<1> USE DEF PingInv
<1>1. /\ rx.pc = "count" /\ rx.id = session.id /\ rx.seq < session.total
      /\ rx.seq \in Nat /\ rx.seq \notin counted /\ rx.seq % DupBits \in dup
      /\ task \notin {"due", "unanswered"} /\ api = "none"
  BY DEF RecvCount, RepliesKnown, Types, Exclusive
<1>2. counted' = counted \cup {rx.seq}
  BY <1>1 DEF RecvCount
<1>3. IsFiniteSet(counted') /\ Cardinality(counted') = Cardinality(counted) + 1
  BY <1>1, <1>2, FS_AddElement DEF Types
<1>4. /\ session' = [session EXCEPT !.recv = @ + 1, !.last = rx.seq]
      /\ UNCHANGED <<dup, nextId, api, task, net>>
      /\ rx' = IF rx.seq = session.total - 1 /\ session.state = "AWAITING_RSP"
               THEN [rx EXCEPT !.pc = "ack"] ELSE NoRx
  BY DEF RecvCount
<1>5. Types' /\ Exclusive' /\ InRange'
  <2>1. /\ session'.total = session.total /\ session'.state = session.state
        /\ session'.count = session.count
        /\ session' \in [state: States, id: Nat, total: Nat, recv: Nat, last: Int,
                         retries: Nat, count: Nat]
    <3>1. session \in [state: States, id: Nat, total: Nat, recv: Nat, last: Int,
                       retries: Nat, count: Nat]
      BY DEF Types
    <3>2. session.recv + 1 \in Nat /\ rx.seq \in Int
      BY <1>1, <3>1
    <3> QED BY <1>4, <3>1, <3>2
  <2>2. rx' \in [pc: {"idle", "count", "ack"}, id: Nat, seq: Nat]
    BY <1>4 DEF NoRx, Types
  <2>3. counted' \subseteq Nat
    BY <1>1, <1>2 DEF Types
  <2> QED BY <1>1, <1>3, <1>4, <2>1, <2>2, <2>3 DEF Types, Exclusive, InRange
<1>6. RepliesKnown'
  BY <1>1, <1>4 DEF RepliesKnown, Types, NoRx
<1>7. Remembered' /\ CountsAgree'
  BY <1>1, <1>2, <1>3, <1>4 DEF Remembered, CountsAgree, Types
<1> QED BY <1>5, <1>6, <1>7

LEMMA AckKeeps ==
  ASSUME PingInv, RecvAck
  PROVE  PingInv'
<1> USE DEF PingInv
<1>1. /\ rx.pc = "ack" /\ session.last = session.total - 1
      /\ session' = [session EXCEPT !.state = IF session.last >= session.count - 1
                                              THEN "IDLE" ELSE "AWAITING_SND"]
      /\ UNCHANGED <<dup, nextId, api, task, net, counted>> /\ rx' = NoRx
      /\ task \notin {"due", "unanswered"} /\ api = "none"
  BY DEF RecvAck, RepliesKnown, Exclusive, Types
<1>2. Types' /\ Exclusive' /\ InRange'
  BY <1>1 DEF Types, States, Exclusive, InRange, NoRx, CountsAgree
<1> QED
  BY <1>1, <1>2 DEF RepliesKnown, Remembered, CountsAgree, Types, NoRx
-----------------------------------------------------------------------------
LEMMA PingNext ==
  ASSUME QuietStarts
  PROVE  PingInv /\ [Next]_vars => PingInv'
<1> SUFFICES ASSUME PingInv, [Next]_vars PROVE PingInv'
  OBVIOUS
<1>1. CASE UNCHANGED vars
  BY <1>1 DEF vars, PingInv, Types, Exclusive, InRange, RepliesKnown, Remembered,
              CountsAgree
<1>2. CASE Recv
  BY <1>2, CheckKeeps, CountKeeps, AckKeeps DEF Recv
<1> QED BY <1>1, <1>2, StartKeeps, StopKeeps, TaskKeeps DEF Next

\* The inductive invariant holds of every behaviour.
THEOREM PingInvariant == ASSUME QuietStarts PROVE Spec => []PingInv
<1>1. PingInv /\ [Next]_vars => PingInv' BY PingNext
<1> QED BY <1>1, PingInit, PTL DEF Spec

\* recv_count is the number of requests of this session that were answered, and
\* no more requests are sent than were asked for: process_ping_response counts
\* no reply twice and none of another session.
THEOREM PingCountsAgree == ASSUME QuietStarts PROVE Spec => []CountsAgree
<1>1. PingInv => CountsAgree BY DEF PingInv
<1> QED BY <1>1, PingInvariant, PTL
-----------------------------------------------------------------------------
\* What was sent is what the session remembers of it.

\* As long as the session waits for the latest request, its reply was not
\* counted, or is about to be acknowledged.
Waiting ==
  /\ session.state = "AWAITING_RSP" /\ rx.pc # "ack" => session.total - 1 \notin counted
  /\ task = "unanswered" => session.total - 1 \notin counted
  /\ rx.pc = "ack" => session.total - 1 \in counted

Settled(s) == s \in counted \/ tries[s] = MaxRetries + 1

\* In a session nobody stops, every request before the latest is settled, and
\* the latest one too unless it waits; a session that is over sent them all.
Unstopped ==
  /\ \A s \in Seqs : s < session.total - 1 => Settled(s)
  /\ session.total > 0 =>
       IF session.state = "AWAITING_RSP"
         THEN tries[session.total - 1] = session.retries + 1
         ELSE Settled(session.total - 1)
  /\ session.state = "IDLE" => session.total = session.count
  /\ task = "due" => session.state = "AWAITING_SND"
  /\ task = "unanswered" => session.state = "AWAITING_RSP"
  /\ rx.pc = "ack" => session.state = "AWAITING_RSP"

RequestInv ==
  /\ tries \in [Seqs -> Nat]
  /\ session.count <= MaxCount /\ session.retries <= MaxRetries
  /\ \A s \in Seqs : s >= session.total => tries[s] = 0
  /\ Waiting
  /\ ~stopped => Unstopped
LEMMA CountsBounded ==
  /\ MaxCount \in Nat \ {0} /\ MaxCount \in Counts
  /\ \A c \in Counts : c <= MaxCount /\ c \in Nat \ {0}
BY PingAssumption DEF MaxCount

LEMMA RequestInit == Init => RequestInv
BY CountsBounded, PingAssumption
   DEF Init, RequestInv, Waiting, Unstopped, Settled, Seqs, Zeroed, NoRx

\* A session starts with nothing sent.
LEMMA RequestStart ==
  ASSUME QuietStarts, PingInv, RequestInv, Start
  PROVE  RequestInv'
<1> USE DEF RequestInv
<1>1. CASE StartReset
  <2>1. tries' \in [Seqs -> Nat] /\ \A s \in Seqs : tries'[s] = 0
    BY <1>1 DEF StartReset
  <2>2. /\ session' = [Zeroed EXCEPT !.id = nextId] /\ counted' = {}
        /\ UNCHANGED <<task, rx>> /\ task \notin {"due", "unanswered"} /\ rx.pc = "idle"
    BY <1>1 DEF StartReset, Quiet, LockFree
  <2>3. /\ session'.total = 0 /\ session'.count = 0 /\ session'.retries = 0
        /\ session'.state = "IDLE"
    BY <2>2 DEF Zeroed
  <2> QED
    BY <2>1, <2>2, <2>3, CountsBounded, PingAssumption DEF Waiting, Unstopped, Seqs
<1>2. CASE StartRefused
  BY <1>2 DEF StartRefused, Waiting
<1>3. CASE StartArm
  <2>1. PICK c \in Counts :
          session' = [session EXCEPT !.count = c, !.state = "AWAITING_SND"]
    BY <1>3 DEF StartArm
  <2>2. /\ session'.total = 0 /\ session.total = 0 /\ session'.count <= MaxCount
        /\ session'.retries = session.retries /\ session'.state = "AWAITING_SND"
        /\ task \notin {"due", "unanswered"} /\ rx.pc = "idle"
        /\ UNCHANGED <<task, rx, counted, tries, stopped>>
    BY <1>3, <2>1, CountsBounded DEF StartArm, PingInv, Types, States, Exclusive
  <2> QED
    BY <2>2 DEF Waiting, Unstopped, Settled, Seqs
<1>4. CASE StartLastSeq
  <2>1. /\ session'.total = session.total /\ session'.count = session.count
        /\ session'.retries = session.retries /\ session'.state = session.state
        /\ UNCHANGED <<task, rx, counted, tries, stopped>>
    BY <1>4 DEF StartLastSeq, PingInv, Types
  <2> QED
    BY <2>1 DEF Waiting, Unstopped, Settled
<1>5. CASE StartCreate
  <2>1. task' = "loop" /\ UNCHANGED <<session, rx, counted, tries, stopped>>
    BY <1>5 DEF StartCreate
  <2> QED BY <2>1 DEF Waiting, Unstopped, Settled
<1>6. CASE StartNoTask \/ StartNotify
  <2>1. UNCHANGED <<session, task, rx, counted, tries, stopped>>
    BY <1>6 DEF StartNoTask, StartNotify
  <2> QED BY <2>1 DEF Waiting, Unstopped, Settled
<1> QED BY <1>1, <1>2, <1>3, <1>4, <1>5, <1>6 DEF Start

LEMMA RequestStop ==
  ASSUME PingInv, RequestInv, Stop \/ NetLoses
  PROVE  RequestInv'
<1>1. CASE Stop
  <2>1. /\ session'.total = session.total /\ session'.count = session.count
        /\ session'.retries = session.retries /\ session'.state = "IDLE"
        /\ stopped' = TRUE /\ UNCHANGED <<task, rx, counted, tries>>
    BY <1>1 DEF Stop, PingInv, Types
  <2> QED BY <2>1 DEF RequestInv, Waiting
<1>2. CASE NetLoses
  <2>1. UNCHANGED <<session, task, rx, counted, tries, stopped>>
    BY <1>2 DEF NetLoses
  <2> QED BY <2>1 DEF RequestInv, Waiting, Unstopped, Settled
<1> QED BY <1>1, <1>2

\* The next request: the one before is settled, and the new one waits.
LEMMA RequestSend ==
  ASSUME PingInv, RequestInv, TaskSend
  PROVE  RequestInv'
<1> DEFINE n == session.total
<1>1. /\ n \in Nat /\ n < session.count /\ session.count <= MaxCount /\ session.count \in Nat
      /\ rx.pc = "idle" /\ task = "due" /\ n \notin counted
  BY DEF TaskSend, PingInv, Types, Exclusive, InRange, RequestInv, CountsAgree
<1>2. n \in Seqs /\ tries[n] = 0
  BY <1>1, CountsBounded DEF Seqs, RequestInv
<1>3. tries' = [tries EXCEPT ![n] = @ + 1] /\ task' = "loop"
      /\ UNCHANGED <<rx, counted, stopped>>
  BY DEF TaskSend, SendReq
<1>4. /\ session'.total = n + 1 /\ session'.state = "AWAITING_RSP"
      /\ session'.count = session.count /\ session'.retries = 0
  BY DEF TaskSend, PingInv, Types
<1>5. tries' \in [Seqs -> Nat] /\ tries'[n] = 1 /\ \A s \in Seqs \ {n} : tries'[s] = tries[s]
  BY <1>2, <1>3 DEF RequestInv
<1> HIDE DEF n
<1>6. Waiting'
  BY <1>1, <1>3, <1>4 DEF Waiting
<1>7. ASSUME ~stopped PROVE Unstopped'
  <2>1. Unstopped /\ session.state = "AWAITING_SND"
    BY <1>1, <1>7 DEF RequestInv, Unstopped
  <2>2. \A s \in Seqs : s < n => Settled(s)
    BY <1>1, <2>1 DEF Unstopped, Seqs, n
  <2>3. \A s \in Seqs : s < n => Settled(s)'
    BY <1>1, <1>3, <1>5, <2>2 DEF Settled
  <2> QED
    BY <1>1, <1>3, <1>4, <1>5, <2>3 DEF Unstopped
<1>8. \A s \in Seqs : s >= session'.total => tries'[s] = 0
  BY <1>1, <1>4, <1>5 DEF RequestInv, Seqs, n
<1> QED BY <1>1, <1>3, <1>4, <1>5, <1>6, <1>7, <1>8, PingAssumption DEF RequestInv

LEMMA RequestRetry ==
  ASSUME PingInv, RequestInv, TaskRetry
  PROVE  RequestInv'
<1> DEFINE n == session.total - 1
<1>1. /\ n \in Nat /\ session.total \in Nat /\ session.total <= session.count
      /\ session.count <= MaxCount /\ session.count \in Nat /\ session.retries \in Nat
      /\ rx.pc = "idle" /\ task = "unanswered" /\ n \notin counted /\ session.retries < MaxRetries
  BY DEF TaskRetry, PingInv, Types, Exclusive, InRange, RequestInv, Waiting, CountsAgree
<1>2. n \in Seqs /\ session.total = n + 1
  BY <1>1, CountsBounded DEF Seqs
<1>3. tries' = [tries EXCEPT ![n] = @ + 1] /\ task' = "loop"
      /\ UNCHANGED <<rx, counted, stopped>>
  BY DEF TaskRetry, SendReq
<1>4. /\ session'.total = n + 1 /\ session'.state = session.state
      /\ session'.count = session.count /\ session'.retries = session.retries + 1
  BY <1>2 DEF TaskRetry, PingInv, Types
<1>5. tries' \in [Seqs -> Nat] /\ tries'[n] = tries[n] + 1
      /\ \A s \in Seqs \ {n} : tries'[s] = tries[s]
  BY <1>2, <1>3 DEF RequestInv
<1> HIDE DEF n
<1>6. Waiting'
  BY <1>1, <1>3, <1>4 DEF Waiting
<1>7. ASSUME ~stopped PROVE Unstopped'
  <2>1. Unstopped /\ session.state = "AWAITING_RSP" /\ tries[n] = session.retries + 1
    BY <1>1, <1>2, <1>7 DEF RequestInv, Unstopped, n
  <2>2. \A s \in Seqs : s < n => Settled(s)'
    BY <1>2, <1>3, <1>5, <2>1 DEF Unstopped, Settled, Seqs
  <2> QED
    BY <1>1, <1>3, <1>4, <1>5, <2>1, <2>2 DEF Unstopped
<1>8. \A s \in Seqs : s >= session'.total => tries'[s] = 0
  BY <1>1, <1>2, <1>4, <1>5 DEF RequestInv, Seqs
<1> QED BY <1>1, <1>3, <1>4, <1>5, <1>6, <1>7, <1>8, PingAssumption DEF RequestInv

\* The retries are used up: the latest request is settled.
LEMMA RequestGivesUp ==
  ASSUME PingInv, RequestInv, TaskGivesUp
  PROVE  RequestInv'
<1>1. /\ session.total \in Nat /\ session.total > 0 /\ session.total <= session.count
      /\ session.count \in Nat /\ session.retries = MaxRetries
      /\ rx.pc = "idle" /\ task = "unanswered"
  BY PingAssumption
     DEF TaskGivesUp, PingInv, Types, Exclusive, InRange, RequestInv, CountsAgree
<1>2. /\ session'.total = session.total /\ session'.count = session.count
      /\ session'.retries = session.retries
      /\ session'.state = (IF session.total < session.count THEN "AWAITING_SND" ELSE "IDLE")
      /\ task' = "loop" /\ UNCHANGED <<rx, counted, tries, stopped>>
  BY DEF TaskGivesUp, PingInv, Types
<1>3. Waiting'
  BY <1>1, <1>2 DEF Waiting
<1>4. ASSUME ~stopped PROVE Unstopped'
  <2>1. Unstopped /\ tries[session.total - 1] = MaxRetries + 1
    BY <1>1, <1>4 DEF RequestInv, Unstopped
  <2> QED
    BY <1>1, <1>2, <2>1 DEF Unstopped, Settled
<1> QED BY <1>2, <1>3, <1>4 DEF RequestInv

LEMMA RequestTask ==
  ASSUME PingInv, RequestInv, Task
  PROVE  RequestInv'
<1>1. CASE TaskLook
  <2>1. /\ rx.pc = "idle" /\ UNCHANGED <<session, rx, counted, tries, stopped>>
        /\ task' = "due" => session.state = "AWAITING_SND"
        /\ task' = "unanswered" => session.state = "AWAITING_RSP"
    BY <1>1 DEF TaskLook, Entered, LockFree, PingInv, Types, States
  <2> QED BY <2>1 DEF RequestInv, Waiting, Unstopped, Settled
<1>2. CASE TaskEnds
  <2>1. task' = "off" /\ UNCHANGED <<session, rx, counted, tries, stopped>>
    BY <1>2 DEF TaskEnds
  <2> QED BY <2>1 DEF RequestInv, Waiting, Unstopped, Settled
<1> QED BY <1>1, <1>2, RequestSend, RequestRetry, RequestGivesUp DEF Task

\* A reply is counted before its acknowledgement, under one lock.
LEMMA RequestRecv ==
  ASSUME QuietStarts, PingInv, RequestInv, Recv
  PROVE  RequestInv'
<1>1. CASE RecvCheck
  <2>1. /\ rx.pc = "idle" /\ rx'.pc # "ack"
        /\ UNCHANGED <<session, task, counted, tries, stopped>>
    BY <1>1 DEF RecvCheck, Entered, LockFree, NoRx
  <2> QED BY <2>1 DEF RequestInv, Waiting, Unstopped, Settled
<1>2. CASE RecvCount
  <2>1. /\ rx.pc = "count" /\ rx.id = session.id /\ rx.seq \in Nat
        /\ session.total \in Nat /\ task \notin {"due", "unanswered"}
    BY <1>2 DEF RecvCount, PingInv, RepliesKnown, Types, Exclusive
  <2>2. /\ session'.total = session.total /\ session'.count = session.count
        /\ session'.retries = session.retries /\ session'.state = session.state
        /\ counted' = counted \cup {rx.seq} /\ UNCHANGED <<task, tries, stopped>>
    BY <1>2, <2>1 DEF RecvCount, PingInv, Types
  <2>3. rx'.pc = "ack" <=> rx.seq = session.total - 1 /\ session.state = "AWAITING_RSP"
    BY <1>2 DEF RecvCount, PingInv, Types, NoRx
  <2> QED BY <2>1, <2>2, <2>3 DEF RequestInv, Waiting, Unstopped, Settled
<1>3. CASE RecvAck
  <2>1. /\ rx.pc = "ack" /\ session.last = session.total - 1 /\ session.total <= session.count
        /\ session.total \in Nat /\ session.count \in Nat /\ task \notin {"due", "unanswered"}
        /\ session.total - 1 \in counted
    BY <1>3 DEF RecvAck, PingInv, RepliesKnown, Types, Exclusive, CountsAgree, RequestInv, Waiting
  <2>2. /\ session'.total = session.total /\ session'.count = session.count
        /\ session'.retries = session.retries
        /\ session'.state = (IF session.total = session.count THEN "IDLE" ELSE "AWAITING_SND")
        /\ rx'.pc = "idle" /\ UNCHANGED <<task, counted, tries, stopped>>
    BY <1>3, <2>1 DEF RecvAck, PingInv, Types, NoRx
  <2> QED BY <2>1, <2>2 DEF RequestInv, Waiting, Unstopped, Settled
<1> QED BY <1>1, <1>2, <1>3 DEF Recv

LEMMA RequestNext ==
  ASSUME QuietStarts, PingInv, RequestInv, [Next]_vars
  PROVE  RequestInv'
<1>1. CASE UNCHANGED vars
  BY <1>1 DEF vars, RequestInv, Waiting, Unstopped, Settled
<1> QED BY <1>1, RequestStart, RequestStop, RequestTask, RequestRecv DEF Next

\* What the requests and their replies have to do with each other, always.
THEOREM PingRequests == ASSUME QuietStarts PROVE Spec => []RequestInv
<1>1. PingInv /\ RequestInv /\ [Next]_vars => RequestInv' BY RequestNext
<1> QED BY <1>1, RequestInit, PingInvariant, PTL DEF Spec

\* In a session nobody stops, each request is answered or repeated
\* MMPING_MAX_RETRIES times before the next is sent or the session ends.
THEOREM PingGivesUpAfterRetries == ASSUME QuietStarts PROVE Spec => []GivesUpAfterRetries
<1>1. PingInv /\ RequestInv => GivesUpAfterRetries
  <2> SUFFICES ASSUME PingInv, RequestInv, ~stopped, NEW s \in 0..(session.count - 1)
               PROVE  \/ s \in counted
                      \/ tries[s] = MaxRetries + 1
                      \/ session.state # "IDLE" /\ s >= session.total - 1
    BY DEF GivesUpAfterRetries
  <2>1. Unstopped /\ s \in Seqs /\ session.total \in Nat /\ session.count \in Nat
    BY CountsBounded DEF RequestInv, PingInv, Types, Seqs
  <2>2. s \in Nat /\ s < session.count
    BY <2>1
  <2>3. CASE s < session.total - 1
    BY <2>1, <2>3 DEF Unstopped, Settled
  <2>4. CASE s >= session.total - 1 /\ session.state = "IDLE"
    <3>1. s = session.total - 1 /\ session.total > 0
      BY <2>1, <2>2, <2>4 DEF Unstopped
    <3> QED BY <2>1, <2>4, <3>1 DEF Unstopped, Settled
  <2> QED BY <2>1, <2>2, <2>3, <2>4
<1> QED BY <1>1, PingInvariant, PingRequests, PTL

\* No request is sent, or sent again, after its reply was counted.
THEOREM PingNoNeedlessRequest == ASSUME QuietStarts PROVE Spec => NoNeedlessRequest
<1> DEFINE Needed == \A s \in Seqs : tries'[s] > tries[s] => s \notin counted
<1>1. ASSUME PingInv, RequestInv, [Next]_vars PROVE [Needed]_vars
  <2>1. tries \in [Seqs -> Nat]
    BY <1>1 DEF RequestInv
  <2>2. ASSUME NEW n, n \notin counted, tries' = [tries EXCEPT ![n] = @ + 1] PROVE Needed
    BY <2>1, <2>2
  <2>3. CASE TaskSend
    <3>1. session.total \notin counted
      BY <2>3, <1>1 DEF PingInv, CountsAgree, Types
    <3> QED BY <2>2, <2>3, <3>1 DEF TaskSend, SendReq
  <2>4. CASE TaskRetry
    <3>1. session.total - 1 \notin counted
      BY <2>4, <1>1 DEF TaskRetry, RequestInv, Waiting
    <3> QED BY <2>2, <2>4, <3>1 DEF TaskRetry, SendReq
  <2>5. CASE StartReset
    BY <2>1, <2>5 DEF StartReset
  <2>6. CASE UNCHANGED tries
    BY <2>1, <2>6
  <2>7. CASE UNCHANGED vars
    BY <2>7
  <2> QED
    BY <1>1, <2>3, <2>4, <2>5, <2>6, <2>7
       DEF Next, Start, Task, Recv, StartRefused, StartArm, StartLastSeq, StartCreate,
           StartNoTask, StartNotify, Stop, TaskLook, TaskGivesUp, TaskEnds, RecvCheck,
           RecvCount, RecvAck, NetLoses
<1> QED BY <1>1, PingInvariant, PingRequests, PTL DEF Spec, NoNeedlessRequest
=============================================================================
