------------------------- MODULE AgentStreamsProofs -------------------------
(***************************************************************************)
(* The table of streams, for any number of places, connections and         *)
(* restarts: nobody follows a pointer to freed memory, and an open         *)
(* connection has one owner.  The application opens one stream at a time,  *)
(* and only the structure of a stream may fail to be allocated; it closes  *)
(* a stream whenever it likes.                                             *)
(***************************************************************************)
EXTENDS AgentStreams, FiniteSetTheorems, TLAPS

\* What is assumed of the application and of the allocations.
Disciplined == OpenOneAtATime /\ MayFail \subseteq {"structure"}

OpenSteps  == {"pick", "alloc", "setup", "spawn", "finish"}
CloseSteps == {"close", "push", "freectx"}
Busy       == {"start", "use", "accept"} \cup CloseSteps \cup OpenSteps

Types ==
  /\ stream \in [Sids -> Tasks \cup {Null}]
  /\ mem \in [Tasks -> {"unused", "raw", "live", "freed"}]
  /\ queue \in [Tasks -> {<<>>} \cup {<<c>> : c \in Command \cup {Quit}}]
  /\ sid \in [Tasks -> Sids \cup {Null}] /\ context \in [Tasks -> Tasks \cup {Null}]
  /\ conn \in [Opens -> {"unused", "open", "closed", "freed"}]
  /\ pc \in [Tasks -> {"none", "pop", "free", "freemem"} \cup Busy]
  /\ job \in [Tasks -> Command \cup {Null}] /\ structure = [k \in Tasks |-> k]
  /\ new \in [Tasks -> Opens \cup {Null}] /\ held \in [Tasks -> Tasks \cup {Null}]
  /\ slot \in [Tasks -> Sids \cup {Null}]
  /\ rx \in Command \cup {Null} /\ call \in [Sids -> Command \cup {Null}]
  /\ known \subseteq Sids \ {Control} /\ opens \in Nat

\* The Agent's own stream is never closed.
ControlStays ==
  /\ stream[Control] = Control /\ mem[Control] = "live" /\ sid[Control] = Control
  /\ pc[Control] \notin {"none", "free", "freemem", "use", "accept"}
  /\ queue[Control] # <<Quit>>

\* Stream s is open: structure, context, task and number are those of o.
Numbered(s, o) ==
  /\ o \in Opens /\ stream[s] = o /\ sid[o] = s /\ mem[o] = "live" /\ context[o] = o
  /\ pc[o] \notin {"none", "freemem"}

\* A task that opens a stream, and how far it has got.
OpenerOf(k) ==
  pc[k] \in OpenSteps =>
    LET o == new[k]  s == slot[k] IN
      /\ o \in Opens /\ o <= opens /\ conn[o] = "open" /\ sid[o] = Null /\ queue[o] = <<>>
      /\ pc[o] = IF pc[k] = "finish" THEN "pop" ELSE "none"
      /\ pc[k] # "pick" => s \in Sids \ {Control}
      /\ pc[k] = "alloc" => stream[s] = Null
      /\ pc[k] \in {"setup", "spawn", "finish"} => stream[s] = o
      /\ mem[o] = CASE pc[k] \in {"pick", "alloc"} -> "unused"
                    [] pc[k] = "setup" -> "raw"
                    [] OTHER -> "live"
      /\ pc[k] \in {"spawn", "finish"} => context[o] = o

Openers == \A k \in Tasks : OpenerOf(k)

\* Every place is free, taken by a stream, or by one that is being opened.
Places ==
  \A s \in Sids \ {Control} : stream[s] # Null =>
    \/ Numbered(s, stream[s])
    \/ \E k \in Tasks : /\ pc[k] \in {"setup", "spawn", "finish"}
                        /\ slot[k] = s /\ new[k] = stream[s]

\* A task has its structure, and its place until it gives it up.
Served ==
  \A o \in Opens : pc[o] # "none" =>
    /\ mem[o] = "live"
    /\ \/ /\ sid[o] = Null /\ pc[o] = "pop"
          /\ \E k \in Tasks : pc[k] = "finish" /\ new[k] = o
       \/ /\ sid[o] \in Sids \ {Control}
          /\ pc[o] # "freemem" => stream[sid[o]] = o

\* What was not opened yet is untouched, and an open connection has an owner.
Owned ==
  \A o \in Opens :
    /\ o > opens => mem[o] = "unused" /\ conn[o] = "unused" /\ pc[o] = "none"
                    /\ sid[o] = Null /\ queue[o] = <<>>
    /\ conn[o] = "open" => \/ \E k \in Tasks : pc[k] \in OpenSteps /\ new[k] = o
                           \/ sid[o] \in Sids /\ stream[sid[o]] = o

\* A stream the application may use is open, and nobody has closed it.
KnownOpen ==
  \A s \in known :
    /\ Numbered(s, stream[s]) /\ conn[stream[s]] = "open"
    /\ pc[stream[s]] # "free" /\ queue[stream[s]] # <<Quit>>

\* The task was told to quit.
Quitting ==
  \A o \in Opens : queue[o] = <<Quit>> \/ pc[o] = "free" =>
    /\ pc[o] \notin {"none", "freemem"} /\ (pc[o] = "free" => queue[o] = <<>>)
    /\ sid[o] \in Sids \ {Control} /\ stream[sid[o]] = o /\ sid[o] \notin known
    /\ conn[o] \in {"closed", "freed"}

\* Nothing but the stream of the Agent is there, after a restart.
Bare ==
  /\ \A s \in Sids \ {Control} : stream[s] = Null
  /\ \A o \in Opens : pc[o] = "none"

\* Only a connect is about the Agent's own stream.
Proper(c) == c.kind = "connect" <=> c.sid = Control

\* A command is in one place, and the Controller waits for it.
OnItsWay ==
  rx # Null =>
    LET s == OnStream(rx)  o == stream[s] IN
      /\ Proper(rx) /\ call[s] = rx
      /\ o # Null => queue[o] = <<>> /\ pc[o] = "pop"
      /\ s # Control => \/ s \in known
                         \/ (Bare /\ known = {} /\ pc[Control] = "pop" /\ queue[Control] = <<>>)

Waiting ==
  \A o \in Tasks : queue[o] # <<>> /\ queue[o] # <<Quit>> =>
    LET c == queue[o][1] IN
      /\ Proper(c) /\ pc[o] = "pop" /\ call[OnStream(c)] = c
      /\ stream[OnStream(c)] = o /\ sid[o] = OnStream(c)

Working ==
  \A k \in Tasks : pc[k] \in Busy =>
    /\ job[k] \in Command /\ Proper(job[k]) /\ sid[k] = OnStream(job[k]) /\ call[sid[k]] = job[k]
    /\ queue[k] \in {<<>>, <<Quit>>}
    /\ pc[k] \in OpenSteps \cup {"accept"} => job[k].kind \in {"connect", "accept"}
    /\ pc[k] \in CloseSteps => job[k].kind = "close"
    /\ pc[k] = "use" => job[k].kind = "use"

\* There is one call that opens a stream.
OneOpening ==
  \A s, t \in Sids :
    (/\ call[s] # Null /\ call[s].kind \in {"connect", "accept"}
     /\ call[t] # Null /\ call[t].kind \in {"connect", "accept"}) => s = t

\* A stream that is to be closed is open, and its task was not told to quit.
ClosingStream(s, c) ==
  /\ s \in Sids \ {Control} /\ s \notin known
  /\ Numbered(s, stream[s]) /\ pc[stream[s]] # "free" /\ queue[stream[s]] # <<Quit>>
  /\ conn[stream[s]] = c

ToClose(c) == c.kind = "close" =>
  ClosingStream(c.sid, "open") \/ (Bare /\ known = {})

Closing ==
  /\ rx # Null => ToClose(rx)
  /\ queue[Control] # <<>> => ToClose(queue[Control][1])
  /\ pc[Control] = "start" => ToClose(job[Control])
  /\ pc[Control] = "close" => ClosingStream(job[Control].sid, "open") /\ held[Control] = stream[job[Control].sid]
  /\ pc[Control] = "push" => ClosingStream(job[Control].sid, "closed") /\ held[Control] = stream[job[Control].sid]
  /\ pc[Control] = "freectx" => held[Control] \in Opens /\ conn[held[Control]] = "closed"

\* The inductive invariant.
IInv ==
  /\ Types /\ ControlStays /\ Openers
  /\ Places /\ Served /\ Owned /\ KnownOpen /\ Quitting
  /\ OnItsWay /\ Waiting /\ Working /\ OneOpening /\ Closing

-----------------------------------------------------------------------------
\* What a command is, whatever its kind.
LEMMA CommandFields ==
  ASSUME NEW c \in Command
  PROVE  /\ c # Null /\ c.kind \in {"connect", "accept", "use", "close"} /\ c.sid \in Sids
         /\ OnStream(c) \in Sids
         /\ c.kind \in {"connect", "close"} => OnStream(c) = Control
         /\ c.kind \in {"accept", "use"} => OnStream(c) = c.sid
  BY StreamsAssumption, CommandAssumption DEF Command, OnStream, Sids, Control

\* A queue holds nothing or one thing.
LEMMA QueueShape ==
  ASSUME Types, NEW o \in Tasks, queue[o] # <<>>
  PROVE  \E c \in Command \cup {Quit} :
           queue[o] = <<c>> /\ Head(queue[o]) = c /\ Tail(queue[o]) = <<>> /\ queue[o][1] = c
<1>1. queue[o] \in {<<>>} \cup {<<c>> : c \in Command \cup {Quit}}
  BY DEF Types
<1>2. PICK c \in Command \cup {Quit} : queue[o] = <<c>>
  BY <1>1
<1> QED BY <1>2

\* Numbers and tasks are not Null.
LEMMA NumbersNotNull ==
  /\ Control \in Sids /\ Control \in Tasks /\ Control \notin Opens
  /\ Opens \subseteq Tasks /\ Tasks = {Control} \cup Opens
  /\ Null \notin Sids /\ Null \notin Tasks /\ Null \notin Opens
  BY StreamsAssumption DEF Control, Sids, Tasks, Opens

\* A task at work has a place in the table.
LEMMA Placed ==
  ASSUME IInv, NEW k \in Tasks, pc[k] \in Busy \cup {"free"}
  PROVE  sid[k] \in Sids /\ stream[sid[k]] = k /\ (k # Control => sid[k] \in Sids \ {Control}) /\ mem[k] = "live"
  BY NumbersNotNull DEF IInv, Types, Served, ControlStays, Busy, OpenSteps, CloseSteps

\* A task at work, its command and its place; no other task has this place.
AtWork(k) ==
  /\ pc[k] \in Busy /\ structure[k] = k /\ queue[k] \in {<<>>, <<Quit>>}
  /\ job[k] \in Command /\ Proper(job[k]) /\ sid[k] = OnStream(job[k]) /\ call[sid[k]] = job[k]
  /\ sid[k] \in Sids /\ stream[sid[k]] = k /\ mem[k] = "live"
  /\ \A j \in Tasks : j # k /\ pc[j] \in Busy => sid[j] # sid[k]

\* What the invariant says of a task at work.
LEMMA BusyAtWork ==
  ASSUME IInv, NEW k \in Tasks, pc[k] \in Busy
  PROVE  AtWork(k)
<1>1. /\ structure[k] = k /\ queue[k] \in {<<>>, <<Quit>>}
      /\ job[k] \in Command /\ Proper(job[k]) /\ sid[k] = OnStream(job[k]) /\ call[sid[k]] = job[k]
  BY DEF IInv, Types, Working
<1>2. \A j \in Tasks : pc[j] \in Busy => sid[j] \in Sids /\ stream[sid[j]] = j /\ mem[j] = "live"
  BY Placed
<1> QED BY <1>1, <1>2 DEF AtWork

\* One task at most opens a stream, from the start of its handler on.
Alone(k) == \A j \in Tasks : j # k => pc[j] \notin OpenSteps

\* The two calls would be one, and one call has one task.
LEMMA OpensAlone ==
  ASSUME IInv, NEW k \in Tasks, pc[k] \in Busy, job[k].kind \in {"connect", "accept"}
  PROVE  Alone(k)
<1> SUFFICES ASSUME NEW j \in Tasks, pc[j] \in OpenSteps PROVE k = j
  BY DEF Alone
<1>1. pc[j] \in Busy
  BY DEF Busy
<1>2. AtWork(k) /\ AtWork(j)
  BY <1>1, BusyAtWork
<1>3. job[j].kind \in {"connect", "accept"}
  BY <1>1 DEF IInv, Working
<1>4. sid[k] = sid[j]
  BY <1>2, <1>3, CommandAssumption DEF IInv, OneOpening, AtWork
<1> QED BY <1>2, <1>4 DEF AtWork

\* What a task that opens a stream has in hand.
Picked(k) == new[k] \in Opens /\ new[k] # k /\ slot[k] \in Sids \ {Control}

\* It has a connection of its own and a place that is not the Agent's.
LEMMA OpenerPicked ==
  ASSUME IInv, NEW k \in Tasks, pc[k] \in OpenSteps \ {"pick"}
  PROVE  Picked(k)
  BY NumbersNotNull DEF IInv, Openers, OpenerOf, Picked, OpenSteps

\* A handler that closes a stream runs in the Agent's own task, and nobody else
\* closes the stream.
LEMMA ClosesAlone ==
  ASSUME IInv, NEW k \in Tasks, pc[k] \in CloseSteps
  PROVE  /\ k = Control /\ held[k] \in Opens
         /\ conn[held[k]] = IF pc[k] = "close" THEN "open" ELSE "closed"
         /\ pc[k] # "freectx" =>
              /\ job[k].sid \in Sids \ {Control} /\ job[k].sid \notin known
              /\ stream[job[k].sid] = held[k] /\ Numbered(job[k].sid, held[k])
              /\ pc[held[k]] # "free" /\ queue[held[k]] # <<Quit>>
<1>1. k = Control
  <2>1. pc[k] \in Busy
    BY DEF Busy
  <2>2. job[k] \in Command /\ sid[k] = OnStream(job[k]) /\ job[k].kind = "close"
    BY <2>1 DEF IInv, Working
  <2>3. sid[k] = Control
    BY <2>2 DEF OnStream
  <2> QED BY <2>1, <2>3, Placed, NumbersNotNull
<1>2. IInv => Closing
  BY DEF IInv
<1> QED BY <1>1, <1>2 DEF Closing, ClosingStream, Numbered, CloseSteps

\* Streams that are to be closed stay so, in their places.
Stays(c) == \A s \in Sids : ClosingStream(s, c) => ClosingStream(s, c)' /\ stream'[s] = stream[s]

\* What is to be closed stays so in a step that neither brings the Agent's own
\* task a command nor takes it into or through the handler of close.
LEMMA ClosingKept ==
  ASSUME IInv, Stays("open"), Stays("closed"),
         Bare /\ known = {} => (Bare /\ known = {})',
         rx' \in {rx, Null}, queue'[Control] = queue[Control],
         \/ pc'[Control] \notin {"start"} \cup CloseSteps
         \/ /\ pc'[Control] = pc[Control] /\ job'[Control] = job[Control]
            /\ held'[Control] = held[Control]
            /\ \A o \in Opens : conn[o] = "closed" => conn'[o] = "closed"
  PROVE  Closing'
<1>1. \A d \in Command : ToClose(d) => ToClose(d)'
  BY CommandFields DEF ToClose, Stays
<1>2. queue[Control] # <<>> => queue[Control][1] \in Command
  BY QueueShape, NumbersNotNull DEF IInv, ControlStays
<1>3. pc[Control] \in {"start"} \cup CloseSteps =>
        job[Control] \in Command /\ job[Control].sid \in Sids
  BY NumbersNotNull, CommandFields DEF IInv, Working, Busy
<1>4. Closing /\ rx \in Command \cup {Null}
  BY DEF IInv, Types
<1>5. (rx # Null => ToClose(rx))' /\ (queue[Control] # <<>> => ToClose(queue[Control][1]))'
  BY <1>1, <1>2, <1>4 DEF Closing
<1>6. (pc[Control] = "start" => ToClose(job[Control]))'
  BY <1>1, <1>3, <1>4 DEF Closing
<1>7. (pc[Control] = "close" =>
         ClosingStream(job[Control].sid, "open") /\ held[Control] = stream[job[Control].sid])'
  BY <1>3, <1>4 DEF Closing, Stays, CloseSteps
<1>8. (pc[Control] = "push" =>
         ClosingStream(job[Control].sid, "closed") /\ held[Control] = stream[job[Control].sid])'
  BY <1>3, <1>4 DEF Closing, Stays, CloseSteps
<1>9. (pc[Control] = "freectx" => held[Control] \in Opens /\ conn[held[Control]] = "closed")'
  BY <1>4 DEF Closing, CloseSteps
<1> QED BY <1>5, <1>6, <1>7, <1>8, <1>9 DEF Closing

-----------------------------------------------------------------------------
\* Each action keeps the invariant.

\* A call of the application: nothing else is under way to its stream.
LEMMA IssueKeeps ==
  ASSUME Disciplined, IInv, NEW c \in Command, Issue(c)
  PROVE  IInv'
<1> USE NumbersNotNull, CommandFields
    DEF IInv, Issue, table, tasks, Quit, Types, Busy, OpenSteps, CloseSteps, AtWork, Alone, Picked
<1>1. c # Null /\ OnStream(c) \in Sids /\ call[OnStream(c)] = Null
  OBVIOUS
<1>2. c.kind \in {"connect", "accept"} =>
        \A s \in Sids : call[s] # Null => call[s].kind \notin {"connect", "accept"}
  BY DEF Disciplined, Opening
<1>3. c.kind = "close" => c.sid \in known /\ c.sid \in Sids
  OBVIOUS
<1>4. Types'
  OBVIOUS
<1>5. ControlStays'
  BY DEF ControlStays
<1>6. Openers'
  BY DEF Openers, OpenerOf
<1>7. Places'
  BY DEF Places, Numbered
<1>8. Served'
  BY DEF Served
<1>9. Owned'
  BY DEF Owned
<1>10. KnownOpen'
  BY DEF KnownOpen, Numbered
<1>11. Quitting'
  BY DEF Quitting
<1>12. OnItsWay'
  <2>1. OnStream(c) = Control \/ OnStream(c) \in known
    BY CommandFields
  <2>2. \A t \in Sids : stream[t] = stream[OnStream(c)] /\ stream[t] # Null => t = OnStream(c)
    BY <2>1 DEF ControlStays, Places, Numbered, KnownOpen, Openers, OpenerOf
  <2>3. stream[OnStream(c)] \in Tasks
    BY <2>1 DEF ControlStays, KnownOpen, Numbered
  <2>4. queue[stream[OnStream(c)]] = <<>>
    BY <1>1, <2>1, <2>2, <2>3, QueueShape DEF Waiting, Quitting, ControlStays, KnownOpen, Numbered
  <2>5. pc[stream[OnStream(c)]] = "pop"
    BY <1>1, <2>1, <2>3 DEF Working, Quitting, ControlStays, KnownOpen, Numbered
  <2> QED BY <1>1, <2>1, <2>3, <2>4, <2>5 DEF OnItsWay, Proper
<1>13. Waiting'
  BY <1>1, <1>2, <1>3 DEF Waiting, Proper
<1>14. Working'
  BY <1>1, <1>2, <1>3 DEF Working, Proper
<1>15. OneOpening'
  BY <1>1, <1>2, <1>3 DEF OneOpening
<1>16. Closing'
  <2>1. \A s \in Sids, x \in {"open", "closed"} : ClosingStream(s, x) => ClosingStream(s, x)'
    BY DEF ClosingStream, Numbered
  <2>2. Bare /\ known = {} => (Bare /\ known = {})'
    BY DEF Bare
  <2>3. \A d \in Command : ToClose(d) => ToClose(d)'
    BY <2>1, <2>2 DEF ToClose
  <2>4. c.kind = "close" => ClosingStream(c.sid, "open")'
    <3> SUFFICES ASSUME c.kind = "close" PROVE ClosingStream(c.sid, "open")'
      OBVIOUS
    <3>1. /\ c.sid \in Sids \ {Control} /\ Numbered(c.sid, stream[c.sid])
          /\ conn[stream[c.sid]] = "open" /\ pc[stream[c.sid]] # "free"
          /\ queue[stream[c.sid]] # <<Quit>>
      BY <1>3 DEF KnownOpen
    <3> QED BY <3>1 DEF ClosingStream, Numbered
  <2>5. /\ rx' = c /\ queue' = queue /\ pc' = pc /\ job' = job /\ held' = held
        /\ stream' = stream /\ conn' = conn
    OBVIOUS
  <2>6. queue[Control] # <<>> => queue[Control][1] \in Command
    BY QueueShape DEF ControlStays
  <2>7. pc[Control] \in Busy => job[Control] \in Command /\ job[Control].sid \in Sids
    BY DEF Working
  <2>8. Closing
    OBVIOUS
  <2> HIDE DEF IInv, Issue, Types
  <2> QED BY <2>1, <2>3, <2>4, <2>5, <2>6, <2>7, <2>8 DEF Closing, ToClose
<1> QED BY <1>4, <1>5, <1>6, <1>7, <1>8, <1>9, <1>10, <1>11, <1>12, <1>13, <1>14, <1>15,
       <1>16

\* The callback of the data link hands over the command.
LEMMA DeliverKeeps ==
  ASSUME Disciplined, IInv, Deliver
  PROVE  IInv'
<1> USE NumbersNotNull, CommandFields
    DEF IInv, Deliver, tasks, Quit, Types, Busy, OpenSteps, CloseSteps, AtWork, Alone, Picked
<1>1. rx \in Command /\ rx # Null /\ OnStream(rx) \in Sids
  OBVIOUS
<1>2. <<rx>> # <<>> /\ <<rx>> # <<Null>> /\ <<rx>>[1] = rx
  BY <1>1
<1>3. /\ stream[OnStream(rx)] \in Tasks /\ queue[stream[OnStream(rx)]] = <<>>
      /\ pc[stream[OnStream(rx)]] = "pop"
  BY <1>1 DEF OnItsWay
<1>4. Types'
  OBVIOUS
<1>5. ControlStays'
  BY <1>1, <1>2, <1>3 DEF ControlStays
<1>6. Openers'
  BY DEF Openers, OpenerOf, ControlStays, KnownOpen, Numbered, OnItsWay, Bare, Proper
<1>7. Places'
  BY DEF Places, Numbered
<1>8. Served'
  BY DEF Served
<1>9. Owned'
  BY DEF Owned, OnItsWay, Bare, Proper
<1>10. KnownOpen'
  BY <1>1, <1>2, <1>3 DEF KnownOpen, Numbered
<1>11. Quitting'
  BY <1>1, <1>2, <1>3 DEF Quitting
<1>12. OnItsWay'
  BY DEF OnItsWay, Bare, Proper
<1>13. Waiting'
  <2>1. /\ sid[stream[OnStream(rx)]] = OnStream(rx) /\ Proper(rx) /\ call[OnStream(rx)] = rx
        /\ queue' = [queue EXCEPT ![stream[OnStream(rx)]] = <<rx>>]
    BY <1>1, <1>3 DEF OnItsWay, ControlStays, KnownOpen, Numbered, Bare
  <2> QED BY <1>1, <1>2, <1>3, <2>1 DEF Waiting, Proper
<1>14. Working'
  BY DEF Working, Proper, OnItsWay, Bare
<1>15. OneOpening'
  BY DEF OneOpening
<1>16. Closing'
  <2>1. \A s \in Sids, c \in {"open", "closed"} :
          ClosingStream(s, c) => stream[s] # stream[OnStream(rx)]
    BY <1>1, <1>3 DEF ClosingStream, Numbered, ControlStays, KnownOpen, OnItsWay, Bare
  <2>2. \A s \in Sids, c \in {"open", "closed"} : ClosingStream(s, c) => ClosingStream(s, c)'
    BY <1>1, <1>3, <2>1 DEF ClosingStream, Numbered
  <2>3. Bare /\ known = {} => (Bare /\ known = {})'
    BY DEF Bare
  <2>4. \A d \in Command : ToClose(d) => ToClose(d)'
    BY <2>2, <2>3 DEF ToClose
  <2>5. /\ rx' = Null /\ (queue'[Control] = <<rx>> \/ queue'[Control] = queue[Control])
        /\ pc'[Control] = pc[Control] /\ job'[Control] = job[Control]
        /\ held' = held /\ stream' = stream /\ conn' = conn
    BY <1>1, <1>3
  <2>6. queue[Control] # <<>> => queue[Control][1] \in Command
    BY QueueShape DEF ControlStays
  <2>7. pc[Control] \in Busy => job[Control] \in Command /\ job[Control].sid \in Sids
    BY DEF Working
  <2>8. Closing
    OBVIOUS
  <2> HIDE DEF IInv, Deliver, Types
  <2> QED BY <1>1, <1>2, <2>2, <2>4, <2>5, <2>6, <2>7, <2>8 DEF Closing
<1> QED BY <1>4, <1>5, <1>6, <1>7, <1>8, <1>9, <1>10, <1>11, <1>12, <1>13, <1>14, <1>15,
       <1>16

\* There is no such stream.
LEMMA RefuseKeeps ==
  ASSUME Disciplined, IInv, Refuse
  PROVE  IInv'
<1> USE NumbersNotNull, CommandFields
    DEF IInv, Refuse, table, tasks, Types, Busy, OpenSteps, CloseSteps, AtWork, Alone, Picked
<1>1. Types'
  OBVIOUS
<1>2. ControlStays'
  BY DEF ControlStays
<1>3. Openers'
  BY DEF Openers, OpenerOf
<1>4. Places'
  BY DEF Places, Numbered
<1>5. Served'
  BY DEF Served
<1>6. Owned'
  BY DEF Owned
<1>7. KnownOpen'
  BY DEF KnownOpen, Numbered
<1>8. Quitting'
  BY DEF Quitting
<1>9. OnItsWay'
  BY DEF OnItsWay, Bare, Proper
<1>10. Waiting'
  BY DEF Waiting, Proper
<1>11. Working'
  BY DEF Working, Proper, ControlStays, Served
<1>12. OneOpening'
  BY DEF OneOpening
<1>13. Closing'
  BY DEF Closing, ToClose, ClosingStream, Numbered, Bare
<1> QED BY <1>1, <1>2, <1>3, <1>4, <1>5, <1>6, <1>7, <1>8, <1>9, <1>10, <1>11, <1>12, <1>13

\* Only the Agent's own stream is left.
LEMMA RestartKeeps ==
  ASSUME Disciplined, IInv, Restart
  PROVE  IInv'
<1> USE NumbersNotNull, CommandFields
    DEF IInv, Restart, Types, Busy, OpenSteps, CloseSteps, AtWork, Alone, Picked
<1>1. stream' = [s \in Sids |-> IF s = Control THEN Control ELSE Null]
  BY DEF Boot
<1>2. sid' = [o \in Tasks |-> IF o = Control THEN Control ELSE Null]
  BY DEF Boot
<1>3. pc' = [k \in Tasks |-> IF k = Control THEN "pop" ELSE "none"]
  BY DEF Boot
<1>4. queue' = [o \in Tasks |-> <<>>] /\ <<>> # <<Quit>>
  BY DEF Boot
<1>5. mem' = [o \in Tasks |-> IF o # Control /\ mem[o] # "unused" THEN "freed" ELSE mem[o]]
  BY StreamsAssumption DEF Tasks, Opens, Control
<1>6. Types'
  BY <1>1, <1>2, <1>3, <1>4, <1>5 DEF Boot
<1>7. ControlStays'
  BY <1>1, <1>2, <1>3, <1>4, <1>5 DEF ControlStays
<1>8. Openers'
  BY <1>1, <1>2, <1>3, <1>4, <1>5 DEF Openers, OpenerOf
<1>9. Places'
  BY <1>1, <1>2, <1>3, <1>4, <1>5 DEF Places, Numbered
<1>10. Served'
  BY <1>1, <1>2, <1>3, <1>4, <1>5 DEF Served
<1>11. Owned'
  BY <1>1, <1>2, <1>3, <1>4, <1>5 DEF Owned
<1>12. KnownOpen'
  BY DEF KnownOpen, Numbered
<1>13. Quitting'
  BY <1>1, <1>2, <1>3, <1>4, <1>5 DEF Quitting
<1>14. OnItsWay'
  BY <1>1, <1>2, <1>3, <1>4, <1>5 DEF OnItsWay, Bare, Proper
<1>15. Waiting'
  BY <1>1, <1>2, <1>3, <1>4, <1>5 DEF Waiting, Proper
<1>16. Working'
  BY <1>1, <1>2, <1>3, <1>4, <1>5 DEF Working, Proper
<1>17. OneOpening'
  BY DEF OneOpening
<1>18. Closing'
  <2>1. Bare' /\ known' = {}
    BY <1>1, <1>3 DEF Bare
  <2>2. pc'[Control] = "pop" /\ queue'[Control] = <<>> /\ rx' = rx
    BY <1>3, <1>4
  <2> QED BY <2>1, <2>2 DEF Closing, ToClose
<1> QED BY <1>6, <1>7, <1>8, <1>9, <1>10, <1>11, <1>12, <1>13, <1>14, <1>15, <1>16, <1>17,
       <1>18

\* A task takes its command, or learns that it has to end.
LEMMA PopKeeps ==
  ASSUME Disciplined, IInv, NEW k \in Tasks, Pop(k)
  PROVE  IInv'
<1> USE NumbersNotNull, CommandFields
    DEF IInv, Pop, Goto, Quit, Types, Busy, OpenSteps, CloseSteps, AtWork, Alone, Picked
<1>1. structure[k] = k /\ pc[k] = "pop"
  OBVIOUS
<1>2. PICK c \in Command \cup {Null} :
        queue[k] = <<c>> /\ Head(queue[k]) = c /\ Tail(queue[k]) = <<>>
  BY <1>1, QueueShape DEF Quit
<1>3. <<c>>[1] = c /\ <<c>> # <<>> /\ (c = Null <=> <<c>> = <<Null>>)
  OBVIOUS
<1>4. /\ queue' = [queue EXCEPT ![k] = <<>>] /\ job' = [job EXCEPT ![k] = c]
      /\ pc' = [pc EXCEPT ![k] = IF c = Null THEN "free" ELSE "start"]
  BY <1>1, <1>2
<1>5. Types'
  BY <1>1, <1>2, <1>3, <1>4
<1>6. ControlStays'
  BY DEF ControlStays, Working, Proper
<1>7. Openers'
  BY DEF Openers, OpenerOf
<1>8. Places'
  BY <1>1, <1>2, <1>3, <1>4 DEF Places, Numbered
<1>9. Served'
  BY DEF Served, Openers, OpenerOf
<1>10. Owned'
  BY <1>1, <1>4 DEF Owned
<1>11. KnownOpen'
  BY <1>1, <1>2, <1>3, <1>4 DEF KnownOpen, Numbered
<1>12. Quitting'
  BY <1>1, <1>2, <1>3, <1>4 DEF Quitting
<1>13. OnItsWay'
  BY DEF OnItsWay, Bare, Proper
<1>14. Waiting'
  BY <1>1, <1>2, <1>3, <1>4 DEF Waiting, Proper
<1>15. Working'
  BY <1>1, <1>2, <1>3, <1>4
     DEF Working, Proper, ControlStays, Places, Numbered, KnownOpen, Waiting
<1>16. OneOpening'
  BY DEF OneOpening
<1>17. Closing'
  <2>1. \A s \in Sids : ClosingStream(s, "open") => ClosingStream(s, "open")'
    BY <1>1, <1>2, <1>3, <1>4 DEF ClosingStream, Numbered
  <2>2. \A s \in Sids : ClosingStream(s, "closed") => ClosingStream(s, "closed")'
    BY <1>1, <1>2, <1>3, <1>4 DEF ClosingStream, Numbered
  <2>3. Bare => Bare'
    BY <1>1, <1>2, <1>4 DEF Bare
  <2>4. \A d \in Command : ToClose(d) => ToClose(d)'
    BY <2>1, <2>3 DEF ToClose
  <2>5. k = Control => c \in Command /\ ToClose(c)
    BY <1>1, <1>2, <1>3 DEF Closing, ControlStays
  <2>6. queue[Control] # <<>> => queue[Control][1] \in Command
    BY QueueShape DEF ControlStays
  <2>7. pc[Control] \in Busy => job[Control] \in Command /\ job[Control].sid \in Sids
    BY DEF Working
  <2> QED BY <1>1, <1>2, <1>3, <1>4, <2>1, <2>2, <2>4, <2>5, <2>6, <2>7 DEF Closing
<1> QED BY <1>5, <1>6, <1>7, <1>8, <1>9, <1>10, <1>11, <1>12, <1>13, <1>14, <1>15, <1>16,
       <1>17

\* The handler looks up the context.
LEMMA FindKeeps ==
  ASSUME Disciplined, IInv, NEW k \in Tasks, Find(k)
  PROVE  IInv'
<1> USE NumbersNotNull, CommandFields
    DEF IInv, Find, Respond, ContextOf, Goto, table, Types, Busy, OpenSteps, CloseSteps, AtWork, Alone, Picked
<1>1. AtWork(k)
  BY BusyAtWork
<1>2. Types'
  BY <1>1
<1>3. ControlStays'
  BY DEF ControlStays, Working, Proper
<1>4. Openers'
  BY <1>1 DEF Openers, OpenerOf
<1>5. Places'
  BY <1>1 DEF Places, Numbered
<1>6. Served'
  BY DEF Served
<1>7. Owned'
  BY DEF Owned
<1>8. KnownOpen'
  BY <1>1 DEF KnownOpen, Numbered
<1>9. Quitting'
  BY <1>1 DEF Quitting
<1>10. OnItsWay'
  BY <1>1 DEF OnItsWay, Bare, Proper
<1>11. Waiting'
  BY <1>1 DEF Waiting, Proper
<1>12. Working'
  BY <1>1 DEF Working, Proper
<1>13. OneOpening'
  BY DEF OneOpening
<1>14. Closing'
  <2>1. Stays("open") /\ Stays("closed")
    BY <1>1 DEF Stays, ClosingStream, Numbered
  <2>2. Bare /\ known = {} => (Bare /\ known = {})'
    BY <1>1 DEF Bare
  <2>3. rx' = rx /\ queue' = queue /\ conn' = conn
    OBVIOUS
  <2>4. CASE pc'[Control] = pc[Control] /\ job'[Control] = job[Control] /\ held'[Control] = held[Control]
    BY <2>1, <2>2, <2>3, <2>4, ClosingKept
  <2>5. CASE pc'[Control] \notin {"start"} \cup CloseSteps
    BY <2>1, <2>2, <2>3, <2>5, ClosingKept
  <2>6. CASE k = Control /\ pc'[k] \in CloseSteps
    <3>1. /\ pc[k] = "start" /\ job[k].kind = "close" /\ pc'[k] = "close" /\ job' = job
          /\ ContextOf(job[k].sid) # Null /\ held'[k] = ContextOf(job[k].sid)
      BY <1>1, <2>6
    <3>2. job[k].sid \in Sids \ {Control}
      BY <1>1, <3>1 DEF Proper
    <3>3. ClosingStream(job[k].sid, "open")
      BY <2>6, <3>1, <3>2 DEF Closing, ToClose, Bare
    <3>4. ClosingStream(job[k].sid, "open")' /\ held'[k] = stream'[job[k].sid]
      BY <1>1, <2>1, <3>1, <3>2, <3>3 DEF Stays, ClosingStream, Numbered
    <3>5. ToClose(job[k])
      BY <3>3 DEF ToClose
    <3>6. \A d \in Command : ToClose(d) => ToClose(d)'
      BY <2>1, <2>2 DEF ToClose, Stays
    <3>7. queue[Control] = <<>>
      BY <1>1, <2>6 DEF ControlStays
    <3>8. rx # Null => ToClose(rx) /\ rx \in Command
      BY DEF Closing
    <3> HIDE DEF IInv, Find, Types, Respond, Goto
    <3> QED BY <2>3, <2>6, <3>1, <3>4, <3>6, <3>7, <3>8 DEF Closing
  <2> QED BY <1>1, <2>4, <2>5, <2>6
<1> QED BY <1>2, <1>3, <1>4, <1>5, <1>6, <1>7, <1>8, <1>9, <1>10, <1>11, <1>12, <1>13,
       <1>14

\* recv, send and the polls end.
LEMMA UseKeeps ==
  ASSUME Disciplined, IInv, NEW k \in Tasks, Use(k)
  PROVE  IInv'
<1> USE NumbersNotNull, CommandFields
    DEF IInv, Use, Respond, Goto, table, Types, Busy, OpenSteps, CloseSteps, AtWork, Alone, Picked
<1>1. AtWork(k)
  BY BusyAtWork
<1>2. Types'
  BY <1>1
<1>3. ControlStays'
  BY DEF ControlStays
<1>4. Openers'
  BY DEF Openers, OpenerOf
<1>5. Places'
  BY DEF Places, Numbered
<1>6. Served'
  BY DEF Served
<1>7. Owned'
  BY DEF Owned
<1>8. KnownOpen'
  BY DEF KnownOpen, Numbered
<1>9. Quitting'
  BY DEF Quitting
<1>10. OnItsWay'
  BY <1>1 DEF OnItsWay, Bare, Proper
<1>11. Waiting'
  BY <1>1 DEF Waiting, Proper
<1>12. Working'
  BY <1>1 DEF Working, Proper
<1>13. OneOpening'
  BY DEF OneOpening
<1>14. Closing'
  <2>1. Stays("open")
    BY <1>1 DEF Stays, ClosingStream, Numbered
  <2>2. Stays("closed")
    BY <1>1 DEF Stays, ClosingStream, Numbered
  <2>3. Bare /\ known = {} => (Bare /\ known = {})'
    BY <1>1 DEF Bare
  <2>4. rx' \in {rx, Null} /\ queue'[Control] = queue[Control]
    BY <1>1
  <2>5. \/ pc'[Control] \notin {"start"} \cup CloseSteps
        \/ /\ pc'[Control] = pc[Control] /\ job'[Control] = job[Control]
           /\ held'[Control] = held[Control]
           /\ \A o \in Opens : conn[o] = "closed" => conn'[o] = "closed"
    BY <1>1
  <2> QED BY <2>1, <2>2, <2>3, <2>4, <2>5, ClosingKept
<1> QED BY <1>2, <1>3, <1>4, <1>5, <1>6, <1>7, <1>8, <1>9, <1>10, <1>11, <1>12, <1>13,
       <1>14

\* A task that ends gives up its place ...
LEMMA ClearPlaceKeeps ==
  ASSUME Disciplined, IInv, NEW k \in Tasks, ClearPlace(k)
  PROVE  IInv'
<1> USE NumbersNotNull, CommandFields
    DEF IInv, ClearPlace, Goto, Types, Busy, OpenSteps, CloseSteps, AtWork, Alone, Picked
<1>1. structure[k] = k
  OBVIOUS
<1>2. Types'
  BY DEF ControlStays, Served
<1>3. ControlStays'
  BY DEF ControlStays, Served
<1>4. Openers'
  BY DEF Openers, OpenerOf, ControlStays, Served
<1>5. Places'
  BY DEF Places, Numbered
<1>6. Served'
  BY DEF Served, ControlStays
<1>7. Owned'
  BY DEF Owned, ControlStays, Quitting
<1>8. KnownOpen'
  BY DEF KnownOpen, Numbered, ControlStays, Served
<1>9. Quitting'
  BY DEF Quitting, ControlStays
<1>10. OnItsWay'
  BY DEF OnItsWay, Bare, Proper
<1>11. Waiting'
  BY DEF Waiting, Proper, ControlStays, Served
<1>12. Working'
  BY DEF Working, Proper
<1>13. OneOpening'
  BY DEF OneOpening
<1>14. Closing'
  <2>0. sid[k] \in Sids /\ stream[sid[k]] = k /\ pc[k] = "free" /\ stream' = [stream EXCEPT ![sid[k]] = Null]
    BY <1>1, Placed
  <2>1. Stays("open")
    BY <1>1, <2>0 DEF Stays, ClosingStream, Numbered
  <2>2. Stays("closed")
    BY <1>1, <2>0 DEF Stays, ClosingStream, Numbered
  <2>3. Bare /\ known = {} => (Bare /\ known = {})'
    BY <1>1 DEF Bare
  <2>4. rx' \in {rx, Null} /\ queue'[Control] = queue[Control]
    BY <1>1
  <2>5. \/ pc'[Control] \notin {"start"} \cup CloseSteps
        \/ /\ pc'[Control] = pc[Control] /\ job'[Control] = job[Control]
           /\ held'[Control] = held[Control]
           /\ \A o \in Opens : conn[o] = "closed" => conn'[o] = "closed"
    BY <1>1 DEF ControlStays
  <2> QED BY <2>1, <2>2, <2>3, <2>4, <2>5, ClosingKept
<1> QED BY <1>2, <1>3, <1>4, <1>5, <1>6, <1>7, <1>8, <1>9, <1>10, <1>11, <1>12, <1>13,
       <1>14

\* ... and then its memory.
LEMMA FreeStreamKeeps ==
  ASSUME Disciplined, IInv, NEW k \in Tasks, FreeStream(k)
  PROVE  IInv'
<1> USE NumbersNotNull, CommandFields
    DEF IInv, FreeStream, Goto, Types, Busy, OpenSteps, CloseSteps, AtWork, Alone, Picked
<1>1. structure[k] = k
  OBVIOUS
<1>2. Types'
  OBVIOUS
<1>3. ControlStays'
  BY DEF ControlStays
<1>4. Openers'
  BY DEF Openers, OpenerOf
<1>5. Places'
  BY DEF Places, Numbered
<1>6. Served'
  BY DEF Served
<1>7. Owned'
  BY DEF Owned
<1>8. KnownOpen'
  BY DEF KnownOpen, Numbered
<1>9. Quitting'
  BY DEF Quitting
<1>10. OnItsWay'
  BY DEF OnItsWay, Bare, Proper
<1>11. Waiting'
  BY DEF Waiting, Proper
<1>12. Working'
  BY DEF Working, Proper
<1>13. OneOpening'
  BY DEF OneOpening
<1>14. Closing'
  <2>1. Stays("open")
    BY <1>1 DEF Stays, ClosingStream, Numbered
  <2>2. Stays("closed")
    BY <1>1 DEF Stays, ClosingStream, Numbered
  <2>3. Bare /\ known = {} => (Bare /\ known = {})'
    BY <1>1 DEF Bare
  <2>4. rx' \in {rx, Null} /\ queue'[Control] = queue[Control]
    BY <1>1
  <2>5. \/ pc'[Control] \notin {"start"} \cup CloseSteps
        \/ /\ pc'[Control] = pc[Control] /\ job'[Control] = job[Control]
           /\ held'[Control] = held[Control]
           /\ \A o \in Opens : conn[o] = "closed" => conn'[o] = "closed"
    BY <1>1
  <2> QED BY <2>1, <2>2, <2>3, <2>4, <2>5, ClosingKept
<1> QED BY <1>2, <1>3, <1>4, <1>5, <1>6, <1>7, <1>8, <1>9, <1>10, <1>11, <1>12, <1>13,
       <1>14

\* The n-th connection is new: nothing in the table knows it.
LEMMA ConnectedKeeps ==
  ASSUME Disciplined, IInv, NEW k \in Tasks, Connected(k)
  PROVE  IInv'
<1> USE NumbersNotNull, CommandFields
    DEF IInv, Connected, Goto, table, Types, Busy, OpenSteps, CloseSteps, AtWork, Alone, Picked
<1>1. AtWork(k)
  BY BusyAtWork
<1>2. Alone(k)
  BY <1>1, OpensAlone DEF AtWork, Working
<1>3. pc[k] \notin OpenSteps
  OBVIOUS
<1>4. /\ opens + 1 \in Opens /\ opens + 1 > opens /\ ~(opens + 1 > opens + 1) /\ opens + 1 <= opens + 1
      /\ \A o \in Opens : (o > opens + 1 => o > opens) /\ (o <= opens => o <= opens + 1)
      /\ \A o \in Opens : o # opens + 1 /\ o > opens => o > opens + 1
  BY StreamsAssumption DEF Opens
<1>5. Types'
  BY <1>1, <1>2, <1>3, <1>4
<1>6. ControlStays'
  BY DEF ControlStays
<1>7. Openers'
  BY <1>1, <1>2, <1>3, <1>4 DEF Openers, OpenerOf, Owned
<1>8. Places'
  BY DEF Places, Numbered
<1>9. Served'
  BY DEF Served
<1>10. Owned'
  BY <1>1, <1>2, <1>3, <1>4 DEF Owned
<1>11. KnownOpen'
  BY DEF KnownOpen, Numbered
<1>12. Quitting'
  BY DEF Quitting, Owned
<1>13. OnItsWay'
  BY DEF OnItsWay, Bare, Proper
<1>14. Waiting'
  BY DEF Waiting, Proper
<1>15. Working'
  BY DEF Working, Proper
<1>16. OneOpening'
  BY DEF OneOpening
<1>17. Closing'
  <2>1. Stays("open")
    BY <1>1, <1>4 DEF Stays, ClosingStream, Numbered, Owned
  <2>2. Stays("closed")
    BY <1>1, <1>4 DEF Stays, ClosingStream, Numbered, Owned
  <2>3. Bare /\ known = {} => (Bare /\ known = {})'
    BY <1>1, <1>4 DEF Bare
  <2>4. rx' \in {rx, Null} /\ queue'[Control] = queue[Control]
    BY <1>1, <1>4
  <2>5. \/ pc'[Control] \notin {"start"} \cup CloseSteps
        \/ /\ pc'[Control] = pc[Control] /\ job'[Control] = job[Control]
           /\ held'[Control] = held[Control]
           /\ \A o \in Opens : conn[o] = "closed" => conn'[o] = "closed"
    BY <1>1, <1>4 DEF Owned
  <2> QED BY <2>1, <2>2, <2>3, <2>4, <2>5, ClosingKept
<1> QED BY <1>5, <1>6, <1>7, <1>8, <1>9, <1>10, <1>11, <1>12, <1>13, <1>14, <1>15, <1>16,
       <1>17

\* No connection was made.
LEMMA NotConnectedKeeps ==
  ASSUME Disciplined, IInv, NEW k \in Tasks, NotConnected(k)
  PROVE  IInv'
<1> USE NumbersNotNull, CommandFields
    DEF IInv, NotConnected, Respond, Goto, table, Types, Busy, OpenSteps, CloseSteps, AtWork, Alone, Picked
<1>1. AtWork(k)
  BY BusyAtWork
<1>2. Types'
  BY <1>1
<1>3. ControlStays'
  BY DEF ControlStays
<1>4. Openers'
  BY DEF Openers, OpenerOf
<1>5. Places'
  BY DEF Places, Numbered
<1>6. Served'
  BY DEF Served
<1>7. Owned'
  BY DEF Owned
<1>8. KnownOpen'
  BY DEF KnownOpen, Numbered
<1>9. Quitting'
  BY DEF Quitting
<1>10. OnItsWay'
  BY <1>1 DEF OnItsWay, Bare, Proper
<1>11. Waiting'
  BY <1>1 DEF Waiting, Proper
<1>12. Working'
  BY <1>1 DEF Working, Proper
<1>13. OneOpening'
  BY DEF OneOpening
<1>14. Closing'
  <2>1. Stays("open")
    BY <1>1 DEF Stays, ClosingStream, Numbered
  <2>2. Stays("closed")
    BY <1>1 DEF Stays, ClosingStream, Numbered
  <2>3. Bare /\ known = {} => (Bare /\ known = {})'
    BY <1>1 DEF Bare
  <2>4. rx' \in {rx, Null} /\ queue'[Control] = queue[Control]
    BY <1>1
  <2>5. \/ pc'[Control] \notin {"start"} \cup CloseSteps
        \/ /\ pc'[Control] = pc[Control] /\ job'[Control] = job[Control]
           /\ held'[Control] = held[Control]
           /\ \A o \in Opens : conn[o] = "closed" => conn'[o] = "closed"
    BY <1>1
  <2> QED BY <2>1, <2>2, <2>3, <2>4, <2>5, ClosingKept
<1> QED BY <1>2, <1>3, <1>4, <1>5, <1>6, <1>7, <1>8, <1>9, <1>10, <1>11, <1>12, <1>13,
       <1>14

\* The place found stays free: nobody else is opening a stream.
LEMMA PickPlaceKeeps ==
  ASSUME Disciplined, IInv, NEW k \in Tasks, PickPlace(k)
  PROVE  IInv'
<1> USE NumbersNotNull, CommandFields
    DEF IInv, PickPlace, GiveUp, Respond, FreePlaces, Goto, table, Types, Busy, OpenSteps, CloseSteps, AtWork, Alone, Picked
<1>1. AtWork(k)
  BY BusyAtWork
<1>2. Alone(k)
  BY <1>1, OpensAlone DEF AtWork, Working
<1>3. Types'
  OBVIOUS
<1>4. ControlStays'
  BY DEF ControlStays
<1>5. Openers'
  BY <1>1, <1>2 DEF Openers, OpenerOf
<1>6. Places'
  BY DEF Places, Numbered
<1>7. Served'
  BY DEF Served
<1>8. Owned'
  BY <1>1, <1>2 DEF Owned, Openers, OpenerOf
<1>9. KnownOpen'
  BY DEF KnownOpen, Numbered, Openers, OpenerOf
<1>10. Quitting'
  BY DEF Quitting
<1>11. OnItsWay'
  BY <1>1, <1>2 DEF OnItsWay, Bare, Proper
<1>12. Waiting'
  BY <1>1, <1>2 DEF Waiting, Proper
<1>13. Working'
  BY <1>1, <1>2 DEF Working, Proper
<1>14. OneOpening'
  BY DEF OneOpening
<1>15. Closing'
  <2>1. Stays("open")
    BY <1>1 DEF Stays, ClosingStream, Numbered, Openers, OpenerOf
  <2>2. Stays("closed")
    BY <1>1 DEF Stays, ClosingStream, Numbered, Openers, OpenerOf
  <2>3. Bare /\ known = {} => (Bare /\ known = {})'
    BY <1>1 DEF Bare
  <2>4. rx' \in {rx, Null} /\ queue'[Control] = queue[Control]
    BY <1>1
  <2>5. \/ pc'[Control] \notin {"start"} \cup CloseSteps
        \/ /\ pc'[Control] = pc[Control] /\ job'[Control] = job[Control]
           /\ held'[Control] = held[Control]
           /\ \A o \in Opens : conn[o] = "closed" => conn'[o] = "closed"
    BY <1>1 DEF Openers, OpenerOf
  <2> QED BY <2>1, <2>2, <2>3, <2>4, <2>5, ClosingKept
<1> QED BY <1>3, <1>4, <1>5, <1>6, <1>7, <1>8, <1>9, <1>10, <1>11, <1>12, <1>13, <1>14,
       <1>15

\* The structure is put into that place.
LEMMA AllocStreamKeeps ==
  ASSUME Disciplined, IInv, NEW k \in Tasks, AllocStream(k)
  PROVE  IInv'
<1> USE NumbersNotNull, CommandFields
    DEF IInv, AllocStream, GiveUp, Respond, Goto, Types, Busy, OpenSteps, CloseSteps, AtWork, Alone, Picked
<1>1. AtWork(k)
  BY BusyAtWork
<1>2. Alone(k)
  BY <1>1, OpensAlone DEF AtWork, Working
<1>3. Picked(k)
  BY OpenerPicked
<1>4. rx # Null => OnStream(rx) # sid[k]
  BY <1>1 DEF OnItsWay
<1>5. Types'
  OBVIOUS
<1>6. ControlStays'
  BY DEF ControlStays, Openers, OpenerOf
<1>7. Openers'
  BY <1>1, <1>2, <1>3, <1>4 DEF Openers, OpenerOf
<1>8. Places'
  BY DEF Places, Numbered, Openers, OpenerOf
<1>9. Served'
  BY DEF Served, Openers, OpenerOf
<1>10. Owned'
  BY DEF Owned, Openers, OpenerOf
<1>11. KnownOpen'
  BY DEF KnownOpen, Numbered, Openers, OpenerOf
<1>12. Quitting'
  BY DEF Quitting, Openers, OpenerOf
<1>13. OnItsWay'
  BY <1>1, <1>2, <1>3, <1>4 DEF OnItsWay, Bare, Proper, Openers, OpenerOf, KnownOpen, Numbered
<1>14. Waiting'
  BY <1>1, <1>2, <1>3, <1>4 DEF Waiting, Proper, Openers, OpenerOf
<1>15. Working'
  BY <1>1, <1>2, <1>3, <1>4 DEF Working, Proper
<1>16. OneOpening'
  BY DEF OneOpening, Working, Proper
<1>17. Closing'
  <2>1. Stays("open")
    BY <1>1, <1>3 DEF Stays, ClosingStream, Numbered, Openers, OpenerOf
  <2>2. Stays("closed")
    BY <1>1, <1>3 DEF Stays, ClosingStream, Numbered, Openers, OpenerOf
  <2>3. CASE k = Control
    <3>1. queue[Control] = <<>> /\ queue' = queue /\ pc'[Control] \in {"setup", "pop"}
      BY <1>1, <2>3 DEF ControlStays
    <3>2. rx # Null => rx.kind \notin {"connect", "close"}
      BY <1>1, <1>4, <2>3 DEF ControlStays
    <3>3. rx' = rx
      OBVIOUS
    <3> QED BY <3>1, <3>2, <3>3 DEF Closing, ToClose
  <2>4. CASE k # Control
    <3>1. ~Bare
      BY <1>1, <2>4 DEF Bare
    <3>2. rx' = rx /\ queue' = queue
      OBVIOUS
    <3>3. pc'[Control] = pc[Control] /\ job'[Control] = job[Control] /\ held'[Control] = held[Control]
      BY <2>4
    <3>4. \A o \in Opens : conn[o] = "closed" => conn'[o] = "closed"
      BY DEF Openers, OpenerOf
    <3> QED BY <2>1, <2>2, <3>1, <3>2, <3>3, <3>4, ClosingKept
  <2> QED BY <2>3, <2>4
<1> QED BY <1>5, <1>6, <1>7, <1>8, <1>9, <1>10, <1>11, <1>12, <1>13, <1>14, <1>15, <1>16,
       <1>17

\* What is in the place is the structure put there.
LEMMA SetUpStreamKeeps ==
  ASSUME Disciplined, IInv, NEW k \in Tasks, SetUpStream(k)
  PROVE  IInv'
<1> USE NumbersNotNull, CommandFields
    DEF IInv, SetUpStream, Disciplined, Goto, Types, Busy, OpenSteps, CloseSteps, AtWork, Alone, Picked
<1>1. AtWork(k)
  BY BusyAtWork
<1>2. Alone(k)
  BY <1>1, OpensAlone DEF AtWork, Working
<1>3. Types'
  BY DEF Openers, OpenerOf
<1>4. ControlStays'
  BY DEF ControlStays
<1>5. Openers'
  BY <1>1, <1>2 DEF Openers, OpenerOf
<1>6. Places'
  BY DEF Places, Numbered, Openers, OpenerOf
<1>7. Served'
  BY DEF Served
<1>8. Owned'
  BY DEF Owned, Openers, OpenerOf
<1>9. KnownOpen'
  BY DEF KnownOpen, Numbered, Openers, OpenerOf
<1>10. Quitting'
  BY DEF Quitting
<1>11. OnItsWay'
  BY DEF OnItsWay, Bare, Proper
<1>12. Waiting'
  BY DEF Waiting, Proper
<1>13. Working'
  BY DEF Working, Proper
<1>14. OneOpening'
  BY DEF OneOpening
<1>15. Closing'
  <2>1. Stays("open")
    BY <1>1 DEF Stays, ClosingStream, Numbered, Openers, OpenerOf
  <2>2. Stays("closed")
    BY <1>1 DEF Stays, ClosingStream, Numbered, Openers, OpenerOf
  <2>3. Bare /\ known = {} => (Bare /\ known = {})'
    BY <1>1 DEF Bare
  <2>4. rx' \in {rx, Null} /\ queue'[Control] = queue[Control]
    BY <1>1 DEF Openers, OpenerOf
  <2>5. \/ pc'[Control] \notin {"start"} \cup CloseSteps
        \/ /\ pc'[Control] = pc[Control] /\ job'[Control] = job[Control]
           /\ held'[Control] = held[Control]
           /\ \A o \in Opens : conn[o] = "closed" => conn'[o] = "closed"
    BY <1>1 DEF Openers, OpenerOf
  <2> QED BY <2>1, <2>2, <2>3, <2>4, <2>5, ClosingKept
<1> QED BY <1>3, <1>4, <1>5, <1>6, <1>7, <1>8, <1>9, <1>10, <1>11, <1>12, <1>13, <1>14,
       <1>15

\* The task starts with the structure of this connection.
LEMMA SpawnTaskKeeps ==
  ASSUME Disciplined, IInv, NEW k \in Tasks, SpawnTask(k)
  PROVE  IInv'
<1> USE NumbersNotNull, CommandFields
    DEF IInv, SpawnTask, Goto, Types, Busy, OpenSteps, CloseSteps, AtWork, Alone, Picked
<1>1. AtWork(k)
  BY BusyAtWork
<1>2. Alone(k)
  BY <1>1, OpensAlone DEF AtWork, Working
<1>3. Picked(k)
  BY OpenerPicked
<1>4. stream[slot[k]] = new[k]
  BY DEF Openers, OpenerOf
<1>5. "task" \notin MayFail
  BY DEF Disciplined
<1>6. Types'
  <2>0. structure' = [structure EXCEPT ![new[k]] = new[k]]
    BY <1>1, <1>3, <1>4, <1>5
  <2>1. structure' = structure /\ pc' = [pc EXCEPT ![k] = "finish", ![new[k]] = "pop"]
    BY <2>0, <1>1, <1>3, <1>4, <1>5
  <2>2. pc' \in [Tasks -> {"none", "pop", "free", "freemem"} \cup Busy]
    BY <2>1, <1>3
  <2> QED BY <2>1, <2>2, <1>5
<1>7. ControlStays'
  BY <1>1, <1>2, <1>3, <1>4, <1>5 DEF ControlStays
<1>8. Openers'
  BY <1>1, <1>2, <1>3, <1>4, <1>5 DEF Openers, OpenerOf
<1>9. Places'
  BY <1>1, <1>2, <1>3, <1>4, <1>5 DEF Places, Numbered
<1>10. Served'
  BY <1>1, <1>2, <1>3, <1>4, <1>5 DEF Served, Openers, OpenerOf
<1>11. Owned'
  BY <1>1, <1>2, <1>3, <1>4, <1>5 DEF Owned, Openers, OpenerOf
<1>12. KnownOpen'
  BY <1>1, <1>2, <1>3, <1>4, <1>5 DEF KnownOpen, Numbered
<1>13. Quitting'
  BY <1>1, <1>2, <1>3, <1>4, <1>5 DEF Quitting
<1>14. OnItsWay'
  BY <1>1, <1>2, <1>3, <1>4, <1>5 DEF OnItsWay, Bare, Proper
<1>15. Waiting'
  BY <1>1, <1>2, <1>3, <1>4, <1>5 DEF Waiting, Proper
<1>16. Working'
  BY <1>1, <1>2, <1>3, <1>4, <1>5 DEF Working, Proper
<1>17. OneOpening'
  BY <1>1, <1>2, <1>3, <1>4, <1>5 DEF OneOpening
<1>18. Closing'
  <2>1. Stays("open")
    BY <1>1, <1>3, <1>4, <1>5 DEF Stays, ClosingStream, Numbered, Openers, OpenerOf
  <2>2. Stays("closed")
    BY <1>1, <1>3, <1>4, <1>5 DEF Stays, ClosingStream, Numbered, Openers, OpenerOf
  <2>3. Bare /\ known = {} => (Bare /\ known = {})'
    BY <1>1, <1>3, <1>4, <1>5 DEF Bare, Openers, OpenerOf
  <2>4. rx' \in {rx, Null} /\ queue'[Control] = queue[Control]
    BY <1>1, <1>3, <1>4, <1>5
  <2>5. \/ pc'[Control] \notin {"start"} \cup CloseSteps
        \/ /\ pc'[Control] = pc[Control] /\ job'[Control] = job[Control]
           /\ held'[Control] = held[Control]
           /\ \A o \in Opens : conn[o] = "closed" => conn'[o] = "closed"
    BY <1>1, <1>3, <1>4, <1>5
  <2> QED BY <2>1, <2>2, <2>3, <2>4, <2>5, ClosingKept
<1> QED BY <1>6, <1>7, <1>8, <1>9, <1>10, <1>11, <1>12, <1>13, <1>14, <1>15, <1>16, <1>17,
       <1>18

\* The stream is known from now on, and complete.
LEMMA FinishOpenKeeps ==
  ASSUME Disciplined, IInv, NEW k \in Tasks, FinishOpen(k)
  PROVE  IInv'
<1> USE NumbersNotNull, CommandFields
    DEF IInv, FinishOpen, Opened, Goto, Types, Busy, OpenSteps, CloseSteps, AtWork, Alone, Picked
<1>1. AtWork(k)
  BY BusyAtWork
<1>2. Alone(k)
  BY <1>1, OpensAlone DEF AtWork, Working
<1>3. Types'
  BY <1>1, <1>2 DEF Openers, OpenerOf
<1>4. ControlStays'
  BY DEF ControlStays, Openers, OpenerOf
<1>5. Openers'
  BY <1>1, <1>2 DEF Openers, OpenerOf
<1>6. Places'
  BY DEF Places, Numbered, Openers, OpenerOf
<1>7. Served'
  BY DEF Served, Openers, OpenerOf
<1>8. Owned'
  BY DEF Owned, Openers, OpenerOf
<1>9. KnownOpen'
  BY DEF KnownOpen, Numbered, Openers, OpenerOf, ControlStays
<1>10. Quitting'
  BY DEF Quitting, Openers, OpenerOf
<1>11. OnItsWay'
  BY <1>1, <1>2 DEF OnItsWay, Bare, Proper
<1>12. Waiting'
  <2>1. stream[slot[k]] = new[k] /\ queue[new[k]] = <<>>
    BY DEF Openers, OpenerOf
  <2>2. /\ sid' = [sid EXCEPT ![new[k]] = slot[k]] /\ pc' = [pc EXCEPT ![k] = "pop"]
        /\ call' = [call EXCEPT ![sid[k]] = Null] /\ queue' = queue /\ stream' = stream
    BY <1>1, <2>1
  <2>3. ASSUME NEW o \in Tasks, queue[o] # <<>>, queue[o] # <<Quit>>
        PROVE  LET c == queue[o][1] IN
                 /\ Proper(c) /\ pc'[o] = "pop" /\ call'[OnStream(c)] = c
                 /\ stream[OnStream(c)] = o /\ sid'[o] = OnStream(c)
    <3>1. o # k /\ o # new[k]
      BY <1>1, <2>1, <2>3 DEF Waiting
    <3>2. /\ Proper(queue[o][1]) /\ pc[o] = "pop" /\ call[OnStream(queue[o][1])] = queue[o][1]
          /\ stream[OnStream(queue[o][1])] = o /\ sid[o] = OnStream(queue[o][1])
      BY <2>3 DEF Waiting
    <3>3. OnStream(queue[o][1]) # sid[k] /\ sid[k] \in Sids
      BY <1>1, <3>1, <3>2
    <3>4. sid'[o] = sid[o] /\ pc'[o] = "pop"
      BY <2>2, <3>1, <3>2
    <3>5. call \in [Sids -> Command \cup {Null}]
      OBVIOUS
    <3>6. OnStream(queue[o][1]) \in Sids
      BY <2>3, QueueShape
    <3>7. call'[OnStream(queue[o][1])] = queue[o][1]
      <4> HIDE DEF IInv, FinishOpen, Types, Opened, AtWork, Goto
      <4> QED BY <2>2, <3>2, <3>3, <3>5, <3>6
    <3> QED BY <3>2, <3>4, <3>7
  <2> HIDE DEF IInv, FinishOpen, Types, Opened, AtWork, Goto
  <2> QED BY <2>2, <2>3 DEF Waiting
<1>13. Working'
  BY <1>1, <1>2 DEF Working, Proper, Openers, OpenerOf
<1>14. OneOpening'
  BY DEF OneOpening
<1>15. Closing'
  <2>1. ~Bare /\ stream[slot[k]] = new[k] /\ sid[new[k]] = Null /\ new[k] \in Opens
    BY DEF Bare, Openers, OpenerOf
  <2>2. \A s \in Sids : ClosingStream(s, "open") => ClosingStream(s, "open")'
    BY <1>1, <2>1 DEF ClosingStream, Numbered
  <2>3. \A s \in Sids : ClosingStream(s, "closed") => ClosingStream(s, "closed")'
    BY <1>1, <2>1 DEF ClosingStream, Numbered
  <2>4. \A d \in Command : ToClose(d) => ToClose(d)'
    BY <2>1, <2>2 DEF ToClose
  <2>6. queue[Control] # <<>> => queue[Control][1] \in Command
    BY QueueShape DEF ControlStays, Quit
  <2>7. pc[Control] \in Busy => job[Control] \in Command /\ job[Control].sid \in Sids
    BY DEF Working
  <2> QED BY <1>1, <2>2, <2>3, <2>4, <2>6, <2>7 DEF Closing
<1> QED BY <1>3, <1>4, <1>5, <1>6, <1>7, <1>8, <1>9, <1>10, <1>11, <1>12, <1>13, <1>14,
       <1>15

\* The connection of a stream nobody may use any more is closed.
LEMMA CloseConnKeeps ==
  ASSUME Disciplined, IInv, NEW k \in Tasks, CloseConn(k)
  PROVE  IInv'
<1> USE NumbersNotNull, CommandFields
    DEF IInv, CloseConn, Goto, table, Types, Busy, OpenSteps, CloseSteps, AtWork, Alone, Picked
<1>1. AtWork(k)
  BY BusyAtWork
<1>2. /\ k = Control /\ held[k] \in Opens
      /\ conn[held[k]] = IF pc[k] = "close" THEN "open" ELSE "closed"
      /\ pc[k] # "freectx" =>
           /\ job[k].sid \in Sids \ {Control} /\ job[k].sid \notin known
           /\ stream[job[k].sid] = held[k] /\ Numbered(job[k].sid, held[k])
           /\ pc[held[k]] # "free" /\ queue[held[k]] # <<Quit>>
  BY ClosesAlone
<1>3. Types'
  BY <1>1, <1>2 DEF Numbered
<1>4. ControlStays'
  BY DEF ControlStays
<1>5. Openers'
  BY <1>1, <1>2 DEF Openers, OpenerOf, Numbered
<1>6. Places'
  BY DEF Places, Numbered
<1>7. Served'
  BY DEF Served
<1>8. Owned'
  BY <1>1, <1>2 DEF Owned, Numbered
<1>9. KnownOpen'
  BY <1>1, <1>2 DEF KnownOpen, Numbered
<1>10. Quitting'
  BY DEF Quitting
<1>11. OnItsWay'
  BY DEF OnItsWay, Bare, Proper
<1>12. Waiting'
  BY DEF Waiting, Proper
<1>13. Working'
  BY DEF Working, Proper
<1>14. OneOpening'
  BY DEF OneOpening
<1>15. Closing'
  <2>0. job[k].kind = "close"
    BY DEF Working
  <2>1. ClosingStream(job[k].sid, "open") /\ held[k] = stream[job[k].sid]
    BY <1>2 DEF Closing
  <2>2. /\ pc'[k] = "push" /\ job' = job /\ held' = held /\ queue' = queue /\ stream' = stream
        /\ queue[k] = <<>> /\ rx' = rx
    BY <1>1, <1>2 DEF ControlStays
  <2>3. ClosingStream(job[k].sid, "closed")'
    BY <1>1, <1>2, <2>1 DEF ClosingStream, Numbered
  <2>4. \A d \in Command : d # job[k] /\ ToClose(d) => ToClose(d)'
    <3> SUFFICES ASSUME NEW d \in Command, d # job[k], d.kind = "close", ToClose(d)
                 PROVE  ToClose(d)'
      BY DEF ToClose
    <3>1. d.sid # job[k].sid
      BY <1>1, <2>0 DEF Command
    <3>2. ClosingStream(d.sid, "open")
      BY <1>2 DEF ToClose, Bare
    <3>3. ClosingStream(d.sid, "open")'
      BY <1>1, <1>2, <3>1, <3>2 DEF ClosingStream, Numbered
    <3> QED BY <3>3 DEF ToClose
  <2>5. rx # Null => rx \in Command /\ rx # job[k] /\ ToClose(rx)
    BY <1>1, <1>2 DEF Closing, OnItsWay
  <2> HIDE DEF IInv, CloseConn, Types, Goto
  <2> QED BY <1>2, <2>1, <2>2, <2>3, <2>4, <2>5 DEF Closing
<1> QED BY <1>3, <1>4, <1>5, <1>6, <1>7, <1>8, <1>9, <1>10, <1>11, <1>12, <1>13, <1>14,
       <1>15

\* Its task is told to end, whatever it does; there is room for the notice.
LEMMA CloseStreamKeeps ==
  ASSUME Disciplined, IInv, NEW k \in Tasks, CloseStream(k)
  PROVE  IInv'
<1> USE NumbersNotNull, CommandFields
    DEF IInv, CloseStream, Goto, Quit, Types, Busy, OpenSteps, CloseSteps, AtWork, Alone, Picked
<1>1. AtWork(k)
  BY BusyAtWork
<1>2. /\ k = Control /\ held[k] \in Opens
      /\ conn[held[k]] = IF pc[k] = "close" THEN "open" ELSE "closed"
      /\ pc[k] # "freectx" =>
           /\ job[k].sid \in Sids \ {Control} /\ job[k].sid \notin known
           /\ stream[job[k].sid] = held[k] /\ Numbered(job[k].sid, held[k])
           /\ pc[held[k]] # "free" /\ queue[held[k]] # <<Quit>>
  BY ClosesAlone
<1>3. Types'
  <2>1. <<Null>> \in {<<c>> : c \in Command \cup {Null}}
    OBVIOUS
  <2>2. queue' = [queue EXCEPT ![held[k]] = <<Null>>]
    BY <1>2
  <2>3. queue \in [Tasks -> {<<>>} \cup {<<c>> : c \in Command \cup {Null}}]
    OBVIOUS
  <2>4. queue' \in [Tasks -> {<<>>} \cup {<<c>> : c \in Command \cup {Null}}]
    <3> HIDE DEF Types, IInv, CloseStream
    <3> QED BY <2>1, <2>2, <2>3
  <2> QED BY <1>1, <2>4
<1>4. ControlStays'
  BY <1>1, <1>2 DEF ControlStays, Numbered
<1>5. Openers'
  BY <1>1, <1>2 DEF Openers, OpenerOf, Numbered
<1>6. Places'
  BY DEF Places, Numbered
<1>7. Served'
  BY DEF Served
<1>8. Owned'
  BY <1>1, <1>2 DEF Owned, Numbered
<1>9. KnownOpen'
  BY <1>1, <1>2 DEF KnownOpen, Numbered
<1>10. Quitting'
  BY <1>1, <1>2 DEF Quitting, Numbered
<1>11. OnItsWay'
  BY <1>1, <1>2 DEF OnItsWay, Bare, Proper, Numbered, KnownOpen
<1>12. Waiting'
  BY DEF Waiting, Proper
<1>13. Working'
  <2>1. queue' = [queue EXCEPT ![held[k]] = <<Quit>>] /\ pc' = [pc EXCEPT ![k] = "freectx"]
    BY <1>2
  <2>2. job' = job /\ sid' = sid /\ call' = call /\ job[k].kind = "close"
    BY <1>1 DEF Working
  <2>3. Working
    OBVIOUS
  <2> HIDE DEF IInv, CloseStream, Goto
  <2> QED BY <1>1, <1>2, <2>1, <2>2, <2>3 DEF Working
<1>14. OneOpening'
  BY DEF OneOpening
<1>15. Closing'
  <2>1. /\ pc'[Control] = "freectx" /\ held' = held /\ conn' = conn /\ rx' = rx
        /\ queue'[Control] = <<>>
    BY <1>1, <1>2 DEF ControlStays
  <2>2. rx # Null => rx.kind \notin {"connect", "close"}
    BY <1>2 DEF OnItsWay, ControlStays
  <2>3. conn[held[Control]] = "closed"
    BY <1>2
  <2> QED BY <1>2, <2>1, <2>2, <2>3 DEF Closing, ToClose
<1> QED BY <1>3, <1>4, <1>5, <1>6, <1>7, <1>8, <1>9, <1>10, <1>11, <1>12, <1>13, <1>14,
       <1>15

\* The context goes, also when the stream's own task still works with it.
LEMMA FreeContextKeeps ==
  ASSUME Disciplined, IInv, NEW k \in Tasks, FreeContext(k)
  PROVE  IInv'
<1> USE NumbersNotNull, CommandFields
    DEF IInv, FreeContext, Respond, Goto, table, Types, Busy, OpenSteps, CloseSteps, AtWork, Alone, Picked
<1>1. AtWork(k)
  BY BusyAtWork
<1>2. /\ k = Control /\ held[k] \in Opens
      /\ conn[held[k]] = IF pc[k] = "close" THEN "open" ELSE "closed"
      /\ pc[k] # "freectx" =>
           /\ job[k].sid \in Sids \ {Control} /\ job[k].sid \notin known
           /\ stream[job[k].sid] = held[k] /\ Numbered(job[k].sid, held[k])
           /\ pc[held[k]] # "free" /\ queue[held[k]] # <<Quit>>
  BY ClosesAlone
<1>3. Types'
  BY <1>1, <1>2 DEF Numbered
<1>4. ControlStays'
  BY DEF ControlStays
<1>5. Openers'
  BY <1>1, <1>2 DEF Openers, OpenerOf, Numbered
<1>6. Places'
  BY DEF Places, Numbered
<1>7. Served'
  BY DEF Served
<1>8. Owned'
  BY <1>1, <1>2 DEF Owned, Numbered
<1>9. KnownOpen'
  BY <1>1, <1>2 DEF KnownOpen, Numbered
<1>10. Quitting'
  BY DEF Quitting
<1>11. OnItsWay'
  BY <1>1 DEF OnItsWay, Bare, Proper
<1>12. Waiting'
  BY <1>1 DEF Waiting, Proper
<1>13. Working'
  BY <1>1 DEF Working, Proper
<1>14. OneOpening'
  BY DEF OneOpening
<1>15. Closing'
  <2>1. k = Control
    BY <1>1 DEF Working, Proper, ControlStays
  <2>2. \A s \in Sids : ClosingStream(s, "open") => ClosingStream(s, "open")'
    BY <1>1, <2>1 DEF ClosingStream, Numbered, Closing
  <2>3. Bare => Bare'
    BY <1>1, <2>1 DEF Bare
  <2>4. \A d \in Command : ToClose(d) => ToClose(d)'
    BY <2>2, <2>3 DEF ToClose
  <2>5. /\ pc'[Control] = "pop" /\ rx' = rx /\ queue' = queue /\ queue[Control] = <<>>
    BY <1>1, <2>1 DEF ControlStays
  <2>6. (rx # Null => rx \in Command /\ ToClose(rx))
    BY DEF Closing
  <2> HIDE DEF IInv, FreeContext, Types, Respond, Goto
  <2> QED BY <2>4, <2>5, <2>6 DEF Closing
<1> QED BY <1>3, <1>4, <1>5, <1>6, <1>7, <1>8, <1>9, <1>10, <1>11, <1>12, <1>13, <1>14,
       <1>15

-----------------------------------------------------------------------------
\* The invariant holds at first and is kept by every step.
LEMMA InitEstablishes == Init => IInv
<1> SUFFICES ASSUME Init PROVE IInv
  OBVIOUS
<1> USE NumbersNotNull, StreamsAssumption
    DEF Init, Busy, OpenSteps, CloseSteps
<1>1. /\ stream = [s \in Sids |-> IF s = Control THEN Control ELSE Null]
      /\ sid = [o \in Tasks |-> IF o = Control THEN Control ELSE Null]
      /\ context = [o \in Tasks |-> IF o = Control THEN Control ELSE Null]
      /\ pc = [k \in Tasks |-> IF k = Control THEN "pop" ELSE "none"]
      /\ queue = [o \in Tasks |-> <<>>]
      /\ job = [k \in Tasks |-> Null] /\ new = [k \in Tasks |-> Null]
      /\ slot = [k \in Tasks |-> Null] /\ held = [k \in Tasks |-> Null]
  BY DEF Boot
<1>2. <<>> # <<Quit>>
  OBVIOUS
<1>3. Types
  BY <1>1 DEF Types
<1>4. ControlStays /\ Openers
  BY <1>1, <1>2 DEF ControlStays, Openers, OpenerOf
<1>5. Places /\ Served /\ KnownOpen
  BY <1>1 DEF Places, Served, KnownOpen
<1>6. Owned
  BY <1>1 DEF Owned
<1>7. Quitting /\ Waiting /\ Working
  BY <1>1, <1>2 DEF Quitting, Waiting, Working
<1>8. OnItsWay /\ OneOpening /\ Closing
  BY <1>1 DEF OnItsWay, OneOpening, Closing
<1> QED BY <1>3, <1>4, <1>5, <1>6, <1>7, <1>8 DEF IInv

\* The same for all actions, and for steps that change nothing.
LEMMA StepKeeps ==
  ASSUME Disciplined, IInv, [Next]_vars
  PROVE  IInv'
<1>1. CASE UNCHANGED vars
  <2> USE <1>1 DEF vars, table, tasks
  <2>1. Types' /\ ControlStays' /\ Openers'
    BY DEF IInv, Types, ControlStays, Openers, OpenerOf
  <2>2. Places' /\ Served' /\ Owned' /\ KnownOpen' /\ Quitting'
    BY DEF IInv, Places, Numbered, Served, Owned, KnownOpen, Quitting
  <2>3. OnItsWay' /\ Waiting' /\ Working' /\ OneOpening'
    BY DEF IInv, OnItsWay, Bare, Waiting, Working, OneOpening
  <2>4. Closing'
    BY DEF IInv, Closing, ToClose, ClosingStream, Numbered, Bare
  <2> QED BY <2>1, <2>2, <2>3, <2>4 DEF IInv
<1>2. CASE \E c \in Command : Issue(c)
  BY <1>2, IssueKeeps
<1>3. CASE Deliver \/ Refuse \/ Restart
  BY <1>3, DeliverKeeps, RefuseKeeps, RestartKeeps
<1>4. CASE \E k \in Tasks : TaskStep(k)
  <2>1. PICK k \in Tasks : TaskStep(k)
    BY <1>4
  <2>2. CASE Pop(k) \/ Find(k) \/ Use(k) \/ ClearPlace(k) \/ FreeStream(k)
    BY <2>2, PopKeeps, FindKeeps, UseKeeps, ClearPlaceKeeps, FreeStreamKeeps
  <2>3. CASE Connected(k) \/ NotConnected(k) \/ PickPlace(k) \/ AllocStream(k)
    BY <2>3, ConnectedKeeps, NotConnectedKeeps, PickPlaceKeeps, AllocStreamKeeps
  <2>4. CASE SetUpStream(k) \/ SpawnTask(k) \/ FinishOpen(k)
    BY <2>4, SetUpStreamKeeps, SpawnTaskKeeps, FinishOpenKeeps
  <2>5. CASE CloseConn(k) \/ CloseStream(k) \/ FreeContext(k)
    BY <2>5, CloseConnKeeps, CloseStreamKeeps, FreeContextKeeps
  <2> QED BY <2>1, <2>2, <2>3, <2>4, <2>5 DEF TaskStep
<1> QED BY <1>1, <1>2, <1>3, <1>4 DEF Next

\* In every run of a disciplined application the invariant holds.
THEOREM StreamsInvariant ==
  ASSUME Disciplined
  PROVE  Spec => []IInv
<1>1. Init => IInv
  BY InitEstablishes
<1>2. IInv /\ [Next]_vars => IInv'
  BY StepKeeps
<1> QED BY <1>1, <1>2, PTL DEF Spec

-----------------------------------------------------------------------------
\* No place of the table and no task points to a structure that was freed
\* (mmagic_m2m_agent_stream_task, free_stream), and the sanity check of
\* free_stream holds.
THEOREM StreamsTableIntact ==
  ASSUME Disciplined
  PROVE  Spec => []TableIntact
<1>1. IInv => TableIntact
  <2> SUFFICES ASSUME IInv PROVE TableIntact
    OBVIOUS
  <2> USE NumbersNotNull DEF IInv
  <2>1. \A s \in Sids : stream[s] # Null => mem[stream[s]] # "freed"
    <3> SUFFICES ASSUME NEW s \in Sids, stream[s] # Null PROVE mem[stream[s]] # "freed"
      OBVIOUS
    <3>1. CASE s = Control
      BY <3>1 DEF ControlStays
    <3>2. CASE s # Control /\ Numbered(s, stream[s])
      BY <3>2 DEF Numbered
    <3>3. CASE \E k \in Tasks : /\ pc[k] \in {"setup", "spawn", "finish"}
                                /\ slot[k] = s /\ new[k] = stream[s]
      BY <3>3 DEF Openers, OpenerOf, OpenSteps
    <3> QED BY <3>1, <3>2, <3>3 DEF Places
  <2>2. \A k \in Tasks : pc[k] # "none" => mem[structure[k]] = "live"
    BY DEF Types, Served, ControlStays
  <2>3. \A k \in Tasks : pc[k] = "free" => stream[sid[structure[k]]] = structure[k]
    BY DEF Types, Quitting, ControlStays
  <2> QED BY <2>1, <2>2, <2>3 DEF TableIntact
<1> QED BY <1>1, StreamsInvariant, PTL

\* A stream whose number the Controller was given is open and served by one
\* task (mmagic_m2m_agent_open_stream).
THEOREM StreamsServed ==
  ASSUME Disciplined
  PROVE  Spec => []StreamServed
<1>1. IInv => StreamServed
  <2> SUFFICES ASSUME IInv, NEW s \in known
               PROVE  LET o == stream[s]
                      IN /\ s # Control /\ o # Null
                         /\ mem[o] = "live" /\ sid[o] = s
                         /\ Cardinality(Serving(o)) = 1
                         /\ context[o] \in Opens /\ conn[context[o]] = "open"
                         /\ \A k \in Serving(o) : pc[k] \notin {"free", "freemem"}
    BY DEF StreamServed
  <2> USE NumbersNotNull DEF IInv
  <2>1. Numbered(s, stream[s]) /\ conn[stream[s]] = "open" /\ pc[stream[s]] # "free" /\ s # Control
    BY DEF KnownOpen, Types
  <2>2. Serving(stream[s]) = {stream[s]}
    BY <2>1 DEF Serving, Types, Numbered
  <2>3. Cardinality(Serving(stream[s])) = 1
    BY <2>2, FS_Singleton
  <2> QED BY <2>1, <2>2, <2>3 DEF Numbered
<1> QED BY <1>1, StreamsInvariant, PTL

\* An open connection has one owner who will close it (mmagic_core_tcp_connect,
\* _bind and _accept, on success and on every error).
THEOREM StreamsConnsHeld ==
  ASSUME Disciplined
  PROVE  Spec => []ConnsHeld
<1>1. IInv => ConnsHeld
  <2> SUFFICES ASSUME IInv, NEW c \in Opens, conn[c] = "open"
               PROVE  Cardinality(
                        {k \in Tasks : new[k] = c /\ pc[k] \in {"pick", "alloc", "setup"}}
                        \cup {MaxOpens + 1 + s : s \in {t \in Sids \ {Control} :
                               stream[t] # Null /\ mem[stream[t]] = "live" /\ context[stream[t]] = c}}) = 1
    BY DEF ConnsHeld
  <2> DEFINE Hands == {k \in Tasks : new[k] = c /\ pc[k] \in {"pick", "alloc", "setup"}}
             Homes == {t \in Sids \ {Control} :
                        stream[t] # Null /\ mem[stream[t]] = "live" /\ context[stream[t]] = c}
             Owners == Hands \cup {MaxOpens + 1 + s : s \in Homes}
  <2> USE NumbersNotNull DEF IInv
  <2>1. \A t \in Homes : /\ stream[t] = c
                         /\ \/ sid[c] = t /\ Numbered(t, c)
                            \/ \E k \in Tasks : pc[k] \in {"spawn", "finish"} /\ slot[k] = t /\ new[k] = c
    BY DEF Places, Numbered, Openers, OpenerOf, OpenSteps
  <2>2. CASE \E k \in Tasks : pc[k] \in {"pick", "alloc", "setup"} /\ new[k] = c
    <3>1. PICK k \in Tasks : pc[k] \in {"pick", "alloc", "setup"} /\ new[k] = c
      BY <2>2
    <3>2. \A j \in Tasks : pc[j] \in OpenSteps => j = k
      BY <3>1, OpensAlone DEF Working, Alone, Busy, OpenSteps
    <3>3. Hands = {k}
      BY <3>1, <3>2 DEF OpenSteps
    <3>4. sid[c] = Null
      BY <3>1 DEF Openers, OpenerOf, OpenSteps
    <3>5. Homes = {}
      BY <2>1, <3>1, <3>2, <3>4 DEF OpenSteps
    <3>6. Owners = {k}
      BY <3>3, <3>5
    <3> QED BY <3>6, FS_Singleton
  <2>3. CASE \E k \in Tasks : pc[k] \in {"spawn", "finish"} /\ new[k] = c
    <3>1. PICK k \in Tasks : pc[k] \in {"spawn", "finish"} /\ new[k] = c
      BY <2>3
    <3>2. \A j \in Tasks : pc[j] \in OpenSteps => j = k
      BY <3>1, OpensAlone DEF Working, Alone, Busy, OpenSteps
    <3>3. Hands = {}
      BY <3>1, <3>2 DEF OpenSteps
    <3>4. /\ sid[c] = Null /\ slot[k] \in Sids \ {Control} /\ stream[slot[k]] = c
          /\ mem[c] = "live" /\ context[c] = c
      BY <3>1 DEF Openers, OpenerOf, OpenSteps
    <3>5. Homes = {slot[k]}
      BY <2>1, <3>1, <3>2, <3>4 DEF OpenSteps
    <3>6. Owners = {MaxOpens + 1 + slot[k]}
      BY <3>3, <3>5
    <3> QED BY <3>6, FS_Singleton
  <2>4. CASE ~ \E k \in Tasks : pc[k] \in OpenSteps /\ new[k] = c
    <3>1. sid[c] \in Sids /\ stream[sid[c]] = c
      BY <2>4 DEF Owned
    <3>2. sid[c] # Control /\ Numbered(sid[c], c)
      BY <3>1, <2>4 DEF ControlStays, Places, OpenSteps
    <3>3. Hands = {}
      BY <2>4 DEF OpenSteps
    <3>4. Homes = {sid[c]}
      BY <2>1, <2>4, <3>1, <3>2 DEF Numbered, OpenSteps
    <3>5. Owners = {MaxOpens + 1 + sid[c]}
      BY <3>3, <3>4
    <3> QED BY <3>5, FS_Singleton
  <2> QED BY <2>2, <2>3, <2>4 DEF OpenSteps
<1> QED BY <1>1, StreamsInvariant, PTL
=============================================================================
