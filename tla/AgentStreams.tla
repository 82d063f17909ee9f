---------------------------- MODULE AgentStreams ----------------------------
(***************************************************************************)
(* The Agent's table of streams (mmagic_m2m_agent.c) and the TCP commands  *)
(* that open, use and close them (mmagic_core_tcp.c).                      *)
(*                                                                         *)
(* A stream is a structure on the heap, a queue of one command and a task. *)
(* connect, bind and close are carried out by the task of the control      *)
(* stream; recv, send, poll and accept by that of the stream they concern. *)
(* Nothing guards the table. The stream tasks have one priority and are    *)
(* time sliced, so a step is what lies between two accesses to data that   *)
(* another task can reach. The data link's rx task has a higher priority:  *)
(* its callback is one step.                                               *)
(*                                                                         *)
(* The n-th connection of a run has number n, and with it the structure    *)
(* and the task that mmagic_m2m_agent_open_stream makes for it.            *)
(***************************************************************************)
EXTENDS Naturals, Sequences, FiniteSets

CONSTANTS
  MaxStreams,      \* MMAGIC_MAX_STREAMS, without the control stream
  MaxOpens,        \* bound on connections
  MaxRestarts,     \* bound on restarts of the Agent
  MayFail,         \* allocations that may fail: "structure", "queue", "task"
  OpenOneAtATime,  \* does the application wait for an open before the next?
  Null

ASSUME StreamsAssumption ==
  /\ {MaxStreams, MaxOpens, MaxRestarts} \subseteq Nat
  /\ OpenOneAtATime \in BOOLEAN
  /\ MayFail \subseteq {"structure", "queue", "task"}
  /\ Null \notin Nat

VARIABLES
  stream,     \* core->stream[]
  mem,        \* each structure: "unused", "raw" (no queue yet), "live", "freed"
  queue,      \* its stream_queue
  sid,        \* its field sid, Null until it is assigned
  context,    \* its field stream_context: a connection, or Control for the agent itself
  conn,       \* each connection: "unused", "open", "closed", "freed"
  pc, job,    \* step of each stream task, and its command
  structure,  \* the structure a task was started with
  new, slot,  \* in a call that opens: its connection and the place it found
  held,       \* connection a handler has a pointer to
  rx,         \* command the data link is bringing to the Agent
  call,       \* Controller: the call it waits for on each stream
  known,      \* Controller: the streams its application may use
  opens, restarts

table == <<stream, mem, queue, sid, context>>
tasks == <<pc, job, structure, new, slot, held>>
vars == <<table, conn, tasks, rx, call, known, opens, restarts>>

Control == 0                      \* stream, structure and task of CONTROL_STREAM
Sids    == 0..MaxStreams
Opens   == 1..MaxOpens
Tasks   == {Control} \cup Opens

Command == [kind : {"connect", "accept", "use", "close"}, sid : Sids]

ASSUME CommandAssumption == Null \notin Command

Quit    == Null                   \* the NULL buffer that closes a stream

Boot == [stream |-> [s \in Sids |-> IF s = Control THEN Control ELSE Null],
         field  |-> [o \in Tasks |-> IF o = Control THEN Control ELSE Null],
         pc     |-> [k \in Tasks |-> IF k = Control THEN "pop" ELSE "none"],
         queue  |-> [o \in Tasks |-> <<>>],
         none   |-> [k \in Tasks |-> Null]]

Init ==
  /\ stream = Boot.stream /\ sid = Boot.field /\ queue = Boot.queue /\ context = Boot.field
  /\ pc = Boot.pc /\ job = Boot.none /\ structure = [k \in Tasks |-> k]
  /\ new = Boot.none /\ slot = Boot.none /\ held = Boot.none
  /\ mem = [o \in Tasks |-> IF o = Control THEN "live" ELSE "unused"]
  /\ conn = [c \in Opens |-> "unused"]
  /\ rx = Null /\ call = [s \in Sids |-> Null] /\ known = {}
  /\ opens = 0 /\ restarts = 0

Goto(k, step) == pc' = [pc EXCEPT ![k] = step]

-----------------------------------------------------------------------------
\* The Controller and the rx task

OnStream(c) == IF c.kind \in {"connect", "close"} THEN Control ELSE c.sid

Opening == \E s \in Sids : call[s] # Null /\ call[s].kind \in {"connect", "accept"}

\* The application calls a function of the TCP API.
Issue(c) ==
  LET s == OnStream(c)
  IN /\ rx = Null /\ call[s] = Null
     /\ c.kind = "connect" => c.sid = Control
     /\ c.kind # "connect" => c.sid \in known
     /\ c.kind \in {"connect", "accept"} =>
          opens < MaxOpens /\ (OpenOneAtATime => ~Opening)
     /\ rx' = c /\ call' = [call EXCEPT ![s] = c]
     /\ known' = IF c.kind = "close" THEN known \ {c.sid} ELSE known
     /\ UNCHANGED <<table, conn, tasks, opens, restarts>>

\* The rx callback hands the command to the stream's task.
Deliver ==
  /\ rx # Null
  /\ LET o == stream[OnStream(rx)]
     IN /\ o # Null /\ queue[o] = <<>>
        /\ queue' = [queue EXCEPT ![o] = <<rx>>]
  /\ rx' = Null
  /\ UNCHANGED <<stream, mem, sid, context, conn, tasks, call, known, opens, restarts>>

\* There is no such stream: the Controller is told.
Refuse ==
  /\ rx # Null /\ stream[OnStream(rx)] = Null
  /\ rx' = Null /\ call' = [call EXCEPT ![OnStream(rx)] = Null]
  /\ UNCHANGED <<table, conn, tasks, known, opens, restarts>>

\* The Agent starts again with an empty table. Calls it had taken fail, and the
\* application forgets its streams; a command on its way arrives afterwards.
Restart ==
  /\ restarts < MaxRestarts /\ restarts' = restarts + 1
  /\ stream' = Boot.stream /\ sid' = Boot.field /\ queue' = Boot.queue /\ context' = Boot.field
  /\ pc' = Boot.pc /\ job' = Boot.none /\ structure' = [k \in Tasks |-> k]
  /\ new' = Boot.none /\ slot' = Boot.none /\ held' = Boot.none
  /\ mem' = [o \in Tasks |-> IF o > 0 /\ mem[o] # "unused" THEN "freed" ELSE mem[o]]
  /\ conn' = [c \in Opens |-> IF conn[c] # "unused" THEN "freed" ELSE conn[c]]
  /\ call' = [s \in Sids |-> IF rx # Null /\ OnStream(rx) = s THEN call[s] ELSE Null]
  /\ known' = {}
  /\ UNCHANGED <<rx, opens>>

-----------------------------------------------------------------------------
\* mmagic_m2m_agent_stream_task

Pop(k) ==
  LET o == structure[k]
  IN /\ pc[k] = "pop" /\ queue[o] # <<>>
     /\ queue' = [queue EXCEPT ![o] = Tail(@)]
     /\ job' = [job EXCEPT ![k] = Head(queue[o])]
     /\ Goto(k, IF Head(queue[o]) = Quit THEN "free" ELSE "start")
     /\ UNCHANGED <<stream, mem, sid, context, conn, structure, new, slot, held,
                    rx, call, known, opens, restarts>>

\* The response goes out with the sid of the task's structure.
Respond(k) ==
  /\ Goto(k, "pop")
  /\ held' = [held EXCEPT ![k] = Null]
  /\ new' = [new EXCEPT ![k] = Null] /\ slot' = [slot EXCEPT ![k] = Null]
  /\ call' = [call EXCEPT ![sid[structure[k]]] = Null]

ContextOf(s) == IF stream[s] = Null THEN Null ELSE context[stream[s]]

\* get_stream_context at the start of every handler but connect and bind.
Find(k) ==
  /\ pc[k] = "start" /\ job[k].kind # "connect"
  /\ IF ContextOf(job[k].sid) = Null
     THEN Respond(k)
     ELSE /\ held' = [held EXCEPT ![k] = ContextOf(job[k].sid)]
          /\ Goto(k, job[k].kind) /\ UNCHANGED <<new, slot, call>>
  /\ UNCHANGED <<table, conn, job, structure, rx, known, opens, restarts>>

\* recv, send, read_poll and write_poll end.
Use(k) ==
  /\ pc[k] = "use" /\ Respond(k)
  /\ UNCHANGED <<table, conn, job, structure, rx, known, opens, restarts>>

\* free_stream checks the table and clears its place ...
ClearPlace(k) ==
  /\ pc[k] = "free"
  /\ stream' = [stream EXCEPT ![sid[structure[k]]] = Null]
  /\ Goto(k, "freemem")
  /\ UNCHANGED <<mem, queue, sid, context, conn, job, structure, new, slot, held,
                 rx, call, known, opens, restarts>>

\* ... and then frees the queue and the structure.
FreeStream(k) ==
  /\ pc[k] = "freemem"
  /\ mem' = [mem EXCEPT ![structure[k]] = "freed"]
  /\ Goto(k, "none")
  /\ UNCHANGED <<stream, queue, sid, context, conn, job, structure, new, slot, held,
                 rx, call, known, opens, restarts>>

-----------------------------------------------------------------------------
\* connect, bind and accept

\* The context is allocated and the connection is there ...
Connected(k) ==
  /\ \/ pc[k] = "start" /\ job[k].kind = "connect"
     \/ pc[k] = "accept"
  /\ opens < MaxOpens /\ opens' = opens + 1
  /\ new' = [new EXCEPT ![k] = opens + 1]
  /\ conn' = [conn EXCEPT ![opens + 1] = "open"]
  /\ Goto(k, "pick")
  /\ UNCHANGED <<table, job, structure, slot, held, rx, call, known, restarts>>

\* ... or it could not be made, and nothing is left of it.
NotConnected(k) ==
  /\ \/ pc[k] = "start" /\ job[k].kind = "connect"
     \/ pc[k] = "accept"
  /\ Respond(k)
  /\ UNCHANGED <<table, conn, job, structure, rx, known, opens, restarts>>

\* Mutant: the connection is left open when there is no stream for it.
GiveUpOpen(k) ==
  /\ Respond(k)
  /\ UNCHANGED <<conn, job, structure, rx, known, opens, restarts>>

\* open_stream failed: the connection is closed and its context freed.
GiveUp(k) ==
  /\ Respond(k)
  /\ conn' = [conn EXCEPT ![new[k]] = "freed"]
  /\ UNCHANGED <<job, structure, rx, known, opens, restarts>>

\* Mutant: the test for NULL is dropped.
AnyPlace == Sids \ {Control}

FreePlaces == {s \in Sids \ {Control} : stream[s] = Null}

\* open_stream looks for the first place without a stream ...
PickPlace(k) ==
  /\ pc[k] = "pick"
  /\ \/ /\ FreePlaces = {} /\ GiveUp(k) /\ UNCHANGED table
     \/ \E s \in FreePlaces :
          /\ \A t \in FreePlaces : s <= t
          /\ slot' = [slot EXCEPT ![k] = s] /\ Goto(k, "alloc")
          /\ UNCHANGED <<table, conn, job, structure, new, held, rx, call, known,
                         opens, restarts>>

\* ... puts a structure there ...
AllocStream(k) ==
  /\ pc[k] = "alloc"
  /\ \/ /\ stream' = [stream EXCEPT ![slot[k]] = new[k]]
        /\ mem' = [mem EXCEPT ![new[k]] = "raw"]
        /\ Goto(k, "setup")
        /\ UNCHANGED <<conn, job, structure, new, slot, held, rx, call, known,
                       opens, restarts>>
     \/ /\ "structure" \in MayFail
        /\ stream' = [stream EXCEPT ![slot[k]] = Null] /\ UNCHANGED mem
        /\ GiveUp(k)
  /\ UNCHANGED <<queue, sid, context>>

\* ... gives whatever is there by now the context and a queue ...
SetUpStream(k) ==
  /\ pc[k] = "setup"
  /\ \E ok \in BOOLEAN :
       LET o == stream[slot[k]]
       IN /\ ok \/ "queue" \in MayFail
          /\ context' = [context EXCEPT ![o] = new[k]]
          /\ mem' = [mem EXCEPT ![o] = IF ok THEN "live" ELSE "freed"]
          /\ IF ok
             THEN /\ queue' = [queue EXCEPT ![o] = <<>>] /\ Goto(k, "spawn")
                  /\ UNCHANGED <<conn, job, structure, new, slot, held, rx, call,
                                 known, opens, restarts>>
             ELSE UNCHANGED queue /\ GiveUp(k)
  /\ UNCHANGED <<stream, sid>>

\* The handler succeeds: the Controller's application learns stream s.
Opened(k, s) ==
  /\ known' = known \cup {s}
  /\ call' = [call EXCEPT ![sid[structure[k]]] = Null]
  /\ new' = [new EXCEPT ![k] = Null] /\ slot' = [slot EXCEPT ![k] = Null]
  /\ held' = [held EXCEPT ![k] = Null]

\* ... starts its task ...
SpawnTask(k) ==
  /\ pc[k] = "spawn"
  /\ \E ok \in BOOLEAN :
       /\ ok \/ "task" \in MayFail
       /\ IF ok
          THEN /\ pc' = [pc EXCEPT ![k] = "finish", ![new[k]] = "pop"]
               /\ structure' = [structure EXCEPT ![new[k]] = stream[slot[k]]]
               /\ UNCHANGED <<mem, new, slot, held, call, known>>
          ELSE /\ mem' = [mem EXCEPT ![stream[slot[k]]] = "freed"]
               /\ Goto(k, "pop") /\ Opened(k, Control)   \* *sid is still 0
               /\ UNCHANGED structure
  /\ UNCHANGED <<stream, queue, sid, context, conn, job, rx, opens, restarts>>

\* ... and numbers it.
FinishOpen(k) ==
  /\ pc[k] = "finish"
  /\ sid' = [sid EXCEPT ![stream[slot[k]]] = slot[k]]
  /\ Goto(k, "pop") /\ Opened(k, slot[k])
  /\ UNCHANGED <<stream, mem, queue, context, conn, job, structure, rx, opens, restarts>>

-----------------------------------------------------------------------------
\* close: the connection, then the stream's task is told, then the context

CloseConn(k) ==
  /\ pc[k] = "close"
  /\ conn' = [conn EXCEPT ![held[k]] = "closed"]
  /\ Goto(k, "push")
  /\ UNCHANGED <<table, job, structure, new, slot, held, rx, call, known, opens, restarts>>

\* Mutant: the place is cleared by close, not by the stream's task.
CloseStreamClears(k) ==
  /\ pc[k] = "push"
  /\ LET o == stream[job[k].sid]
     IN IF o = Null THEN UNCHANGED <<queue, stream>>
        ELSE /\ queue[o] = <<>> /\ queue' = [queue EXCEPT ![o] = <<Quit>>]
             /\ stream' = [stream EXCEPT ![job[k].sid] = Null]
  /\ Goto(k, "freectx")
  /\ UNCHANGED <<mem, sid, context, conn, job, structure, new, slot, held,
                 rx, call, known, opens, restarts>>

\* Mutant: the task is not told.
CloseStreamSilently(k) ==
  /\ pc[k] = "push" /\ Goto(k, "freectx")
  /\ UNCHANGED <<table, conn, job, structure, new, slot, held,
                 rx, call, known, opens, restarts>>

CloseStream(k) ==
  /\ pc[k] = "push"
  /\ LET o == stream[job[k].sid]
     IN IF o = Null THEN UNCHANGED queue
        ELSE queue[o] = <<>> /\ queue' = [queue EXCEPT ![o] = <<Quit>>]
  /\ Goto(k, "freectx")
  /\ UNCHANGED <<stream, mem, sid, context, conn, job, structure, new, slot, held,
                 rx, call, known, opens, restarts>>

FreeContext(k) ==
  /\ pc[k] = "freectx"
  /\ conn' = [conn EXCEPT ![held[k]] = "freed"]
  /\ Respond(k)
  /\ UNCHANGED <<table, job, structure, rx, known, opens, restarts>>

-----------------------------------------------------------------------------
TaskStep(k) ==
  \/ Pop(k) \/ Find(k) \/ Use(k) \/ ClearPlace(k) \/ FreeStream(k)
  \/ Connected(k) \/ NotConnected(k)
  \/ PickPlace(k) \/ AllocStream(k) \/ SetUpStream(k) \/ SpawnTask(k) \/ FinishOpen(k)
  \/ CloseConn(k) \/ CloseStream(k) \/ FreeContext(k)

Next ==
  \/ \E c \in Command : Issue(c)
  \/ Deliver \/ Refuse \/ Restart
  \/ \E k \in Tasks : TaskStep(k)

Spec == Init /\ [][Next]_vars

\* Every task that can run runs in the end, and recv, poll and connect end by a
\* timeout. An accept may wait for a peer for ever.
Fairness ==
  /\ WF_vars(Deliver \/ Refuse)
  /\ \A k \in Tasks : WF_vars(pc[k] # "accept" /\ TaskStep(k))
FairSpec == Spec /\ Fairness

-----------------------------------------------------------------------------
\* Types: a field holds what the code can put there.
TypeOK ==
  /\ stream \in [Sids -> Tasks \cup {Null}]
  /\ mem \in [Tasks -> {"unused", "raw", "live", "freed"}]
  /\ queue \in [Tasks -> {<<>>} \cup {<<c>> : c \in Command \cup {Quit}}]
  /\ sid \in [Tasks -> Sids \cup {Null}] /\ context \in [Tasks -> Tasks \cup {Null}]
  /\ conn \in [Opens -> {"unused", "open", "closed", "freed"}]
  /\ pc \in [Tasks -> {"none", "pop", "start", "use", "accept", "close", "push", "freectx",
                       "pick", "alloc", "setup", "spawn", "finish", "free", "freemem"}]
  /\ job \in [Tasks -> Command \cup {Null}] /\ structure \in [Tasks -> Tasks]
  /\ {new, held} \subseteq [Tasks -> Tasks \cup {Null}]
  /\ slot \in [Tasks -> Sids \cup {Null}]
  /\ rx \in Command \cup {Null} /\ call \in [Sids -> Command \cup {Null}]
  /\ known \subseteq Sids
  /\ opens \in 0..MaxOpens /\ restarts \in 0..MaxRestarts

\* The tasks that serve a structure, from the start of the task to its end.
Serving(o) == {k \in Tasks : pc[k] # "none" /\ structure[k] = o}

\* A structure in the table is not freed memory, a task serves a structure that
\* is not freed, and the assertion of free_stream ("sanity check to ensure
\* integrity of stream structures") holds when a task gets there.
TableIntact ==
  /\ \A s \in Sids : stream[s] # Null => mem[stream[s]] # "freed"
  /\ \A k \in Tasks : pc[k] # "none" => mem[structure[k]] = "live"
  /\ \A k \in Tasks : pc[k] = "free" => stream[sid[structure[k]]] = structure[k]

\* An open connection has one owner, who will close it: the call that is opening
\* a stream for it, or one stream of the table.
ConnsHeld ==
  \A c \in Opens : conn[c] = "open" =>
    Cardinality({k \in Tasks : new[k] = c /\ pc[k] \in {"pick", "alloc", "setup"}}
                \cup {MaxOpens + 1 + s : s \in {t \in Sids \ {Control} :
                          stream[t] # Null /\ mem[stream[t]] = "live" /\ context[stream[t]] = c}}) = 1

\* "Free stream resources after stream task shuts down": what a handler has a
\* pointer to was not freed meanwhile.  close frees it all the same.
HeldIsAllocated == \A k \in Tasks :
  held[k] # Null => held[k] \in Opens /\ conn[held[k]] # "freed"

\* What open_stream promises: a stream whose number the Controller was given is
\* in the table, has an open connection of its own, and one task serves it.
StreamServed ==
  \A s \in known :
    LET o == stream[s]
    IN /\ s # Control /\ o # Null
       /\ mem[o] = "live" /\ sid[o] = s
       /\ Cardinality(Serving(o)) = 1
       /\ context[o] \in Opens /\ conn[context[o]] = "open"
       /\ \A k \in Serving(o) : pc[k] \notin {"free", "freemem"}

\* A stream whose connection was closed is freed in the end, structure and task,
\* with whatever is opened or still running meanwhile: close only asks for it.  A
\* task inside an accept may wait for ever.
ClosedIsFreed == \A o \in Opens :
  (context[o] \in Opens /\ conn[context[o]] = "closed")
    ~> (mem[o] = "freed" \/ \E k \in Serving(o) : pc[k] = "accept")

\* Every command but an accept gets an answer, whatever the other streams do.
CommandAnswered ==
  \A s \in Sids : (call[s] # Null /\ call[s].kind # "accept") ~> (call[s] = Null)
=============================================================================
