# Specifications of the mm-iot-sdk framework

This directory holds TLA+ specifications of the parts of this repository that have concurrency,
lost messages, retries, power failures or bounded resources in them, the TLC configurations that
check small instances, and TLAPS proofs for every value of the constants. Paths below are relative
to the repository; `PROJECT.json` maps every definition to the lines it models.

Contents: [1 the system](#1-the-system), [2 the modules](#2-the-modules-and-the-code),
[3 the runs](#3-the-runs), [4 fairness](#4-fairness), [5 the assumptions](#5-what-is-assumed-and-what-fails-without-it),
[6 the proofs](#6-the-proofs), [7 disagreements](#7-where-code-and-documentation-disagree),
[8 not modelled](#8-what-is-not-modelled), [9 the plan](#9-the-plan).

## 1. The system

The repository is an SDK for WLAN microcontrollers. Its own logic is in `src/framework/src/mm*`,
`src/framework/src/slip`, the platform shims (`src/framework/src/platforms/*/mm_shims`), two
applications that talk to each other (`src/applications/mm-ekh08-u575/m2m_agent`, `m2m_controller`)
and examples. The driver proper (`morselib`) is delivered as a binary with headers. lwIP, mbedTLS,
hostap, FreeRTOS, littlefs, the vendor BSPs and the AWS libraries are third-party code.

MMAGIC is the largest piece of own logic: a *Controller* (host library) sends commands to an
*Agent* (firmware next to the WLAN driver) through numbered streams. The layers are

    application    --calls-->   mmagic_controller   --tx/rx-->   Controller data link
                                                                      |  SPI + RDY/WAKE, or UART
    Agent core  <--queues--  M2M agent (streams)  <--callback--  LLC  <--callback--  Agent data link
        |
        +--> WLAN driver and lwIP --> packet memory (mmpktmem), ping, iperf, configuration store

### Inventory

| Component (code) | State | Operations | Why it is hard | What makes it correct |
|---|---|---|---|---|
| Packet memory, heap (`mmpktmem/mmpktmem_heap.c`) | two atomic counters, the pause flag, the list of command blocks | allocate and free of transmit, command and receive packets; init/deinit | no lock: add, compare, undo, exchange of the flag and call-back interleave; failed allocations inflate the counter while others look at it | the counter is exact, the limit holds, the stack knows the flag, a pause ends |
| Packet memory, static pools (`mmpktmem_static.c`; linked by the listed platforms) | four free lists, the pause flag | the same, by dequeue and append | decision and dequeue in different critical sections; one append in none | no block is lost or in two places, the flag says whether there is room |
| SPI data link (`m2m_agent/mm_shims/mmagic_datalink_spi.c`, the Controller's file of the same name) | state machine of the Agent, three buffer references, EXTI flags, RDY/WAKE, the veto against deep sleep | transmit, receive, read, reread; WAKE and SPI interrupts; deep-sleep modes | interrupts between any two steps of a task, latched edges, retries of half-done transactions | no buffer is released twice, ACK means passed on, nothing sent is given up unread, no sleep in a transaction |
| UART data link (`mmagic_datalink_uart.c`, `slip/slip.c`, `mmhal_uart.c`) | ring buffer, decoder, receive buffer, veto and wake-up interrupt | byte interrupt, receive thread, decode, frame end, deep-sleep modes | lock-free ring, dropped and changed bytes, allocation failure in the middle of a burst | frames that kept their bytes arrive whole, once, in order |
| LLC and commands (`mmagic_controller.c`, `mmagic_llc_agent.c`, `mmagic_m2m_agent.c`) | sequence numbers on both sides, queues per stream, the two data link mutexes, the boot state | call, write with retries, answer, event, loss report, start notification, restart | lost acknowledgements, repeated packets, wrap-around, queues of one place, a restart under a running peer | at most once, own answer, no false loss report, calls return |
| Stream table and TCP commands (`mmagic_m2m_agent.c`, `mmagic_core_tcp.c`) | `core->stream[]`, one structure, queue, task and connection per stream | connect, bind, accept, send/recv/poll, close, restart | several tasks of one priority without a lock; close is asynchronous; four allocations that may fail | one owner per connection, no use of freed memory, a closed stream is freed |
| Configuration store (`mmconfig/mmconfig.c`) | two images in flash with version and checksum, the pointer to the one in use, a mutex | init, read, write, write lists, erase | power failure at any step, flash that does not store, lock-free comparison before the write | an update is atomic for readers and across power failures |
| Ping (`mmping/mmping_lwip.c`) | the one session, the bitmap of duplicates, task handle, next ID | start, stop, stats; ping task; reception | the API takes no lock; replies late, repeated, of the session before; stop at any time | statistics count once, retries per request, the session ends |
| Agent core (`agent/core/mmagic_core_{wlan,ip,ping,iperf,sys}.c`) | status of the station and its semaphore, the scan's semaphore and results in the frame of the command, core pointer and mutex of the beacon monitor, the link state reported last | connect, disconnect, scan, beacon monitor, reload of the IP configuration; station, scan, beacon and link callbacks | callbacks of the driver's event loop after the caller has gone; locks held across calls that wait for that loop | what a callback uses is there, every command returns, the reported link state is the true one |
| Packet buffers (`mmutils/mmbuf.c`) | start and length of one buffer | prepend, append, trim | bounds only | not modelled |
| Command line (`agent/cli`) | line buffer | parse, print | none | not modelled |
| Network layer (`mmipal/lwip/mmipal_lwip.c`, `mmnetif.c`) | link and IP link state, address and its mode, DHCP client, DHCP offload, lwIP's mailbox | link callback, lease callback, DHCP, reconfiguration, reception, transmission | three threads, one core lock, with which lwIP's thread waits for the driver (to transmit, and to enable the DHCP offload); a mailbox that is posted to without waiting; a status callback outside of the lock | the address is one of its mode, a change of the link is reported in the end |
| Throughput tool (`mmiperf`) | list of sessions | start, report, end | session ends while data arrives | not modelled yet |
| OS and hardware shims (`mm_shims`) | FreeRTOS objects | tasks, queues, mutexes, flash | none of their own | used as FreeRTOS defines them |
| Controller application, examples | – | demonstrations of the API | – | their discipline is in the assumptions of section 5 |

Components share state in four ways: by queue (commands to a stream's task, answers to a
Controller task), by callback under the caller's locks (data link → LLC → M2M; packet memory → the
stack's flow control), by shared variables that interrupt handlers also write (both data links), and
by flags without a lock (ping, packet memory, the wake-up veto). `PROJECT.json` lists the hazards that
follow from this, each at its line, with the properties that would catch it.

## 2. The modules and the code

| Module | Models | A step is | Abstract specification it implements |
|---|---|---|---|
| `PktPool` | what a packet memory promises the stack | | |
| `PktMemHeap` | `mmpktmem_heap.c` | one C11 atomic operation, one critical section or one call-back | `PktPool` |
| `PktMemStatic` | `mmpktmem_static.c` | one critical section; each write of the append outside of one | `PktPool` |
| `DatalinkSpi` | both `mmagic_datalink_spi.c` | one interrupt handler; what an Agent task does between two points a handler can see; one wait or transfer of the Controller | |
| `ByteFifo`, `DatalinkUart` | ring buffer, SLIP and framing | one byte's interrupt, one byte of the thread's loop, one write of the deep-sleep call | `ByteFifo` |
| `M2mRpc`, `M2mLlc` | commands across both LLC layers | one transfer, one run of a callback up to the point where it waits, one queue operation | `M2mRpc` |
| `AgentStreams` | the Agent's stream table and `mmagic_core_tcp.c` | what lies between two accesses to data another task can reach | |
| `ConfigStore`, `MmConfig` | `mmconfig.c` | one flash operation, one mutex operation, one look at the image | `ConfigStore` |
| `AgentWlan`, `IpLink`, composed by `AgentNet` | `mmagic_core_wlan.c`; `mmnetif.c`, `mmipal_lwip.c` and `mmagic_core_ip.c` | one call of the driver's API, one part of a callback between two locks, one message of lwIP's thread | |
| `MmPing` | `mmping_lwip.c` | one statement group of the API that other threads can see; the task's and lwIP's decisions and stores apart, because `mmping_stop` falls between them | |

`MC…` modules only instantiate. `…Proofs` modules hold theorems. Operators marked *Mutant* are
plausible errors in the definition that follows them; nothing in the specifications uses them. They
record, for each property that a run checks, a change of the code that the property would notice.

How state and actions correspond to the code:

- **PktMemHeap.** `txAllocated`, `txPaused`, `rxAllocated`, `cmdFree` are the fields of `pktmem`; `pc`
  says between which two atomic operations a task is. `TxReserve` is `atomic_fetch_add`, `TxHeapAlloc` the test and
  `malloc`, `TxUndo` the `fetch_sub` of a failed call, `TxCheck`/`TxPause`/`TxPauseCb` the end of an
  allocation, `TxFree`/`TxFreeCheck`/`TxUnpause`/`TxUnpauseCb` those of a release. Packets are counted:
  nothing tells two of them apart. `Restart` is deinit followed by init.
- **PktMemStatic.** The command list is modelled with head, tail, links and length because the append that puts a block back
  (`CommandTooBig`, `PutTail`, `PutLen`: its three writes) is not protected; `mmpkt_list_append` is in the closed `morselib`, and its writes are taken in their usual order, the
  increment of the length as one. The blocks of the list are those that following the links from the head reaches (`Linked`, the least set that is closed under them).
  Other lists are their lengths; the put-back of a data block (`TxTooBig`), as unprotected, changes it in one step. Every task handles commands. `Shutdown`,
  `DeinitRound` and `Boot` are `mmhal_wlan_pktmem_deinit` and `_init`.
- **DatalinkSpi.** `state` is `agent_dl->state`; `hal` and `spiIrq` the transfer the peripheral is set up
  for and its interrupt. The Controller's transaction is its sequence of waits for RDY and transfers
  (`cpc`). Payloads are what the link tells apart: is there a complete packet not passed on, and which
  of the Agent's buffers is read. History variables (`passedOn`, `unread`, `modeSet`) carry the properties. The two sides run at any relative speed: the receive
  task may be held up before any of its steps and its callback may last for any time, while the Controller waits for 100 ms and goes on. Two more history variables mark that: `overtaken` is set when the Controller
  gives a wait up, or starts a transaction, while the Agent still has a handler or a received packet to work on (`Overtake`), and reset by a transaction that finds the Agent at rest; `overtakes` counts.
- **M2mLlc.** The data link below is what `DatalinkSpi` shows of it: an acknowledged write was passed on, a failed one
  may have been; a read can lose a packet or return the one before. A command is known by task and number; of
  its header only the fields `mmagic_controller_rx` compares matter.
- **AgentStreams.** The n-th connection has number n and with it the structure and the task made for it; `mem`
  and `conn` say whether they are allocated. A handler keeps the pointer it found in `held`.
- **DatalinkUart.** A byte is its value and, for the properties and the ideal checksum, the frame it came
  from. `harmed` are the frames of which something was lost or changed. `Unseen` is what the thread has still to take from
  the ring, `Held` what the ring holds for the interrupt handler, which gets the places of a burst back only at its end (`RxEnd`). The names
  `UartInit`, `UartNext`, `UartSpec`, ... differ from those of `DatalinkSpi` because `DatalinkProofs` is about both modules.
- **MmConfig.** An image is signature, version, checksum, entries, and whether something was stored wrongly. The
  checksum is the list it was computed of. `Select` is the copy loop of an update with its test: what of the old image is `Kept`, then what is
  `New`. `EraseSecondary`, `WriteChunk` (one write of the staging buffer) and
  `Verify` are the steps of `mmconfig_update_secondary_image`; `Crash` loses all but the flash.
- **MmPing.** `LockFree` is the lock of the TCP/IP core, which the task and lwIP's thread hold from their
  first look to their last store. The API does not take it.
- **AgentNet.** Three threads: `step` is where the control stream's task is in its command, `loop` the callback the
  driver's event loop is in, `mbox` and `core` lwIP's thread. `sta`, `scan`, `installed`, `offload` are the driver's state as its
  header describes it; a call of its API is served when `loop` is idle. `scanSem` is the semaphore in the frame of the
  scan command, `monCore` and `monMutex` the fields of `mmagic_beacon_monitor_data`, `ipState` and `reported` the two copies of
  the link state. `AgentWlan` has the actions of task and loop, `IpLink` those of lwIP's thread and the operators that the loop's
  callbacks share with it. `core` is who waits with the core lock: `StatusCallback` in DHCP offload mode takes it to `"offload"`, where lwIP's thread waits for the driver's event loop, as every
  caller of the API does, until `OffloadEnabled` or `OffloadRefused`; what the callback does after that is `Report`. The lease callback, which the loop itself runs, is four steps (`Lease` to `LeaseDone`), and `AgentNet` what involves both. Where the code does not
  survive an event, the event is a *mishap*: it is part of the behaviour, remembered in `mishaps`, and each property names those it is violated by.

## 3. The runs

All runs use exhaustive breadth-first search. Sizes are distinct states.

| Run | States | Checks | Instance and why it is enough |
|---|---|---|---|
| `MCPktMemHeap` | 121,137 | `NoFailedAssert`, `StackLearnsPause`, `RxPoolBound`, `CommandConservation`, `RefinesPool`, `PauseEnds` | 3 tasks: one allocating, one failing, one releasing; 5 blocks, the least the assumption allows with 3 tasks; 2 receive blocks, so that all can be taken at once; 1 command block |
| `MCPktMemStatic` | 130,752 | `FlagTellsRoom`, `RefinesPool`, `PauseEnds` | 3 tasks, all of which may handle commands, 4 blocks (both thresholds crossed and the pool emptied, one more than tasks), 1 command block that is put back under other list operations, 1 round of deinit |
| `MCDatalinkSpi` | 2,963,051 | `BuffersApart`, `AckMeansPassedOn`, `CopiesWholePackets`, `NoPacketLost`, `AwakeInTransaction` | 3 buffers fill all three references; one corrupted transfer or failed allocation at any point; the Controller overtakes the Agent once, at any point, and what is left behind meets the transactions after it; two deep-sleep modes |
| `MCDatalinkSpiAssert` | – | `NoAgentAssert`, violated | neither a fault nor an overtaken transaction is needed |
| `MCM2mLlc` | 270,837 | `OwnAnswer`, `HandedOnce`, `RefinesRpc` | 2 tasks with streams of their own, 3 calls each and an event, numbers modulo 4 so that they wrap; 2 faults, fewer than the 3 attempts of a write |
| `MCM2mLlcLive` | 362,706 | `NoFalseLoss`, `OnlyRepeatsIgnored`, `CallReturns` | 2 tasks on one stream, 2 calls each and an event, all queues of one place as in the code; 1 fault of 2 attempts, failing allocations, 1 restart. `CallReturns` is claimed while there was no fault and no restart |
| `MCAgentStreams` | 62,736 | `TableIntact`, `ConnsHeld`, `StreamServed`, `ClosedIsFreed` | 2 places and 3 connections: the table fills, a place is used twice, an accept is refused, a stream is closed under its own command; 1 restart |
| `MCMmConfig` | 324,526 | `MemoryAgrees`, `OkMeansDone`, `RefinesStore` | 2 tasks, 3 keys in an image of 2 entries: full, replaced, deleted; 2 updates, so that each image is erased once while it is the older one; 1 power failure, 1 bad write |
| `MCDatalinkUart` | 527,417 | `WholeFramesArrive`, `InOrder`, `SleepsWhenRead`, `RefinesFifo`, `FrameDecided` | a ring of 3 is shorter than any frame, so it wraps and overflows; a payload that must be escaped; 2 frames, of which one or both are harmed by noise (a byte becomes END or ESC), overflow, sleep or a failed allocation |
| `MCDatalinkUartWake` | – | `CanWake`, violated | no fault is needed |
| `MCMmPing` | 102,103 | `CountsAgree`, `GivesUpAfterRetries`, `NoNeedlessRequest`, `SessionEnds` | 2 sessions of 1 or 3 requests, a window of 2 (the bitmap is reused within a session), 1 retry, 1 request or task that fails, stop at any moment |
| `MCAgentNet` | 363,236 | `ContextAlive`, `AddressFollowsMode`, `CommandsReturn`, `LinkReported` | 3 commands: enable, disable and enable again; connect, scan and reload in any order. A mailbox of 2 holds a link change behind a packet and fills; 1 lost connection brings a link up twice; 1 mishap; DHCP and DHCP offload at the start, static addresses by a reload |

The other configurations are not in the list of runs; each checks one property that the code violates (section 7), and TLC finds the trace in a few seconds:

| Configuration (module) | Property | Instance |
|---|---|---|
| `MCPktMemStaticAppend` (`MCPktMemStatic`) | `ListIntact` | 2 tasks, 2 command blocks |
| `MCPktMemStaticOutlive` (`MCPktMemStatic`) | `RxConservation` | one shutdown with a packet out |
| `MCDatalinkSpiLate` (`MCDatalinkSpi`) | `CallbackGetsPacket` | one buffer, no fault, one transaction overtaken |
| `MCAgentStreamsClose` (`MCAgentStreams`) | `HeldIsAllocated` | that of `MCAgentStreams` |
| `MCAgentNetOffload` (`MCAgentNet`) | `LinkCallbackReturns` | offload mode, the link comes up and is lost |
| `MCAgentNetMonitor` (`MCAgentNet`) | `MonitorReconfigured` | the monitor is enabled twice |
| `MCAgentNetMailbox` (`MCAgentNet`) | `LinkChangePosted` | static mode, the link comes up and is lost |
| `MCAgentNetLease` (`MCAgentNet`) | `LinkStateCurrent` | offload mode, the link comes up and is lost |

What they show:

- **Packet memory.** Whatever interleaves, no packet is lost from or invented in the counts; failed allocations, which
  inflate the heap manager's counter, neither grant too much nor hide the moment to resume; if nobody allocates any
  more, the transmit path is resumed for good. Both managers implement `PktPool`.
- **SPI link.** Retries in the middle of a transaction do not release a buffer twice at any speed. A positive answer is truthful, only complete packets are copied, and the Agent stays awake in every transaction
  but one that the Controller began or gave up while the Agent still worked on what was before; the first that finds the Agent at rest is right again, whatever was left behind. The Controller gives no packet up with one
  fault until then. `MCDatalinkSpiLate` shows what happens in a transaction that was overtaken.
- **Commands.** One sequence number of four bits is enough for at-most-once, because only one task writes at a time,
  and what either side drops as a repeat *is* the packet handled last; for the Agent also across a restart, the Controller may drop a packet of the restarted Agent (section 7).
- **Streams.** With an application that opens one stream at a time, and closes whenever it likes, the table, the structures and the tasks stay together and a closed stream is freed. The one thing that a close under a
  running handler breaks is the handler's own pointer to its connection (`MCAgentStreamsClose`).
- **Store.** Every update is atomic. The older image stays what a restart takes until the new one is verified.
- **UART.** A frame that kept its bytes is delivered whole, once and in order whatever happened to the frames around it, and the processor does not sleep on bytes it has not handled.
- **Ping.** The duplicate check clears a bit one request early and still counts each reply once.
- **Agent's network commands.** But for the mishaps of section 5 and the state `Crossed`, no callback of the driver finds its caller gone, task, event loop and lwIP's
  thread do not wait for each other for ever although they wait in every order of core lock, monitor mutex and event loop, and the link state the Agent
  reports comes to agree with the station's again and again. `Crossed` is the one cycle that the order of these locks has: lwIP's thread with the core lock waits for the event loop and the loop for the core lock.

Deadlock is checked in the packet memory, SPI and store runs. The LLC, stream, UART, ping and network runs
say `CHECK_DEADLOCK FALSE` because calls, connections, frames, sessions and commands are bounded there: an
instance stops when they are used up. In `AgentNet` the program may also halt (a failed assertion).

Symmetry is used for the SPI buffers only, in runs without liveness.

These were checked by TLC too, on the same instances, and are kept in the modules without a place in a
run, most because a theorem covers them: `TypeOK` of every module; `TxConservation`, `TxPoolBound` and `PauseHasAnEnd`
of the heap manager; `TxConservation` and `StackLearnsPause` of the static one; `CommandAnswered` of `AgentStreams`; and the inductive invariants of section 6.

### Bounds

`MaxCalls`, `MaxEvents`, `MaxOpens`, `MaxFrames`, `MaxStarts`, `MaxWrites`, `MaxCommands` bound the work; `MaxLosses`, `MaxMishaps`, `MaxFaults`, `MaxOvertakes`, `MaxNoise`, `MaxFailures`,
`MaxAllocFails`, `MaxCrashes`, `MaxResets`, `MaxRestarts` bound what goes wrong. They stand in guards of the
actions that count. `SeqMod` is 16 in the code, `DupBits` 128, `RingSize` 128, `TxBlocks` 20 to 32, `Waits` 100, `MboxSize` 10: what
matters is that they wrap, fill and run out, which the small values do within the other bounds.

## 4. Fairness

- **Packet memory:** weak fairness of each task's continuation of a call (the scheduler runs every task), strong
  fairness of `TxFree` (a packet that is out is released, though the action is disabled while the task is busy).
  Nobody has to allocate.
- **M2mLlc:** weak fairness of tasks and handlers; strong of `RxReport` and `StreamRespond`, which wait for
  `datalink_mutex` in a FreeRTOS queue and therefore do not lose it for ever. Nobody has to call.
- **AgentStreams:** weak fairness of the receive task and of each stream task, except while an accept waits for a peer.
- **DatalinkUart:** bytes under way arrive, the receive thread is run. Nobody has to send or to set a mode.
- **MmPing:** a call that has begun goes on; timeouts pass; the ping task, which waits for the lock in a queue, gets
  it (strong fairness of `TaskLook`); lwIP's thread finishes. No call has to be made and no reply has to come.
- **AgentNet:** strong fairness of the command that can go on (`TaskGoesOn`), of the event loop's callback (`LoopGoesOn`) and of lwIP's
  thread (`LwipGoesOn`, with the call to enable the offload when the loop can serve it; no fairness makes the driver refuse it), for locks and event loop are shared with others that take them again and again: FreeRTOS mutexes queue who waits, the driver
  serves its requests in order. Strong fairness of `ScanEnds` (the driver ends a scan) and weak of `Transmitted` (`mmnetif_tx` waits a second at most).
  No command has to come and no connection to be made.

## 5. What is assumed, and what fails without it

Each assumption is a constant, so the other case can be run by changing the `.cfg`.

| Assumption | Why | Without it |
|---|---|---|
| `TxBlocks >= Cardinality(Tasks) + 2` (heap) | 20 to 32 blocks against a handful of tasks; the bound is tight | the last release may see a counter inflated by failed allocations, and the path stays paused |
| `PacketsOutliveDriver = FALSE` (but in `MCPktMemStaticOutlive`) | the stack releases received packets before the driver is restarted | init zeroes the counter (`mmpktmem_heap.c:63`) or refills the list (`mmpktmem_static.c:74`) under packets that are out: `RxPoolBound` of the heap manager, `RxConservation` of the static one violated. The wait of the static deinit does not prevent it: its loop ends when some list is *not* full instead of when all are (`mmpktmem_static.c:121`; `DeinitGivesTime`) |
| fewer tasks than blocks (theorem `StaticFlagTellsRoom`: `FewTasks`) | 20 to 32 blocks against a handful of tasks | tasks whose packets are too big for a block put the last blocks back without a look at the flag: the path may be paused with nothing out that would resume it |
| `~overtaken` named by `CopiesWholePackets`, `AckMeansPassedOn`, `AwakeInTransaction`; `overtakes = 0` by `NoPacketLost` | the Agent has 100 ms for each step of a transaction, and its callback waits only while a stream's queue is full (`mmagic_m2m_agent.c:211`, without limit). The exception is part of the properties: the instance of `MCDatalinkSpi` has both kinds of transaction | in such a transaction the rx task passes on what has not arrived (`MCDatalinkSpiLate`), an ACK set up for the packet before is read for the next, the veto of a new transaction is lifted by the old falling edge, and a packet may be given up |
| payloads of at least four bytes (UART theorems `OnceEach`, `FramesArrive`: `LongEnough`) | the data link carries LLC packets, whose header has four bytes (`mmagic_llc_agent.h:86`) | noise can make a second copy of a short payload out of the bytes around it: with one data byte, the header `plain` and three frames, TLC finds it with six changed bytes. With the one changed byte of `MCDatalinkUart` there is none, although its payload is short; and `UnharmedAlways` needs no such assumption |
| one fault (SPI `NoPacketLost`, `SpiNoPacketLost`) | three attempts of one call | with two, a READ that failed unseen and its REREAD return the packet before, and one is given up |
| `OutOfMemory = FALSE` for `HandedOnce` | – | without memory for a loss report the callback leaves before `last_seen_seq` is updated (`mmagic_llc_agent.c:170`), and a retry is carried out again |
| `MaxFaults = 2` for `OwnAnswer` | fewer faults than attempts | with three, all acknowledgements of a command are lost, its call fails, and the next call of the same kind on that stream takes the answer that was left (`mmagic_controller.c:470`), whatever `SeqMod` |
| streams of their own for `OwnAnswer` | a TCP connection has a stream to itself; the control stream is for tasks that take turns | two tasks of one stream take each other's answers: `tx_mutex` covers the write only |
| no restart for `OwnAnswer`, `CallReturns` | – | after a restart a new packet may have the number the Controller saw last and be dropped; a call whose answer was lost does not return |
| `OpenOneAtATime = TRUE` | the example application waits for each open | connect on the control stream and accept on another take the same place (`mmagic_m2m_agent.c:104`): `TableIntact`, `ConnsHeld`, `StreamServed` violated |
| `MayFail = {"structure"}` | – | with `"queue"` or `"task"` the place keeps a pointer to freed memory (`mmagic_m2m_agent.c:127`): `StreamServed` violated |
| `InitFirst = TRUE` (store) | a program that uses the store once before it starts other tasks | the mutex that says "initialised" is made before the images are found (`mmconfig.c:887`): `MemoryAgrees` violated |
| a key is once in a list (store theorems: `DistinctKeys`) | `mmconfig_write_update_node_list` is given the nodes by its caller and does not compare them | both entries are stored, and a read finds the first one only |
| `"DISABLED"` is not in `SleepModes` (SPI runs; theorems: `WakeServed`) | nothing in the repository sends the command that selects it | WAKE's interrupt is off, and the Agent neither raises RDY for a transaction nor returns to IDLE after it (section 7) |
| `QuietStarts = TRUE` (ping) | "the session is inactive so there won't be multiple threads accessing the data structure" (comment in `mmping_start`) | stop and start while the task or lwIP is inside: `CountsAgree` violated |
| `MaxMishaps` with `"late abort"` named by `ContextAlive` | the driver completes an aborted scan within the 1000 ms of `mmagic_core_wlan.c:419` | its callbacks use a deleted semaphore and the frame of a command that returned |
| `"enable again"`, `"update failed"`, `"overflow"`, `"no core"` named by `CommandsReturn`, `LinkReported` | the beacon monitor is enabled once, the driver does not refuse the filter, elements fit, and no beacon is being handled while it is disabled | the mutex stays with a party that waits or has returned (`mmagic_core_wlan.c:505`, 557, 561), or the handler uses a core that is NULL (516) |
| `"flood"` named by the same | lwIP's mailbox has room for a link change | the assertion at `mmnetif.c:104` stops the program (`MCAgentNetMailbox`). The mailbox of 2 stands for one of 10 against a receive pool of 23 |
| `"stale report"` named by `LinkReported` | no link change is carried out between the lease callback's test and its store | the second status callback (`mmipal_lwip.c:93`) overwrites what lwIP's thread stored, and the state stays wrong (`MCAgentNetLease`) |
| `Crossed` named by `CommandsReturn`, `LinkReported` | addresses are not offloaded, or no link change and no lease comes while lwIP's thread enables the offload | both threads wait for ever (`MCAgentNetOffload`) |
| the driver serves a call of its API between two of its callbacks, and at once when the call comes from within a callback (`AgentNet`) | `morselib` is binary; `mmwlan.h` says that callbacks run in the event loop, that they must not block, and of some calls that they block until the loop has done its part | a driver that served `mmwlan_enable_dhcp_offload` on the caller's thread would not have the state `Crossed` |
| the network holds no reply while `DupBits` requests are sent (`TooOld`) | 128 requests with at least a timeout between them | the bit of an older reply has been cleared for a later request: it would be counted again, and `CountsAgree` violated |

## 6. The proofs

`tlapm` checks eight modules. The proofs rest on the named assumptions of the specifications
(`HeapAssumption`, ...), on the library's facts on finite sets, sequences and `<`, and on nothing else; where a theorem needs more it says so with
`ASSUME`. The bounds on work and on faults are arbitrary numbers in all of them unless such an assumption limits them.

- **`PktMemHeapProofs`** (any number of tasks, any pool sizes with `TxBlocks >= |Tasks| + 2`). The invariant `HeapInv`
  is `TypeOK`, `TxConservation` (the counter is the packets out plus the reservations in flight), `GrantBound`,
  `NoFailedAssert` and `PauseHasAnEnd`. The limit alone is not inductive: a reservation that passed the test is
  not a packet yet, so `GrantBound` counts both. `PauseHasAnEnd` needs the counter to be exact: the task that is the last to release sees
  at most the others' failed reservations on top, and those are fewer than the threshold by the assumption. Lemma `CountMoves`
  (one task changes its step, each count moves by what it enters and leaves) carries all steps. Theorems: types,
  conservation, bound, assertion, a pause's end, `StackLearnsPause`, and the step simulation of `PktPool` (`HeapImplementsPool`).
  `HeapRxPoolBounded` has an invariant of its own, `RxInv`: the receive counter is exact too, which needs `~PacketsOutliveDriver`. `HeapCommandConservation` counts the
  tasks between the dequeue of a command buffer and their return in the same way.
- **`PktMemStaticProofs`** (any number of tasks, blocks, rounds; every task may handle commands). `StaticInv` is `TypeOK`, `BufferKnown`, `TxConservation` and
  `PausedWhenFew`, the first half of `FlagTellsRoom`. Nothing in it mentions the links of the command list, so these theorems hold although that list may be
  corrupted. The second half, that a paused path has a packet out, assumes `FewTasks` (fewer tasks than blocks): a block too small for its packet is put back without a look at the flag, and only
  by counting (`Testing`) is one left that will be looked at. Theorems: types, conservation, `StaticFlagTellsRoom`, `StaticStackLearnsPause`, and the step simulation of `PktPool`.
- **`DatalinkProofs`**, SPI (any number of buffers, faults and overtaken transactions, any relative speed). `SpiBuffersApart` needs no more. The others assume `WakeServed`, that no command switches WAKE off.
  `SpiInv` has types, which hold always, and four parts, which hold as long as `~overtaken`: who may work (`InTurn`), that the edges of WAKE enclose the transaction (`Edges`), what `rx_packet_buf` holds (`Payload`)
  and when an ACK is set up (`Ack`). In such a transaction a step of the Agent takes any
  time the Controller waits, and the callback may last past its end. The step that matters is the first one of a transaction that finds the Agent at rest (`Begin`), whatever those before left behind: the four parts must follow from that alone. They do because a transaction that
  was given up may leave the state machine anywhere, but the falling edge brings it back to IDLE, the leftover notifications are used up, and a stale transfer is not clocked out, for RDY is high where the Controller waits
  for low. `SpiNoPacketLost` adds at most one fault and `overtakes = 0`. `Transfers` says which transfer is set up in which
  step of the transaction, so that a packet is taken as sent only if the Controller has it or the fault hit it; in the latter case each transaction that follows is `Smooth`, and `Reread` says that
  the next of the reading task rereads that packet.
- **`DatalinkProofs`**, UART (any ring, payloads, frames, noise, overflow, sleep, failing allocations). *The ring:* `BurstWithin` (the burst the thread hands on lies between
  the two indices) makes the types inductive (`LinkAlways`). `Slice` is what lies between two indices, modulo the size; lemmas say what it is when a byte is put, taken or given back, and `RingIsFifo` is
  the step simulation of `ByteFifo`. *The stream:* for frames only the bytes still to come matter, those in the ring and on the line in one sequence (`Stream`), and every step of
  the link loses one of them, changes one, appends a frame, takes the first through the decoder, renews the receive buffer or leaves all that alone (`StreamSteps`). *At most once:* by `OrderInv` frames come in order. A frame is `Early`
  (the decoder holds nothing of it), `Seen` (it is the first in the stream) or `Once` (handed on). `Weight` counts the bytes of it that it took to get what the decoder holds, an escaped one twice, and no step
  makes `Left`, the bytes in the stream and that weight, larger. A frame is at most four bytes longer than its payload weighs, so after one copy at most four are left, and another
  needs its header as well: `OnceEach`. *At least once:* of an unharmed frame the stream holds a `Window`, its bytes from some k on in one piece. Bytes of others may be lost, changed or added around it without touching
  it; when the thread is at its first byte, an END, the decoder is ready whatever came before; and after k bytes it holds just the values these encode (`Decoded`, by the place `Offset` of each value in its frame), up to
  the END at which it hands the payload on. `ArriveInv` says so for all frames, `UnharmedAlways` follows, and with `OnceEach` the property of the run, `FramesArrive`.
  *Order:* `TurnInv` says that no byte handed on is of a later frame than one the decoder holds or one in the stream, and none of an earlier packet of a later frame
  than one of a later packet. With `OrderInv` it is inductive, and `BytesInOrder` is what it says of the packets laid out one after the other (`FlattenOrder`, by the least number of packets for which it
  would fail). *Sleep:* `ReadWhenWaiting` (the thread waits without a notification only when the two indices are equal, and deep sleep needs a thread that waits so) gives `SleepsRead`.
  What `FlattenSeq` lays out is proved for a sequence of any length with the library's well-foundedness of `<`, as in `MmConfigProofs`.
- **`M2mLlcProofs`** (any tasks, streams, commands, modulus above 1). The key conjunct of `IInv` is `RetriesAreRecognised`: while a task repeats its
  write, a copy that was handed over is still the Agent's last packet, so comparing with the last number alone is
  enough; that needs `OneWriter`. `LlcHandedOnce` assumes `~OutOfMemory`, with any faults and restarts. `LlcNoFalseLoss` holds with failing allocations too: by `NoGap` the Agent's last
  number is the Controller's or the one before it unless a command was given up; `LlcAgentIgnoresRepeats` (`CopyInv`) needs no assumption either. The rest assumes `Steady`:
  memory suffices, no restart, fewer faults than attempts, a stream for each task. Then each command is in one stage of its way (`OneStage`: queue, handler, transmit buffer, the buffer
  that may be read again, answer queue), its task waits for it (`FreshIsWanted`, `OnItsWay`), and what is in a stage answers the command of that stream's task (`Answers`). From this follow
  `LlcOwnAnswer` and, step by step, `LlcRefinesRpc`. `LlcOnlyRepeatsIgnored` has the invariant `SeqInv`: the Agent's numbers are behind by as many packets as were lost (`Dist`),
  and so never a full round if `MaxFaults + 1 < SeqMod`.
- **`AgentStreamsProofs`** (any number of places, connections, restarts). All theorems assume `Disciplined`: one stream is opened at a
  time, and only the structure may fail to be allocated. Streams are closed at any time, also under a command of their own. `IInv` follows the parts of the code: a
  task that opens a stream and how far it has got (`OpenerOf`), what an open stream consists of (`Numbered`), where a command is
  (`OnItsWay`, `Waiting`, `Working`), and that a stream which is being closed is whole until its task was told to quit (`ClosingStream`, `Closing`), whatever that task is doing. The argument is that a task at work is the
  one in the place of its command (`AtWork`), so one opening call means one opening task (`OpensAlone`), and the place it found stays free and the structure it put
  there stays its own, although nothing guards the table.
- **`MmConfigProofs`** (any tasks, keys, lists, updates, power failures, bad writes). All assume `InitFirst`. For `ConfigMemoryAgrees`, `InUse` says that outside of `mmconfig_init` the image in use is
  valid and, from the header of an update on, the other one has the next version: verified, it is the best one, and not verified, the old one still is. `Holder` ties the
  mutex to the task that writes and `InitAlone` gives `mmconfig_init` to one task. `ConfigRefinesStore` and `ConfigOkMeansDone` assume `DistinctKeys` too: by `StoreInv` each image has
  one value for each key, what is erased or half written is not valid (`Blank`), and a list is stored with its last chunk (`Done`). That is the step of `ConfigStore`'s update; a power failure before it
  leaves the older image, one after it the newer. It changes just the keys of the list by `UpdatedLookup`, which needs what `Select` selects of a sequence of any length.
  The provers cannot use the induction theorems of the library (an operator is their parameter), but they can use that `<` is well-founded: lemma `Least` gives the
  least number for which `Select` would select something else, and there is none.
- **`AgentNetProofs`** (any modes, mailbox, commands, mishaps). `ScanWaits` (while the driver scans, its command waits), `MutexStays` and
  `SettersFollowMode` (who may set an address does so in its mode) make `ContextAlive` and `AddressFollowsMode` inductive.
- **`MmPingProofs`** (any window, counts, retries, sessions). `CountsAgree` is inductive only with `Remembered`: the bitmap has the
  bit of every counted reply within the window. Sending a request clears the bit of the *next* one; by
  `BitsApart` (two numbers less than `DupBits` apart have different remainders) no counted reply of the window loses its bit. `RepliesKnown` says that a
  reply is of a request that was sent and that the one lwIP's thread has is new. `PingCountsAgree` assumes `QuietStarts`, and so do `PingGivesUpAfterRetries` and
  `PingNoNeedlessRequest`, by an invariant of what the task waits for and has retried (`RequestInv`).

TLC was run on every inductive invariant before it was proved. Those of the UART link were also run with a payload of four bytes, as `LongEnough`
has it, without failing allocations (3,640,923 states; `TurnInv` and `ReadWhenWaiting` on the instance of `MCDatalinkUart` only).

The hypotheses above are those of the instances of section 3, where TLC evaluates them in states that are reached: `MCDatalinkSpi` has `WakeServed`, one fault and one overtaken transaction, `MCM2mLlc` is `Steady`,
`MCMmConfig` has `InitFirst` and distinct keys, `MCPktMemStatic` is `FewTasks`, `MCAgentStreams` is `Disciplined`.
`MCM2mLlcLive` checks `OnlyRepeatsIgnored` beyond its theorem, with a restart and failing allocations.

Only model-checked: all liveness (`PauseEnds`, `CallReturns`, `ClosedIsFreed`, `FrameDecided`, `SessionEnds`, `CommandsReturn`, `LinkReported`) and anything with
`ENABLED`, which the prover does not handle. Every invariant, action property and refinement that a passing run checks is proved, under the hypotheses named above. No module declares a `RECURSIVE` operator.

## 7. Where code and documentation disagree

With a run that finds it:

- `MCDatalinkSpiAssert`: the default case of the handler of a completed transmission, `MMOSAL_ASSERT(false)` (`mmagic_datalink_spi.c:303` of the Agent), is reached in two ways. A Controller that is still notified
  of a packet it has read starts a READ, is told a length of zero and lowers WAKE, and the falling edge is served before the interrupt of the length; or a packet is published after a zero length was clocked out and before its interrupt, which then sets up a payload nobody reads.
- `MCDatalinkUartWake`: an edge between arming EXTI10 and clearing the veto (`mmhal_uart.c:201`) leaves the processor free to sleep with no
  wake-up armed; `mmhal_uart.h:75` says the mode enables deep sleep *until* activity.

With a configuration of its own (section 3):

- `MCPktMemStaticAppend`: `mmpktmem_static.c:229` appends outside of the critical sections in which other tasks change the same list, and a block is lost from what line 45 calls the "TX command pool free (unallocated) packet list".
- `MCPktMemStaticOutlive`: `mmhal_wlan_pktmem_init` (74) puts blocks into the free lists (56) that the network stack still holds.
- `MCDatalinkSpiLate`: the rx task is notified by the payload and again by the end of its ACK (`mmagic_datalink_spi.c:255` of the Agent; "Only notify rx thread once the ACK has been sent"). If it is held up before its test of the state until the
  next write has begun, the header has set that state, and `rx_packet_buf` is passed on before the payload arrived; `mmagic_datalink_agent.h:75` says the buffer has "the received data".
- `MCAgentStreamsClose`: `mmagic_core_tcp_close` frees the context (`mmagic_core_tcp.c:344`) of a stream whose own task may be using it; the rest is freed "after stream task shuts down" (`mmagic_m2m_agent.c:92`).
- `MCAgentNetOffload`: in DHCP offload mode lwIP's thread calls the driver with the core lock (`mmipal_lwip.c:384`), for which the driver's event loop waits in the link callback (`mmnetif.c:97`), although that one "must not block" (`mmwlan.h:1841`).
- `MCAgentNetMonitor`: to enable the beacon monitor again blocks in `mmwlan_update_beacon_vendor_ie_filter` with the monitor's mutex (`mmagic_core_wlan.c:557`), for which the handler waits in the loop that should install the filter;
  `mmagic/api.yml:738` says that it "will be reconfigured with the given arguments". `mmwlan.h:1733` forbids the change of an installed filter's arguments anyway.
- `MCAgentNetMailbox`: a link change is posted without waiting for room and the assertion on it (`mmnetif.c:104`) fails when received packets have filled the mailbox while lwIP's thread waits to transmit.
- `MCAgentNetLease`: the lease callback's second status callback (`mmipal_lwip.c:93`) runs without the core lock and may store an older state over a newer one, which `mmagic/api.yml:383` calls the "Current link state".

Seen while modelling and reproducible by the constants of section 5 or the properties named here, without a run of their own:

- `StartNotified` (`M2mLlc`, one restart, no fault): the start notification takes no lock, is refused while a command is answered, and the assertion at
  `mmagic_m2m_agent.c:276` fires.
- `WriteDone` (`MmConfig`, `Lists <- MoreLists`): a write compares through a pointer into flash after it has released the mutex (`mmconfig.c:1102`); after updates of another task it may skip a write whose key no longer has that data, although it is to "Skip write if key already exists and has the same data" (`mmconfig.c:1095`).
- `mmconfig.c:836`: an update whose verification fails returns `MMCONFIG_OK`. The header (`mmconfig.h:19`) says that updates
  are made twice; the second is commented out (`mmconfig.c:1159`).
- `OwnBufferOnly` (`DatalinkUart`, one failed allocation): the decoder goes on writing into the packet that was handed on, against `mmagic_datalink_agent.h:75`.
- `StopIsHeard` (`MmPing`): a stop between a thread's test of the state and its store is overwritten; `mmping.h` says "Stop any running ping request".
- `mmping_lwip.c:748`: a task that is about to end makes a new session that never runs (documented there); a task that cannot be created leaves the session busy until it is stopped; `last_rx_seq_num` also takes out-of-order numbers; `mmping_stats` divides by zero before the first reply.
- `mmagic_llc_agent.c:197`: for a stream that is not open the packet is released by callee and caller, against `mmagic_llc_agent.h:112`.
- SPI: clearing the latched edge of RDY (`mmagic_datalink_spi.c:223` of the Controller) can lose the notice of a packet published meanwhile, until the next transaction; mode
  `DISABLED` leaves the link without WAKE until the Agent sends; a change to `ONE_SHOT` clears the veto in the middle of a transaction.
- Beacon monitor: the handler returns with the mutex when elements do not fit (`mmagic_core_wlan.c:505`), `enable` when the driver fails (561); `disable` clears the core under a handler that
  uses it (516, 582), and after a `disable` that failed, `enable` makes a second mutex.
- `mmipal_dhcp_lease_updated` waits for lwIP's core lock (`mmipal_lwip.c:88`) in a callback and calls `mmwlan_enable_dhcp_offload` from it, against `mmwlan.h:1147`. When that call fails in lwIP's thread nothing tries it again before the next change of the link (386).
- `mmagic_core_wlan_connect`: the semaphore may have been given by an earlier connection, and the command reports a timeout before its time (`mmagic/api.yml:681`). A scan with an SSID that is too long returns without deleting its semaphore (396).
- `mmagic_core_ip_reload` reports success also for a configuration that `mmipal` refused; the link callback sets the second DNS server at index 0, over the first (`mmagic_core_ip.c:60`); after a reconnect with an address kept from before, the link is up before DHCP has confirmed it.
- `mmwlan.h:12`: the API "must not be called concurrently", but in offload mode lwIP's thread calls it as well.
- A restarted Agent numbers its packets from 0, and its report of an unknown stream may come before the start notification; the Controller, whose last number may be 0, drops it as a repeat (`mmagic_controller.c:272`), and the call waits for its timeout.
- UART: the header byte is outside the CRC; overlong frames are cut and completed (`slip.c:19`).

## 8. What is not modelled

- *Time.* A timeout may have passed whenever it is looked at. Relative speed matters in the SPI link only, where it is `overtaken`.
- *Contents.* Packets, values and payloads are model values or members of small sets; formatting and parsing are left out,
  except SLIP, where the property is about it.
- *Driver, lwIP, FreeRTOS, HAL*: as the code in the framework uses them; such definitions are marked external in the map.
- *SPI:* deinit and DMA set-up. *UART:* deinit functions, which nothing calls, and the wait for the transmitter.
- *LLC:* AGENT_RESET, ERROR and unknown packet types, which no peer in the repository sends; deinit; buffers as objects on the Agent's receive path.
- *Streams:* the event and deep-sleep handlers of `mmagic_m2m_agent.c`; what a handler goes on to do with a context that was freed under it.
- *Store:* number conversions, key syntax, wildcard deletion, `mmconfig_check_usage`, and `mmconfig_eraseall` called by an application (a power
  failure between its two erasures brings back the older list, `mmconfig.c:954`).
- *Ping:* time and round-trip statistics; the state test and the `memset` of `mmping_start` are one step.
- *Agent core:* parsing of parameters, standby and the getters, the keep-alive, whitelist and ARP offloads, and the ping, iperf and system commands, each a call of the layer below.
- *Network layer:* IPv6, DNS servers, the ARP offloads (which the Agent leaves off). lwIP is known by what it calls back and when.
- *mmbuf, CLI:* sequential code without state that survives a call. *mmiperf:* its protocol is lwIP's TCP and UDP callbacks; not reached. *Shims:* used as FreeRTOS defines them. *Examples:* demonstrations; their discipline is in section 5.
- Hazards without a property in a run (`PROJECT.json` says why at each): `mmagic_llc_agent.c:197`, `mmconfig.c:1102`, `mmagic_datalink_uart.c:144`, `mmpktmem_static.c:74` and 229, `mmagic_core_wlan.c:557`, `mmnetif.c:103`, `mmipal_lwip.c:384`, where the program is known to misbehave (section 7).
- Components with status `not_modelled` in `PROJECT.json`, for the reason noted there.

## 9. The plan

Order of work: packet memory and the command path first (every packet and every command passes them), then what they stand on
(data links), then the stores and tools. Done: the modules of section 2.

What could come next:

1. The receive path of `mmagic_llc_agent.c` with buffers as objects: each packet is released once on every error path.
2. A composition of `AgentStreams` and `M2mLlc`: a command to a stream that is being closed is answered or refused, never lost.
3. `Iperf` (`mmiperf_*`): the session list, and the end of a session against arriving data.
4. The Controller application as a client of `M2mRpc`.

Proofs: `SpiInv` without the assumption that no command switches WAKE off; the order of locks in `AgentNet` outside of `Crossed`, as an invariant.
