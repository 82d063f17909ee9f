------------------------------- MODULE AgentNet -------------------------------
(***************************************************************************)
(* The Agent's WLAN commands and its IP link together: the event loop of   *)
(* the driver, lwIP's thread and the task of the control stream wait for   *)
(* each other by the core lock of lwIP, the mutex of the beacon monitor    *)
(* and the calls of the driver's API.                                      *)
(***************************************************************************)
EXTENDS AgentWlan, IpLink

vars == <<wlanVars, ipVars>>

Init == WlanInit /\ LinkInit

\* mmwlan_shutdown ends the offloads as well (mmwlan.h:1150).
ShutdownAll ==
  /\ Shutdown /\ offload' = FALSE
  /\ UNCHANGED <<core, mbox, linkUp, addr, mode, client, inited, wanted, ipState, reported, decided>>

\* mmnetif_link_state: the loop waits for the core lock and posts, or its
\* LWIP_ASSERT("sched callback failed") fails.
ReportLink ==
  /\ core = "free"
  /\ LoopStep("link", IF Room THEN "idle" ELSE "halted")
  /\ MishapIf("flood", ~Room)
  /\ mbox' = IF Room THEN Append(mbox, news) ELSE mbox
  /\ UNCHANGED <<sta, staSem, news, losses, monVars, scanVars>>
  /\ UNCHANGED <<core, linkUp, addr, mode, client, inited, offload, wanted, ipState, reported, decided>>

\* mmnetif_rx: a packet that finds no room is released.
Receive ==
  /\ loop = "idle" /\ sta = "connected" /\ Room
  /\ mbox' = Append(mbox, "packet")
  /\ UNCHANGED <<wlanVars, core, linkUp, addr, mode, client, inited, offload, wanted,
                 ipState, reported, decided>>

\* Mutant: the transmission waits for as long as the driver is not ready.
TransmitReturnsReady == loop = "idle"

\* A second is over, if the driver does not get ready.
TransmitReturns == TRUE

Transmitted ==
  /\ core = "lwip" /\ TransmitReturns /\ core' = "free"
  /\ UNCHANGED <<wlanVars, mbox, linkUp, addr, mode, client, inited, offload, wanted,
                 ipState, reported, decided>>

Reload ==
  /\ Command("reload")
  /\ UNCHANGED <<timed, monVars, scanVars, linkVars, mishaps, ipVars>>

ReloadRefused ==
  /\ Goes("reload", "idle") /\ \E w \in {"static", "dhcp", "offload", "bad address"} : Refused(w)
  /\ UNCHANGED <<timed, monVars, scanVars, linkVars, mishaps, ipVars>>

ReloadLocks ==
  /\ Goes("reload", "reloading") /\ \E w \in {"static", "dhcp"} : ReloadBegins(w)
  /\ UNCHANGED <<timed, monVars, scanVars, linkVars, mishaps>>

\* dhcp_stop and dhcp_start transmit.
ReloadDone ==
  /\ Goes("reloading", "idle") /\ TransmitReturns /\ ReloadEnds
  /\ UNCHANGED <<timed, monVars, scanVars, linkVars, mishaps>>

\* The driver serves the call of lwIP's thread like any other, between two
\* callbacks ...
OffloadEnabled == loop = "idle" /\ OffloadReturns(TRUE) /\ UNCHANGED wlanVars

\* ... or refuses it at once.
OffloadRefused == OffloadReturns(FALSE) /\ UNCHANGED wlanVars

\* The chip has a lease.
Lease ==
  /\ offload /\ sta = "connected" /\ LoopStep("idle", "lease") /\ LeaseBegins
  /\ UNCHANGED <<sta, staSem, news, losses, monVars, scanVars, mishaps>>

LeaseTaken ==
  /\ LoopStep("lease", "leased") /\ LeaseSet
  /\ UNCHANGED <<sta, staSem, news, losses, monVars, scanVars, mishaps>>

LeaseAgain ==
  /\ LoopStep("leased", "lease report") /\ LeaseDecides
  /\ UNCHANGED <<sta, staSem, news, losses, monVars, scanVars, mishaps>>

\* lwIP's thread may have carried a change of the link out and told of it since.
LeaseDone ==
  /\ LoopStep("lease report", "idle") /\ LeaseReports
  /\ MishapIf("stale report", decided # StateOf(linkUp, addr) /\ core # "offload")
  /\ UNCHANGED <<sta, staSem, news, losses, monVars, scanVars>>

Next ==
  \/ WlanStep /\ UNCHANGED ipVars
  \/ LwipStep /\ UNCHANGED wlanVars
  \/ ShutdownAll \/ ReportLink \/ Receive \/ Transmitted
  \/ Reload \/ ReloadRefused \/ ReloadLocks \/ ReloadDone
  \/ OffloadEnabled \/ OffloadRefused
  \/ Lease \/ LeaseTaken \/ LeaseAgain \/ LeaseDone

Spec == Init /\ [][Next]_vars

\* The command that can go on does, and so does a callback of the event loop.
TaskGoesOn ==
  \/ /\ \/ StaEnable \/ ConnectFails \/ ConnectWaited \/ ConnectChecked
        \/ ScanRequest \/ ScanRefused \/ ScanComplete \/ ScanTimeout
        \/ MonitorLock \/ MonitorInstall \/ MonitorClear
     /\ UNCHANGED ipVars
  \/ ShutdownAll \/ ReloadRefused \/ ReloadLocks \/ ReloadDone

LoopGoesOn ==
  \/ (BeaconLock \/ BeaconSend) /\ UNCHANGED ipVars
  \/ ReportLink \/ LeaseTaken \/ LeaseAgain \/ LeaseDone

LwipGoesOn ==
  \/ (HandleLink \/ HandlePacket) /\ UNCHANGED wlanVars
  \/ OffloadEnabled

\* Strong, for the locks and the loop are shared: who waits for one is not
\* overtaken for ever.  The driver ends a scan.
Fairness ==
  /\ SF_vars(TaskGoesOn) /\ SF_vars(LoopGoesOn) /\ SF_vars(LwipGoesOn)
  /\ SF_vars(ScanEnds /\ UNCHANGED ipVars) /\ WF_vars(Transmitted)

FairSpec == Spec /\ Fairness
-----------------------------------------------------------------------------
TypeOK == WlanTypeOK /\ LinkTypeOK

\* What a callback of the event loop uses is there: the semaphore and the
\* results of a scan, which lie in the frame of the command, until its
\* complete callback; the mutex of the beacon monitor while the handler is
\* past its test.
ContextAlive ==
  /\ "late abort" \notin mishaps => (scan # "none" => scanSem # "none")
  /\ loop \in {"beacon", "event"} => monMutex # "none"

\* The two that wait for each other in offload mode: lwIP's thread, with the core
\* lock, for the driver; the event loop, in a callback, for the lock.
Crossed == core = "offload" /\ loop \in {"link", "lease"}

\* After these the event loop or the task waits for ever, or has crashed.
Fatal == {"enable again", "update failed", "overflow", "flood", "no core"}
Stopped == Crossed \/ mishaps \cap Fatal # {}

\* Every command returns: task, event loop and lwIP's thread do not wait for
\* each other for ever.
CommandsReturn == step # "idle" ~> step = "idle" \/ Stopped

\* The link state the Agent reports is, time and again, that of the station
\* and its address.
Truthful == reported = StateOf(sta = "connected", addr)
LinkReported == []<>(Truthful \/ Stopped \/ "stale report" \in mishaps)

\* "Current link state" (api.yml): the same without the exception.  lwIP's
\* thread may report between the lease callback's test and its store.
LinkStateCurrent == []<>(Truthful \/ Stopped)

\* "The link status callback must not block" (mmwlan.h): it returns.
LinkCallbackReturns == loop = "link" ~> loop # "link"

\* A beacon monitor that is enabled already "will be reconfigured" (api.yml).
MonitorReconfigured == step = "install" ~> step # "install" \/ loop = "halted"

\* LWIP_ASSERT("sched callback failed") of mmnetif_link_state.
LinkChangePosted == "flood" \notin mishaps
=============================================================================
