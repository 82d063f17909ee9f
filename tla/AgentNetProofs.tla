--------------------------- MODULE AgentNetProofs ---------------------------
(***************************************************************************)
(* For any modes, any room in lwIP's mailbox and any number of commands,   *)
(* lost connections and mishaps: the callbacks of the event loop find what *)
(* they use, and the address of the interface is one of its mode.          *)
(***************************************************************************)
EXTENDS AgentNet, TLAPS

\* While the driver scans, the command that asked for it waits, with a
\* semaphore that was not given yet.
ScanWaits ==
  "late abort" \notin mishaps =>
    /\ scan # "none" => step \in {"scan", "aborted"} /\ scanSem = "empty"
    /\ step = "scan request" => scanSem = "empty"

\* The mutex is there as long as the driver has the filter or a handler runs.
MutexStays ==
  /\ installed # FALSE => monMutex # "none"
  /\ loop \in {"beacon", "event"} => monMutex # "none"

\* Who may set an address does so in its mode only.
SettersFollowMode ==
  /\ mode \in {"static", "dhcp", "offload"}
  /\ client # FALSE => mode = "dhcp"
  /\ offload # FALSE => mode = "offload"
  /\ core = "offload" \/ loop \in {"lease", "leased", "lease report"} => mode = "offload"
  /\ step = "reloading" => mode # "offload" /\ wanted \in {"static", "dhcp"}

IInv == ScanWaits /\ MutexStays /\ SettersFollowMode /\ AddressFollowsMode

LEMMA NetInit == Init => IInv
BY LinkAssumption
   DEF Init, WlanInit, LinkInit, IInv, ScanWaits, MutexStays, SettersFollowMode,
       AddressFollowsMode

-----------------------------------------------------------------------------
\* The commands and callbacks of mmagic_core_wlan.c.

LEMMA ConnectingStep == ASSUME IInv, Connecting, UNCHANGED ipVars PROVE IInv'
<1> USE DEF Connecting, ConnectStart, StaEnable, ConnectFails, ConnectWaited, ConnectChecked,
            Disconnect, Command, Goes, monVars, scanVars, linkVars, ipVars, IInv
<1>1. ScanWaits' BY DEF ScanWaits
<1>2. MutexStays' BY DEF MutexStays
<1>3. SettersFollowMode' BY DEF SettersFollowMode
<1>4. AddressFollowsMode' BY DEF AddressFollowsMode
<1> QED BY <1>1, <1>2, <1>3, <1>4

LEMMA ScanningStep == ASSUME IInv, Scanning, UNCHANGED ipVars PROVE IInv'
<1> USE DEF Scanning, ScanStart, ScanRequest, ScanRefused, ScanComplete, ScanTimeout,
            ScanLateAbort, ScanReturns, Command, Goes, Mishap, monVars, linkVars, ipVars, IInv
<1>1. ScanWaits' BY DEF ScanWaits
<1>2. MutexStays' BY DEF MutexStays
<1>3. SettersFollowMode' BY DEF SettersFollowMode
<1>4. AddressFollowsMode' BY DEF AddressFollowsMode
<1> QED BY <1>1, <1>2, <1>3, <1>4

\* The mutex goes only when the filter does, between two callbacks.
LEMMA MonitoringStep == ASSUME IInv, Monitoring, UNCHANGED ipVars PROVE IInv'
<1> USE DEF Monitoring, MonitorEnable, MonitorLock, MonitorInstall, MonitorDisable, MonitorClear,
            Command, Goes, Survived, Mishap, MishapIf, scanVars, linkVars, ipVars, IInv
<1>1. ScanWaits' BY DEF ScanWaits
<1>2. MutexStays' BY DEF MutexStays
<1>3. SettersFollowMode' BY DEF SettersFollowMode
<1>4. AddressFollowsMode' BY DEF AddressFollowsMode
<1> QED BY <1>1, <1>2, <1>3, <1>4

LEMMA CallingStep == ASSUME IInv, Calling, UNCHANGED ipVars PROVE IInv'
<1> USE DEF Calling, Connects, LosesLink, ScanEnds, Beacon, BeaconLock, BeaconSend, LoopStep,
            Mishap, MishapIf, monVars, scanVars, ipVars, IInv
<1>1. ScanWaits' BY DEF ScanWaits
<1>2. MutexStays' BY DEF MutexStays
<1>3. SettersFollowMode' BY DEF SettersFollowMode
<1>4. AddressFollowsMode' BY DEF AddressFollowsMode
<1> QED BY <1>1, <1>2, <1>3, <1>4

-----------------------------------------------------------------------------
\* lwIP's thread, and what it shares with the others.

LEMMA LwipThreadStep == ASSUME IInv, LwipStep, UNCHANGED wlanVars PROVE IInv'
<1> USE DEF LwipStep, HandleLink, HandlePacket, Transmit, DhcpBinds, DhcpLoses, SetAddr,
            StatusCallback, Report, wlanVars, IInv
<1>1. ScanWaits' BY DEF ScanWaits
<1>2. MutexStays' BY DEF MutexStays
<1>3. SettersFollowMode' BY DEF SettersFollowMode
<1>4. AddressFollowsMode' BY DEF AddressFollowsMode, SettersFollowMode
<1> QED BY <1>1, <1>2, <1>3, <1>4

LEMMA ReloadStep ==
  ASSUME IInv, Reload \/ ReloadRefused \/ ReloadLocks \/ ReloadDone PROVE IInv'
<1> USE DEF Reload, ReloadRefused, ReloadLocks, ReloadDone, ReloadBegins, ReloadEnds, Refused,
            SetAddr, StatusCallback, Report, Command, Goes, monVars, scanVars, linkVars, ipVars, IInv
<1>1. ScanWaits' BY DEF ScanWaits
<1>2. MutexStays' BY DEF MutexStays
<1>3. SettersFollowMode' BY DEF SettersFollowMode
<1>4. AddressFollowsMode' BY DEF AddressFollowsMode, SettersFollowMode
<1> QED BY <1>1, <1>2, <1>3, <1>4

\* The driver's answer to lwIP's thread.
LEMMA OffloadStep == ASSUME IInv, OffloadEnabled \/ OffloadRefused PROVE IInv'
<1> USE DEF OffloadEnabled, OffloadRefused, OffloadReturns, wlanVars, IInv
<1>1. ScanWaits' BY DEF ScanWaits
<1>2. MutexStays' BY DEF MutexStays
<1>3. SettersFollowMode' BY DEF SettersFollowMode
<1>4. AddressFollowsMode' BY DEF AddressFollowsMode
<1> QED BY <1>1, <1>2, <1>3, <1>4

LEMMA LeaseStep == ASSUME IInv, Lease \/ LeaseTaken \/ LeaseAgain \/ LeaseDone PROVE IInv'
<1> USE DEF Lease, LeaseTaken, LeaseAgain, LeaseDone, LeaseBegins, LeaseSet, LeaseDecides, LeaseReports, LoopStep,
            MishapIf, monVars, scanVars, IInv
<1>1. ScanWaits' BY DEF ScanWaits
<1>2. MutexStays' BY DEF MutexStays
<1>3. SettersFollowMode' BY DEF SettersFollowMode
<1>4. AddressFollowsMode' BY DEF AddressFollowsMode, SettersFollowMode
<1> QED BY <1>1, <1>2, <1>3, <1>4

LEMMA RestStep ==
  ASSUME IInv, ShutdownAll \/ ReportLink \/ Receive \/ Transmitted \/ UNCHANGED vars
  PROVE  IInv'
<1> USE DEF ShutdownAll, Shutdown, ReportLink, Receive, Transmitted, LoopStep, Goes, MishapIf,
            monVars, scanVars, wlanVars, ipVars, vars, IInv
<1>1. ScanWaits' BY DEF ScanWaits
<1>2. MutexStays' BY DEF MutexStays
<1>3. SettersFollowMode' BY DEF SettersFollowMode
<1>4. AddressFollowsMode' BY DEF AddressFollowsMode
<1> QED BY <1>1, <1>2, <1>3, <1>4

LEMMA NetNext == ASSUME IInv, [Next]_vars PROVE IInv'
BY ConnectingStep, ScanningStep, MonitoringStep, CallingStep, LwipThreadStep, ReloadStep,
   OffloadStep, LeaseStep, RestStep
   DEF Next, WlanStep

-----------------------------------------------------------------------------
\* The inductive invariant of the Agent's network commands.
THEOREM NetInvariant == Spec => []IInv
<1>1. IInv /\ [Next]_vars => IInv' BY NetNext
<1> QED BY <1>1, NetInit, PTL DEF Spec

\* mmagic_core_wlan_scan returns only after the last callback that uses its
\* frame, unless it gives up after a second; the beacon handler finds its
\* mutex, whichever updates of the filter fail.
THEOREM NetContextAlive == Spec => []ContextAlive
<1>1. IInv => ContextAlive BY DEF IInv, ScanWaits, MutexStays, ContextAlive
<1> QED BY <1>1, NetInvariant, PTL

\* Whatever the order of mmipal_set_ip_config, lwIP's DHCP client and the
\* leases of the driver, nobody sets an address the mode does not allow.
THEOREM NetAddressFollowsMode == Spec => []AddressFollowsMode
<1>1. IInv => AddressFollowsMode BY DEF IInv
<1> QED BY <1>1, NetInvariant, PTL

=============================================================================
