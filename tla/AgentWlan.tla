------------------------------ MODULE AgentWlan ------------------------------
(***************************************************************************)
(* The WLAN commands of the Agent (mmagic_core_wlan.c): connect,           *)
(* disconnect, scan and the beacon monitor, against the event loop of the  *)
(* WLAN driver, which calls back into the Agent.                           *)
(*                                                                         *)
(* One task carries the commands out: they all come by the control stream. *)
(* The driver is known by its header: a call of its API is served between  *)
(* two callbacks, when the loop is idle ("This will block until the filter *)
(* has been installed", mmwlan.h:1731).                                    *)
(*                                                                         *)
(* The code does not survive everything that may happen.  Each such event  *)
(* is a mishap: it is part of the behaviour and remembered, and each       *)
(* property names the mishaps it does not survive.                         *)
(***************************************************************************)
EXTENDS Naturals, FiniteSets

CONSTANTS
  MaxCommands,  \* bound: commands carried out
  MaxLosses,    \* bound: connections lost to the access point
  MaxMishaps    \* bound: mishaps of one behaviour

ASSUME WlanAssumption == {MaxCommands, MaxLosses, MaxMishaps} \subseteq Nat

VARIABLES
  step,       \* where the command of the task stands
  timed,      \* connect: cmd_args->timeout is not 0
  sta,        \* mmwlan_get_sta_state()
  staSem,     \* sta_status has been given
  scan,       \* scan in the driver
  scanSem,    \* scan_complete_semb of the running command
  monCore,    \* mmagic_beacon_monitor_data.core # NULL
  monMutex,   \* mmagic_beacon_monitor_data.mutex: its holder
  installed,  \* the driver has the filter
  loop,       \* what the event loop does
  news,       \* link state it reports
  mishaps,    \* history
  commands, losses

wlanVars == <<step, timed, sta, staSem, scan, scanSem, monCore, monMutex, installed,
              loop, news, mishaps, commands, losses>>

\* The task's commands leave these to the loop, and the loop those to the task.
monVars  == <<monCore, monMutex, installed>>
scanVars == <<scan, scanSem>>
linkVars == <<sta, staSem, loop, news, losses>>

WlanInit ==
  /\ step = "idle" /\ timed = FALSE
  /\ sta = "off" /\ staSem = FALSE
  /\ scan = "none" /\ scanSem = "none"
  /\ monCore = FALSE /\ monMutex = "none" /\ installed = FALSE
  /\ loop = "idle" /\ news = "down"
  /\ mishaps = {} /\ commands = 0 /\ losses = 0

Survived == UNCHANGED mishaps

\* What may go wrong at any time is bounded; what must go wrong is not.
Mishap(m) ==
  /\ Cardinality(mishaps) < MaxMishaps
  /\ mishaps' = mishaps \cup {m}

MishapIf(m, bad) == mishaps' = IF bad THEN mishaps \cup {m} ELSE mishaps

Command(next) ==
  /\ step = "idle" /\ commands < MaxCommands
  /\ commands' = commands + 1 /\ step' = next

Goes(from, to) == step = from /\ step' = to /\ UNCHANGED commands

-----------------------------------------------------------------------------
\* mmagic_core_wlan_connect.

ConnectStart ==
  /\ Command("reconfigure") /\ timed' \in BOOLEAN
  /\ UNCHANGED <<monVars, scanVars, linkVars, mishaps>>

\* mmwlan_shutdown: of a connection, the loop reports the end.  "reconfigure"
\* is the first call of a connect, "disconnect" the command, or the end of a
\* connect that timed out.
Shutdown ==
  /\ loop = "idle"
  /\ \/ Goes("reconfigure", "enable")
     \/ Goes("disconnect", "idle")
  /\ sta' = "off"
  /\ loop' = IF sta = "connected" THEN "link" ELSE "idle"
  /\ news' = IF sta = "connected" THEN "down" ELSE news
  /\ UNCHANGED <<timed, staSem, monVars, scanVars, losses, mishaps>>

\* mmwlan_sta_enable; with a timeout the task waits.
StaEnable ==
  /\ loop = "idle" /\ Goes("enable", IF timed THEN "connecting" ELSE "idle")
  /\ sta' = "connecting"
  /\ UNCHANGED <<timed, staSem, monVars, scanVars, loop, news, losses, mishaps>>

\* A parameter is bad or the driver refuses: the WLAN stays shut down.
ConnectFails ==
  /\ Goes("enable", "idle")
  /\ UNCHANGED <<timed, monVars, scanVars, linkVars, mishaps>>

\* mmosal_semb_wait(sta_status): given, maybe by an earlier connection, or the
\* time is over; nobody looks which.
ConnectWaited ==
  /\ Goes("connecting", "check") /\ staSem' = FALSE
  /\ UNCHANGED <<timed, monVars, scanVars, sta, loop, news, losses, mishaps>>

ConnectChecked ==
  /\ Goes("check", IF sta = "connected" THEN "idle" ELSE "disconnect")
  /\ UNCHANGED <<timed, monVars, scanVars, linkVars, mishaps>>

\* mmagic_core_wlan_disconnect.
Disconnect ==
  /\ Command("disconnect")
  /\ UNCHANGED <<timed, monVars, scanVars, linkVars, mishaps>>

-----------------------------------------------------------------------------
\* mmagic_core_wlan_scan: the semaphore and the results are the command's.

ScanStart ==
  /\ Command("scan request") /\ scanSem' = "empty"
  /\ UNCHANGED <<timed, monVars, scan, linkVars, mishaps>>

ScanRequest ==
  /\ loop = "idle" /\ Goes("scan request", "scan")
  /\ scan' = "running"
  /\ UNCHANGED <<timed, monVars, scanSem, linkVars, mishaps>>

\* The command returns: mmosal_semb_delete.
ScanReturns == step' = "idle" /\ scanSem' = "none" /\ UNCHANGED commands

ScanRefused ==
  /\ step = "scan request" /\ ScanReturns
  /\ UNCHANGED <<timed, monVars, scan, linkVars, mishaps>>

ScanComplete ==
  /\ step \in {"scan", "aborted"} /\ scanSem = "given" /\ ScanReturns
  /\ UNCHANGED <<timed, monVars, scan, linkVars, mishaps>>

\* Mutant: the scan is aborted, and its end not waited for.
ScanTimeoutNoWait ==
  /\ loop = "idle" /\ step = "scan" /\ ScanReturns
  /\ scan' = IF scan = "running" THEN "aborted" ELSE scan
  /\ UNCHANGED <<timed, monVars, linkVars, mishaps>>

\* mmwlan_scan_abort.
ScanTimeout ==
  /\ loop = "idle" /\ Goes("scan", "aborted")
  /\ scan' = IF scan = "running" THEN "aborted" ELSE scan
  /\ UNCHANGED <<timed, monVars, scanSem, linkVars, mishaps>>

\* "Wait to be notified by scan complete callback": for a second.
ScanLateAbort ==
  /\ step = "aborted" /\ scanSem = "empty" /\ ScanReturns
  /\ Mishap("late abort")
  /\ UNCHANGED <<timed, monVars, scan, linkVars>>

-----------------------------------------------------------------------------
\* mmagic_core_wlan_beacon_monitor_enable and _disable.

\* A mutex is created whenever the monitor was disabled.
MonitorEnable ==
  /\ Command("monitor")
  /\ MishapIf("enable again", installed)
  /\ monCore' = TRUE /\ monMutex' = IF monCore THEN monMutex ELSE "free"
  /\ UNCHANGED <<timed, scanVars, linkVars, installed>>

MonitorLock ==
  /\ Goes("monitor", "install") /\ monMutex = "free"
  /\ monMutex' = "task"
  /\ UNCHANGED <<timed, scanVars, linkVars, monCore, installed, mishaps>>

\* mmwlan_update_beacon_vendor_ie_filter; its failure returns with the mutex.
MonitorInstall ==
  /\ loop = "idle" /\ Goes("install", "idle")
  /\ \/ installed' = TRUE /\ monMutex' = "free" /\ Survived
     \/ Mishap("update failed") /\ UNCHANGED <<installed, monMutex>>
  /\ UNCHANGED <<timed, scanVars, linkVars, monCore>>

MonitorDisable ==
  /\ Command(IF monCore THEN "clear" ELSE "idle")
  /\ monCore' = FALSE
  /\ UNCHANGED <<timed, scanVars, linkVars, monMutex, installed, mishaps>>

MonitorClear ==
  /\ loop = "idle" /\ Goes("clear", "idle")
  /\ \/ installed' = FALSE /\ monMutex' = "none" /\ Survived
     \/ Mishap("update failed") /\ UNCHANGED <<installed, monMutex>>
  /\ UNCHANGED <<timed, scanVars, linkVars, monCore>>

-----------------------------------------------------------------------------
\* The event loop and its callbacks.

LoopStep(from, to) ==
  /\ loop = from /\ loop' = to
  /\ UNCHANGED <<step, timed, commands>>

\* mmagic_core_wlan_shim_sta_status_cb, MMWLAN_STA_CONNECTED.
Connects ==
  /\ LoopStep("idle", "link") /\ sta = "connecting"
  /\ sta' = "connected" /\ staSem' = TRUE /\ news' = "up"
  /\ UNCHANGED <<monVars, scanVars, losses, mishaps>>

LosesLink ==
  /\ LoopStep("idle", "link") /\ sta = "connected"
  /\ losses < MaxLosses /\ losses' = losses + 1
  /\ sta' = "connecting" /\ news' = "down"
  /\ UNCHANGED <<staSem, monVars, scanVars, mishaps>>

\* mmagic_core_wlan_scan_complete_callback.
ScanEnds ==
  /\ LoopStep("idle", "idle") /\ scan # "none"
  /\ scan' = "none"
  /\ scanSem' = IF scanSem = "none" THEN "none" ELSE "given"
  /\ UNCHANGED <<monVars, sta, staSem, news, losses, mishaps>>

\* mmagic_vendor_ie_filter_handler: enabled, as far as it can see.
Beacon ==
  /\ LoopStep("idle", "beacon") /\ installed /\ monCore
  /\ UNCHANGED <<monVars, scanVars, sta, staSem, news, losses, mishaps>>

BeaconLock ==
  /\ LoopStep("beacon", "event") /\ monMutex = "free"
  /\ monMutex' = "loop"
  /\ UNCHANGED <<monCore, installed, scanVars, sta, staSem, news, losses, mishaps>>

\* Too many elements for the buffer, and the handler returns with the mutex.
\* The event is sent with data->core, which a disable may have cleared: the
\* program faults.
BeaconSend ==
  /\ \/ /\ LoopStep("event", IF monCore THEN "idle" ELSE "halted")
        /\ monMutex' = (IF monCore THEN "free" ELSE monMutex)
        /\ MishapIf("no core", ~monCore)
     \/ LoopStep("event", "idle") /\ Mishap("overflow") /\ UNCHANGED monMutex
  /\ UNCHANGED <<monCore, installed, scanVars, sta, staSem, news, losses>>

-----------------------------------------------------------------------------
Connecting == ConnectStart \/ StaEnable \/ ConnectFails \/ ConnectWaited \/ ConnectChecked \/ Disconnect

Scanning == ScanStart \/ ScanRequest \/ ScanRefused \/ ScanComplete \/ ScanTimeout \/ ScanLateAbort

Monitoring == MonitorEnable \/ MonitorLock \/ MonitorInstall \/ MonitorDisable \/ MonitorClear

Calling == Connects \/ LosesLink \/ ScanEnds \/ Beacon \/ BeaconLock \/ BeaconSend

\* The Shutdown ends the offloads too: see AgentNet.
WlanStep == Connecting \/ Scanning \/ Monitoring \/ Calling

WlanTypeOK ==
  /\ step \in {"idle", "reconfigure", "enable", "connecting", "check", "disconnect",
               "scan request", "scan", "aborted", "monitor", "install", "clear",
               "reload", "reloading"}
  /\ timed \in BOOLEAN /\ sta \in {"off", "connecting", "connected"} /\ staSem \in BOOLEAN
  /\ scan \in {"none", "running", "aborted"} /\ scanSem \in {"none", "empty", "given"}
  /\ monCore \in BOOLEAN /\ monMutex \in {"none", "free", "task", "loop"}
  /\ installed \in BOOLEAN
  /\ loop \in {"idle", "link", "beacon", "event", "lease", "leased", "lease report", "halted"}
  /\ news \in {"up", "down"}
  /\ mishaps \subseteq {"late abort", "enable again", "update failed", "no core", "overflow",
                        "stale report", "flood"}
  /\ commands \in 0..MaxCommands /\ losses \in 0..MaxLosses
=============================================================================
