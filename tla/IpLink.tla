-------------------------------- MODULE IpLink --------------------------------
(***************************************************************************)
(* From the driver's link to the link the Agent reports: the lwIP network  *)
(* interface (mmnetif.c), mmipal on lwIP (mmipal_lwip.c) and the IP        *)
(* commands of the Agent (mmagic_core_ip.c).                               *)
(*                                                                         *)
(* Link changes are posted to lwIP's thread, which carries them out later. *)
(* Addresses are told apart by who gave them.  The thread holds the core   *)
(* lock while it works, and may wait with it: in mmnetif_tx, for a second, *)
(* and in offload mode for the driver, until that enables the offload.     *)
(***************************************************************************)
EXTENDS Naturals, Sequences

CONSTANTS
  Modes,     \* MMIPAL_STATIC, _DHCP, _DHCP_OFFLOAD that may be configured at the start
  MboxSize   \* TCPIP_MBOX_SIZE

ASSUME LinkAssumption ==
  /\ Modes \subseteq {"static", "dhcp", "offload"} /\ MboxSize \in Nat \ {0}

VARIABLES
  core,      \* who waits with LOCK_TCPIP_CORE: lwIP's thread or the task to
             \* transmit, lwIP's thread for mmwlan_enable_dhcp_offload ("offload")
  mbox,      \* messages to lwIP's thread
  linkUp,    \* netif_is_link_up
  addr,      \* netif->ip_addr
  mode,      \* ip4_mode
  client,    \* the DHCP client of lwIP runs
  inited,    \* dhcp_offload_init_complete
  offload,   \* DHCP offload is enabled in the driver
  wanted,    \* configuration of the reload in progress
  ipState,   \* ip_link_state
  reported,  \* current_link_state of mmagic_core_ip.c
  decided    \* new_link_state of the status callback in the event loop

ipVars == <<core, mbox, linkUp, addr, mode, client, inited, offload, wanted, ipState,
            reported, decided>>

LinkInit ==
  /\ core = "free" /\ mbox = <<>> /\ linkUp = FALSE
  /\ mode \in Modes /\ addr = (IF mode = "static" THEN "static" ELSE "none")
  /\ client = (mode = "dhcp") /\ inited = FALSE /\ offload = FALSE /\ wanted = "none"
  /\ ipState = "down" /\ reported = "down" /\ decided = "down"

\* mmipal_link_status_check.
StateOf(up, a) == IF up /\ a # "none" THEN "up" ELSE "down"

\* Mutant: the link alone decides.
ReportNoAddress(up, a) ==
  IF mode = "offload" /\ ~inited
    THEN UNCHANGED <<ipState, reported>>
    ELSE /\ ipState' = IF up THEN "up" ELSE "down"
         /\ reported' = IF ipState # ipState' THEN ipState' ELSE reported

\* The end of netif_status_callback, with the values it finds.  The callback of
\* the Agent is called for a change only, and stores what it is told.
Report(up, a) ==
  IF mode = "offload" /\ ~inited
    THEN UNCHANGED <<ipState, reported>>
    ELSE /\ ipState' = StateOf(up, a)
         /\ reported' = IF ipState # ipState' THEN ipState' ELSE reported

\* netif_status_callback in lwIP's thread or a task, with the core lock: in
\* offload mode it calls the driver first, and goes on in OffloadReturns.
StatusCallback(up, a) ==
  IF mode = "offload"
    THEN core' = "offload" /\ UNCHANGED <<ipState, reported>>
    ELSE core' = "free" /\ Report(up, a)

\* netif_set_addr: lwIP calls back when the address changes.
SetAddr(a) ==
  /\ addr' = a
  /\ IF addr # a THEN StatusCallback(linkUp, a) ELSE core' = "free" /\ UNCHANGED <<ipState, reported>>

-----------------------------------------------------------------------------
\* lwIP's thread.

\* mmnetif_link_state and mmnetif_rx post without waiting for room.
Room == Len(mbox) < MboxSize

\* netif_set_link_up, netif_set_link_down: only a change is reported.
HandleLink ==
  /\ core = "free" /\ mbox # <<>> /\ Head(mbox) # "packet"
  /\ mbox' = Tail(mbox) /\ linkUp' = (Head(mbox) = "up")
  /\ IF linkUp' # linkUp THEN StatusCallback(linkUp', addr)
     ELSE UNCHANGED <<core, ipState, reported>>
  /\ UNCHANGED <<addr, mode, client, inited, offload, wanted, decided>>

\* mmwlan_enable_dhcp_offload comes back to lwIP's thread, enabled or not: a
\* failure is only printed.
OffloadReturns(enabled) ==
  /\ core = "offload" /\ core' = "free"
  /\ offload' = (offload \/ enabled)
  /\ Report(linkUp, addr)
  /\ UNCHANGED <<mbox, linkUp, addr, mode, client, inited, wanted, decided>>

HandlePacket ==
  /\ core = "free" /\ mbox # <<>> /\ Head(mbox) = "packet"
  /\ mbox' = Tail(mbox)
  /\ UNCHANGED <<core, linkUp, addr, mode, client, inited, offload, wanted, ipState,
                 reported, decided>>

\* mmnetif_tx: mmwlan_tx_wait_until_ready(1000).
Transmit ==
  /\ core = "free" /\ linkUp /\ core' = "lwip"
  /\ UNCHANGED <<mbox, linkUp, addr, mode, client, inited, offload, wanted, ipState,
                 reported, decided>>

\* The DHCP client binds an address, or has to give it back.
DhcpBinds ==
  /\ core = "free" /\ client /\ linkUp /\ addr # "dhcp"
  /\ SetAddr("dhcp")
  /\ UNCHANGED <<mbox, linkUp, mode, client, inited, offload, wanted, decided>>

DhcpLoses ==
  /\ core = "free" /\ client /\ addr = "dhcp"
  /\ SetAddr("none")
  /\ UNCHANGED <<mbox, linkUp, mode, client, inited, offload, wanted, decided>>

-----------------------------------------------------------------------------
\* mmagic_core_ip_reload, mmipal_set_ip_config: a configuration that is
\* refused is not told from one that is set.
Refused(w) == w \in {"offload", "bad address"} \/ mode = "offload"

ReloadBegins(w) ==
  /\ ~Refused(w) /\ core = "free"
  /\ core' = "task" /\ wanted' = w
  /\ UNCHANGED <<mbox, linkUp, addr, mode, client, inited, offload, ipState, reported, decided>>

\* Mutant: the DHCP client is not stopped.
ReloadKeepsClient ==
  /\ wanted' = "none" /\ mode' = wanted /\ client' = (client \/ wanted = "dhcp")
  /\ SetAddr(IF wanted = "static" THEN "static" ELSE "none")
  /\ UNCHANGED <<mbox, linkUp, inited, offload, decided>>

\* dhcp_stop, which releases the address; netif_set_addr, with no address for
\* DHCP; dhcp_start.
ReloadEnds ==
  /\ wanted' = "none" /\ mode' = wanted /\ client' = (wanted = "dhcp")
  /\ SetAddr(IF wanted = "static" THEN "static" ELSE "none")
  /\ UNCHANGED <<mbox, linkUp, inited, offload, decided>>

-----------------------------------------------------------------------------
\* mmipal_dhcp_lease_updated, called by the event loop: the address under the
\* lock, for which it waits, and then the status callback once more without it,
\* in two steps.  Both callbacks call mmwlan_enable_dhcp_offload from within the
\* loop, where the offload is enabled already.
LeaseBegins ==
  /\ inited' = TRUE
  /\ UNCHANGED <<core, mbox, linkUp, addr, mode, client, offload, wanted, ipState, reported, decided>>

LeaseSet ==
  /\ core = "free" /\ addr' = "lease"
  /\ IF addr # "lease" THEN Report(linkUp, "lease") ELSE UNCHANGED <<ipState, reported>>
  /\ UNCHANGED <<core, mbox, linkUp, mode, client, inited, offload, wanted, decided>>

LeaseDecides ==
  /\ decided' = StateOf(linkUp, addr)
  /\ UNCHANGED <<core, mbox, linkUp, addr, mode, client, inited, offload, wanted, ipState, reported>>

LeaseReports ==
  /\ ipState' = decided
  /\ reported' = IF ipState # decided THEN decided ELSE reported
  /\ UNCHANGED <<core, mbox, linkUp, addr, mode, client, inited, offload, wanted, decided>>

LwipStep == HandleLink \/ HandlePacket \/ Transmit \/ DhcpBinds \/ DhcpLoses

\* A static address stays the one configured, and without DHCP nobody else sets one.
AddressFollowsMode ==
  CASE mode = "static"  -> addr = "static"
    [] mode = "dhcp"    -> addr \in {"none", "dhcp"}
    [] mode = "offload" -> addr \in {"none", "lease"}

LinkTypeOK ==
  /\ core \in {"free", "lwip", "task", "offload"} /\ mbox \in Seq({"up", "down", "packet"}) /\ Len(mbox) <= MboxSize
  /\ {linkUp, client, inited, offload} \subseteq BOOLEAN
  /\ addr \in {"none", "static", "dhcp", "lease"} /\ mode \in {"static", "dhcp", "offload"}
  /\ wanted \in {"none", "static", "dhcp"} /\ {ipState, reported, decided} \subseteq {"up", "down"}
=============================================================================
