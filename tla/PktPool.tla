------------------------------- MODULE PktPool -------------------------------
(***************************************************************************)
(* What a packet memory manager (src/framework/src/mmpktmem) promises the  *)
(* WLAN stack for one direction, whatever the way it keeps its memory:     *)
(* packets are granted up to a limit, every granted packet may be          *)
(* released once, and the transmit path is only paused at a moment when    *)
(* some packet is out, so that its release can resume it.                  *)
(***************************************************************************)
EXTENDS Naturals

CONSTANT Limit      \* MMPKTMEM_TX_POOL_N_BLOCKS

VARIABLES out,      \* granted packets not yet released
          paused    \* MMWLAN_TX_PAUSED or MMWLAN_TX_READY, as a Boolean

poolVars == <<out, paused>>

PoolInit == out = 0 /\ paused = FALSE

Grant == out < Limit /\ out' = out + 1 /\ UNCHANGED paused

\* A release may resume the path in the same step.
Release == out > 0 /\ out' = out - 1 /\ paused' \in {paused, FALSE}

Pause == out > 0 /\ paused' = TRUE /\ UNCHANGED out

Resume == paused' = FALSE /\ UNCHANGED out

PoolNext == Grant \/ Release \/ Pause \/ Resume

PoolSpec == PoolInit /\ [][PoolNext]_poolVars
=============================================================================
