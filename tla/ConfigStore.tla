---------------------------- MODULE ConfigStore -----------------------------
(***************************************************************************)
(* What the persistent store promises its callers: an update, whatever the *)
(* number of its keys, happens at one moment of its call or not at all,    *)
(* also when the power fails, and nothing else changes the store.          *)
(***************************************************************************)
EXTENDS Naturals, Sequences

CONSTANTS
  Tasks, Keys, Values,
  Absent,     \* a key that is not stored; in an update: delete it
  Updates     \* the updates that are asked for: sequences of keys with values

VARIABLES
  store,      \* value of each key
  want        \* update each task has asked for and which is still to happen
storeVars == <<store, want>>

Asked(u, k) == {i \in 1..Len(u) : u[i].key = k}

\* The store after update u. A key is in an update once at most.
Apply(u, s) ==
  [k \in Keys |-> IF Asked(u, k) = {} THEN s[k]
                  ELSE u[CHOOSE i \in Asked(u, k) : TRUE].val]

StoreInit ==
  /\ store \in [Keys -> Values \cup {Absent}]
  /\ want = [t \in Tasks |-> <<>>]

Ask(t, u) ==
  /\ want[t] = <<>> /\ want' = [want EXCEPT ![t] = u]
  /\ UNCHANGED store

Happen(t) ==
  /\ want[t] # <<>>
  /\ store' = Apply(want[t], store) /\ want' = [want EXCEPT ![t] = <<>>]

\* Calls fail, or have nothing to do.
Drop(S) ==
  /\ want' = [t \in Tasks |-> IF t \in S THEN <<>> ELSE want[t]]
  /\ UNCHANGED store

StoreNext ==
  \/ \E t \in Tasks : Happen(t) \/ \E u \in Updates : Ask(t, u)
  \/ \E S \in SUBSET Tasks : Drop(S)

StoreSpec == StoreInit /\ [][StoreNext]_storeVars
=============================================================================
