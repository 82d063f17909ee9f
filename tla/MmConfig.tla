----------------------------- MODULE MmConfig -------------------------------
(***************************************************************************)
(* The persistent configuration store (mmconfig.c). The flash holds two    *)
(* images, each a header with a version and a checksum and a list of keys  *)
(* with values. An update erases the image that is not current, writes the *)
(* new list there in chunks of 128 bytes, checks it, and only then makes   *)
(* it the current one. The power may fail at any step, and tasks call at   *)
(* the same time; a mutex, made by the first call, keeps them apart.       *)
(*                                                                         *)
(* The checksum stands for the list it was computed over, and keys and     *)
(* values are of one size, so that a position in an image is an address.   *)
(* Nothing in the repository calls mmconfig_eraseall but mmconfig_init.    *)
(***************************************************************************)
EXTENDS Naturals, Sequences

CONSTANTS
  Tasks, Keys, Values,
  Absent,      \* NULL data: delete the key
  Lists,       \* what the application writes: sequences of keys with values
  Capacity,    \* entries an image has room for
  MaxWrites, MaxCrashes, MaxFaults,   \* bounds: calls that write, power failures, bad writes
  InitFirst,   \* does the first call return before other tasks call?
  None

Entry == [key : Keys, val : Values \cup {Absent}]

ASSUME ConfigAssumption ==
  /\ Lists \subseteq Seq(Entry) \ {<<>>}
  /\ {Capacity, MaxWrites, MaxCrashes, MaxFaults} \subseteq Nat
  /\ InitFirst \in BOOLEAN
  /\ Absent \notin Values
  /\ "free" \notin Tasks /\ None \notin Tasks /\ None # "free" /\ None \notin {0, 1}

VARIABLES
  flash,      \* the two images
  primary,    \* which of them mmconfig_primary_image points to, or None
  mutex,      \* None before it is made, "free", or the task that has it
  pc, op,     \* step and operation of each task's call
  place,      \* address of the value that a write compares with
  ret,        \* result of each task's last call
  seen,       \* history: was the store at some moment of the call as it asked?
  writes, crashes, faults

memVars == <<primary, mutex>>
counters == <<writes, crashes, faults>>
vars == <<flash, memVars, pc, op, place, ret, seen, counters>>

Images == {0, 1}
Secondary == 1 - primary

\* An image: is the signature there, the header's fields, and the entries; bad
\* if something was not stored as it was written.
Image(version, sum, data) ==
  [sig |-> TRUE, version |-> version, sum |-> sum, data |-> data, bad |-> FALSE]
Erased == [sig |-> FALSE, version |-> 0, sum |-> <<>>, data |-> <<>>, bad |-> FALSE]

Valid(i) == flash[i].sig /\ ~flash[i].bad /\ flash[i].data = flash[i].sum

\* The image mmconfig_init takes: the newer of two valid ones, the first if
\* the versions are equal.
Best ==
  IF Valid(0) /\ Valid(1) THEN IF flash[1].version > flash[0].version THEN 1 ELSE 0
  ELSE IF Valid(0) THEN 0 ELSE IF Valid(1) THEN 1 ELSE None

Found(data, k) == {n \in 1..Len(data) : data[n].key = k}
First(S) == CHOOSE n \in S : \A m \in S : n <= m
Lookup(data, k) == IF Found(data, k) = {} THEN Absent ELSE data[First(Found(data, k))].val

\* What a caller would find after a restart.
Store == [k \in Keys |-> IF Best = None THEN Absent ELSE Lookup(flash[Best].data, k)]

\* Lists that are a valid image's, as a host may have programmed one.
Factory == {l \in Lists : Len(l) <= Capacity /\ \A n \in 1..Len(l) : l[n].val # Absent}

Op == [kind : {"read"}, list : {<<e>> : e \in [key : Keys, val : {Absent}]}]
      \cup [kind : {"write"}, list : {l \in Lists : Len(l) = 1}]
      \cup [kind : {"list"}, list : Lists]

Init ==
  /\ \E first \in {Image(1, l, l) : l \in Factory} \cup {Erased, Image(0, <<>>, <<>>)},
        second \in {Erased, Image(0, <<>>, <<>>)} :
       flash = [i \in Images |-> IF i = 0 THEN first ELSE second]
  /\ primary = None /\ mutex = None
  /\ pc = [t \in Tasks |-> "idle"] /\ op = [t \in Tasks |-> None]
  /\ place = [t \in Tasks |-> None] /\ ret = [t \in Tasks |-> "none"]
  /\ seen = [t \in Tasks |-> FALSE]
  /\ writes = 0 /\ crashes = 0 /\ faults = 0

Goto(t, step) == pc' = [pc EXCEPT ![t] = step]

Return(t, r) == Goto(t, "idle") /\ ret' = [ret EXCEPT ![t] = r]

Satisfied(list, s) == \A n \in 1..Len(list) : s[list[n].key] = list[n].val

Initialising == {"create", "pick", "lockerase", "erase1", "erase2", "head1", "head2"}

-----------------------------------------------------------------------------
\* Any function of the API is called.
Call(t, o) ==
  /\ pc[t] = "idle"
  /\ InitFirst => /\ \A u \in Tasks : pc[u] \notin Initialising
                  /\ primary = None => \A u \in Tasks : pc[u] = "idle"
  /\ o.kind # "read" => writes < MaxWrites
  /\ writes' = IF o.kind = "read" THEN writes ELSE writes + 1
  /\ Goto(t, "init") /\ op' = [op EXCEPT ![t] = o]
  /\ ret' = [ret EXCEPT ![t] = "none"]
  /\ seen' = [seen EXCEPT ![t] = o.kind # "read" /\ Satisfied(o.list, Store)]
  /\ UNCHANGED <<flash, memVars, place, crashes, faults>>

\* mmconfig_init: the test, the mutex, and then the images
CheckInit(t) ==
  /\ pc[t] = "init"
  /\ Goto(t, IF mutex = None THEN "create" ELSE "enter")
  /\ UNCHANGED <<flash, memVars, op, place, ret, seen, counters>>

CreateMutex(t) ==
  /\ pc[t] = "create" /\ mutex' = "free" /\ Goto(t, "pick")
  /\ UNCHANGED <<flash, primary, op, place, ret, seen, counters>>

\* Mutant: the second image is not looked at if the first is corrupt.
PickFirstOnly(t) ==
  /\ pc[t] = "pick"
  /\ primary' = IF Valid(0) THEN Best ELSE 0
  /\ Goto(t, IF Valid(0) THEN "enter" ELSE "lockerase")
  /\ UNCHANGED <<flash, mutex, op, place, ret, seen, counters>>

PickImages(t) ==
  /\ pc[t] = "pick"
  /\ primary' = IF Best = None THEN 0 ELSE Best
  /\ Goto(t, IF Best = None THEN "lockerase" ELSE "enter")
  /\ UNCHANGED <<flash, mutex, op, place, ret, seen, counters>>

\* mmconfig_eraseall, when init finds no valid image
LockErase(t) ==
  /\ pc[t] = "lockerase" /\ mutex = "free" /\ mutex' = t /\ Goto(t, "erase1")
  /\ UNCHANGED <<flash, primary, op, place, ret, seen, counters>>

EraseStep(t, from, i, image, to) ==
  /\ pc[t] = from /\ Goto(t, to)
  /\ flash' = [flash EXCEPT ![i] = image]
  /\ mutex' = IF to = "enter" THEN "free" ELSE mutex
  /\ UNCHANGED <<primary, op, place, ret, seen, counters>>

EraseAll(t) ==
  \/ EraseStep(t, "erase1", primary, Erased, "erase2")
  \/ EraseStep(t, "erase2", Secondary, Erased, "head1")
  \/ EraseStep(t, "head1", primary, Image(0, <<>>, <<>>), "head2")
  \/ EraseStep(t, "head2", Secondary, Image(0, <<>>, <<>>), "enter")

-----------------------------------------------------------------------------
\* The functions that read do so under the mutex and change nothing.
Read(t) ==
  /\ pc[t] = "enter" /\ op[t].kind = "read" /\ mutex = "free"
  /\ LET k == op[t].list[1].key
     IN seen' = [seen EXCEPT ![t] = Lookup(flash[primary].data, k) = Store[k]]
  /\ Return(t, "ok")
  /\ UNCHANGED <<flash, memVars, op, place, counters>>

\* mmconfig_write_data looks the key up under the mutex ...
Look(t) ==
  /\ pc[t] = "enter" /\ op[t].kind = "write" /\ mutex = "free"
  /\ LET e == op[t].list[1]
         S == Found(flash[primary].data, e.key)
     IN IF S # {} /\ e.val # Absent
        THEN /\ place' = [place EXCEPT ![t] = <<primary, First(S)>>]
             /\ Goto(t, "compare")
        ELSE Goto(t, "lock") /\ UNCHANGED place
  /\ UNCHANGED <<flash, memVars, op, ret, seen, counters>>

ValueAt(p) ==
  IF p[2] \in 1..Len(flash[p[1]].data) THEN flash[p[1]].data[p[2]].val ELSE None

\* ... and compares the value after it released the mutex.
Compare(t) ==
  /\ pc[t] = "compare"
  /\ place' = [place EXCEPT ![t] = None]
  /\ IF ValueAt(place[t]) = op[t].list[1].val
     THEN Return(t, "ok")
     ELSE Goto(t, "lock") /\ UNCHANGED ret
  /\ UNCHANGED <<flash, memVars, op, seen, counters>>

-----------------------------------------------------------------------------
\* mmconfig_write_update_node_list

\* The entries that are in S, in their order.
Select(data, S) ==
  LET sel[n \in 0..Len(data)] ==
        IF n = 0 THEN <<>>
        ELSE IF data[n] \in S THEN Append(sel[n - 1], data[n]) ELSE sel[n - 1]
  IN sel[Len(data)]

Kept(list) == {e \in Entry : \A n \in 1..Len(list) : list[n].key # e.key}
New == {e \in Entry : e.val # Absent}

\* Mutant: the loop over the nodes ends after the first.
NewDataFirst(list) ==
  Select(flash[primary].data, Kept(list)) \o Select(SubSeq(list, 1, 1), New)

\* What is kept of the primary image, with what is new after it.
NewData(list) == Select(flash[primary].data, Kept(list)) \o Select(list, New)

\* It takes the mutex and computes the checksum and the space needed.
Lock(t) ==
  /\ \/ pc[t] = "lock"
     \/ pc[t] = "enter" /\ op[t].kind = "list"
  /\ mutex = "free"
  /\ IF Len(NewData(op[t].list)) > Capacity
     THEN Return(t, "full") /\ UNCHANGED mutex
     ELSE mutex' = t /\ Goto(t, "erase") /\ UNCHANGED ret
  /\ UNCHANGED <<flash, primary, op, place, seen, counters>>

EraseSecondary(t) ==
  /\ pc[t] = "erase" /\ Goto(t, "chunk")
  /\ flash' = [flash EXCEPT ![Secondary] = Erased]
  /\ UNCHANGED <<memVars, op, place, ret, seen, counters>>

\* The staging buffer is written out, n entries of the new image so far; bad if
\* one of its chunks was not stored as it was written.
Staged(new, n, bad) ==
  [Image(flash[primary].version + 1, new, SubSeq(new, 1, n)) EXCEPT !.bad = bad]

\* The header goes with the first chunk, and some entries with every one.
WriteChunk(t) ==
  LET old == flash[Secondary]
      new == NewData(op[t].list)
  IN /\ pc[t] = "chunk"
     /\ \E n \in Len(old.data)..Len(new), bad \in BOOLEAN :
          /\ old.sig => n > Len(old.data)
          /\ bad => faults < MaxFaults
          /\ faults' = IF bad THEN faults + 1 ELSE faults
          /\ flash' = [flash EXCEPT ![Secondary] = Staged(new, n, old.bad \/ bad)]
          /\ Goto(t, IF n = Len(new) THEN "verify" ELSE "chunk")
     /\ seen' = [u \in Tasks |-> seen[u] \/
                   (pc[u] # "idle" /\ op[u].kind # "read" /\ Satisfied(op[u].list, Store'))]
  /\ UNCHANGED <<memVars, op, place, ret, writes, crashes>>

\* Mutant: the image is made the current one unseen.
VerifyAlways(t) ==
  /\ pc[t] = "verify"
  /\ primary' = Secondary
  /\ mutex' = "free" /\ Return(t, "ok")
  /\ UNCHANGED <<flash, op, place, seen, counters>>

\* The image is made the current one if it is valid; the result is OK anyway.
Verify(t) ==
  /\ pc[t] = "verify"
  /\ primary' = IF Valid(Secondary) THEN Secondary ELSE primary
  /\ mutex' = "free" /\ Return(t, "ok")
  /\ UNCHANGED <<flash, op, place, seen, counters>>

\* The power fails: the flash stays as it is.
Crash ==
  /\ crashes < MaxCrashes /\ crashes' = crashes + 1
  /\ primary' = None /\ mutex' = None
  /\ pc' = [t \in Tasks |-> "idle"] /\ op' = [t \in Tasks |-> None]
  /\ place' = [t \in Tasks |-> None] /\ ret' = [t \in Tasks |-> "none"]
  /\ seen' = [t \in Tasks |-> FALSE]
  /\ UNCHANGED <<flash, writes, faults>>

-----------------------------------------------------------------------------
Next ==
  \/ \E t \in Tasks : \/ \E o \in Op : Call(t, o)
                      \/ CheckInit(t) \/ CreateMutex(t) \/ PickImages(t)
                      \/ LockErase(t) \/ EraseAll(t)
                      \/ Read(t) \/ Look(t) \/ Compare(t)
                      \/ Lock(t) \/ EraseSecondary(t) \/ WriteChunk(t) \/ Verify(t)
  \/ Crash

Spec == Init /\ [][Next]_vars

-----------------------------------------------------------------------------
\* Types: what the flash, the variables of the module and the callers' stacks hold.
TypeOK ==
  /\ \A i \in Images :
       /\ flash[i].version \in 0..(MaxWrites + 1)
       /\ {flash[i].sum, flash[i].data} \subseteq Seq([key : Keys, val : Values])
       /\ Len(flash[i].sum) <= Capacity
  /\ primary \in Images \cup {None} /\ mutex \in Tasks \cup {"free", None}
  /\ pc \in [Tasks -> Initialising \cup
               {"idle", "init", "enter", "compare", "lock", "erase", "chunk", "verify"}]
  /\ op \in [Tasks -> Op \cup {None}]
  /\ place \in [Tasks -> (Images \X (1..Capacity)) \cup {None}]
  /\ ret \in [Tasks -> {"none", "ok", "full"}] /\ seen \in [Tasks -> BOOLEAN]
  /\ writes \in 0..MaxWrites /\ crashes \in 0..MaxCrashes /\ faults \in 0..MaxFaults

\* A task that is through mmconfig_init finds an image in use, and whenever the
\* mutex is free that image is the one a restart would take: readers see what
\* the flash will still hold after a power failure.
MemoryAgrees ==
  /\ \A t \in Tasks : pc[t] \notin Initialising \cup {"idle", "init"} => primary # None
  /\ mutex = "free" /\ (\A t \in Tasks : pc[t] \notin Initialising) => primary = Best

\* "Returns MMCONFIG_OK on success" (mmconfig.h:319): a node list was stored
\* as a whole at some moment of its call, if the flash works, and a read returns
\* what is stored.
OkMeansDone ==
  \A t \in Tasks : ret[t] = "ok" /\ op[t].kind # "write" /\ faults = 0 => seen[t]

\* The same of a single value: a write that was skipped because the key already
\* has the same data, or carried out, had its value stored.
WriteDone == \A t \in Tasks : ret[t] = "ok" /\ faults = 0 => seen[t]

\* The store after a power failure is the one of before the update that was
\* going on or the one of after it, with all its keys, however old the image is
\* that was erased for it: the two images implement an atomic store.
Committing == {"init", "enter", "compare", "lock", "erase", "chunk"} \cup Initialising
Abstract == INSTANCE ConfigStore WITH
  store <- Store, Updates <- Lists,
  want <- [t \in Tasks |-> IF pc[t] \in Committing /\ op[t].kind # "read"
                           THEN op[t].list ELSE <<>>]
RefinesStore == Abstract!StoreSpec
=============================================================================
