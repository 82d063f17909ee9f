--------------------------- MODULE MmConfigProofs ---------------------------
(***************************************************************************)
(* The store of configuration values is atomic, for any number of tasks,   *)
(* keys, lists, power failures and bad writes: the image in use is the one *)
(* a restart would take, the two images implement ConfigStore, and a call  *)
(* that returns OK was carried out.  The first call has returned before    *)
(* other tasks call; MmConfig shows what happens otherwise.  That an       *)
(* update changes what it should takes two facts about the operators: what *)
(* Select selects, proved with the least number for which it would not,    *)
(* and what Lookup finds in an image with one value for each key.          *)
(***************************************************************************)
EXTENDS MmConfig, SequenceTheorems, WellFoundedInduction, TLAPS

Updating == {"erase", "chunk", "verify"}
Erasing  == {"erase1", "erase2", "head1", "head2"}

Types ==
  /\ DOMAIN flash = Images /\ \A i \in Images : flash[i].version \in Nat
  /\ flash = [i \in Images |-> flash[i]]
  /\ primary \in Images \cup {None} /\ mutex \in Tasks \cup {"free", None}
  /\ pc \in [Tasks -> Initialising \cup Updating \cup {"idle", "init", "enter", "compare", "lock"}]

\* The mutex has been made when an image is in use, and the task that has it is
\* the one that writes.
Holder ==
  /\ primary # None => mutex # None
  /\ \A t \in Tasks : pc[t] \in Updating \cup Erasing <=> mutex = t

\* mmconfig_init is run by one task while the others have not called.
InitAlone ==
  /\ mutex # None /\ primary = None => \E u \in Tasks : pc[u] = "pick"
  /\ \A t \in Tasks :
       /\ pc[t] \in Initialising \/ (primary = None /\ pc[t] # "idle") =>
            \A u \in Tasks \ {t} : pc[u] = "idle"
       /\ primary = None => pc[t] \in {"idle", "init", "create", "pick"}
       /\ pc[t] = "pick" => mutex = "free"
       /\ pc[t] \in {"create", "pick"} => primary = None
       /\ pc[t] \in Erasing \cup {"lockerase"} => primary = 0
       /\ pc[t] = "head2" => flash[0] = Image(0, <<>>, <<>>)

Quiet == \A t \in Tasks : pc[t] \notin Initialising

\* Outside of mmconfig_init the image in use is valid. It is the one a restart
\* would take, but while an update writes the other image; that one has the next
\* version from its header on.
InUse ==
  primary # None /\ Quiet =>
    /\ Valid(primary)
    /\ (\A t \in Tasks : pc[t] \notin {"chunk", "verify"}) => primary = Best
    /\ (\E t \in Tasks : pc[t] \in {"chunk", "verify"}) /\ flash[Secondary].sig =>
         flash[Secondary].version = flash[primary].version + 1

\* The inductive invariant.
ConfigInv == Types /\ Holder /\ InitAlone /\ InUse

-----------------------------------------------------------------------------
\* What mmconfig_init takes.
LEMMA BestIsImage == Best \in Images \cup {None}
  BY DEF Best, Images

\* A call begins; the first one alone.
LEMMA CallKeeps ==
  ASSUME InitFirst, ConfigInv, NEW t \in Tasks, NEW o \in Op, Call(t, o)
  PROVE  ConfigInv'
<1> USE ConfigAssumption
    DEF ConfigInv, Call, Goto, memVars, counters, Types, Updating, Erasing,
        Initialising, Images, Secondary
<1>1. Types'
  OBVIOUS
<1>2. Holder'
  BY DEF Holder, InitAlone
<1>3. InitAlone'
  BY DEF InitAlone, Holder
<1>4. InUse'
  BY DEF InUse, InitAlone, Holder, Quiet, Best, Valid
<1> QED BY <1>1, <1>2, <1>3, <1>4

\* The test for the mutex.
LEMMA CheckInitKeeps ==
  ASSUME InitFirst, ConfigInv, NEW t \in Tasks, CheckInit(t)
  PROVE  ConfigInv'
<1> USE ConfigAssumption
    DEF ConfigInv, CheckInit, Goto, memVars, counters, Types, Updating, Erasing,
        Initialising, Images, Secondary
<1>1. Types'
  OBVIOUS
<1>2. Holder'
  BY DEF Holder, InitAlone
<1>3. InitAlone'
  BY DEF InitAlone, Holder
<1>4. InUse'
  BY DEF InUse, InitAlone, Holder, Quiet, Best, Valid
<1> QED BY <1>1, <1>2, <1>3, <1>4

\* The mutex is there before an image is in use.
LEMMA CreateMutexKeeps ==
  ASSUME InitFirst, ConfigInv, NEW t \in Tasks, CreateMutex(t)
  PROVE  ConfigInv'
<1> USE ConfigAssumption
    DEF ConfigInv, CreateMutex, Goto, memVars, counters, Types, Updating, Erasing,
        Initialising, Images, Secondary
<1>1. Types'
  OBVIOUS
<1>2. Holder'
  BY DEF Holder, InitAlone
<1>3. InitAlone'
  BY DEF InitAlone, Holder
<1>4. InUse'
  BY DEF InUse, InitAlone, Holder, Quiet, Best, Valid
<1> QED BY <1>1, <1>2, <1>3, <1>4

\* init takes the newer valid image.
LEMMA PickImagesKeeps ==
  ASSUME InitFirst, ConfigInv, NEW t \in Tasks, PickImages(t)
  PROVE  ConfigInv'
<1> USE ConfigAssumption
    DEF ConfigInv, PickImages, Goto, memVars, counters, Types, Updating, Erasing,
        Initialising, Images, Secondary
<1>1. Types'
  BY BestIsImage DEF InitAlone
<1>2. Holder'
  BY DEF Holder, InitAlone
<1>3. InitAlone'
  BY DEF InitAlone, Holder
<1>4. InUse'
  BY DEF InUse, InitAlone, Holder, Quiet, Best, Valid, Image
<1> QED BY <1>1, <1>2, <1>3, <1>4

\* Nobody else is inside while both images are erased.
LEMMA LockEraseKeeps ==
  ASSUME InitFirst, ConfigInv, NEW t \in Tasks, LockErase(t)
  PROVE  ConfigInv'
<1> USE ConfigAssumption
    DEF ConfigInv, LockErase, Goto, memVars, counters, Types, Updating, Erasing,
        Initialising, Images, Secondary
<1>1. Types'
  OBVIOUS
<1>2. Holder'
  BY DEF Holder, InitAlone
<1>3. InitAlone'
  BY DEF InitAlone, Holder
<1>4. InUse'
  BY DEF InUse, InitAlone, Holder, Quiet, Best, Valid
<1> QED BY <1>1, <1>2, <1>3, <1>4

\* Two empty images of the same version: the first is taken.
LEMMA EraseAllKeeps ==
  ASSUME InitFirst, ConfigInv, NEW t \in Tasks, EraseAll(t)
  PROVE  ConfigInv'
<1> USE ConfigAssumption
    DEF ConfigInv, EraseAll, EraseStep, Goto, memVars, counters, Types, Updating, Erasing,
        Initialising, Images, Secondary
<1>1. Types'
  BY DEF Image, Erased
<1>2. Holder'
  BY DEF Holder, InitAlone
<1>3. InitAlone'
  BY DEF InitAlone, Holder
<1>4. InUse'
  BY DEF InUse, InitAlone, Holder, Quiet, Best, Valid, Image, Erased
<1> QED BY <1>1, <1>2, <1>3, <1>4

\* Readers change nothing.
LEMMA ReadKeeps ==
  ASSUME InitFirst, ConfigInv, NEW t \in Tasks, Read(t)
  PROVE  ConfigInv'
<1> USE ConfigAssumption
    DEF ConfigInv, Read, Return, Goto, memVars, counters, Types, Updating, Erasing,
        Initialising, Images, Secondary
<1>1. Types'
  OBVIOUS
<1>2. Holder'
  BY DEF Holder, InitAlone
<1>3. InitAlone'
  BY DEF InitAlone, Holder
<1>4. InUse'
  BY DEF InUse, InitAlone, Holder, Quiet, Best, Valid
<1> QED BY <1>1, <1>2, <1>3, <1>4

\* The value is looked up ...
LEMMA LookKeeps ==
  ASSUME InitFirst, ConfigInv, NEW t \in Tasks, Look(t)
  PROVE  ConfigInv'
<1> USE ConfigAssumption
    DEF ConfigInv, Look, Goto, memVars, counters, Types, Updating, Erasing,
        Initialising, Images, Secondary
<1>1. Types'
  OBVIOUS
<1>2. Holder'
  <2>1. pc' = [pc EXCEPT ![t] = "compare"] \/ pc' = [pc EXCEPT ![t] = "lock"]
    OBVIOUS
  <2> QED BY <2>1 DEF Holder, InitAlone
<1>3. InitAlone'
  <2>1. pc' = [pc EXCEPT ![t] = "compare"] \/ pc' = [pc EXCEPT ![t] = "lock"]
    OBVIOUS
  <2> QED BY <2>1 DEF Holder, InitAlone
<1>4. InUse'
  BY DEF InUse, InitAlone, Holder, Quiet, Best, Valid
<1> QED BY <1>1, <1>2, <1>3, <1>4

\* ... and compared.
LEMMA CompareKeeps ==
  ASSUME InitFirst, ConfigInv, NEW t \in Tasks, Compare(t)
  PROVE  ConfigInv'
<1> USE ConfigAssumption
    DEF ConfigInv, Compare, Return, Goto, memVars, counters, Types, Updating, Erasing,
        Initialising, Images, Secondary
<1>1. Types'
  OBVIOUS
<1>2. Holder'
  BY DEF Holder, InitAlone
<1>3. InitAlone'
  BY DEF InitAlone, Holder
<1>4. InUse'
  BY DEF InUse, InitAlone, Holder, Quiet, Best, Valid
<1> QED BY <1>1, <1>2, <1>3, <1>4

\* From here on the task writes.
LEMMA LockKeeps ==
  ASSUME InitFirst, ConfigInv, NEW t \in Tasks, Lock(t)
  PROVE  ConfigInv'
<1> USE ConfigAssumption
    DEF ConfigInv, Lock, Return, Goto, memVars, counters, Types, Updating, Erasing,
        Initialising, Images, Secondary
<1>1. Types'
  OBVIOUS
<1>2. Holder'
  BY DEF Holder, InitAlone
<1>3. InitAlone'
  BY DEF InitAlone, Holder
<1>4. InUse'
  BY DEF InUse, InitAlone, Holder, Quiet, Best, Valid
<1> QED BY <1>1, <1>2, <1>3, <1>4

\* The image in use stays.
LEMMA EraseSecondaryKeeps ==
  ASSUME InitFirst, ConfigInv, NEW t \in Tasks, EraseSecondary(t)
  PROVE  ConfigInv'
<1> USE ConfigAssumption
    DEF ConfigInv, EraseSecondary, Goto, memVars, counters, Types, Updating, Erasing,
        Initialising, Images, Secondary
<1>1. Types'
  BY DEF Erased
<1>2. Holder'
  BY DEF Holder, InitAlone
<1>3. InitAlone'
  BY DEF InitAlone, Holder
<1>4. InUse'
  BY DEF InUse, InitAlone, Holder, Quiet, Best, Valid, Erased
<1> QED BY <1>1, <1>2, <1>3, <1>4

\* With its header the other image has the next version.
LEMMA WriteChunkKeeps ==
  ASSUME InitFirst, ConfigInv, NEW t \in Tasks, WriteChunk(t)
  PROVE  ConfigInv'
<1> USE ConfigAssumption
    DEF ConfigInv, WriteChunk, Goto, memVars, counters, Types, Updating, Erasing,
        Initialising, Images, Secondary
<1>1. Types'
  <2>1. primary \in Images
    BY DEF InitAlone
  <2>2. PICK n \in Len(flash[Secondary].data)..Len(NewData(op[t].list)), bad \in BOOLEAN :
          /\ flash' = [flash EXCEPT ![Secondary] =
               Staged(NewData(op[t].list), n, flash[Secondary].bad \/ bad)]
          /\ Goto(t, IF n = Len(NewData(op[t].list)) THEN "verify" ELSE "chunk")
    OBVIOUS
  <2>3. flash'[Secondary].version = flash[primary].version + 1
    BY <2>1, <2>2 DEF Staged, Image
  <2>4. \A i \in Images : flash'[i].version \in Nat
    BY <2>1, <2>2, <2>3
  <2>5. DOMAIN flash' = Images /\ flash' = [i \in Images |-> flash'[i]]
    BY <2>1, <2>2
  <2>6. pc' = [pc EXCEPT ![t] = "verify"] \/ pc' = [pc EXCEPT ![t] = "chunk"]
    BY <2>2
  <2> QED BY <2>4, <2>5, <2>6
<1>2. Holder'
  BY DEF Holder, InitAlone
<1>3. InitAlone'
  BY DEF InitAlone, Holder
<1>4. InUse'
  BY DEF InUse, InitAlone, Holder, Quiet, Best, Valid, Image, Staged
<1> QED BY <1>1, <1>2, <1>3, <1>4

\* It is newer, so it is the best one if it is valid.
LEMMA VerifyKeeps ==
  ASSUME InitFirst, ConfigInv, NEW t \in Tasks, Verify(t)
  PROVE  ConfigInv'
<1> USE ConfigAssumption
    DEF ConfigInv, Verify, Return, Goto, memVars, counters, Types, Updating, Erasing,
        Initialising, Images, Secondary
<1>1. Types'
  BY DEF InitAlone
<1>2. Holder'
  BY DEF Holder, InitAlone
<1>3. InitAlone'
  BY DEF InitAlone, Holder
<1>4. InUse'
  <2>1. \A u \in Tasks : pc'[u] \notin {"chunk", "verify"}
    BY DEF Holder
  <2>2. primary # None
    BY DEF InitAlone
  <2>3. Quiet' => Quiet
    BY DEF Quiet
  <2>4. Quiet' => /\ Valid(primary)
                  /\ flash[Secondary].sig => flash[Secondary].version = flash[primary].version + 1
    BY <2>2, <2>3 DEF InUse
  <2>5. Quiet' => Valid(primary)' /\ primary' = Best'
    <3>1. CASE primary = 0
      BY <2>4, <3>1 DEF Best, Valid
    <3>2. CASE primary = 1
      BY <2>4, <3>2 DEF Best, Valid
    <3> QED BY <2>2, <3>1, <3>2
  <2> QED BY <2>1, <2>5 DEF InUse
<1> QED BY <1>1, <1>2, <1>3, <1>4

\* Nothing is in use.
LEMMA CrashKeeps ==
  ASSUME InitFirst, ConfigInv, Crash
  PROVE  ConfigInv'
<1> USE ConfigAssumption
    DEF ConfigInv, Crash, Goto, memVars, counters, Types, Updating, Erasing,
        Initialising, Images, Secondary
<1>1. Types'
  OBVIOUS
<1>2. Holder'
  BY DEF Holder, InitAlone
<1>3. InitAlone'
  BY DEF InitAlone, Holder
<1>4. InUse'
  BY DEF InUse, InitAlone, Holder, Quiet, Best, Valid
<1> QED BY <1>1, <1>2, <1>3, <1>4

-----------------------------------------------------------------------------
\* The invariant holds at first: nothing but the flash is there.
LEMMA InitEstablishes == Init => ConfigInv
<1> SUFFICES ASSUME Init PROVE ConfigInv
  OBVIOUS
<1> USE ConfigAssumption DEF Init, Images, Initialising, Updating, Erasing
<1>1. PICK first \in {Image(1, l, l) : l \in Factory} \cup {Erased, Image(0, <<>>, <<>>)},
           second \in {Erased, Image(0, <<>>, <<>>)} :
        flash = [i \in Images |-> IF i = 0 THEN first ELSE second]
  OBVIOUS
<1>2. first.version \in Nat /\ second.version \in Nat
  BY DEF Image, Erased
<1>3. Types
  BY <1>1, <1>2 DEF Types
<1>4. Holder /\ InitAlone /\ InUse
  BY DEF Holder, InitAlone, InUse
<1> QED BY <1>3, <1>4 DEF ConfigInv

\* Every step keeps it.
LEMMA StepKeeps ==
  ASSUME InitFirst, ConfigInv, [Next]_vars
  PROVE  ConfigInv'
<1>1. CASE UNCHANGED vars
  BY <1>1 DEF vars, memVars, counters, ConfigInv, Types, Holder, InitAlone, InUse, Quiet,
              Best, Valid, Secondary
<1>2. CASE \E t \in Tasks, o \in Op : Call(t, o)
  BY <1>2, CallKeeps
<1>3. ASSUME NEW t \in Tasks,
             CheckInit(t) \/ CreateMutex(t) \/ PickImages(t) \/ LockErase(t) \/ EraseAll(t)
      PROVE  ConfigInv'
  BY <1>3, CheckInitKeeps, CreateMutexKeeps, PickImagesKeeps, LockEraseKeeps, EraseAllKeeps
<1>4. ASSUME NEW t \in Tasks, Read(t) \/ Look(t) \/ Compare(t)
      PROVE  ConfigInv'
  BY <1>4, ReadKeeps, LookKeeps, CompareKeeps
<1>5. ASSUME NEW t \in Tasks, Lock(t) \/ EraseSecondary(t) \/ WriteChunk(t) \/ Verify(t)
      PROVE  ConfigInv'
  BY <1>5, LockKeeps, EraseSecondaryKeeps, WriteChunkKeeps, VerifyKeeps
<1>6. CASE Crash
  BY <1>6, CrashKeeps
<1> QED BY <1>1, <1>2, <1>3, <1>4, <1>5, <1>6 DEF Next

\* In every run the invariant holds, if the first call returns before the next.
THEOREM ConfigInvariant ==
  ASSUME InitFirst
  PROVE  Spec => []ConfigInv
<1>1. Init => ConfigInv
  BY InitEstablishes
<1>2. ConfigInv /\ [Next]_vars => ConfigInv'
  BY StepKeeps
<1> QED BY <1>1, <1>2, PTL DEF Spec

\* A caller finds an image in use, and with the mutex free it is the one that
\* mmconfig_init would take after a power failure: an update that is cut off or
\* badly stored changes nothing, one that is verified lasts
\* (mmconfig_update_secondary_image, mmconfig_init).
THEOREM ConfigMemoryAgrees ==
  ASSUME InitFirst
  PROVE  Spec => []MemoryAgrees
<1>1. ConfigInv => MemoryAgrees
  <2> SUFFICES ASSUME ConfigInv PROVE MemoryAgrees
    OBVIOUS
  <2> USE ConfigAssumption DEF ConfigInv, Types
  <2>1. \A t \in Tasks : pc[t] \notin Initialising \cup {"idle", "init"} => primary # None
    BY DEF InitAlone, Initialising
  <2>2. ASSUME mutex = "free", Quiet
        PROVE  primary = Best
    <3>1. \A t \in Tasks : pc[t] \notin Updating
      BY <2>2 DEF Holder
    <3>2. primary # None
      BY <2>2 DEF InitAlone, Quiet, Initialising
    <3> QED BY <2>2, <3>1, <3>2 DEF InUse, Updating
  <2> QED BY <2>1, <2>2 DEF MemoryAgrees, Quiet
<1> QED BY <1>1, ConfigInvariant, PTL

-----------------------------------------------------------------------------
\* A set of numbers has a least one.
LEMMA Least ==
  ASSUME NEW T \in SUBSET Nat, T # {}
  PROVE  \E n \in T : \A m \in T : ~(m < n)
<1> DEFINE R == OpToRel(<, Nat)
<1>1. IsWellFoundedOn(R, Nat)
  BY NatLessThanWellFounded
<1> HIDE DEF R
<1>2. PICK n \in T : \A m \in T : <<m, n>> \notin R
  BY <1>1, WFMin
<1>3. \A a, b \in Nat : a < b => <<a, b>> \in R
  BY DEF R, OpToRel
<1> QED BY <1>2, <1>3

\* The function that Select is defined by, up to n; there is one.
Picks(f, data, S, n) ==
  f = [i \in 0..n |->
         IF i = 0 THEN <<>>
         ELSE IF data[i] \in S THEN Append(f[i - 1], data[i]) ELSE f[i - 1]]

LEMMA PicksExist ==
  ASSUME NEW X, NEW data \in Seq(X), NEW S
  PROVE  \E f : Picks(f, data, S, Len(data))
<1> DEFINE Missing == {n \in 0..Len(data) : ~\E f : Picks(f, data, S, n)}
<1>1. ASSUME Missing # {} PROVE FALSE
  <2>1. Missing \in SUBSET Nat OBVIOUS
  <2> HIDE DEF Missing
  <2>2. PICK n \in Missing : \A m \in Missing : ~(m < n)
    BY <1>1, <2>1, Least
  <2>3. n # 0
    <3> DEFINE f == [i \in 0..0 |-> <<>>]
    <3>1. Picks(f, data, S, 0) BY DEF Picks
    <3> QED BY <3>1 DEF Missing
  <2>4. n \in Nat /\ n - 1 \in Nat /\ n - 1 \in 0..Len(data) /\ n - 1 < n
    BY <2>3 DEF Missing
  <2>5. PICK f : Picks(f, data, S, n - 1)
    BY <2>2, <2>4 DEF Missing
  <2> DEFINE g == [i \in 0..n |-> IF i < n THEN f[i] ELSE
                       IF data[n] \in S THEN Append(f[n - 1], data[n]) ELSE f[n - 1]]
  <2>6. \A i \in 0..n - 1 : f[i] =
          IF i = 0 THEN <<>>
         ELSE IF data[i] \in S THEN Append(f[i - 1], data[i]) ELSE f[i - 1]
    BY <2>5 DEF Picks
  <2>7. Picks(g, data, S, n)
    BY <2>4, <2>6, <2>3 DEF Picks
  <2> QED BY <2>7 DEF Missing
<1> QED BY <1>1

\* The definition of Select unfolds.
LEMMA SelectIs ==
  ASSUME NEW X, NEW data \in Seq(X), NEW S
  PROVE  \E f : Picks(f, data, S, Len(data)) /\ Select(data, S) = f[Len(data)]
<1> DEFINE c == CHOOSE f : Picks(f, data, S, Len(data))
<1>1. Picks(c, data, S, Len(data))
  <2> HIDE DEF Picks
  <2> QED BY PicksExist
<1>2. Select(data, S) = c[Len(data)]
  BY DEF Select, Picks
<1> QED BY <1>1, <1>2

\* What is selected of the first n elements.
Selected(q, data, S, n) ==
  /\ \A i \in 1..Len(q) : q[i] \in S /\ \E j \in 1..n : q[i] = data[j]
  /\ \A j \in 1..n : data[j] \in S => \E i \in 1..Len(q) : q[i] = data[j]

\* Select returns the elements that are in S, and no others.
LEMMA SelectKeeps ==
  ASSUME NEW X, NEW data \in Seq(X), NEW S
  PROVE  /\ Select(data, S) \in Seq(X)
         /\ Selected(Select(data, S), data, S, Len(data))
<1>1. PICK f : Picks(f, data, S, Len(data)) /\ Select(data, S) = f[Len(data)]
  BY SelectIs
<1>2. \A n \in 0..Len(data) : f[n] =
        IF n = 0 THEN <<>>
        ELSE IF data[n] \in S THEN Append(f[n - 1], data[n]) ELSE f[n - 1]
  BY <1>1 DEF Picks
<1> DEFINE Wrong == {n \in 0..Len(data) : ~(f[n] \in Seq(X) /\ Selected(f[n], data, S, n))}
<1>3. ASSUME Wrong # {} PROVE FALSE
  <2>1. Wrong \in SUBSET Nat OBVIOUS
  <2> HIDE DEF Wrong
  <2>2. PICK n \in Wrong : \A m \in Wrong : ~(m < n)
    BY <1>3, <2>1, Least
  <2>3. n # 0
    <3>1. f[0] = <<>> /\ 0 \in 0..Len(data)
      BY <1>2
    <3>2. <<>> \in Seq(X) /\ Len(<<>>) = 0 /\ \A j \in 1..0 : FALSE
      OBVIOUS
    <3>3. Selected(<<>>, data, S, 0)
      BY <3>2 DEF Selected
    <3> QED BY <3>1, <3>2, <3>3 DEF Wrong
  <2>4. n \in 1..Len(data) /\ n - 1 \in 0..Len(data) /\ n - 1 < n
    BY <2>3 DEF Wrong
  <2>5. f[n - 1] \in Seq(X) /\ Selected(f[n - 1], data, S, n - 1)
    BY <2>2, <2>4 DEF Wrong
  <2>6. data[n] \in X
    BY <2>4
  <2>7. CASE data[n] \notin S
    <3>1. f[n] = f[n - 1]
      BY <1>2, <2>4, <2>7
    <3>2. \A j \in 1..n : j # n => j \in 1..(n - 1)
      BY <2>4
    <3>3. 1..(n - 1) \subseteq 1..n
      BY <2>4
    <3>4. Selected(f[n], data, S, n)
      BY <2>5, <2>7, <3>1, <3>2, <3>3 DEF Selected
    <3> QED BY <2>5, <3>1, <3>4 DEF Wrong
  <2>8. CASE data[n] \in S
    <3>1. f[n] = Append(f[n - 1], data[n])
      <4>1. n \in 0..Len(data) /\ n # 0
        BY <2>4
      <4> QED BY <1>2, <4>1, <2>8
    <3> DEFINE q == f[n - 1]
    <3> DEFINE r == f[n]
    <3>2. r \in Seq(X) /\ Len(r) = Len(q) + 1 /\ r[Len(q) + 1] = data[n]
          /\ \A i \in 1..Len(q) : r[i] = q[i]
      BY <2>5, <2>6, <3>1
    <3>3. \A i \in 1..Len(r) : i = Len(q) + 1 \/ i \in 1..Len(q)
      BY <2>5, <3>2
    <3>4. \A j \in 1..n : j = n \/ j \in 1..(n - 1)
      BY <2>4
    <3>5. 1..Len(q) \subseteq 1..Len(r) /\ Len(q) + 1 \in 1..Len(r)
      BY <2>5, <3>2
    <3>6. 1..(n - 1) \subseteq 1..n /\ n \in 1..n
      BY <2>4
    <3> HIDE DEF q, r
    <3>7. Selected(q, data, S, n - 1)
      BY <2>5 DEF q
    <3>8. \A i \in 1..Len(r) : r[i] \in S /\ \E j \in 1..n : r[i] = data[j]
      <4> SUFFICES ASSUME NEW i \in 1..Len(r) PROVE r[i] \in S /\ \E j \in 1..n : r[i] = data[j]
        OBVIOUS
      <4>1. CASE i = Len(q) + 1
        BY <2>8, <3>2, <3>6, <4>1
      <4>2. CASE i \in 1..Len(q)
        <5>1. r[i] = q[i]
          BY <3>2, <4>2
        <5>2. q[i] \in S /\ \E j \in 1..(n - 1) : q[i] = data[j]
          BY <3>7, <4>2 DEF Selected
        <5> QED BY <5>1, <5>2, <3>6
      <4> QED BY <3>3, <4>1, <4>2
    <3>9. \A j \in 1..n : data[j] \in S => \E i \in 1..Len(r) : r[i] = data[j]
      BY <3>2, <3>4, <3>5, <3>7 DEF Selected
    <3>10. Selected(r, data, S, n)
      BY <3>8, <3>9 DEF Selected
    <3> QED BY <3>2, <3>10 DEF r, Wrong
  <2> QED BY <2>7, <2>8
<1> QED BY <1>1, <1>3

-----------------------------------------------------------------------------
Stored == [key : Keys, val : Values]

\* The keys of a list are distinct, and entries with one key have one value.
Distinct(list) == \A i, j \in 1..Len(list) : list[i].key = list[j].key => i = j
Agreeing(data) ==
  \A i, j \in 1..Len(data) : data[i].key = data[j].key => data[i].val = data[j].val

\* The entries of an image after an update with a list.
Updated(old, list) == Select(old, Kept(list)) \o Select(list, New)

\* Lookup returns the one value of a key.
LEMMA LookupIs ==
  ASSUME NEW data \in Seq(Stored), Agreeing(data), NEW k
  PROVE  /\ \A n \in 1..Len(data) : data[n].key = k => Lookup(data, k) = data[n].val
         /\ (\A n \in 1..Len(data) : data[n].key # k) => Lookup(data, k) = Absent
<1>1. ASSUME NEW n \in 1..Len(data), data[n].key = k PROVE Lookup(data, k) = data[n].val
  <2> DEFINE S == Found(data, k)
  <2>1. S \in SUBSET Nat /\ S # {} /\ S \subseteq 1..Len(data)
    BY <1>1 DEF Found
  <2> HIDE DEF S
  <2>2. PICK m \in S : \A l \in S : ~(l < m)
    BY <2>1, Least
  <2>3. \A l \in S : m <= l
    BY <2>1, <2>2
  <2>4. First(S) \in S
    BY <2>2, <2>3 DEF First
  <2>5. Lookup(data, k) = data[First(S)].val
    BY <2>1 DEF Lookup, S
  <2>6. First(S) \in 1..Len(data) /\ data[First(S)].key = k
    BY <2>4 DEF S, Found
  <2> QED BY <1>1, <2>5, <2>6 DEF Agreeing
<1>2. (\A n \in 1..Len(data) : data[n].key # k) => Lookup(data, k) = Absent
  BY DEF Lookup, Found
<1> QED BY <1>1, <1>2

\* An update keeps the other keys' entries and adds the list's.
LEMMA UpdatedIs ==
  ASSUME NEW old \in Seq(Stored), NEW list \in Seq(Entry)
  PROVE  /\ Updated(old, list) \in Seq(Stored)
         /\ \A i \in 1..Len(Updated(old, list)) :
              LET e == Updated(old, list)[i]
              IN \/ e \in Kept(list) /\ \E j \in 1..Len(old) : e = old[j]
                 \/ e \in New /\ \E j \in 1..Len(list) : e = list[j]
         /\ \A j \in 1..Len(old) : old[j] \in Kept(list) =>
              \E i \in 1..Len(Updated(old, list)) : Updated(old, list)[i] = old[j]
         /\ \A j \in 1..Len(list) : list[j] \in New =>
              \E i \in 1..Len(Updated(old, list)) : Updated(old, list)[i] = list[j]
<1> DEFINE p == Select(old, Kept(list))
<1> DEFINE q == Select(list, New)
<1>1. p \in Seq(Stored) /\ Selected(p, old, Kept(list), Len(old))
  BY SelectKeeps
<1>2. q \in Seq(Entry) /\ Selected(q, list, New, Len(list))
  BY SelectKeeps
<1>3. Updated(old, list) = p \o q
  BY DEF Updated
<1> HIDE DEF p, q
<1>4. \A i \in 1..Len(q) : q[i] \in Stored
  BY <1>2 DEF Selected, New, Entry, Stored
<1>5. q \in Seq(Stored)
  BY <1>2, <1>4, IsASeq
<1> DEFINE r == p \o q
<1>6. r \in Seq(Stored) /\ Len(r) = Len(p) + Len(q)
  BY <1>1, <1>5
<1>7. \A i \in 1..Len(p) : i \in 1..Len(r) /\ r[i] = p[i]
  BY <1>1, <1>5
<1>8. \A i \in 1..Len(q) : Len(p) + i \in 1..Len(r) /\ r[Len(p) + i] = q[i]
  BY <1>1, <1>5
<1>9. ASSUME NEW i \in 1..Len(r), i \notin 1..Len(p) PROVE i - Len(p) \in 1..Len(q) /\ r[i] = q[i - Len(p)]
  <2>1. Len(p) \in Nat /\ Len(q) \in Nat
    BY <1>1, <1>5
  <2>2. i - Len(p) \in 1..Len(q) /\ Len(p) + (i - Len(p)) = i
    BY <1>6, <1>9, <2>1
  <2> QED BY <2>2, <1>8
<1> HIDE DEF r
<1>10. \A i \in 1..Len(r) :
         \/ r[i] \in Kept(list) /\ \E j \in 1..Len(old) : r[i] = old[j]
         \/ r[i] \in New /\ \E j \in 1..Len(list) : r[i] = list[j]
  <2> SUFFICES ASSUME NEW i \in 1..Len(r)
               PROVE  \/ r[i] \in Kept(list) /\ \E j \in 1..Len(old) : r[i] = old[j]
                      \/ r[i] \in New /\ \E j \in 1..Len(list) : r[i] = list[j]
    OBVIOUS
  <2>1. CASE i \in 1..Len(p)
    BY <1>1, <1>7, <2>1 DEF Selected
  <2>2. CASE i \notin 1..Len(p)
    <3>1. PICK l \in 1..Len(q) : r[i] = q[l]
      BY <1>9, <2>2
    <3> QED BY <1>2, <3>1 DEF Selected
  <2> QED BY <2>1, <2>2
<1>11. \A j \in 1..Len(old) : old[j] \in Kept(list) => \E i \in 1..Len(r) : r[i] = old[j]
  BY <1>1, <1>7 DEF Selected
<1>12. \A j \in 1..Len(list) : list[j] \in New => \E i \in 1..Len(r) : r[i] = list[j]
  BY <1>2, <1>8 DEF Selected
<1>13. Updated(old, list) = r
  BY <1>3 DEF r
<1> QED BY <1>6, <1>10, <1>11, <1>12, <1>13

\* It leaves one value for each key ...
LEMMA UpdatedAgrees ==
  ASSUME NEW old \in Seq(Stored), Agreeing(old), NEW list \in Seq(Entry), Distinct(list)
  PROVE  Agreeing(Updated(old, list))
<1> DEFINE r == Updated(old, list)
<1>1. \A i \in 1..Len(r) :
         \/ r[i] \in Kept(list) /\ \E j \in 1..Len(old) : r[i] = old[j]
         \/ r[i] \in New /\ \E j \in 1..Len(list) : r[i] = list[j]
  BY UpdatedIs
<1> HIDE DEF r
<1>2. ASSUME NEW i \in 1..Len(r), NEW j \in 1..Len(r), r[i].key = r[j].key
      PROVE  r[i].val = r[j].val
  <2>1. CASE (\E m \in 1..Len(old) : r[i] = old[m]) /\ (\E m \in 1..Len(old) : r[j] = old[m])
    BY <1>2, <2>1 DEF Agreeing
  <2>2. CASE (\E m \in 1..Len(list) : r[i] = list[m]) /\ (\E m \in 1..Len(list) : r[j] = list[m])
    BY <1>2, <2>2 DEF Distinct
  <2>3. CASE r[i] \in Kept(list) /\ (\E m \in 1..Len(list) : r[j] = list[m])
    BY <1>2, <2>3 DEF Kept
  <2>4. CASE r[j] \in Kept(list) /\ (\E m \in 1..Len(list) : r[i] = list[m])
    BY <1>2, <2>4 DEF Kept
  <2> QED BY <1>1, <2>1, <2>2, <2>3, <2>4
<1> QED BY <1>2 DEF r, Agreeing

\* ... the list's for the keys of the list, the old one for the others.
LEMMA UpdatedLookup ==
  ASSUME NEW old \in Seq(Stored), Agreeing(old), NEW list \in Seq(Entry), Distinct(list),
         NEW k
  PROVE  /\ \A n \in 1..Len(list) : list[n].key = k =>
              Lookup(Updated(old, list), k) = list[n].val
         /\ (\A n \in 1..Len(list) : list[n].key # k) =>
              Lookup(Updated(old, list), k) = Lookup(old, k)
<1> DEFINE r == Updated(old, list)
<1>1. r \in Seq(Stored) /\ Agreeing(r)
  BY UpdatedIs, UpdatedAgrees
<1>2. \A i \in 1..Len(r) :
         \/ r[i] \in Kept(list) /\ \E j \in 1..Len(old) : r[i] = old[j]
         \/ r[i] \in New /\ \E j \in 1..Len(list) : r[i] = list[j]
  BY UpdatedIs
<1>3. /\ \A j \in 1..Len(old) : old[j] \in Kept(list) => \E i \in 1..Len(r) : r[i] = old[j]
      /\ \A j \in 1..Len(list) : list[j] \in New => \E i \in 1..Len(r) : r[i] = list[j]
  BY UpdatedIs
<1> HIDE DEF r
<1>4. ASSUME NEW n \in 1..Len(list), list[n].key = k PROVE Lookup(r, k) = list[n].val
  <2>1. CASE list[n].val # Absent
    <3>1. list[n] \in New
      BY <2>1 DEF New
    <3>2. PICK i \in 1..Len(r) : r[i] = list[n]
      BY <1>3, <3>1
    <3> QED BY <1>1, <1>4, <3>2, LookupIs
  <2>2. CASE list[n].val = Absent
    <3>1. \A i \in 1..Len(r) : r[i].key # k
      <4> SUFFICES ASSUME NEW i \in 1..Len(r), r[i].key = k PROVE FALSE
        OBVIOUS
      <4>1. CASE r[i] \in Kept(list)
        BY <1>4, <4>1 DEF Kept
      <4>2. ASSUME r[i] \in New, NEW j \in 1..Len(list), r[i] = list[j] PROVE FALSE
        BY <1>4, <2>2, <4>2 DEF New, Distinct
      <4> QED BY <1>2, <4>1, <4>2
    <3> QED BY <1>1, <2>2, <3>1, LookupIs
  <2> QED BY <2>1, <2>2
<1>5. ASSUME \A n \in 1..Len(list) : list[n].key # k PROVE Lookup(r, k) = Lookup(old, k)
  <2>1. CASE \E j \in 1..Len(old) : old[j].key = k
    <3>1. PICK j \in 1..Len(old) : old[j].key = k
      BY <2>1
    <3>2. old[j] \in Kept(list)
      <4>1. old[j] \in Stored
        OBVIOUS
      <4>2. old[j] \in Entry
        BY <4>1 DEF Stored, Entry
      <4> QED BY <1>5, <3>1, <4>2 DEF Kept
    <3>3. PICK i \in 1..Len(r) : r[i] = old[j]
      BY <1>3, <3>2
    <3>4. Lookup(r, k) = r[i].val
      BY <1>1, <3>1, <3>3, LookupIs
    <3>5. Lookup(old, k) = old[j].val
      BY <3>1, LookupIs
    <3> QED BY <3>3, <3>4, <3>5
  <2>2. CASE \A j \in 1..Len(old) : old[j].key # k
    <3>1. \A i \in 1..Len(r) : r[i].key # k
      BY <1>2, <1>5, <2>2
    <3>2. Lookup(r, k) = Absent
      BY <1>1, <3>1, LookupIs
    <3> QED BY <2>2, <3>2, LookupIs
  <2> QED BY <2>1, <2>2
<1> QED BY <1>4, <1>5 DEF r

-----------------------------------------------------------------------------
\* Where a call can be.
Steps == Initialising \cup Updating \cup {"idle", "init", "enter", "compare", "lock"}

\* A key is in a list at most once.
DistinctKeys == \A l \in Lists : Distinct(l)

\* What is in the images. A checksum is that of a list with one value for each
\* key, and nothing is stored badly unless a write went wrong.
Contents ==
  /\ op \in [Tasks -> Op \cup {None}] /\ DOMAIN ret = Tasks
  /\ seen \in [Tasks -> BOOLEAN] /\ faults \in Nat
  /\ \A i \in Images : /\ flash[i].sum \in Seq(Stored) /\ flash[i].data \in Seq(Stored)
                       /\ Agreeing(flash[i].sum)
                       /\ faults = 0 => ~flash[i].bad

\* The calls that are under way, and which of them can be where.
Asking ==
  \A t \in Tasks :
    /\ pc[t] # "idle" => op[t] \in Op
    /\ pc[t] = "compare" => op[t].kind = "write"
    /\ pc[t] \in Updating \cup {"compare", "lock"} => op[t].kind # "read"

\* Images that are erased, or not written to the end, are not valid.
Blank ==
  \A t \in Tasks :
    /\ pc[t] \in {"lockerase", "erase1", "erase2", "head1"} => ~Valid(0) /\ ~Valid(1)
    /\ pc[t] = "head2" => ~Valid(1)
    /\ pc[t] = "chunk" => ~Valid(Secondary)

\* With its last chunk a list is stored.
Done ==
  faults = 0 => \A t \in Tasks :
    pc[t] = "verify" \/ (ret[t] = "ok" /\ op[t].kind # "write") => seen[t]

StoreInv == Contents /\ Asking /\ Blank /\ Done

\* What the tasks have asked for, as the abstract store sees it.
Want == [t \in Tasks |-> IF pc[t] \in Committing /\ op[t].kind # "read"
                         THEN op[t].list ELSE <<>>]

AbstractStep == [Abstract!StoreNext]_(Abstract!storeVars)

-----------------------------------------------------------------------------
\* The steps of the abstract store.
LEMMA StutterStep ==
  ASSUME Store' = Store, Want' = Want
  PROVE  AbstractStep
BY DEF AbstractStep, Want, Abstract!storeVars

LEMMA AskStep ==
  ASSUME NEW t \in Tasks, NEW u \in Lists, Want[t] = <<>>, Want' = [Want EXCEPT ![t] = u],
         Store' = Store
  PROVE  AbstractStep
BY DEF AbstractStep, Want, Abstract!StoreNext, Abstract!Ask

LEMMA HappenStep ==
  ASSUME NEW t \in Tasks, Want[t] # <<>>, Want' = [Want EXCEPT ![t] = <<>>],
         Store' = Abstract!Apply(Want[t], Store)
  PROVE  AbstractStep
BY DEF AbstractStep, Want, Abstract!StoreNext, Abstract!Happen

LEMMA DropStep ==
  ASSUME NEW S \in SUBSET Tasks,
         Want' = [t \in Tasks |-> IF t \in S THEN <<>> ELSE Want[t]], Store' = Store
  PROVE  AbstractStep
BY DEF AbstractStep, Want, Abstract!StoreNext, Abstract!Drop

\* The store is a function of the flash.
LEMMA FlashKept ==
  ASSUME flash' = flash
  PROVE  Store' = Store /\ Best' = Best /\ Valid(0)' = Valid(0) /\ Valid(1)' = Valid(1)
BY DEF Store, Best, Valid

\* What a call can ask for.
LEMMA OpIs ==
  ASSUME NEW o \in Op
  PROVE  /\ o.kind # "read" => o.list \in Lists
         /\ o.kind = "read" => o.list[1].key \in Keys
<1>1. CASE o \in [kind : {"read"}, list : {<<e>> : e \in [key : Keys, val : {Absent}]}]
  BY <1>1
<1>2. CASE o \in [kind : {"write"}, list : {l \in Lists : Len(l) = 1}]
  BY <1>2
<1>3. CASE o \in [kind : {"list"}, list : Lists]
  BY <1>3
<1> QED BY <1>1, <1>2, <1>3 DEF Op

LEMMA ListIs ==
  ASSUME NEW l \in Lists
  PROVE  l \in Seq(Entry) /\ l # <<>>
BY ConfigAssumption

\* Behind mmconfig_init a valid image is in use.
LEMMA Inside ==
  ASSUME ConfigInv, NEW t \in Tasks, pc[t] \in Updating \cup {"enter", "compare", "lock"}
  PROVE  /\ primary \in Images /\ Secondary \in Images /\ Secondary # primary
         /\ Quiet /\ Valid(primary)
         /\ (\A u \in Tasks : pc[u] \notin {"chunk", "verify"}) => primary = Best
<1> USE DEF ConfigInv, Updating, Initialising
<1>1. primary # None
  BY DEF InitAlone
<1>2. primary \in Images /\ Secondary \in Images /\ Secondary # primary
  BY <1>1 DEF Types, Images, Secondary
<1>3. Quiet
  BY DEF Quiet, InitAlone
<1> QED BY <1>1, <1>2, <1>3 DEF InUse

\* The test for the mutex.
LEMMA CheckInitStores ==
  ASSUME InitFirst, ConfigInv, StoreInv, NEW t \in Tasks, CheckInit(t)
  PROVE  StoreInv' /\ AbstractStep
<1> USE DEF StoreInv, CheckInit, Goto, memVars, counters
<1>1. flash' = flash /\ Store' = Store /\ Valid(0)' = Valid(0) /\ Valid(1)' = Valid(1)
  BY FlashKept
<1>2. pc \in [Tasks -> Steps] /\ op \in [Tasks -> Op \cup {None}]
  BY DEF ConfigInv, Types, Contents, Steps
<1>3. Contents'
  BY <1>1 DEF Contents
<1>4. Asking'
  BY <1>2 DEF Asking, Updating, Initialising
<1>5. Blank'
  BY <1>1, <1>2 DEF Blank, Secondary, Valid
<1>6. Done'
  BY <1>2 DEF Done, Contents
<1>7. Want' = Want
  BY <1>2 DEF Want, Committing, Initialising
<1>8. AbstractStep
  BY <1>1, <1>7, StutterStep
<1> QED BY <1>3, <1>4, <1>5, <1>6, <1>8

\* The mutex.
LEMMA CreateMutexStores ==
  ASSUME InitFirst, ConfigInv, StoreInv, NEW t \in Tasks, CreateMutex(t)
  PROVE  StoreInv' /\ AbstractStep
<1> USE DEF StoreInv, CreateMutex, Goto, memVars, counters
<1>1. flash' = flash /\ Store' = Store /\ Valid(0)' = Valid(0) /\ Valid(1)' = Valid(1)
  BY FlashKept
<1>2. pc \in [Tasks -> Steps] /\ op \in [Tasks -> Op \cup {None}]
  BY DEF ConfigInv, Types, Contents, Steps
<1>3. Contents'
  BY <1>1 DEF Contents
<1>4. Asking'
  BY <1>2 DEF Asking, Updating, Initialising
<1>5. Blank'
  BY <1>1, <1>2 DEF Blank, Secondary, Valid
<1>6. Done'
  BY <1>2 DEF Done, Contents
<1>7. Want' = Want
  BY <1>2 DEF Want, Committing, Initialising
<1>8. AbstractStep
  BY <1>1, <1>7, StutterStep
<1> QED BY <1>3, <1>4, <1>5, <1>6, <1>8

\* The mutex is taken.
LEMMA LockEraseStores ==
  ASSUME InitFirst, ConfigInv, StoreInv, NEW t \in Tasks, LockErase(t)
  PROVE  StoreInv' /\ AbstractStep
<1> USE DEF StoreInv, LockErase, Goto, memVars, counters
<1>1. flash' = flash /\ Store' = Store /\ Valid(0)' = Valid(0) /\ Valid(1)' = Valid(1)
  BY FlashKept
<1>2. pc \in [Tasks -> Steps] /\ op \in [Tasks -> Op \cup {None}]
  BY DEF ConfigInv, Types, Contents, Steps
<1>3. Contents'
  BY <1>1 DEF Contents
<1>4. Asking'
  BY <1>2 DEF Asking, Updating, Initialising
<1>5. Blank'
  BY <1>1, <1>2 DEF Blank, Secondary, Valid
<1>6. Done'
  BY <1>2 DEF Done, Contents
<1>7. Want' = Want
  BY <1>2 DEF Want, Committing, Initialising
<1>8. AbstractStep
  BY <1>1, <1>7, StutterStep
<1> QED BY <1>3, <1>4, <1>5, <1>6, <1>8

\* init takes the newer image, or finds that none is valid.
LEMMA PickImagesStores ==
  ASSUME InitFirst, ConfigInv, StoreInv, NEW t \in Tasks, PickImages(t)
  PROVE  StoreInv' /\ AbstractStep
<1> USE DEF StoreInv, PickImages, Goto, memVars, counters
<1>1. flash' = flash /\ Store' = Store /\ Valid(0)' = Valid(0) /\ Valid(1)' = Valid(1)
  BY FlashKept
<1>2. pc \in [Tasks -> Steps] /\ op \in [Tasks -> Op \cup {None}]
  BY DEF ConfigInv, Types, Contents, Steps
<1>3. Contents'
  BY <1>1 DEF Contents
<1>4. Asking'
  BY <1>2 DEF Asking, Updating, Initialising
<1>5. Blank'
  <2>1. Best = None => ~Valid(0) /\ ~Valid(1)
    BY ConfigAssumption DEF Best
  <2>2. \A u \in Tasks : u # t => pc[u] = "idle"
    BY DEF ConfigInv, InitAlone, Initialising
  <2> QED BY <1>1, <1>2, <2>1, <2>2 DEF Blank
<1>6. Done'
  BY <1>2 DEF Done, Contents
<1>7. Want' = Want
  BY <1>2 DEF Want, Committing, Initialising
<1>8. AbstractStep
  BY <1>1, <1>7, StutterStep
<1> QED BY <1>3, <1>4, <1>5, <1>6, <1>8

\* The list was stored with its last chunk.
LEMMA VerifyStores ==
  ASSUME InitFirst, ConfigInv, StoreInv, NEW t \in Tasks, Verify(t)
  PROVE  StoreInv' /\ AbstractStep
<1> USE DEF StoreInv, Verify, Goto, Return, memVars, counters
<1>1. flash' = flash /\ Store' = Store /\ Valid(0)' = Valid(0) /\ Valid(1)' = Valid(1)
  BY FlashKept
<1>2. pc \in [Tasks -> Steps] /\ op \in [Tasks -> Op \cup {None}]
  BY DEF ConfigInv, Types, Contents, Steps
<1>3. Contents'
  BY <1>1 DEF Contents
<1>4. Asking'
  BY <1>2 DEF Asking, Updating, Initialising
<1>5. Blank'
  BY <1>1, <1>2 DEF Blank, Secondary, Valid, ConfigInv, Holder, Updating
<1>6. Done'
  BY <1>2 DEF Done, Contents
<1>7. Want' = Want
  BY <1>2 DEF Want, Committing, Initialising
<1>8. AbstractStep
  BY <1>1, <1>7, StutterStep
<1> QED BY <1>3, <1>4, <1>5, <1>6, <1>8

\* The value is looked up.
LEMMA LookStores ==
  ASSUME InitFirst, ConfigInv, StoreInv, NEW t \in Tasks, Look(t)
  PROVE  StoreInv' /\ AbstractStep
<1> USE DEF StoreInv, Look, Goto, memVars, counters
<1>1. flash' = flash /\ Store' = Store /\ Valid(0)' = Valid(0) /\ Valid(1)' = Valid(1)
  BY FlashKept
<1>2. pc \in [Tasks -> Steps] /\ op \in [Tasks -> Op \cup {None}]
  BY DEF ConfigInv, Types, Contents, Steps
<1>3. Contents'
  BY <1>1 DEF Contents
<1>4. Asking'
  BY <1>2 DEF Asking, Updating, Initialising
<1>5. Blank'
  BY <1>1, <1>2 DEF Blank, Secondary, Valid
<1>6. Done'
  BY <1>2 DEF Done, Contents
<1>7. Want' = Want
  BY <1>2 DEF Want, Committing, Initialising
<1>8. AbstractStep
  BY <1>1, <1>7, StutterStep
<1> QED BY <1>3, <1>4, <1>5, <1>6, <1>8

\* A write that is skipped has nothing to do.
LEMMA CompareStores ==
  ASSUME InitFirst, ConfigInv, StoreInv, NEW t \in Tasks, Compare(t)
  PROVE  StoreInv' /\ AbstractStep
<1> USE DEF StoreInv, Compare, Goto, Return, memVars, counters
<1>1. flash' = flash /\ Store' = Store /\ Valid(0)' = Valid(0) /\ Valid(1)' = Valid(1)
  BY FlashKept
<1>2. pc \in [Tasks -> Steps] /\ op \in [Tasks -> Op \cup {None}]
  BY DEF ConfigInv, Types, Contents, Steps
<1>3. Contents'
  BY <1>1 DEF Contents
<1>4. Asking'
  BY <1>2 DEF Asking, Updating, Initialising
<1>5. Blank'
  BY <1>1, <1>2 DEF Blank, Secondary, Valid
<1>6. Done'
  BY <1>2 DEF Done, Contents, Asking
<1>7. Want' = Want \/ Want' = [u \in Tasks |-> IF u \in {t} THEN <<>> ELSE Want[u]]
  BY <1>2 DEF Want, Committing, Initialising
<1>8. AbstractStep
  BY <1>1, <1>7, StutterStep, DropStep
<1> QED BY <1>3, <1>4, <1>5, <1>6, <1>8

\* A list that has no room fails.
LEMMA LockStores ==
  ASSUME InitFirst, ConfigInv, StoreInv, NEW t \in Tasks, Lock(t)
  PROVE  StoreInv' /\ AbstractStep
<1> USE DEF StoreInv, Lock, Goto, Return, memVars, counters
<1>1. flash' = flash /\ Store' = Store /\ Valid(0)' = Valid(0) /\ Valid(1)' = Valid(1)
  BY FlashKept
<1>2. pc \in [Tasks -> Steps] /\ op \in [Tasks -> Op \cup {None}]
  BY DEF ConfigInv, Types, Contents, Steps
<1>3. Contents'
  BY <1>1 DEF Contents
<1>4. Asking'
  BY <1>2 DEF Asking, Updating, Initialising
<1>5. Blank'
  BY <1>1, <1>2 DEF Blank, Secondary, Valid
<1>6. Done'
  BY <1>2 DEF Done, Contents
<1>7. Want' = Want \/ Want' = [u \in Tasks |-> IF u \in {t} THEN <<>> ELSE Want[u]]
  BY <1>2 DEF Want, Committing, Initialising
<1>8. AbstractStep
  BY <1>1, <1>7, StutterStep, DropStep
<1> QED BY <1>3, <1>4, <1>5, <1>6, <1>8

\* A reader returns what is stored.
LEMMA ReadStores ==
  ASSUME InitFirst, ConfigInv, StoreInv, NEW t \in Tasks, Read(t)
  PROVE  StoreInv' /\ AbstractStep
<1> USE DEF StoreInv, Read, Goto, Return, memVars, counters
<1>1. flash' = flash /\ Store' = Store /\ Valid(0)' = Valid(0) /\ Valid(1)' = Valid(1)
  BY FlashKept
<1>2. pc \in [Tasks -> Steps] /\ op \in [Tasks -> Op \cup {None}]
  BY DEF ConfigInv, Types, Contents, Steps
<1>3. Contents'
  BY <1>1 DEF Contents
<1>4. Asking'
  BY <1>2 DEF Asking, Updating, Initialising
<1>5. Blank'
  BY <1>1, <1>2 DEF Blank, Secondary, Valid
<1>6. Done'
  <2>1. Quiet /\ (\A u \in Tasks : pc[u] \notin {"chunk", "verify"}) /\ primary = Best /\ primary # None
    <3>1. \A u \in Tasks : pc[u] \notin Updating
      BY ConfigAssumption DEF ConfigInv, Holder
    <3>2. primary \in Images /\ Quiet /\ primary = Best
      BY <3>1, Inside DEF Updating
    <3> QED BY <3>1, <3>2, ConfigAssumption DEF Updating, Images
  <2> DEFINE k == op[t].list[1].key
  <2>2. k \in Keys
    BY OpIs DEF Asking
  <2>3. Store[k] = Lookup(flash[primary].data, k)
    BY <2>1, <2>2 DEF Store
  <2>4. seen' = [seen EXCEPT ![t] = TRUE] /\ ret' = [ret EXCEPT ![t] = "ok"]
    BY <2>3
  <2>5. DOMAIN ret = Tasks /\ DOMAIN seen = Tasks
    BY <1>2 DEF Contents
  <2> QED BY <1>2, <2>4, <2>5 DEF Done
<1>7. Want' = Want
  BY <1>2 DEF Want, Committing, Initialising
<1>8. AbstractStep
  BY <1>1, <1>7, StutterStep
<1> QED BY <1>3, <1>4, <1>5, <1>6, <1>8

\* A call asks for its list.
LEMMA CallStores ==
  ASSUME InitFirst, ConfigInv, StoreInv, NEW t \in Tasks, NEW o \in Op, Call(t, o)
  PROVE  StoreInv' /\ AbstractStep
<1> USE DEF StoreInv, Call, Goto, memVars, counters
<1>1. flash' = flash /\ Store' = Store /\ Valid(0)' = Valid(0) /\ Valid(1)' = Valid(1)
  BY FlashKept
<1>2. pc \in [Tasks -> Steps] /\ op \in [Tasks -> Op \cup {None}]
  BY DEF ConfigInv, Types, Contents, Steps
<1>3. Contents'
  BY <1>1 DEF Contents
<1>4. Asking'
  BY <1>2 DEF Asking, Updating, Initialising
<1>5. Blank'
  BY <1>1, <1>2 DEF Blank, Secondary, Valid
<1>6. Done'
  BY <1>2 DEF Done, Contents
<1>7. Want' = Want \/ (o.list \in Lists /\ Want[t] = <<>> /\ Want' = [Want EXCEPT ![t] = o.list])
  BY <1>2, OpIs DEF Want, Committing, Initialising
<1>8. AbstractStep
  BY <1>1, <1>7, StutterStep, AskStep
<1> QED BY <1>3, <1>4, <1>5, <1>6, <1>8

\* An erased image and an empty one.
LEMMA EmptyImages ==
  /\ Erased.sum \in Seq(Stored) /\ Erased.data \in Seq(Stored) /\ Agreeing(Erased.sum)
  /\ ~Erased.bad /\ ~Erased.sig
  /\ LET e == Image(0, <<>>, <<>>)
     IN /\ e.sum \in Seq(Stored) /\ e.data = <<>> /\ Agreeing(e.sum) /\ ~e.bad
        /\ e.sig /\ e.sum = e.data /\ e.version = 0
<1>1. <<>> \in Seq(Stored) /\ Agreeing(<<>>)
  BY DEF Agreeing
<1> QED BY <1>1 DEF Erased, Image

LEMMA EmptyLookup ==
  ASSUME NEW k
  PROVE  Lookup(<<>>, k) = Absent
BY DEF Lookup, Found

\* mmconfig_eraseall takes nothing away: there is no valid image.
LEMMA EraseAllStores ==
  ASSUME InitFirst, ConfigInv, StoreInv, NEW t \in Tasks, EraseAll(t)
  PROVE  StoreInv' /\ AbstractStep
<1> DEFINE e == Image(0, <<>>, <<>>)
<1> USE DEF StoreInv
<1>1. /\ pc[t] \in Erasing /\ primary = 0 /\ primary' = 0
      /\ op' = op /\ ret' = ret /\ seen' = seen /\ faults' = faults
      /\ \A u \in Tasks : u # t => pc[u] = "idle"
  BY DEF EraseAll, EraseStep, ConfigInv, InitAlone, Erasing, Initialising, counters
<1>2. pc \in [Tasks -> Steps] /\ op \in [Tasks -> Op \cup {None}] /\ flash = [i \in Images |-> flash[i]]
  BY DEF ConfigInv, Types, Contents, Steps
<1>3. \/ /\ pc[t] = "erase1" /\ pc' = [pc EXCEPT ![t] = "erase2"]
         /\ flash' = [flash EXCEPT ![0] = Erased]
      \/ /\ pc[t] = "erase2" /\ pc' = [pc EXCEPT ![t] = "head1"]
         /\ flash' = [flash EXCEPT ![1] = Erased]
      \/ /\ pc[t] = "head1" /\ pc' = [pc EXCEPT ![t] = "head2"]
         /\ flash' = [flash EXCEPT ![0] = e]
      \/ /\ pc[t] = "head2" /\ pc' = [pc EXCEPT ![t] = "enter"]
         /\ flash' = [flash EXCEPT ![1] = e]
  BY <1>1 DEF EraseAll, EraseStep, Goto, Secondary
<1>4. \E i \in Images, x \in {Erased, e} : flash' = [flash EXCEPT ![i] = x]
  BY <1>3 DEF Images
<1>5. Contents'
  <2>1. PICK i \in Images, x \in {Erased, e} : flash' = [flash EXCEPT ![i] = x]
    BY <1>4
  <2>2. x.sum \in Seq(Stored) /\ x.data \in Seq(Stored) /\ Agreeing(x.sum) /\ ~x.bad
    BY EmptyImages
  <2>3. \A j \in Images : flash'[j] = IF j = i THEN x ELSE flash[j]
    BY <1>2, <2>1
  <2> QED BY <1>1, <2>2, <2>3 DEF Contents
<1>6. Asking'
  BY <1>1, <1>2, <1>3 DEF Asking, Erasing, Updating
<1>7. Done'
  BY <1>1, <1>2, <1>3 DEF Done
<1>8. Want' = Want
  BY <1>1, <1>2, <1>3 DEF Want, Committing, Initialising
<1>9. pc[t] # "head2" => ~Valid(0) /\ ~Valid(1) /\ Best = None
  BY <1>1 DEF Blank, Best, Erasing
<1>10. pc[t] = "head2" => flash[0] = e /\ Valid(0) /\ ~Valid(1) /\ Best = 0
  BY EmptyImages DEF Blank, Best, ConfigInv, InitAlone, Valid
<1> HIDE DEF e
<1> USE DEF Images
<1>11. pc[t] \in {"erase1", "erase2"} => ~Valid(0)' /\ ~Valid(1)'
  BY <1>2, <1>3, <1>9, EmptyImages DEF Valid
<1>12. pc[t] = "head1" => Valid(0)' /\ ~Valid(1)' /\ flash'[0] = e
  BY <1>2, <1>3, <1>9, EmptyImages DEF Valid, e
<1>13. pc[t] = "head2" => Valid(0)' /\ Valid(1)' /\ flash'[0] = flash[0] /\ flash'[1] = e
  BY <1>2, <1>3, <1>10, EmptyImages DEF Valid, e
<1>14. Blank'
  BY <1>1, <1>2, <1>3, <1>11, <1>12 DEF Blank, Erasing
<1>15. Store' = Store
  <2>1. CASE pc[t] \in {"erase1", "erase2"}
    <3>1. Best' = None
      BY <1>11, <2>1 DEF Best
    <3> QED BY <1>9, <2>1, <3>1 DEF Store
  <2>2. CASE pc[t] = "head1"
    <3>1. Best' = 0 /\ flash'[0].data = <<>>
      BY <1>12, <2>2, EmptyImages DEF Best, e
    <3> QED BY <1>9, <2>2, <3>1, EmptyLookup, ConfigAssumption DEF Store
  <2>3. CASE pc[t] = "head2"
    <3>1. flash'[0].version = 0 /\ flash'[1].version = 0
      BY <1>10, <1>13, <2>3, EmptyImages DEF e
    <3>2. Best' = 0
      BY <1>13, <2>3, <3>1 DEF Best
    <3> QED BY <1>10, <1>13, <2>3, <3>2 DEF Store
  <2> QED BY <1>1, <2>1, <2>2, <2>3 DEF Erasing
<1> QED BY <1>5, <1>6, <1>7, <1>8, <1>14, <1>15, StutterStep

\* The image in use stays.
LEMMA EraseSecondaryStores ==
  ASSUME InitFirst, ConfigInv, StoreInv, NEW t \in Tasks, EraseSecondary(t)
  PROVE  StoreInv' /\ AbstractStep
<1> USE DEF StoreInv
<1>1. /\ primary \in Images /\ Secondary \in Images /\ Secondary # primary
      /\ Valid(primary) /\ primary = Best /\ primary # None
      /\ \A u \in Tasks : u # t => pc[u] \notin Updating
  <2>1. \A u \in Tasks : u # t => pc[u] \notin Updating
    BY DEF EraseSecondary, ConfigInv, Holder, Updating
  <2>2. pc[t] = "erase"
    BY DEF EraseSecondary
  <2>3. \A u \in Tasks : pc[u] \notin {"chunk", "verify"}
    BY <2>1, <2>2 DEF Updating
  <2> QED BY <2>1, <2>2, <2>3, Inside, ConfigAssumption DEF Updating, Images
<1>2. pc \in [Tasks -> Steps] /\ op \in [Tasks -> Op \cup {None}] /\ flash = [i \in Images |-> flash[i]]
  BY DEF ConfigInv, Types, Contents, Steps
<1>3. /\ pc[t] = "erase" /\ pc' = [pc EXCEPT ![t] = "chunk"]
      /\ flash' = [flash EXCEPT ![Secondary] = Erased]
      /\ primary' = primary /\ op' = op /\ ret' = ret /\ seen' = seen /\ faults' = faults
  BY DEF EraseSecondary, Goto, memVars, counters
<1>4. \A j \in Images : flash'[j] = IF j = Secondary THEN Erased ELSE flash[j]
  BY <1>2, <1>3
<1>5. Contents'
  BY <1>1, <1>3, <1>4, EmptyImages DEF Contents
<1>6. Asking'
  BY <1>2, <1>3 DEF Asking, Updating
<1>7. Done'
  BY <1>2, <1>3 DEF Done
<1>8. Want' = Want
  BY <1>2, <1>3 DEF Want, Committing
<1>9. Secondary' = Secondary
  BY <1>3 DEF Secondary
<1>10. Valid(primary)' /\ ~Valid(Secondary)' /\ flash'[primary] = flash[primary]
  BY <1>1, <1>3, <1>4, <1>9, EmptyImages DEF Valid
<1>11. Blank'
  <2>1. \A u \in Tasks : pc'[u] \notin Erasing \cup {"lockerase"}
    <3>1. Quiet
      BY <1>3, Inside DEF Updating
    <3> QED BY <1>2, <1>3, <3>1 DEF Quiet, Initialising, Erasing
  <2> QED BY <1>10, <2>1 DEF Blank, Erasing
<1>12. Best' = primary
  <2>1. CASE primary = 0
    BY <1>3, <1>10, <2>1 DEF Best, Secondary
  <2>2. CASE primary = 1
    BY <1>3, <1>10, <2>2 DEF Best, Secondary
  <2> QED BY <1>1, <2>1, <2>2 DEF Images
<1>13. Store' = Store
  BY <1>1, <1>10, <1>12 DEF Store
<1> QED BY <1>5, <1>6, <1>7, <1>8, <1>11, <1>13, StutterStep

\* The power fails: nothing is asked for any more.
LEMMA CrashStores ==
  ASSUME ConfigInv, StoreInv, Crash
  PROVE  StoreInv' /\ AbstractStep
<1> USE DEF StoreInv, Crash
<1>1. flash' = flash /\ Store' = Store
  BY FlashKept
<1>2. Contents'
  BY <1>1 DEF Contents
<1>3. Asking' /\ Blank' /\ Done'
  BY DEF Asking, Blank, Done, Updating
<1>4. Want' = [u \in Tasks |-> IF u \in Tasks THEN <<>> ELSE Want[u]]
  BY DEF Want, Committing, Initialising
<1> QED BY <1>1, <1>2, <1>3, <1>4, DropStep

\* A valid image has one value for each key.
LEMMA ValidAgrees ==
  ASSUME StoreInv, NEW i \in Images, Valid(i)
  PROVE  flash[i].data \in Seq(Stored) /\ Agreeing(flash[i].data)
BY DEF StoreInv, Contents, Valid

\* The abstract update is what a list does to the entries of an image.
LEMMA ApplyIs ==
  ASSUME NEW old \in Seq(Stored), Agreeing(old), NEW list \in Seq(Entry), Distinct(list),
         NEW s, NEW k \in Keys, s[k] = Lookup(old, k)
  PROVE  Abstract!Apply(list, s)[k] = Lookup(Updated(old, list), k)
<1> DEFINE S == Abstract!Asked(list, k)
<1>1. Abstract!Apply(list, s)[k] = IF S = {} THEN s[k] ELSE list[CHOOSE i \in S : TRUE].val
  BY DEF Abstract!Apply
<1>2. S = {i \in 1..Len(list) : list[i].key = k}
  BY DEF Abstract!Asked
<1> HIDE DEF S
<1>3. CASE S = {}
  <2>1. \A n \in 1..Len(list) : list[n].key # k
    BY <1>2, <1>3
  <2> QED BY <1>1, <1>3, <2>1, UpdatedLookup
<1>4. CASE S # {}
  <2> DEFINE n == CHOOSE i \in S : TRUE
  <2>1. n \in S
    BY <1>4
  <2> HIDE DEF n
  <2>2. n \in 1..Len(list) /\ list[n].key = k
    BY <1>2, <2>1
  <2> QED BY <1>1, <1>4, <2>2, UpdatedLookup DEF n
<1> QED BY <1>3, <1>4

\* With its last chunk the other image becomes the best one, if all of it was
\* stored well: the list happens. Otherwise the store stays as it is.
LEMMA WriteChunkStores ==
  ASSUME InitFirst, DistinctKeys, ConfigInv, StoreInv, NEW t \in Tasks, WriteChunk(t)
  PROVE  StoreInv' /\ AbstractStep
<1> USE DEF StoreInv
<1> DEFINE list == op[t].list
<1> DEFINE new == NewData(list)
<1> DEFINE old == flash[primary].data
<1>1. /\ pc[t] = "chunk"
      /\ primary' = primary /\ op' = op /\ ret' = ret
      /\ seen' = [u \in Tasks |-> seen[u] \/
                   (pc[u] # "idle" /\ op[u].kind # "read" /\ Satisfied(op[u].list, Store'))]
  BY DEF WriteChunk, memVars
<1>2. pc \in [Tasks -> Steps] /\ op \in [Tasks -> Op \cup {None}] /\ flash = [i \in Images |-> flash[i]]
  BY DEF ConfigInv, Types, Contents, Steps
<1>3. /\ primary \in Images /\ Secondary \in Images /\ Secondary # primary
      /\ Quiet /\ Valid(primary)
  BY <1>1, Inside DEF Updating
<1>4. ~Valid(Secondary) /\ op[t] \in Op /\ op[t].kind # "read"
  BY <1>1 DEF Blank, Asking, Updating
<1>5. list \in Lists /\ list \in Seq(Entry) /\ list # <<>> /\ Distinct(list)
  BY <1>4, OpIs, ListIs DEF DistinctKeys
<1>6. old \in Seq(Stored) /\ Agreeing(old)
  BY <1>3, ValidAgrees
<1>7. new = Updated(old, list) /\ new \in Seq(Stored) /\ Agreeing(new)
  BY <1>5, <1>6, UpdatedIs, UpdatedAgrees DEF NewData, Updated
<1>8. PICK n \in Len(flash[Secondary].data)..Len(new), bad \in BOOLEAN :
        /\ faults' = IF bad THEN faults + 1 ELSE faults
        /\ flash' = [flash EXCEPT ![Secondary] = Staged(new, n, flash[Secondary].bad \/ bad)]
        /\ pc' = [pc EXCEPT ![t] = IF n = Len(new) THEN "verify" ELSE "chunk"]
  BY DEF WriteChunk, Goto
<1> DEFINE image == Staged(new, n, flash[Secondary].bad \/ bad)
<1>9. flash'[Secondary] = image /\ flash'[primary] = flash[primary]
      /\ \A j \in Images : j = primary \/ j = Secondary
  <2>1. \A j \in Images : j = primary \/ j = Secondary
    BY <1>3 DEF Images, Secondary
  <2> QED BY <1>2, <1>3, <1>8, <2>1
<1>10. /\ image.sig /\ image.version = flash[primary].version + 1 /\ image.sum = new
       /\ image.data = SubSeq(new, 1, n) /\ image.bad = (flash[Secondary].bad \/ bad)
  BY DEF Staged, Image
<1>11. /\ flash[Secondary].data \in Seq(Stored) /\ faults \in Nat
       /\ faults = 0 => ~flash[Secondary].bad
       /\ flash[primary].version \in Nat
  BY <1>3 DEF Contents, ConfigInv, Types
<1>12. n \in Nat /\ n <= Len(new) /\ Len(new) \in Nat
  <2>1. Len(flash[Secondary].data) \in Nat /\ Len(new) \in Nat
    BY <1>7, <1>11
  <2> QED BY <1>8, <2>1
<1>13. /\ SubSeq(new, 1, n) \in Seq(Stored) /\ Len(SubSeq(new, 1, n)) = n
       /\ n = Len(new) => SubSeq(new, 1, n) = new
  BY <1>7, <1>12, SubSeqProperties, SubSeqFull
<1>14. Secondary' = Secondary
  BY <1>1 DEF Secondary
<1> HIDE DEF new, old, list, image
<1>15. Valid(Secondary)' <=> n = Len(new) /\ ~(flash[Secondary].bad \/ bad)
  BY <1>9, <1>10, <1>13, <1>14 DEF Valid
<1>16. Valid(primary)'
  BY <1>1, <1>3, <1>9 DEF Valid
<1>17. Best = primary
  BY <1>3, <1>4, ConfigAssumption DEF Best, Images, Secondary
<1>18. Best' = IF Valid(Secondary)' THEN Secondary ELSE primary
  <2>1. /\ flash'[Secondary].version > flash'[primary].version
        /\ ~(flash'[primary].version > flash'[Secondary].version)
    BY <1>9, <1>10, <1>11
  <2>2. CASE primary = 0
    BY <1>1, <1>14, <1>16, <2>1, <2>2 DEF Best, Secondary
  <2>3. CASE primary = 1
    BY <1>1, <1>14, <1>16, <2>1, <2>3 DEF Best, Secondary
  <2> QED BY <1>3, <2>2, <2>3 DEF Images
<1>19. Contents'
  <2>1. faults' \in Nat /\ (faults' = 0 => faults = 0 /\ ~bad)
    BY <1>8, <1>11
  <2>2. op' \in [Tasks -> Op \cup {None}] /\ DOMAIN ret' = Tasks /\ seen' \in [Tasks -> BOOLEAN]
    <3>1. op \in [Tasks -> Op \cup {None}] /\ DOMAIN ret = Tasks /\ seen \in [Tasks -> BOOLEAN]
      BY DEF Contents
    <3>2. \A u \in Tasks : seen'[u] \in BOOLEAN
      BY <1>1, <3>1
    <3> QED BY <1>1, <3>1, <3>2
  <2>3. ASSUME NEW i \in Images
        PROVE  /\ flash'[i].sum \in Seq(Stored) /\ flash'[i].data \in Seq(Stored)
               /\ Agreeing(flash'[i].sum)
               /\ faults' = 0 => ~flash'[i].bad
    <3>1. CASE i = primary
      BY <1>9, <2>1, <3>1 DEF Contents
    <3>2. CASE i = Secondary
      BY <1>7, <1>9, <1>10, <1>11, <1>13, <2>1, <3>2
    <3> QED BY <1>9, <3>1, <3>2
  <2> QED BY <2>1, <2>2, <2>3 DEF Contents
<1>20. Asking'
  BY <1>1, <1>2, <1>8 DEF Asking, Updating
<1>21. /\ \A u \in Tasks : u # t => pc'[u] = pc[u] /\ pc[u] \notin Updating
       /\ pc'[t] = IF n = Len(new) THEN "verify" ELSE "chunk"
  BY <1>1, <1>2, <1>8 DEF ConfigInv, Holder, Updating
<1>22. Blank'
  <2>1. \A u \in Tasks : pc'[u] \notin Erasing \cup {"lockerase"}
    BY <1>3, <1>21 DEF Quiet, Initialising, Erasing
  <2>2. \A u \in Tasks : pc'[u] = "chunk" => u = t /\ n # Len(new)
    BY <1>21 DEF Updating
  <2> QED BY <1>15, <2>1, <2>2 DEF Blank, Erasing
<1>23. \A k \in Keys : Store[k] = Lookup(old, k)
  BY <1>3, <1>17, ConfigAssumption DEF Store, Images, old
<1>24. CASE Valid(Secondary)'
  <2>1. n = Len(new) /\ flash'[Secondary].data = new
    BY <1>9, <1>10, <1>13, <1>15, <1>24
  <2>2. Store' = [k \in Keys |-> Lookup(new, k)]
    BY <1>3, <1>18, <1>24, <2>1, ConfigAssumption DEF Store, Images
  <2>3. Store' = Abstract!Apply(list, Store)
    <3>1. \A k \in Keys : Abstract!Apply(list, Store)[k] = Lookup(new, k)
      BY <1>5, <1>6, <1>7, <1>23, ApplyIs
    <3>2. Abstract!Apply(list, Store) = [k \in Keys |-> Abstract!Apply(list, Store)[k]]
      BY DEF Abstract!Apply
    <3> QED BY <2>2, <3>1, <3>2
  <2>4. Satisfied(list, Store')
    <3> SUFFICES ASSUME NEW m \in 1..Len(list) PROVE (Store')[list[m].key] = list[m].val
      BY DEF Satisfied
    <3>1. list[m].key \in Keys
      <4>1. list[m] \in Entry
        BY <1>5
      <4> QED BY <4>1 DEF Entry
    <3>2. Lookup(new, list[m].key) = list[m].val
      BY <1>5, <1>6, <1>7, UpdatedLookup
    <3> QED BY <2>2, <3>1, <3>2
  <2>5. seen'[t]
    BY <1>1, <1>4, <2>4 DEF list
  <2>6. Done'
    BY <1>1, <1>11, <1>8, <1>21, <2>5 DEF Done, Updating
  <2>7. Want[t] = list
    BY <1>1, <1>4 DEF Want, Committing, list
  <2>8. Want' = [Want EXCEPT ![t] = <<>>]
    BY <1>1, <1>2, <1>8, <2>1 DEF Want, Committing, Initialising
  <2>9. AbstractStep
    BY <1>5, <2>3, <2>7, <2>8, HappenStep
  <2> QED BY <1>19, <1>20, <1>22, <2>6, <2>9
<1>25. CASE ~Valid(Secondary)'
  <2>1. Best' = primary
    BY <1>18, <1>25
  <2>2. Store' = Store
    BY <1>3, <1>9, <1>17, <2>1 DEF Store
  <2>3. n = Len(new) => flash[Secondary].bad \/ bad
    BY <1>15, <1>25
  <2>4. Done'
    <3>1. faults' = 0 => faults = 0 /\ ~flash[Secondary].bad /\ ~bad
      BY <1>8, <1>11
    <3>2. faults' = 0 => pc'[t] # "verify"
      BY <1>21, <2>3, <3>1
    <3>3. \A u \in Tasks : seen[u] => seen'[u]
      BY <1>1
    <3>4. \A u \in Tasks : u # t => pc'[u] # "verify"
      BY <1>21 DEF Updating
    <3>5. faults' = 0 => Done
      BY <3>1
    <3> QED BY <1>1, <3>1, <3>2, <3>3, <3>4, <3>5 DEF Done
  <2>5. Want' = Want \/ Want' = [u \in Tasks |-> IF u \in {t} THEN <<>> ELSE Want[u]]
    BY <1>1, <1>2, <1>8 DEF Want, Committing, Initialising
  <2>6. AbstractStep
    BY <2>2, <2>5, StutterStep, DropStep
  <2> QED BY <1>19, <1>20, <1>22, <2>4, <2>6
<1> QED BY <1>24, <1>25

-----------------------------------------------------------------------------
\* A flash that a host has programmed, or a blank one.
LEMMA StoreStart ==
  ASSUME DistinctKeys, Init
  PROVE  StoreInv
<1>1. PICK first \in {Image(1, l, l) : l \in Factory} \cup {Erased, Image(0, <<>>, <<>>)},
           second \in {Erased, Image(0, <<>>, <<>>)} :
        flash = [i \in Images |-> IF i = 0 THEN first ELSE second]
  BY DEF Init
<1>2. ASSUME NEW l \in Factory
      PROVE  l \in Seq(Stored) /\ Agreeing(l)
  <2>1. l \in Seq(Entry) /\ l \in Lists /\ Distinct(l)
    BY ListIs DEF Factory, DistinctKeys
  <2>2. \A n \in 1..Len(l) : l[n] \in Entry /\ l[n].val # Absent
    BY <2>1 DEF Factory
  <2>3. \A n \in 1..Len(l) : l[n] \in Stored
    BY <2>2 DEF Entry, Stored
  <2>4. l \in Seq(Stored)
    BY <2>1, <2>3, IsASeq
  <2> QED BY <2>1, <2>4 DEF Distinct, Agreeing
<1>3. \A x \in {first, second} :
        x.sum \in Seq(Stored) /\ x.data \in Seq(Stored) /\ Agreeing(x.sum) /\ ~x.bad
  <2>1. ASSUME NEW x \in {Erased, Image(0, <<>>, <<>>)}
        PROVE  x.sum \in Seq(Stored) /\ x.data \in Seq(Stored) /\ Agreeing(x.sum) /\ ~x.bad
    BY EmptyImages
  <2>2. ASSUME NEW l \in Factory
        PROVE  LET x == Image(1, l, l)
               IN x.sum \in Seq(Stored) /\ x.data \in Seq(Stored) /\ Agreeing(x.sum) /\ ~x.bad
    BY <1>2 DEF Image
  <2> QED BY <2>1, <2>2
<1>4. Contents
  BY <1>1, <1>3 DEF Contents, Init
<1>5. Asking /\ Blank /\ Done
  BY DEF Asking, Blank, Done, Init, Updating
<1> QED BY <1>4, <1>5 DEF StoreInv

\* The store of a flash maps keys to values.
LEMMA StoreType ==
  ASSUME StoreInv
  PROVE  Store \in [Keys -> Values \cup {Absent}]
<1> SUFFICES ASSUME NEW k \in Keys, Best # None
             PROVE  Lookup(flash[Best].data, k) \in Values \cup {Absent}
  BY DEF Store
<1>1. Best \in Images /\ Valid(Best)
  BY DEF Best, Images
<1> DEFINE data == flash[Best].data
<1>2. data \in Seq(Stored) /\ Agreeing(data)
  BY <1>1, ValidAgrees
<1> HIDE DEF data
<1>3. CASE \E n \in 1..Len(data) : data[n].key = k
  <2>1. PICK n \in 1..Len(data) : data[n].key = k
    BY <1>3
  <2>2. data[n] \in Stored
    BY <1>2
  <2> QED BY <1>2, <2>1, <2>2, LookupIs DEF Stored, data
<1>4. CASE \A n \in 1..Len(data) : data[n].key # k
  BY <1>2, <1>4, LookupIs DEF data
<1> QED BY <1>3, <1>4

\* Every step is one of the abstract store's, or none.
LEMMA StoreStep ==
  ASSUME InitFirst, DistinctKeys, ConfigInv, StoreInv, [Next]_vars
  PROVE  StoreInv' /\ AbstractStep
<1>1. CASE UNCHANGED vars
  <2>1. flash' = flash /\ Store' = Store
    BY <1>1, FlashKept DEF vars
  <2>2. StoreInv'
    BY <1>1 DEF vars, memVars, counters, StoreInv, Contents, Asking, Blank, Done, Valid, Secondary
  <2>3. Want' = Want
    BY <1>1 DEF vars, Want
  <2> QED BY <2>1, <2>2, <2>3, StutterStep
<1>2. CASE \E t \in Tasks, o \in Op : Call(t, o)
  BY <1>2, CallStores
<1>3. ASSUME NEW t \in Tasks,
             CheckInit(t) \/ CreateMutex(t) \/ PickImages(t) \/ LockErase(t) \/ EraseAll(t)
      PROVE  StoreInv' /\ AbstractStep
  BY <1>3, CheckInitStores, CreateMutexStores, PickImagesStores, LockEraseStores, EraseAllStores
<1>4. ASSUME NEW t \in Tasks, Read(t) \/ Look(t) \/ Compare(t)
      PROVE  StoreInv' /\ AbstractStep
  BY <1>4, ReadStores, LookStores, CompareStores
<1>5. ASSUME NEW t \in Tasks, Lock(t) \/ EraseSecondary(t) \/ WriteChunk(t) \/ Verify(t)
      PROVE  StoreInv' /\ AbstractStep
  BY <1>5, LockStores, EraseSecondaryStores, WriteChunkStores, VerifyStores
<1>6. CASE Crash
  BY <1>6, CrashStores
<1> QED BY <1>1, <1>2, <1>3, <1>4, <1>5, <1>6 DEF Next

\* What is in the images and where the calls are, in every run.
THEOREM StoreInvariant ==
  ASSUME InitFirst, DistinctKeys
  PROVE  Spec => [](ConfigInv /\ StoreInv)
<1>1. Init => ConfigInv /\ StoreInv
  BY InitEstablishes, StoreStart
<1>2. ConfigInv /\ StoreInv /\ [Next]_vars => (ConfigInv /\ StoreInv)'
  BY StepKeeps, StoreStep
<1> QED BY <1>1, <1>2, PTL DEF Spec

\* A call that returns MMCONFIG_OK has done what it was asked for, if the flash
\* works: a list was stored as a whole at a moment of the call, and a read
\* returned what a restart would have returned.
THEOREM ConfigOkMeansDone ==
  ASSUME InitFirst, DistinctKeys
  PROVE  Spec => []OkMeansDone
<1>1. ConfigInv /\ StoreInv => OkMeansDone
  BY DEF StoreInv, Done, OkMeansDone
<1> QED BY <1>1, StoreInvariant, PTL

\* The two images are an atomic store: an update happens at one moment of its
\* call, with the last chunk that is written, or not at all, whatever chunks are
\* stored badly and whenever the power fails.
THEOREM ConfigRefinesStore ==
  ASSUME InitFirst, DistinctKeys
  PROVE  Spec => RefinesStore
<1>1. Init => Abstract!StoreInit
  <2> SUFFICES ASSUME Init PROVE Abstract!StoreInit
    OBVIOUS
  <2>1. Store \in [Keys -> Values \cup {Absent}]
    BY StoreStart, StoreType
  <2>2. [t \in Tasks |-> IF pc[t] \in Committing /\ op[t].kind # "read"
                         THEN op[t].list ELSE <<>>] = [t \in Tasks |-> <<>>]
    BY DEF Init, Committing, Initialising
  <2> QED BY <2>1, <2>2 DEF Abstract!StoreInit
<1>2. ConfigInv /\ StoreInv /\ [Next]_vars => [Abstract!StoreNext]_(Abstract!storeVars)
  BY StoreStep DEF AbstractStep
<1> QED BY <1>1, <1>2, StoreInvariant, PTL DEF Spec, RefinesStore, Abstract!StoreSpec
=============================================================================
