---------------------------- MODULE AlertProofs ----------------------------
(***************************************************************************)
(* Proofs about the two components that tell people of trouble, AlertRelay *)
(* and Watchers, for any relays, targets, channels, installations, limits  *)
(* and number of faults.                                                   *)
(*                                                                         *)
(* AlertRelay: Faithful(s) is what a saved state must say of the journal   *)
(* and of what the providers have received; it holds of the state file at  *)
(* all times, and the process that has the lock remembers exactly what is  *)
(* on disk.                                                                *)
(*                                                                         *)
(* Watchers: each property has an invariant of its own on top of the       *)
(* types, because each follows one chain of values: the counters of an     *)
(* alert follow the last results, the evidence for an "ok" goes from a     *)
(* check through the state file and the snapshot into the cache, and the   *)
(* deliveries go from the file of the security check into the check at     *)
(* work and back.                                                          *)
(***************************************************************************)
EXTENDS AlertRelay, Watchers, FiniteSetTheorems, TLAPS

-----------------------------------------------------------------------------
(* The relay.                                                              *)

(* An acknowledged message that no state records yet. *)
Unrecorded(v) == \E p \in Procs : pc[p] = "sent" /\ idx[p] = v

(* What a provider may have of an entry: passed events at least once,      *)
(* nothing beyond the pending batch, and one copy more than faults only    *)
(* when its success is recorded or about to be.                            *)
Fits(s, v, i) ==
    /\ s.since < i /\ i <= Position(s) /\ journal[i] = "event" => copies[v][i] >= 1
    /\ InBatch(s, i) /\ v \in s.done => copies[v][i] >= 1
    /\ Position(s) < i /\ ~InBatch(s, i) => copies[v][i] = 0
    /\ InBatch(s, i) /\ v \notin s.done => copies[v][i] <= relayFaults \/ Unrecorded(v)
    /\ copies[v][i] <= 1 + relayFaults

Faithful(s) ==
    /\ s.since <= Len(journal) /\ s.cursor <= Len(journal) /\ s.pending <= Len(journal)
    /\ s.pending # 0 => Position(s) < s.pending
    /\ \A v \in ProviderIdx, i \in Entries : Fits(s, v, i)

OnDisk ==
    IF file THEN Faithful(disk)
            ELSE \A v \in ProviderIdx, i \in Entries : copies[v][i] = 0

Locked ==
    /\ \A p \in Procs : pc[p] # "off" <=> lock = p
    /\ \A p \in Procs : pc[p] # "off" => file /\ mem[p] = disk

(* Where the loop over the providers is. *)
InLoop ==
    \A p \in Procs :
        /\ pc[p] \in {"deliver", "sent"} /\ ~failed[p] =>
              \A v \in ProviderIdx : v < idx[p] => v \in mem[p].done \/ mem[p].pending = 0
        /\ pc[p] = "sent" =>
              /\ idx[p] \in ProviderIdx
              /\ \A i \in Entries : InBatch(mem[p], i) => copies[idx[p]][i] >= 1
        /\ pc[p] = "read" => mem[p].pending = 0

RelayInv == RelayTypeOK /\ Locked /\ InLoop /\ OnDisk

-----------------------------------------------------------------------------
LEMMA Sizes ==
    /\ Entries \subseteq Nat /\ 0 \in 0 .. MaxEntries /\ 0 \in 0 .. MaxRelayFaults
    /\ Len(RelayProviders) \in Nat /\ ProviderIdx \subseteq Nat /\ 1 \in 1 .. Len(RelayProviders) + 1
    /\ \A v \in ProviderIdx : v \in 1 .. Len(RelayProviders) + 1 /\ v + 1 \in 1 .. Len(RelayProviders) + 1
<1>1. Len(RelayProviders) \in Nat
  BY RelayAssumption
<1> QED
  BY <1>1, BoundsAssumption DEF Entries, ProviderIdx

LEMMA StateType ==
    ASSUME NEW since \in 0 .. MaxEntries, NEW cursor \in 0 .. MaxEntries,
           NEW pending \in 0 .. MaxEntries, NEW done \in SUBSET ProviderIdx
    PROVE  /\ State(since, cursor, pending, done) \in States
           /\ State(since, cursor, pending, done).since = since
           /\ State(since, cursor, pending, done).cursor = cursor
           /\ State(since, cursor, pending, done).pending = pending
           /\ State(since, cursor, pending, done).done = done
BY DEF State, States

LEMMA PositionType ==
    ASSUME NEW s \in States
    PROVE  /\ Position(s) \in 0 .. MaxEntries
           /\ s.since \in 0 .. MaxEntries /\ s.cursor \in 0 .. MaxEntries
           /\ s.pending \in 0 .. MaxEntries /\ s.done \in SUBSET ProviderIdx
BY DEF Position, States

LEMMA RelayInvInit == RelayInit => RelayInv
<1> SUFFICES ASSUME RelayInit PROVE RelayInv
  OBVIOUS
<1>1. Blank \in States
  BY Sizes, StateType DEF Blank
<1>2. copies \in [ProviderIdx -> [Entries -> Nat]]
  BY DEF RelayInit
<1>3. journal \in Seq({"event", "noise"}) /\ Len(journal) = 0
  BY DEF RelayInit
<1>4. /\ pc \in [Procs -> {"off", "deliver", "sent", "read"}] /\ mem \in [Procs -> States]
      /\ idx \in [Procs -> 1 .. Len(RelayProviders) + 1] /\ failed \in [Procs -> BOOLEAN]
  BY <1>1, Sizes DEF RelayInit
<1>5. RelayTypeOK
  <2>1. /\ file \in BOOLEAN /\ disk \in States /\ lock \in Procs \cup {NoProc}
        /\ relayFaults \in 0 .. MaxRelayFaults
    BY <1>1, Sizes DEF RelayInit
  <2>2. Len(journal) <= MaxEntries
    BY <1>3, BoundsAssumption
  <2> QED
    BY <1>2, <1>3, <1>4, <2>1, <2>2 DEF RelayTypeOK
<1>6. Locked /\ InLoop
  BY ProcsAssumption DEF RelayInit, Locked, InLoop
<1>7. OnDisk
  BY DEF RelayInit, OnDisk
<1> QED
  BY <1>5, <1>6, <1>7 DEF RelayInv

-----------------------------------------------------------------------------
(* The states the relay saves are faithful. *)

LEMMA FreshIsFaithful ==
    ASSUME RelayTypeOK, \A v \in ProviderIdx, i \in Entries : copies[v][i] = 0
    PROVE  Faithful(State(Len(journal), 0, 0, {}))
<1> DEFINE s == State(Len(journal), 0, 0, {})
<1>1. Len(journal) \in 0 .. MaxEntries /\ relayFaults \in Nat
  BY BoundsAssumption DEF RelayTypeOK
<1>2. /\ s \in States /\ s.since = Len(journal) /\ s.cursor = 0 /\ s.pending = 0 /\ s.done = {}
  BY <1>1, StateType, Sizes
<1>3. Position(s) = Len(journal)
  BY <1>2 DEF Position
<1>4. ASSUME NEW v \in ProviderIdx, NEW i \in Entries
      PROVE  Fits(s, v, i)
  <2>1. i \in Nat /\ i # 0 /\ copies[v][i] = 0
    BY Sizes DEF Entries
  <2> HIDE DEF s
  <2> QED
    BY <1>1, <1>2, <1>3, <2>1 DEF Fits, InBatch
<1> HIDE DEF s
<1>5. Faithful(s)
  BY <1>1, <1>2, <1>4, Sizes DEF Faithful
<1> QED
  BY <1>5 DEF s

(* One more provider is known to have the batch. *)
LEMMA RecordedIsFaithful ==
    ASSUME RelayTypeOK, NEW d \in States, Faithful(d), NEW u \in ProviderIdx,
           \A i \in Entries : InBatch(d, i) => copies[u][i] >= 1
    PROVE  Faithful(State(d.since, d.cursor, d.pending, d.done \cup {u}))
<1> DEFINE s == State(d.since, d.cursor, d.pending, d.done \cup {u})
<1>1. /\ s \in States /\ s.since = d.since /\ s.cursor = d.cursor /\ s.pending = d.pending
      /\ s.done = d.done \cup {u}
  BY PositionType, StateType
<1> HIDE DEF s
<1>2. Position(s) = Position(d)
  BY <1>1 DEF Position
<1>3. \A i \in Entries : InBatch(s, i) <=> InBatch(d, i)
  BY <1>1, <1>2 DEF InBatch
<1>4. ASSUME NEW v \in ProviderIdx, NEW i \in Entries
      PROVE  Fits(s, v, i)
  <2>1. Fits(d, v, i)
    BY DEF Faithful
  <2> QED
    BY <1>1, <1>2, <1>3, <2>1 DEF Fits
<1>5. Faithful(s)
  BY <1>1, <1>2, <1>4 DEF Faithful
<1> QED
  BY <1>5 DEF s

(* Every provider has the batch: the cursor may pass it. *)
LEMMA FinishedIsFaithful ==
    ASSUME RelayTypeOK, NEW d \in States, Faithful(d), d.pending # 0, ProviderIdx \subseteq d.done
    PROVE  Faithful(State(d.since, d.pending, 0, {}))
<1> DEFINE s == State(d.since, d.pending, 0, {})
<1>1. /\ s \in States /\ s.since = d.since /\ s.cursor = d.pending /\ s.pending = 0 /\ s.done = {}
  BY PositionType, StateType, Sizes
<1> HIDE DEF s
<1>2. Position(s) = d.pending /\ Position(d) < d.pending
  BY <1>1 DEF Position, Faithful
<1>3. Position(d) \in Nat /\ d.pending \in Nat /\ d.since \in Nat
  BY PositionType, BoundsAssumption
<1>4. ASSUME NEW v \in ProviderIdx, NEW i \in Entries
      PROVE  Fits(s, v, i)
  <2>1. Fits(d, v, i) /\ v \in d.done /\ i \in Nat /\ i # 0
    BY Sizes DEF Faithful, Entries
  <2>2. copies[v][i] \in Nat
    BY DEF RelayTypeOK
  <2> QED
    BY <1>1, <1>2, <1>3, <2>1, <2>2 DEF Fits, InBatch
<1>5. Faithful(s)
  BY <1>1, <1>2, <1>3, <1>4, Sizes DEF Faithful
<1> QED
  BY <1>5 DEF s

LEMMA BatchEndIs ==
    ASSUME RelayTypeOK, NEW d \in States, Len(journal) > Position(d)
    PROVE  /\ BatchEnd(d) \in 1 .. MaxEntries /\ BatchEnd(d) <= Len(journal)
           /\ Position(d) < BatchEnd(d)
<1>1. Position(d) \in Nat /\ Len(journal) \in Nat /\ Len(journal) <= MaxEntries
  BY PositionType, BoundsAssumption DEF RelayTypeOK
<1> QED
  BY <1>1, BatchAssumption, BoundsAssumption DEF BatchEnd

(* The entries just read are pending, or passed without an event in them.  *)
LEMMA ReadIsFaithful ==
    ASSUME RelayTypeOK, NEW d \in States, Faithful(d), d.pending = 0, Len(journal) > Position(d)
    PROVE  AfterRead(d, BatchEnd(d)) \in States /\ Faithful(AfterRead(d, BatchEnd(d)))
<1>0. PICK end \in 1 .. MaxEntries : end = BatchEnd(d)
  BY BatchEndIs
<1>1. /\ Position(d) < end /\ end <= Len(journal) /\ end \in Nat /\ end # 0
      /\ end \in 0 .. MaxEntries
  BY <1>0, BatchEndIs, BoundsAssumption
<1>2. Position(d) \in Nat /\ d.since \in Nat /\ relayFaults \in Nat /\ Len(journal) \in Nat
  BY PositionType, BoundsAssumption DEF RelayTypeOK
<1>3. ASSUME NEW v \in ProviderIdx, NEW i \in Entries
      PROVE  /\ Fits(d, v, i) /\ i \in Nat /\ i # 0 /\ copies[v][i] \in Nat
             /\ Position(d) < i => copies[v][i] = 0
  <2>1. Fits(d, v, i) /\ i \in Nat /\ i # 0
    BY Sizes DEF Faithful, Entries
  <2>2. ~InBatch(d, i)
    BY <1>2, <2>1 DEF InBatch
  <2>3. copies[v][i] \in Nat
    BY DEF RelayTypeOK
  <2> QED
    BY <2>1, <2>2, <2>3 DEF Fits
<1>4. CASE HasEvent(Position(d), end)
  <2> DEFINE s == State(d.since, d.cursor, end, {})
  <2>1. /\ s \in States /\ s.since = d.since /\ s.cursor = d.cursor /\ s.pending = end
        /\ s.done = {}
    BY <1>1, PositionType, StateType
  <2>2. AfterRead(d, end) = s
    BY <1>4 DEF AfterRead
  <2> HIDE DEF s
  <2>3. Position(s) = Position(d)
    BY <2>1 DEF Position
  <2>4. ASSUME NEW v \in ProviderIdx, NEW i \in Entries
        PROVE  Fits(s, v, i)
    BY <1>1, <1>2, <1>3, <2>1, <2>3 DEF Fits, InBatch
  <2>5. Faithful(s)
    BY <1>1, <2>1, <2>3, <2>4 DEF Faithful
  <2> QED
    BY <1>0, <2>1, <2>2, <2>5
<1>5. CASE ~HasEvent(Position(d), end)
  <2> DEFINE s == State(d.since, end, 0, {})
  <2>1. /\ s \in States /\ s.since = d.since /\ s.cursor = end /\ s.pending = 0 /\ s.done = {}
    BY <1>1, PositionType, StateType, Sizes
  <2>2. AfterRead(d, end) = s
    BY <1>5 DEF AfterRead
  <2> HIDE DEF s
  <2>3. Position(s) = end
    BY <1>1, <2>1 DEF Position
  <2>4. \A i \in Entries : Position(d) < i /\ i <= end => journal[i] # "event"
    BY <1>1, <1>2, <1>5, Sizes DEF HasEvent
  <2>5. ASSUME NEW v \in ProviderIdx, NEW i \in Entries
        PROVE  Fits(s, v, i)
    BY <1>1, <1>2, <1>3, <2>1, <2>3, <2>4 DEF Fits, InBatch
  <2>6. Faithful(s)
    BY <1>1, <1>2, <2>1, <2>3, <2>5, Sizes DEF Faithful
  <2> QED
    BY <1>0, <2>1, <2>2, <2>6
<1> QED
  BY <1>4, <1>5

-----------------------------------------------------------------------------
(* Steps that leave the providers alone keep a state faithful, if no       *)
(* acknowledged message is forgotten without a fault.                      *)
LEMMA FaithfulStays ==
    ASSUME RelayTypeOK, RelayTypeOK', NEW s \in States, Faithful(s),
           Len(journal) <= Len(journal'), \A i \in 1 .. Len(journal) : journal'[i] = journal[i],
           copies' = copies, relayFaults <= relayFaults',
           \A v \in ProviderIdx \ s.done : Unrecorded(v) => Unrecorded(v)' \/ relayFaults < relayFaults'
    PROVE  Faithful(s)'
<1>1. Len(journal) \in Nat /\ Len(journal') \in Nat /\ relayFaults \in Nat /\ relayFaults' \in Nat
  BY BoundsAssumption DEF RelayTypeOK
<1>2. /\ Position(s) \in Nat /\ s.since \in Nat /\ s.cursor \in Nat /\ s.pending \in Nat
  BY PositionType, BoundsAssumption
<1>3. Position(s) <= Len(journal)
  BY DEF Position, Faithful
<1>4. ASSUME NEW v \in ProviderIdx, NEW i \in Entries
      PROVE  Fits(s, v, i)'
  <2>1. Fits(s, v, i) /\ i \in Nat /\ i # 0 /\ copies[v][i] \in Nat
    <3>1. Fits(s, v, i) /\ i \in Nat /\ i # 0
      BY Sizes DEF Faithful, Entries
    <3>2. copies[v][i] \in Nat
      BY DEF RelayTypeOK
    <3> QED
      BY <3>1, <3>2
  <2>2. i <= Position(s) => journal'[i] = journal[i]
    BY <1>1, <1>2, <1>3, <2>1
  <2>3. copies'[v][i] <= 1 + relayFaults'
    BY <1>1, <2>1 DEF Fits
  <2>4. InBatch(s, i) /\ v \notin s.done => copies'[v][i] <= relayFaults' \/ Unrecorded(v)'
    BY <1>1, <2>1 DEF Fits
  <2> QED
    BY <2>1, <2>2, <2>3, <2>4 DEF Fits, Position, InBatch
<1>5. s.since <= Len(journal') /\ s.cursor <= Len(journal') /\ s.pending <= Len(journal')
  BY <1>1, <1>2 DEF Faithful
<1> QED
  BY <1>4, <1>5 DEF Faithful, Position

LEMMA OnDiskStays ==
    ASSUME RelayTypeOK, RelayTypeOK', OnDisk, UNCHANGED <<file, disk, copies>>,
           Len(journal) <= Len(journal'), \A i \in 1 .. Len(journal) : journal'[i] = journal[i],
           relayFaults <= relayFaults',
           \A v \in ProviderIdx : Unrecorded(v) => Unrecorded(v)' \/ relayFaults < relayFaults'
    PROVE  OnDisk'
<1>1. PICK d \in States : d = disk
  BY DEF RelayTypeOK
<1>2. CASE file
  <2>1. Faithful(d)
    BY <1>1, <1>2 DEF OnDisk
  <2>2. Faithful(d)'
    BY <2>1, FaithfulStays
  <2> QED
    BY <1>1, <1>2, <2>2 DEF OnDisk
<1>3. CASE ~file
  BY <1>3 DEF OnDisk
<1> QED
  BY <1>2, <1>3

(* A save puts a faithful state on disk, or fails before or after it did.  *)
LEMMA SaveKeepsDisk ==
    ASSUME RelayTypeOK, RelayTypeOK', OnDisk, NEW s \in States, Faithful(s), UNCHANGED env,
           \A v \in ProviderIdx \ s.done : Unrecorded(v) => relayFaults < relayFaults',
           \/ disk' = s /\ file' = TRUE /\ UNCHANGED relayFaults
           \/ relayFaults' = relayFaults + 1 /\ UNCHANGED <<file, disk>>
           \/ relayFaults' = relayFaults + 1 /\ disk' = s /\ file' = TRUE
    PROVE  OnDisk'
<1>1. relayFaults \in Nat
  BY BoundsAssumption DEF RelayTypeOK
<1>2. CASE disk' = s /\ file' = TRUE
  <2>1. Faithful(s)'
    BY <1>1, FaithfulStays DEF env
  <2> QED
    BY <1>2, <2>1 DEF OnDisk
<1>3. CASE relayFaults' = relayFaults + 1 /\ UNCHANGED <<file, disk>>
  BY <1>1, <1>3, OnDiskStays DEF env
<1> QED
  BY <1>2, <1>3

-----------------------------------------------------------------------------
(* Only one relay is on. *)
LEMMA Alone ==
    ASSUME Locked, RelayTypeOK, NEW p \in Procs, pc[p] # "off" \/ LockIsFree
    PROVE  \A q \in Procs \ {p} : pc[q] = "off"
BY ProcsAssumption DEF Locked, LockIsFree

LEMMA NoneUnrecorded ==
    ASSUME Locked, RelayTypeOK, NEW p \in Procs, pc[p] # "off" \/ LockIsFree, pc[p] # "sent",
           NEW v \in ProviderIdx
    PROVE  ~Unrecorded(v)
BY Alone DEF Unrecorded

(* The three ways a process moves, and what they keep. *)
LEMMA ExitKeeps ==
    ASSUME Locked, InLoop, RelayTypeOK, NEW p \in Procs, pc[p] # "off" \/ LockIsFree, Exit(p)
    PROVE  /\ Locked' /\ InLoop'
           /\ lock' \in Procs \cup {NoProc}
           /\ pc' \in [Procs -> {"off", "deliver", "sent", "read"}] /\ mem' \in [Procs -> States]
           /\ idx' \in [Procs -> 1 .. Len(RelayProviders) + 1] /\ failed' \in [Procs -> BOOLEAN]
<1>1. Blank \in States
  BY Sizes, StateType DEF Blank
<1>2. /\ pc' \in [Procs -> {"off", "deliver", "sent", "read"}] /\ mem' \in [Procs -> States]
      /\ idx' \in [Procs -> 1 .. Len(RelayProviders) + 1] /\ failed' \in [Procs -> BOOLEAN]
  BY <1>1, Sizes DEF Exit, RelayTypeOK
<1>3. \A q \in Procs : pc'[q] = "off"
  BY Alone DEF Exit, RelayTypeOK
<1> QED
  BY <1>2, <1>3, ProcsAssumption DEF Exit, Locked, InLoop

LEMMA SaveKeeps ==
    ASSUME Locked, InLoop, RelayTypeOK, NEW p \in Procs, pc[p] # "off" \/ LockIsFree, lock' = p,
           NEW s \in States, NEW step \in {"deliver", "read"},
           NEW i \in 1 .. Len(RelayProviders) + 1, NEW f \in BOOLEAN,
           mem' = [mem EXCEPT ![p] = s], disk' = s, file' = TRUE, Goto(p, step, i, f),
           step = "read" => s.pending = 0,
           step = "deliver" /\ ~f =>
              \A v \in ProviderIdx : v < i => v \in s.done \/ s.pending = 0
    PROVE  /\ Locked' /\ InLoop'
           /\ pc' \in [Procs -> {"off", "deliver", "sent", "read"}] /\ mem' \in [Procs -> States]
           /\ idx' \in [Procs -> 1 .. Len(RelayProviders) + 1] /\ failed' \in [Procs -> BOOLEAN]
<1>1. /\ pc' \in [Procs -> {"off", "deliver", "sent", "read"}] /\ mem' \in [Procs -> States]
      /\ idx' \in [Procs -> 1 .. Len(RelayProviders) + 1] /\ failed' \in [Procs -> BOOLEAN]
  BY DEF Goto, RelayTypeOK
<1>2. /\ \A q \in Procs \ {p} : pc'[q] = "off"
      /\ pc'[p] = step /\ mem'[p] = s /\ idx'[p] = i /\ failed'[p] = f
  BY Alone DEF Goto, RelayTypeOK
<1>3. Locked'
  BY <1>2 DEF Locked
<1>4. InLoop'
  BY <1>2 DEF InLoop
<1> QED
  BY <1>1, <1>3, <1>4

LEMMA GotoKeeps ==
    ASSUME Locked, InLoop, RelayTypeOK, NEW p \in Procs, pc[p] # "off",
           NEW step \in {"deliver", "sent", "read"},
           NEW i \in 1 .. Len(RelayProviders) + 1, NEW f \in BOOLEAN,
           Goto(p, step, i, f), UNCHANGED <<file, disk, lock, mem>>,
           step = "read" => mem[p].pending = 0,
           step = "sent" =>
              i \in ProviderIdx /\ \A e \in Entries : InBatch(mem[p], e) => copies'[i][e] >= 1,
           step \in {"deliver", "sent"} /\ ~f =>
              \A v \in ProviderIdx : v < i => v \in mem[p].done \/ mem[p].pending = 0
    PROVE  /\ Locked' /\ InLoop'
           /\ pc' \in [Procs -> {"off", "deliver", "sent", "read"}]
           /\ idx' \in [Procs -> 1 .. Len(RelayProviders) + 1] /\ failed' \in [Procs -> BOOLEAN]
<1>1. /\ pc' \in [Procs -> {"off", "deliver", "sent", "read"}]
      /\ idx' \in [Procs -> 1 .. Len(RelayProviders) + 1] /\ failed' \in [Procs -> BOOLEAN]
  BY DEF Goto, RelayTypeOK
<1>2. /\ \A q \in Procs \ {p} : pc'[q] = "off"
      /\ pc'[p] = step /\ idx'[p] = i /\ failed'[p] = f
  BY Alone DEF Goto, RelayTypeOK
<1>3. Locked'
  BY <1>2 DEF Locked
<1>4. InLoop'
  <2>1. PICK m \in States : m = mem[p]
    BY DEF RelayTypeOK
  <2>2. mem'[p] = m
    BY <2>1
  <2>3. step = "sent" => \A e \in Entries : InBatch(m, e) => copies'[i][e] >= 1
    BY <2>1
  <2> QED
    BY <1>2, <2>1, <2>2, <2>3 DEF InLoop, InBatch, Position
<1> QED
  BY <1>1, <1>3, <1>4

(* What the delivery of a batch adds. *)
LEMMA ReceiveAdds ==
    ASSUME RelayTypeOK, NEW d \in States, NEW u \in ProviderIdx, Receive(u, d)
    PROVE  /\ copies' \in [ProviderIdx -> [Entries -> Nat]]
           /\ \A v \in ProviderIdx, i \in Entries :
                 copies'[v][i] = IF v = u /\ InBatch(d, i) THEN copies[v][i] + 1
                                                           ELSE copies[v][i]
<1>1. \A v \in ProviderIdx, i \in Entries : copies[v][i] \in Nat
  BY DEF RelayTypeOK
<1>2. PICK c \in [Entries -> Nat] :
         c = [i \in Entries |-> copies[u][i] + (IF InBatch(d, i) THEN 1 ELSE 0)]
  <2>1. \A i \in Entries : copies[u][i] + (IF InBatch(d, i) THEN 1 ELSE 0) \in Nat
    BY <1>1
  <2>2. [i \in Entries |-> copies[u][i] + (IF InBatch(d, i) THEN 1 ELSE 0)] \in [Entries -> Nat]
    BY <2>1
  <2> QED
    BY <2>2, Zenon
<1>3. copies' = [copies EXCEPT ![u] = c]
  BY <1>2 DEF Receive
<1>4. \A i \in Entries : c[i] = IF InBatch(d, i) THEN copies[u][i] + 1 ELSE copies[u][i]
  BY <1>1, <1>2
<1> QED
  BY <1>3, <1>4 DEF RelayTypeOK

-----------------------------------------------------------------------------
(* Every step preserves the invariant: the journal, then the steps of a    *)
(* relay one by one.                                                       *)

LEMMA AppendStep ==
    ASSUME RelayInv, NEW kind \in {"event", "noise"}, Append1(kind)
    PROVE  RelayInv'
<1> USE DEF RelayInv
<1>1. Len(journal') = Len(journal) + 1 /\ Len(journal) \in Nat
  BY DEF Append1, RelayTypeOK
<1>2. \A i \in 1 .. Len(journal) : journal'[i] = journal[i]
  BY DEF Append1, RelayTypeOK
<1>3. journal' \in Seq({"event", "noise"}) /\ Len(journal') <= MaxEntries
  BY <1>1, BoundsAssumption DEF Append1, RelayTypeOK
<1>4. RelayTypeOK'
  BY <1>3 DEF Append1, RelayTypeOK
<1>5. Locked' /\ InLoop'
  BY DEF Append1, Locked, InLoop
<1>6. OnDisk'
  <2>1. relayFaults \in Nat /\ relayFaults' = relayFaults /\ UNCHANGED <<file, disk, copies>>
    BY BoundsAssumption DEF Append1, RelayTypeOK
  <2>2. \A v \in ProviderIdx : Unrecorded(v) => Unrecorded(v)'
    BY DEF Append1, Unrecorded
  <2> QED
    BY <1>1, <1>2, <1>4, <2>1, <2>2, OnDiskStays
<1> QED
  BY <1>4, <1>5, <1>6

(* A save that fails ends the process, whatever is on disk then.           *)
LEMMA SaveFailsStep ==
    ASSUME RelayInv, NEW p \in Procs, pc[p] # "off" \/ LockIsFree,
           NEW s \in States, Faithful(s), SaveFails(p, s), UNCHANGED env
    PROVE  RelayInv'
<1> USE DEF RelayInv
<1>1. /\ Locked' /\ InLoop' /\ lock' \in Procs \cup {NoProc}
      /\ pc' \in [Procs -> {"off", "deliver", "sent", "read"}] /\ mem' \in [Procs -> States]
      /\ idx' \in [Procs -> 1 .. Len(RelayProviders) + 1] /\ failed' \in [Procs -> BOOLEAN]
  BY ExitKeeps DEF SaveFails
<1>2. relayFaults \in Nat /\ relayFaults' = relayFaults + 1 /\ relayFaults' \in 0 .. MaxRelayFaults
  BY BoundsAssumption DEF SaveFails, RelayTypeOK
<1>3. file' \in BOOLEAN /\ disk' \in States
  <2>1. file \in BOOLEAN /\ disk \in States
    BY DEF RelayTypeOK
  <2>2. (file' = file /\ disk' = disk) \/ (file' = TRUE /\ disk' = s)
    BY DEF SaveFails
  <2> QED
    BY <2>1, <2>2
<1>4. RelayTypeOK'
  BY <1>1, <1>2, <1>3 DEF RelayTypeOK, env
<1>5. OnDisk'
  <2>1. relayFaults < relayFaults'
    BY <1>2
  <2>2. \/ UNCHANGED <<file, disk>>
        \/ disk' = s /\ file' = TRUE
    BY DEF SaveFails
  <2> QED
    BY <1>2, <1>4, <2>1, <2>2, SaveKeepsDisk
<1> QED
  BY <1>1, <1>4, <1>5

(* A save that succeeds, and what Watch does next.                         *)
LEMMA SaveStep ==
    ASSUME RelayInv, NEW p \in Procs, pc[p] # "off" \/ LockIsFree, lock' = p,
           NEW s \in States, Faithful(s), NEW step \in {"deliver", "read"},
           NEW i \in 1 .. Len(RelayProviders) + 1, NEW f \in BOOLEAN,
           SaveAndGoto(p, s, step, i, f), UNCHANGED env,
           \A v \in ProviderIdx \ s.done : ~Unrecorded(v),
           step = "read" => s.pending = 0,
           step = "deliver" /\ ~f =>
              \A v \in ProviderIdx : v < i => v \in s.done \/ s.pending = 0
    PROVE  RelayInv'
<1> USE DEF RelayInv
<1>1. /\ Locked' /\ InLoop'
      /\ pc' \in [Procs -> {"off", "deliver", "sent", "read"}] /\ mem' \in [Procs -> States]
      /\ idx' \in [Procs -> 1 .. Len(RelayProviders) + 1] /\ failed' \in [Procs -> BOOLEAN]
  BY SaveKeeps DEF SaveAndGoto
<1>2. file' = TRUE /\ disk' = s /\ UNCHANGED relayFaults
  BY DEF SaveAndGoto
<1>3. RelayTypeOK'
  BY <1>1, <1>2 DEF RelayTypeOK, env
<1>4. OnDisk'
  BY <1>2, <1>3, SaveKeepsDisk
<1> QED
  BY <1>1, <1>3, <1>4

LEMMA StartStep ==
    ASSUME RelayInv, NEW p \in Procs, Start(p)
    PROVE  RelayInv'
<1> USE DEF RelayInv
<1>1. PICK s \in States : s = Loaded /\ Faithful(s)
  <2>1. CASE file
    <3>1. PICK d \in States : d = disk
      BY DEF RelayTypeOK
    <3>2. Faithful(d)
      BY <2>1, <3>1 DEF OnDisk
    <3> QED
      BY <2>1, <3>1, <3>2 DEF Loaded
  <2>2. CASE ~file
    <3>1. Len(journal) \in 0 .. MaxEntries
      BY BoundsAssumption DEF RelayTypeOK
    <3>2. State(Len(journal), 0, 0, {}) \in States
      BY <3>1, Sizes, StateType
    <3>3. Faithful(State(Len(journal), 0, 0, {}))
      BY <2>2, FreshIsFaithful DEF OnDisk
    <3> QED
      BY <2>2, <3>2, <3>3 DEF Loaded
  <2> QED
    BY <2>1, <2>2
<1>2. LockIsFree /\ pc[p] = "off" /\ UNCHANGED env
  BY DEF Start
<1>3. \A v \in ProviderIdx : ~Unrecorded(v)
  BY <1>2, NoneUnrecorded
<1>4. CASE SaveAndGoto(p, Loaded, "deliver", 1, FALSE) /\ lock' = p
  <2>1. SaveAndGoto(p, s, "deliver", 1, FALSE)
    BY <1>1, <1>4
  <2>2. \A v \in ProviderIdx : ~(v < 1)
    BY DEF ProviderIdx
  <2> QED
    BY <1>1, <1>2, <1>3, <1>4, <2>1, <2>2, Sizes, SaveStep
<1>5. CASE SaveFails(p, Loaded)
  BY <1>1, <1>2, <1>5, SaveFailsStep
<1> QED
  BY <1>4, <1>5 DEF Start

(* What a process that is on has in memory is on disk, and faithful. *)
LEMMA InMemory ==
    ASSUME RelayInv, NEW p \in Procs, pc[p] # "off"
    PROVE  \E d \in States : d = mem[p] /\ d = disk /\ file /\ Faithful(d) /\ lock = p
<1>1. PICK d \in States : d = disk
  BY DEF RelayInv, RelayTypeOK
<1>2. file /\ mem[p] = disk /\ lock = p
  BY DEF RelayInv, Locked
<1>3. Faithful(d)
  BY <1>1, <1>2 DEF RelayInv, OnDisk
<1> QED
  BY <1>1, <1>2, <1>3

LEMMA RecordSentStep ==
    ASSUME RelayInv, NEW p \in Procs, RecordSent(p)
    PROVE  RelayInv'
<1> USE DEF RelayInv
<1>1. pc[p] = "sent" /\ UNCHANGED env
  BY DEF RecordSent
<1>2. PICK d \in States : d = mem[p] /\ d = disk /\ file /\ Faithful(d) /\ lock = p
  BY <1>1, InMemory
<1>3. PICK u \in ProviderIdx : u = idx[p] /\ \A i \in Entries : InBatch(d, i) => copies[u][i] >= 1
  BY <1>1, <1>2 DEF InLoop
<1>4. PICK s \in States : s = State(d.since, d.cursor, d.pending, d.done \cup {u})
  BY PositionType, StateType
<1>5. Faithful(s)
  BY <1>2, <1>3, <1>4, RecordedIsFaithful
<1>6. s.done = d.done \cup {u} /\ s.pending = d.pending
  BY <1>4 DEF State
<1>7. \A v \in ProviderIdx \ s.done : ~Unrecorded(v)
  BY <1>1, <1>3, <1>6, Alone DEF Unrecorded
<1>8. CASE SaveAndGoto(p, s, "deliver", u + 1, failed[p]) /\ UNCHANGED lock
  <2>1. u + 1 \in 1 .. Len(RelayProviders) + 1 /\ failed[p] \in BOOLEAN /\ u \in Nat
    BY Sizes DEF RelayTypeOK
  <2>2. ~failed[p] => \A v \in ProviderIdx : v < u + 1 => v \in s.done \/ s.pending = 0
    <3>1. ~failed[p] => \A v \in ProviderIdx : v < u => v \in d.done \/ d.pending = 0
      BY <1>1, <1>2, <1>3 DEF InLoop
    <3>2. \A v \in ProviderIdx : v < u + 1 => v < u \/ v = u
      BY <2>1, Sizes
    <3> QED
      BY <1>6, <3>1, <3>2
  <2>3. PICK f \in BOOLEAN : f = failed[p]
    BY <2>1
  <2>4. SaveAndGoto(p, s, "deliver", u + 1, f)
    BY <1>8, <2>3
  <2>5. lock' = p
    BY <1>2, <1>8
  <2> QED
    BY <1>1, <1>5, <1>7, <2>1, <2>2, <2>3, <2>4, <2>5, SaveStep
<1>9. CASE SaveFails(p, s)
  BY <1>1, <1>5, <1>9, SaveFailsStep
<1> QED
  BY <1>2, <1>3, <1>4, <1>8, <1>9 DEF RecordSent

LEMMA FinishBatchStep ==
    ASSUME RelayInv, NEW p \in Procs, FinishBatch(p)
    PROVE  RelayInv'
<1> USE DEF RelayInv
<1>1. /\ pc[p] = "deliver" /\ mem[p].pending # 0 /\ idx[p] > Len(RelayProviders) /\ ~failed[p]
      /\ UNCHANGED env
  BY DEF FinishBatch, AllDelivered
<1>2. PICK d \in States : d = mem[p] /\ d = disk /\ file /\ Faithful(d) /\ lock = p
  BY <1>1, InMemory
<1>3. ProviderIdx \subseteq d.done
  <2>1. \A v \in ProviderIdx : v < idx[p]
    BY <1>1, Sizes DEF ProviderIdx, RelayTypeOK
  <2> QED
    BY <1>1, <1>2, <2>1 DEF InLoop
<1>4. PICK s \in States : s = State(d.since, d.pending, 0, {}) /\ s.pending = 0
  <2>1. {} \in SUBSET ProviderIdx
    OBVIOUS
  <2> QED
    BY <2>1, Sizes, PositionType, StateType
<1>5. Faithful(s)
  BY <1>1, <1>2, <1>3, <1>4, FinishedIsFaithful
<1>6. s.pending = 0
  BY <1>4
<1>7. \A v \in ProviderIdx : ~Unrecorded(v)
  BY <1>1, NoneUnrecorded
<1>8. CASE SaveAndGoto(p, s, "read", 1, FALSE) /\ UNCHANGED lock
  <2>1. lock' = p
    BY <1>2, <1>8
  <2> QED
    BY <1>1, <1>5, <1>6, <1>7, <1>8, <2>1, Sizes, SaveStep
<1>9. CASE SaveFails(p, s)
  BY <1>1, <1>5, <1>9, SaveFailsStep
<1> QED
  BY <1>2, <1>4, <1>8, <1>9 DEF FinishBatch

LEMMA ReadEntriesStep ==
    ASSUME RelayInv, NEW p \in Procs, ReadEntries(p)
    PROVE  RelayInv'
<1> USE DEF RelayInv
<1>1. pc[p] = "read" /\ Len(journal) > Position(mem[p]) /\ UNCHANGED env
  BY DEF ReadEntries
<1>2. PICK d \in States : d = mem[p] /\ d = disk /\ file /\ Faithful(d) /\ lock = p
  BY <1>1, InMemory
<1>3. d.pending = 0
  BY <1>1, <1>2 DEF InLoop
<1>4. PICK s \in States : s = AfterRead(d, BatchEnd(d)) /\ Faithful(s)
  BY <1>1, <1>2, <1>3, ReadIsFaithful
<1>5. \A v \in ProviderIdx : ~Unrecorded(v)
  BY <1>1, NoneUnrecorded
<1>6. CASE SaveAndGoto(p, s, "deliver", 1, FALSE) /\ UNCHANGED lock
  <2>1. lock' = p
    BY <1>2, <1>6
  <2>2. \A v \in ProviderIdx : ~(v < 1)
    BY DEF ProviderIdx
  <2> QED
    BY <1>1, <1>4, <1>5, <1>6, <2>1, <2>2, Sizes, SaveStep
<1>7. CASE SaveFails(p, s)
  BY <1>1, <1>4, <1>7, SaveFailsStep
<1> QED
  BY <1>2, <1>4, <1>6, <1>7 DEF ReadEntries

(* The steps that end the process without a save. *)
LEMMA ExitStep ==
    ASSUME RelayInv, NEW p \in Procs, GiveUp(p) \/ ReadFails(p) \/ Crash(p)
    PROVE  RelayInv'
<1> USE DEF RelayInv
<1>1. /\ pc[p] # "off" /\ Exit(p) /\ UNCHANGED <<env, file, disk>>
      /\ \/ relayFaults' = relayFaults /\ pc[p] # "sent"
         \/ relayFaults < MaxRelayFaults /\ relayFaults' = relayFaults + 1
  BY DEF GiveUp, ReadFails, Crash
<1>2. /\ Locked' /\ InLoop' /\ lock' \in Procs \cup {NoProc}
      /\ pc' \in [Procs -> {"off", "deliver", "sent", "read"}] /\ mem' \in [Procs -> States]
      /\ idx' \in [Procs -> 1 .. Len(RelayProviders) + 1] /\ failed' \in [Procs -> BOOLEAN]
  BY <1>1, ExitKeeps
<1>3. relayFaults \in Nat /\ relayFaults' \in 0 .. MaxRelayFaults /\ relayFaults <= relayFaults' /\ Len(journal) \in Nat
  BY <1>1, BoundsAssumption DEF RelayTypeOK
<1>4. RelayTypeOK'
  BY <1>1, <1>2, <1>3 DEF RelayTypeOK, env
<1>5. \A v \in ProviderIdx : Unrecorded(v) => relayFaults < relayFaults'
  BY <1>1, <1>3, NoneUnrecorded
<1>6. OnDisk'
  BY <1>1, <1>3, <1>4, <1>5, OnDiskStays DEF env
<1> QED
  BY <1>2, <1>4, <1>6

(* The steps that only move on in the loop. *)
LEMMA MoveStep ==
    ASSUME RelayInv, NEW p \in Procs, SkipDelivered(p) \/ NothingPending(p)
    PROVE  RelayInv'
<1> USE DEF RelayInv
<1>1. pc[p] = "deliver" /\ UNCHANGED <<env, file, disk, lock, mem, relayFaults>>
  BY DEF SkipDelivered, NothingPending, AtProvider
<1>2. /\ Locked' /\ InLoop'
      /\ pc' \in [Procs -> {"off", "deliver", "sent", "read"}]
      /\ idx' \in [Procs -> 1 .. Len(RelayProviders) + 1] /\ failed' \in [Procs -> BOOLEAN]
  <2>1. CASE SkipDelivered(p)
    <3>1. PICK u \in ProviderIdx, f \in BOOLEAN : u = idx[p] /\ f = failed[p]
      BY <2>1 DEF SkipDelivered, AtProvider, RelayTypeOK
    <3>2. Goto(p, "deliver", u + 1, f) /\ u + 1 \in 1 .. Len(RelayProviders) + 1 /\ u \in Nat
      BY <2>1, <3>1, Sizes DEF SkipDelivered
    <3>3. ~f => \A v \in ProviderIdx : v < u + 1 => v \in mem[p].done \/ mem[p].pending = 0
      <4>1. ~f => \A v \in ProviderIdx : v < u => v \in mem[p].done \/ mem[p].pending = 0
        BY <1>1, <3>1 DEF InLoop
      <4>2. u \in mem[p].done
        BY <2>1, <3>1 DEF SkipDelivered
      <4>3. \A v \in ProviderIdx : v < u + 1 => v < u \/ v = u
        BY <3>2, Sizes
      <4> QED
        BY <4>1, <4>2, <4>3
    <3> QED
      BY <1>1, <3>1, <3>2, <3>3, GotoKeeps
  <2>2. CASE NothingPending(p)
    BY <1>1, <2>2, Sizes, GotoKeeps DEF NothingPending
  <2> QED
    BY <2>1, <2>2
<1>3. RelayTypeOK'
  BY <1>1, <1>2 DEF RelayTypeOK, env
<1>4. relayFaults \in Nat /\ Len(journal) \in Nat
  BY BoundsAssumption DEF RelayTypeOK
<1>5. \A v \in ProviderIdx : ~Unrecorded(v)
  BY <1>1, NoneUnrecorded
<1>6. OnDisk'
  <2>1. UNCHANGED <<journal, file, disk, copies>> /\ relayFaults <= relayFaults'
    BY <1>1, <1>4 DEF env
  <2> QED
    BY <1>3, <1>4, <1>5, <2>1, OnDiskStays
<1> QED
  BY <1>2, <1>3, <1>6

(* A message goes out; the provider has it, and nothing on disk says so.   *)
LEMMA SendOKStep ==
    ASSUME RelayInv, NEW p \in Procs, SendOK(p)
    PROVE  RelayInv'
<1> USE DEF RelayInv
<1>1. /\ pc[p] = "deliver" /\ idx[p] \notin mem[p].done /\ mem[p].pending # 0
      /\ UNCHANGED <<journal, file, disk, lock, mem, relayFaults>>
  BY DEF SendOK, AtProvider
<1>2. PICK d \in States : d = mem[p] /\ d = disk /\ file /\ Faithful(d) /\ lock = p
  BY <1>1, InMemory
<1>3. PICK u \in ProviderIdx, f \in BOOLEAN : u = idx[p] /\ f = failed[p]
  BY DEF SendOK, AtProvider, RelayTypeOK
<1>4. Receive(u, d) /\ Goto(p, "sent", u, f)
  BY <1>2, <1>3 DEF SendOK
<1>5. /\ copies' \in [ProviderIdx -> [Entries -> Nat]]
      /\ \A v \in ProviderIdx, i \in Entries :
            copies'[v][i] = IF v = u /\ InBatch(d, i) THEN copies[v][i] + 1 ELSE copies[v][i]
  BY <1>4, ReceiveAdds
<1>6. \A v \in ProviderIdx, i \in Entries : copies[v][i] \in Nat
  BY DEF RelayTypeOK
<1>7. /\ Locked' /\ InLoop'
      /\ pc' \in [Procs -> {"off", "deliver", "sent", "read"}]
      /\ idx' \in [Procs -> 1 .. Len(RelayProviders) + 1] /\ failed' \in [Procs -> BOOLEAN]
  <2>1. u \in 1 .. Len(RelayProviders) + 1
    BY Sizes
  <2>2. ~f => \A v \in ProviderIdx : v < u => v \in mem[p].done \/ mem[p].pending = 0
    BY <1>1, <1>3 DEF InLoop
  <2>3. \A e \in Entries : InBatch(mem[p], e) => copies'[u][e] >= 1
    BY <1>2, <1>5, <1>6
  <2> QED
    BY <1>1, <1>4, <2>1, <2>2, <2>3, GotoKeeps
<1>8. RelayTypeOK'
  BY <1>1, <1>5, <1>7 DEF RelayTypeOK
<1>9. Unrecorded(u)' /\ \A v \in ProviderIdx : ~Unrecorded(v)
  <2>1. pc'[p] = "sent" /\ idx'[p] = u
    BY <1>4 DEF Goto, RelayTypeOK
  <2> QED
    BY <1>1, <2>1, NoneUnrecorded DEF Unrecorded
<1>10. ASSUME NEW v \in ProviderIdx, NEW i \in Entries
       PROVE  Fits(d, v, i)'
  <2>1. /\ Fits(d, v, i) /\ copies[v][i] \in Nat /\ relayFaults \in Nat /\ i \in Nat
        /\ journal' = journal /\ relayFaults' = relayFaults
        /\ copies'[v][i] = IF v = u /\ InBatch(d, i) THEN copies[v][i] + 1 ELSE copies[v][i]
    BY <1>1, <1>2, <1>5, <1>6, Sizes, BoundsAssumption DEF Faithful, RelayTypeOK
  <2>2. u \notin d.done /\ Position(d) \in Nat
    BY <1>1, <1>2, <1>3, PositionType, BoundsAssumption
  <2>3. CASE v = u /\ InBatch(d, i)
    BY <1>9, <2>1, <2>2, <2>3 DEF Fits, InBatch, Position
  <2>4. CASE ~(v = u /\ InBatch(d, i))
    BY <1>9, <2>1, <2>4 DEF Fits, InBatch, Position
  <2> QED
    BY <2>3, <2>4
<1>11. Faithful(d)'
  BY <1>1, <1>2, <1>10 DEF Faithful, Position
<1>12. OnDisk'
  BY <1>1, <1>2, <1>11 DEF OnDisk
<1> QED
  BY <1>7, <1>8, <1>12

(* The provider refused it, or has it and the acknowledgement was lost.    *)
LEMMA SendFailsStep ==
    ASSUME RelayInv, NEW p \in Procs, SendFails(p)
    PROVE  RelayInv'
<1> USE DEF RelayInv
<1>1. /\ pc[p] = "deliver" /\ idx[p] \notin mem[p].done /\ mem[p].pending # 0
      /\ UNCHANGED <<journal, file, disk, lock, mem>>
  BY DEF SendFails, AtProvider
<1>2. PICK d \in States : d = mem[p] /\ d = disk /\ file /\ Faithful(d) /\ lock = p
  BY <1>1, InMemory
<1>3. PICK u \in ProviderIdx : u = idx[p]
  BY DEF SendFails, AtProvider
<1>4. Goto(p, "deliver", u + 1, TRUE)
  BY <1>3 DEF SendFails
<1>5. /\ Locked' /\ InLoop'
      /\ pc' \in [Procs -> {"off", "deliver", "sent", "read"}]
      /\ idx' \in [Procs -> 1 .. Len(RelayProviders) + 1] /\ failed' \in [Procs -> BOOLEAN]
  <2>1. u + 1 \in 1 .. Len(RelayProviders) + 1
    BY Sizes
  <2> QED
    BY <1>1, <1>4, <2>1, GotoKeeps
<1>6. relayFaults \in Nat /\ Len(journal) \in Nat
  BY BoundsAssumption DEF RelayTypeOK
<1>7. \A v \in ProviderIdx : ~Unrecorded(v)
  BY <1>1, NoneUnrecorded
<1>8. CASE UNCHANGED <<copies, relayFaults>>
  <2>1. RelayTypeOK'
    BY <1>1, <1>5, <1>8 DEF RelayTypeOK
  <2>2. OnDisk'
    BY <1>1, <1>6, <1>7, <1>8, <2>1, OnDiskStays
  <2> QED
    BY <1>5, <2>1, <2>2
<1>9. CASE relayFaults < MaxRelayFaults /\ relayFaults' = relayFaults + 1 /\ Receive(idx[p], mem[p])
  <2>1. Receive(u, d)
    BY <1>2, <1>3, <1>9
  <2>2. /\ copies' \in [ProviderIdx -> [Entries -> Nat]]
        /\ \A v \in ProviderIdx, i \in Entries :
              copies'[v][i] = IF v = u /\ InBatch(d, i) THEN copies[v][i] + 1 ELSE copies[v][i]
    BY <2>1, ReceiveAdds
  <2>3. \A v \in ProviderIdx, i \in Entries : copies[v][i] \in Nat
    BY DEF RelayTypeOK
  <2>4. relayFaults' \in 0 .. MaxRelayFaults
    BY <1>6, <1>9, BoundsAssumption
  <2>5. RelayTypeOK'
    BY <1>1, <1>5, <2>2, <2>4 DEF RelayTypeOK
  <2>6. ASSUME NEW v \in ProviderIdx, NEW i \in Entries
        PROVE  Fits(d, v, i)'
    <3>1. /\ Fits(d, v, i) /\ copies[v][i] \in Nat /\ relayFaults \in Nat /\ i \in Nat
          /\ journal' = journal /\ relayFaults' = relayFaults + 1
          /\ copies'[v][i] = IF v = u /\ InBatch(d, i) THEN copies[v][i] + 1 ELSE copies[v][i]
      BY <1>1, <1>2, <1>6, <1>9, <2>2, <2>3, Sizes DEF Faithful
    <3>2. u \notin d.done /\ Position(d) \in Nat
      BY <1>1, <1>2, <1>3, PositionType, BoundsAssumption
    <3>3. CASE v = u /\ InBatch(d, i)
      BY <1>7, <3>1, <3>2, <3>3 DEF Fits, InBatch, Position
    <3>4. CASE ~(v = u /\ InBatch(d, i))
      BY <1>7, <3>1, <3>4 DEF Fits, InBatch, Position
    <3> QED
      BY <3>3, <3>4
  <2>7. Faithful(d)'
    BY <1>1, <1>2, <2>6 DEF Faithful, Position
  <2>8. OnDisk'
    BY <1>1, <1>2, <2>7 DEF OnDisk
  <2> QED
    BY <1>5, <2>5, <2>8
<1> QED
  BY <1>8, <1>9 DEF SendFails

LEMMA RelayAlways == RelaySpec => []RelayInv
<1>1. RelayInv /\ [RelayNext]_relayVars => RelayInv'
  <2> SUFFICES ASSUME RelayInv, [RelayNext]_relayVars PROVE RelayInv'
    OBVIOUS
  <2>1. CASE UNCHANGED relayVars
    <3>1. RelayTypeOK'
      BY <2>1 DEF RelayInv, RelayTypeOK, relayVars
    <3>2. Locked' /\ InLoop'
      BY <2>1 DEF RelayInv, Locked, InLoop, relayVars
    <3>3. \A v : Unrecorded(v) => Unrecorded(v)'
      BY <2>1 DEF Unrecorded, relayVars
    <3>4. relayFaults \in Nat /\ Len(journal) \in Nat
      BY BoundsAssumption DEF RelayInv, RelayTypeOK
    <3>5. OnDisk'
      BY <2>1, <3>1, <3>3, <3>4, OnDiskStays DEF RelayInv, relayVars
    <3> QED
      BY <3>1, <3>2, <3>5 DEF RelayInv
  <2>2. CASE \E kind \in {"event", "noise"} : Append1(kind)
    BY <2>2, AppendStep
  <2>3. CASE \E p \in Procs : Step(p) \/ Crash(p)
    BY <2>3, StartStep, MoveStep, SendOKStep, SendFailsStep, RecordSentStep, FinishBatchStep,
       ReadEntriesStep, ExitStep DEF Step, Deliver
  <2> QED
    BY <2>1, <2>2, <2>3 DEF RelayNext
<1> QED
  BY <1>1, RelayInvInit, PTL DEF RelaySpec

-----------------------------------------------------------------------------
(* No event between the first start and the cursor is passed over, and a   *)
(* provider gets no entry more often than once and once per fault.         *)
THEOREM EventsArriveInOrder == RelaySpec => []EventsOnceInOrder
<1>1. RelayInv => EventsOnceInOrder
  <2> SUFFICES ASSUME RelayInv PROVE EventsOnceInOrder
    OBVIOUS
  <2>1. RelayTypeOK
    BY DEF RelayInv
  <2>2. PICK d \in States : d = disk
    BY <2>1 DEF RelayTypeOK
  <2>3. file => Faithful(d)
    BY <2>2 DEF RelayInv, OnDisk
  <2>4. NoEventSkipped
    <3>1. ASSUME file, NEW v \in ProviderIdx, NEW i \in (d.since + 1) .. Position(d),
                 journal[i] = "event"
          PROVE  copies[v][i] >= 1
      <4>1. /\ d.since \in Nat /\ Position(d) \in Nat /\ Position(d) <= MaxEntries
            /\ MaxEntries \in Nat
        BY PositionType, BoundsAssumption
      <4>2. i \in Entries /\ d.since < i /\ i <= Position(d)
        BY <4>1 DEF Entries
      <4>3. Fits(d, v, i)
        BY <2>3, <3>1, <4>2 DEF Faithful
      <4> QED
        BY <3>1, <4>2, <4>3 DEF Fits
    <3> QED
      BY <2>2, <3>1 DEF NoEventSkipped
  <2>5. DuplicatesNeedFaults
    <3>1. ASSUME NEW v \in ProviderIdx, NEW i \in Entries
          PROVE  copies[v][i] <= 1 + relayFaults
      <4>1. CASE file
        BY <2>3, <4>1 DEF Faithful, Fits
      <4>2. CASE ~file
        BY <2>1, <4>2, BoundsAssumption DEF RelayInv, OnDisk, RelayTypeOK
      <4> QED
        BY <4>1, <4>2
    <3> QED
      BY <3>1 DEF DuplicatesNeedFaults
  <2> QED
    BY <2>1, <2>4, <2>5 DEF EventsOnceInOrder
<1> QED
  BY <1>1, RelayAlways, PTL

-----------------------------------------------------------------------------
(* The watchers.                                                           *)

Channels == ToSet(Providers)
Status == HealthStatus \cup {None}
Verdict == {"ok", "attention", "unknown"}
Result == [status : Status, age : Nat]
AlertState == [fails : 0 .. Threshold, stable : 0 .. Threshold, pending : Status, alerted : Status]
Part == {None, "unknown", "up_to_date", "update_available", "checked", "finding"}
Report == [release : Part, host : Part, inventory : Part, image : Part]
Deliveries == [Channels -> [digest : Report, alerted : BOOLEAN]]
Snapshot == [gen : Nat, mon : Verdict, monAge : Nat, sec : Verdict, secAge : Nat]

MonitorTypes ==
    /\ results \in [Targets -> Result] /\ states \in [Targets -> AlertState]
    /\ recent \in [Targets -> Seq(HealthStatus)] /\ good \in [Targets -> Nat]
    /\ mfile \in [res : [Targets -> Result], age : Nat]
SecurityTypes ==
    /\ check \in [phase : {"idle", "notify"}, report : Report, age : Nat,
                  del : Deliveries \cup {<<>>}, todo : Seq(Channels)]
    /\ check.phase = "notify" => check.del \in Deliveries
    /\ sfile \in [report : Report, age : Nat, del : Deliveries]
    /\ heard \in [Channels -> Report] /\ repeated \in BOOLEAN /\ cut \in BOOLEAN
FleetTypes ==
    snap \in Snapshot /\ cache \in [s : Snapshot, last : Nat] /\ okAge \in Nat
TypeInv == MonitorTypes /\ SecurityTypes /\ FleetTypes

(* The counters of an alert count back through the last results: Back(q, j) *)
(* is the result j before the last.                                         *)
Back(q, j) == q[Len(q) - j]
Counted(s, q) ==
    /\ Len(q) <= Threshold /\ s.fails <= Len(q) /\ s.stable <= s.fails
    /\ \A j \in 0 .. s.fails - 1 : Back(q, j) # "healthy"
    /\ s.fails < Len(q) => Back(q, s.fails) = "healthy"
    /\ \A j \in 0 .. s.stable - 1 : Back(q, j) = s.pending
    /\ s.stable < Len(q) => Back(q, s.stable) # s.pending
    /\ s.fails > 0 => s.stable > 0 /\ s.pending # "healthy"
    /\ s.alerted # None <=> s.fails = Threshold
    /\ s.stable = Threshold => s.alerted = s.pending
    /\ s.alerted # "healthy"
AlertInv == \A t \in Targets : Counted(states[t], recent[t])

(* What the last healthy check of a target may be, by what is known of it. *)
MonEvidence(s) ==
    s.mon = "ok" /\ s.monAge <= MaxAge => \A t \in Targets : good[t] <= StaleAfter + s.monAge
SecEvidence(s) ==
    s.sec = "ok" /\ s.gen <= MaxAge => Security = "ok" \/ okAge <= s.gen
ResultEvidence(t) ==
    /\ results[t].status = "healthy" /\ results[t].age <= StaleAfter => good[t] <= results[t].age
    /\ mfile.res[t].status = "healthy" /\ mfile.res[t].age <= StaleAfter /\ mfile.age <= MaxAge
          => good[t] <= StaleAfter + mfile.age
RecentInv ==
    /\ \A t \in Targets : ResultEvidence(t)
    /\ MonEvidence(snap) /\ MonEvidence(cache.s)
    /\ SecEvidence(snap) /\ SecEvidence(cache.s)

(* The deliveries say what each channel heard. *)
Told(d, report) ==
    /\ d.alerted = Calls(d.digest)
    /\ IF Calls(d.digest) THEN report = d.digest ELSE ~Calls(report)
HeardInv ==
    \/ cut
    \/ /\ ~repeated
       /\ check.phase = "idle" => \A c \in Channels : Told(sfile.del[c], heard[c])
       /\ check.phase = "notify" => \A c \in Channels : Told(check.del[c], heard[c])

WatchersInv == TypeInv /\ AlertInv /\ RecentInv /\ HeardInv

-----------------------------------------------------------------------------
(* The types.                                                              *)

LEMMA Limits ==
    /\ Threshold \in Nat \ {0} /\ Timeout \in Nat /\ StaleAfter \in Nat /\ Timeout <= StaleAfter
    /\ MaxAge \in Nat /\ SecurityAge \in Nat /\ TTL \in Nat \ {0}
BY LimitsAssumption

LEMMA OlderType ==
    ASSUME NEW age \in Nat, NEW limit \in Nat
    PROVE  /\ Older(age, limit) \in Nat /\ Older(age, limit) <= age + 1
           /\ Older(age, limit) <= limit => age <= limit /\ Older(age, limit) = age + 1
BY DEF Older

LEMMA CallsType == \A r : Calls(r) \in BOOLEAN
BY DEF Calls

LEMMA NothingCalls == ~Calls(NoReport)
<1> DEFINE Found == {k \in DOMAIN NoReport : NoReport[k] \in {"update_available", "finding"}}
           Unknown == {k \in DOMAIN NoReport : NoReport[k] = "unknown"}
<1>1. Found = {} /\ Unknown = {}
  BY DEF NoReport, None
<1>2. Cardinality(Found) = 0 /\ Cardinality(Unknown) = 0
  BY <1>1, FS_EmptySet
<1>3. Counts(NoReport).found = Cardinality(Found) /\ Counts(NoReport).unknown = Cardinality(Unknown)
  BY DEF Counts
<1> QED
  BY <1>2, <1>3 DEF Calls

LEMMA RunType == \A failing : Run(failing) \in Report
BY DEF Run, release, host, scan, Compared, Report, Part, None

LEMMA VerdictTypes == Security \in Verdict /\ Monitoring \in Verdict
<1>1. Security \in Verdict
  BY DEF Security, Verdict
<1>2. Monitoring \in Verdict
  BY DEF Monitoring, Verdict
<1> QED
  BY <1>1, <1>2

LEMMA NothingType == Nothing \in Snapshot
BY Limits DEF Nothing, Snapshot, Verdict

LEMMA NewTypes == NoResult \in Result /\ NewState \in AlertState
BY Limits DEF NoResult, NewState, Result, AlertState, Status, None

LEMMA ProcessType ==
    ASSUME NEW s \in AlertState, NEW status \in HealthStatus
    PROVE  Process(s, status) \in AlertState
<1> USE Limits, NewTypes
<1>1. CASE status = "healthy"
  BY <1>1 DEF Process
<1>2. CASE status # "healthy"
  <2>1. /\ s.fails \in 0 .. Threshold /\ s.stable \in 0 .. Threshold
        /\ s.pending \in Status /\ s.alerted \in Status /\ status \in Status
    BY DEF AlertState, Status
  <2>2. Bump(s.fails) \in 0 .. Threshold
    BY <2>1 DEF Bump
  <2>3. Bump(IF s.pending = status THEN s.stable ELSE 0) \in 0 .. Threshold
    BY <2>1 DEF Bump
  <2> QED
    BY <1>2, <2>1, <2>2, <2>3 DEF Process, AlertState
<1> QED
  BY <1>1, <1>2

-----------------------------------------------------------------------------
(* The alerts.                                                             *)

(* LastOf moves every result one place back and drops the one too many. *)
LEMMA LastOfAppend ==
    ASSUME NEW q \in Seq(HealthStatus), Len(q) <= Threshold, NEW status \in HealthStatus,
           NEW n, n = LastOf(Append(q, status))
    PROVE  /\ n \in Seq(HealthStatus)
           /\ Len(n) = IF Len(q) < Threshold THEN Len(q) + 1 ELSE Threshold
           /\ Back(n, 0) = status
           /\ \A j \in 1 .. Len(n) - 1 : Back(n, j) = Back(q, j - 1)
<1> USE Limits
<1> DEFINE s == Append(q, status)
<1>1. /\ s \in Seq(HealthStatus) /\ Len(s) = Len(q) + 1 /\ Len(q) \in Nat
      /\ s[Len(q) + 1] = status /\ \A i \in 1 .. Len(q) : s[i] = q[i]
  OBVIOUS
<1> HIDE DEF s
<1>2. CASE Len(q) < Threshold
  <2>1. n = SubSeq(s, 1, Len(s))
    <3>1. ~(Len(s) > Threshold)
      BY <1>1, <1>2
    <3> QED
      BY <3>1 DEF LastOf, s
  <2>2. n \in Seq(HealthStatus) /\ Len(n) = Len(s) /\ \A i \in 1 .. Len(s) : n[i] = s[i]
    BY <2>1, <1>1
  <2>3. Back(n, 0) = status
    BY <2>2, <1>1 DEF Back
  <2>4. ASSUME NEW j \in 1 .. Len(n) - 1 PROVE Back(n, j) = Back(q, j - 1)
    <3>1. Len(n) - j \in 1 .. Len(q) /\ Len(n) - j = Len(q) - (j - 1)
      BY <2>2, <1>1
    <3> QED
      BY <3>1, <2>2, <1>1 DEF Back
  <2> QED
    BY <1>1, <1>2, <2>2, <2>3, <2>4
<1>3. CASE Len(q) = Threshold
  <2>1. n = SubSeq(s, 2, Len(s))
    <3>1. Len(s) > Threshold /\ Len(s) - Threshold + 1 = 2
      BY <1>1, <1>3
    <3> QED
      BY <3>1 DEF LastOf, s
  <2>2. n \in Seq(HealthStatus) /\ Len(n) = Threshold /\ \A i \in 1 .. Threshold : n[i] = s[i + 1]
    BY <2>1, <1>1, <1>3
  <2>3. Back(n, 0) = status
    BY <2>2, <1>1, <1>3 DEF Back
  <2>4. ASSUME NEW j \in 1 .. Len(n) - 1 PROVE Back(n, j) = Back(q, j - 1)
    <3>1. /\ Len(n) - j \in 1 .. Threshold /\ Len(n) - j + 1 \in 1 .. Len(q)
          /\ Len(n) - j + 1 = Len(q) - (j - 1)
      <4>1. Len(n) = Threshold /\ Len(q) = Threshold /\ Threshold \in Nat /\ j \in 1 .. Threshold - 1
        BY <2>2, <1>1, <1>3
      <4> QED
        BY <4>1
    <3> QED
      BY <3>1, <2>2, <1>1, <1>3 DEF Back
  <2> QED
    BY <1>3, <2>2, <2>3, <2>4
<1> QED
  BY <1>2, <1>3, <1>1

LEMMA ProcessCounts ==
    ASSUME NEW s \in AlertState, NEW q \in Seq(HealthStatus), Counted(s, q),
           NEW status \in HealthStatus
    PROVE  Counted(Process(s, status), LastOf(Append(q, status)))
<1> USE Limits
<1>1. /\ s.fails \in 0 .. Threshold /\ s.stable \in 0 .. Threshold
      /\ Len(q) \in Nat /\ Len(q) <= Threshold
  BY DEF AlertState, Counted
<1>2. PICK n : n = LastOf(Append(q, status))
  OBVIOUS
<1>3. /\ n \in Seq(HealthStatus) /\ Len(n) = IF Len(q) < Threshold THEN Len(q) + 1 ELSE Threshold
      /\ Back(n, 0) = status
      /\ \A j \in 1 .. Len(n) - 1 : Back(n, j) = Back(q, j - 1)
  BY <1>1, <1>2, LastOfAppend
<1>4. Len(n) \in 1 .. Threshold /\ Len(n) - 1 <= Len(q)
  BY <1>1, <1>3
<1>5. CASE status = "healthy"
  <2>1. Process(s, status) = NewState
    BY <1>5 DEF Process
  <2> QED
    BY <2>1, <1>2, <1>3, <1>4, <1>5 DEF Counted, NewState, None
<1>6. CASE status # "healthy"
  <2>1. PICK fails, stable, alerted :
          /\ fails = Bump(s.fails) /\ stable = Bump(IF s.pending = status THEN s.stable ELSE 0)
          /\ alerted = IF fails >= Threshold /\ (s.alerted = None \/ stable >= Threshold)
                       THEN status ELSE s.alerted
    OBVIOUS
  <2>2. PICK p : p = Process(s, status)
    OBVIOUS
  <2>3. p.fails = fails /\ p.stable = stable /\ p.pending = status /\ p.alerted = alerted
    BY <1>6, <2>1, <2>2 DEF Process
  <2>4. fails = IF s.fails < Threshold THEN s.fails + 1 ELSE Threshold
    BY <1>1, <2>1 DEF Bump
  <2>5. stable = IF s.pending = status
                 THEN IF s.stable < Threshold THEN s.stable + 1 ELSE Threshold ELSE 1
    BY <1>1, <2>1 DEF Bump
  <2>6. /\ s.fails <= Len(q) /\ s.stable <= s.fails
        /\ s.fails > 0 => s.stable > 0
    BY DEF Counted
  <2>7. fails \in 1 .. Len(n) /\ stable \in 1 .. fails
    <3>1. fails \in 1 .. Len(n)
      BY <1>1, <1>3, <2>4, <2>6
    <3>2. stable \in Nat /\ stable >= 1
      BY <1>1, <2>5
    <3>3. stable <= fails
      BY <1>1, <2>4, <2>5, <2>6
    <3> QED
      BY <3>1, <3>2, <3>3
  <2>8. \A j \in 0 .. fails - 1 : Back(n, j) # "healthy"
    <3> SUFFICES ASSUME NEW j \in 0 .. fails - 1 PROVE Back(n, j) # "healthy"
      OBVIOUS
    <3>1. CASE j = 0
      BY <3>1, <1>3, <1>6
    <3>2. CASE j # 0
      <4>1. j \in 1 .. Len(n) - 1
        BY <3>2, <1>1, <1>4, <2>7
      <4>2. j - 1 \in 0 .. s.fails - 1
        BY <3>2, <1>1, <2>4
      <4> QED
        BY <4>1, <4>2, <1>3 DEF Counted
    <3> QED
      BY <3>1, <3>2
  <2>9. fails < Len(n) => Back(n, fails) = "healthy"
    <3> SUFFICES ASSUME fails < Len(n) PROVE Back(n, fails) = "healthy"
      OBVIOUS
    <3>1. fails \in 1 .. Len(n) - 1 /\ fails - 1 = s.fails /\ s.fails < Len(q)
      BY <1>1, <1>4, <2>4, <2>7
    <3> QED
      BY <3>1, <1>3 DEF Counted
  <2>10. \A j \in 0 .. stable - 1 : Back(n, j) = status
    <3> SUFFICES ASSUME NEW j \in 0 .. stable - 1 PROVE Back(n, j) = status
      OBVIOUS
    <3>1. CASE j = 0
      BY <3>1, <1>3
    <3>2. CASE j # 0
      <4>1. s.pending = status /\ j - 1 \in 0 .. s.stable - 1
        BY <3>2, <1>1, <2>5
      <4>2. j \in 1 .. Len(n) - 1
        BY <3>2, <1>1, <1>4, <2>7
      <4> QED
        BY <4>1, <4>2, <1>3 DEF Counted
    <3> QED
      BY <3>1, <3>2
  <2>11. stable < Len(n) => Back(n, stable) # status
    <3> SUFFICES ASSUME stable < Len(n) PROVE Back(n, stable) # status
      OBVIOUS
    <3>1. stable \in 1 .. Len(n) - 1 /\ Back(n, stable) = Back(q, stable - 1)
      BY <1>3, <1>4, <2>7
    <3>2. CASE s.pending = status
      <4>1. stable - 1 = s.stable /\ s.stable < Len(q)
        BY <3>1, <3>2, <1>1, <1>4, <2>5
      <4> QED
        BY <4>1, <3>1, <3>2 DEF Counted
    <3>3. CASE s.pending # status
      <4>1. stable - 1 = 0 /\ 0 < Len(q)
        BY <3>1, <3>3, <1>1, <1>4, <2>5
      <4>2. CASE s.fails = 0
        BY <4>1, <4>2, <3>1, <1>6 DEF Counted
      <4>3. CASE s.fails # 0
        <5>1. 0 \in 0 .. s.stable - 1
          BY <4>3, <1>1, <2>6
        <5> QED
          BY <5>1, <4>1, <3>1, <3>3 DEF Counted
      <4> QED
        BY <4>2, <4>3
    <3> QED
      BY <3>2, <3>3
  <2>12. /\ alerted # None <=> fails = Threshold
         /\ stable = Threshold => alerted = status
         /\ alerted # "healthy"
    <3>1. /\ s.alerted # None <=> s.fails = Threshold
          /\ s.alerted # "healthy" /\ status # None
      BY <1>6 DEF Counted, HealthStatus, None
    <3>2. /\ fails >= Threshold <=> fails = Threshold
          /\ stable >= Threshold <=> stable = Threshold
          /\ stable = Threshold => fails = Threshold
          /\ s.fails = Threshold => fails = Threshold
      BY <1>4, <2>4, <2>7
    <3> QED
      BY <3>1, <3>2, <1>6, <2>1
  <2>13. Len(n) <= Threshold /\ fails <= Len(n) /\ stable <= fails /\ (fails > 0 => stable > 0)
    BY <1>4, <2>7
  <2>14. Counted(p, n)
    BY <1>6, <2>3, <2>8, <2>9, <2>10, <2>11, <2>12, <2>13 DEF Counted
  <2> QED
    BY <2>14, <2>2, <1>2
<1> QED
  BY <1>5, <1>6

LEMMA FreshCounts == Counted(NewState, <<>>)
BY Limits DEF Counted, NewState, None

(* What a recorded result changes of its target. *)
LEMMA RecordAlerts ==
    ASSUME TypeInv, AlertInv, NEW t \in Targets, NEW saved \in BOOLEAN, record(t, saved)
    PROVE  /\ states' \in [Targets -> AlertState] /\ recent' \in [Targets -> Seq(HealthStatus)]
           /\ AlertInv'
<1>1. states \in [Targets -> AlertState] /\ recent \in [Targets -> Seq(HealthStatus)]
  BY DEF TypeInv, MonitorTypes
<1>2. CASE "providers" \in using
  <2>1. PICK res \in CheckOnce :
          /\ states' = [states EXCEPT ![t] = Process(@, res.status)]
          /\ recent' = [recent EXCEPT ![t] = LastOf(Append(@, res.status))]
    BY <1>2 DEF record
  <2>2. res.status \in HealthStatus
    BY DEF CheckOnce
  <2>3. PICK s \in AlertState : s = Process(states[t], res.status)
    BY <1>1, <2>2, ProcessType
  <2>4. Counted(states[t], recent[t]) /\ recent[t] \in Seq(HealthStatus) /\ Len(recent[t]) <= Threshold
    BY <1>1 DEF AlertInv, Counted
  <2>5. PICK q \in Seq(HealthStatus) : q = LastOf(Append(recent[t], res.status))
    BY <2>2, <2>4, LastOfAppend
  <2>6. Counted(s, q)
    BY <1>1, <2>2, <2>3, <2>4, <2>5, ProcessCounts
  <2>7. states' = [states EXCEPT ![t] = s] /\ recent' = [recent EXCEPT ![t] = q]
    BY <2>1, <2>3, <2>5
  <2> QED
    BY <1>1, <2>6, <2>7 DEF AlertInv
<1>3. CASE "providers" \notin using
  BY <1>1, <1>3 DEF record, AlertInv
<1> QED
  BY <1>2, <1>3

LEMMA StartAlerts ==
    ASSUME monitorStart
    PROVE  /\ states' \in [Targets -> AlertState] /\ recent' \in [Targets -> Seq(HealthStatus)]
           /\ AlertInv'
<1>1. states' = [t \in Targets |-> NewState] /\ recent' = [t \in Targets |-> <<>>]
  BY DEF monitorStart
<1>2. <<>> \in Seq(HealthStatus)
  OBVIOUS
<1> QED
  BY <1>1, <1>2, NewTypes, FreshCounts DEF AlertInv

(* Nothing else touches the alerts. *)
LEMMA NextAlerts ==
    ASSUME Next
    PROVE  \/ \E t \in Targets, saved \in BOOLEAN : record(t, saved)
           \/ monitorStart
           \/ UNCHANGED <<states, recent>>
<1>1. ASSUME NEW t \in Targets, Recorded(t) \/ NotSaved(t)
      PROVE  \E saved \in BOOLEAN : record(t, saved)
  BY <1>1 DEF Recorded, NotSaved
<1>2. Notify \/ Save \/ Lost \/ Change \/ fleetSnapshot \/ handleFleet
        => UNCHANGED <<states, recent>>
  BY DEF Notify, Save, Lost, Change, fleetSnapshot, handleFleet, mvars
<1>3. \A failing : Examine(failing) => UNCHANGED <<states, recent>>
  BY DEF Examine, mvars
<1>4. Tick => UNCHANGED <<states, recent>>
  BY DEF Tick
<1> QED
  BY <1>1, <1>2, <1>3, <1>4 DEF Next

LEMMA AlertStep == TypeInv /\ AlertInv /\ [Next]_vars => AlertInv'
<1>1. UNCHANGED <<states, recent>> => (AlertInv => AlertInv')
  BY DEF AlertInv
<1>2. UNCHANGED vars => UNCHANGED <<states, recent>>
  BY DEF vars, mvars
<1> QED
  BY <1>1, <1>2, NextAlerts, RecordAlerts, StartAlerts

(* The counters at the threshold say what the property says. *)
LEMMA CountedAlert ==
    ASSUME NEW s \in AlertState, NEW q \in Seq(HealthStatus), Counted(s, q), q # <<>>
    PROVE  /\ q[Len(q)] = "healthy" => s.alerted = None
           /\ Len(q) = Threshold /\ "healthy" \notin ToSet(q) =>
                 /\ s.alerted # None
                 /\ Cardinality(ToSet(q)) = 1 => s.alerted = q[Len(q)]
           /\ s.alerted # None => "healthy" \notin ToSet(q) /\ Len(q) = Threshold
<1> USE Limits
<1>1. /\ Len(q) \in Nat \ {0} /\ Len(q) <= Threshold
      /\ s.fails \in 0 .. Threshold /\ s.stable \in 0 .. Threshold
  BY DEF AlertState, Counted
<1>2. \A i \in 1 .. Len(q) : q[i] = Back(q, Len(q) - i) /\ q[i] \in ToSet(q)
  BY <1>1 DEF Back, ToSet
<1>3. q[Len(q)] = Back(q, 0)
  BY <1>1 DEF Back
<1>4. ASSUME q[Len(q)] = "healthy" PROVE s.alerted = None
  <2>1. s.fails = 0
    BY <1>1, <1>3, <1>4 DEF Counted
  <2> QED
    BY <2>1 DEF Counted
<1>5. ASSUME s.alerted # None PROVE "healthy" \notin ToSet(q) /\ Len(q) = Threshold
  <2>1. s.fails = Threshold /\ Len(q) = Threshold
    BY <1>1, <1>5 DEF Counted
  <2>2. \A i \in 1 .. Len(q) : q[i] # "healthy"
    BY <1>1, <1>2, <2>1 DEF Counted
  <2> QED
    BY <2>1, <2>2 DEF ToSet
<1>6. ASSUME Len(q) = Threshold, "healthy" \notin ToSet(q)
      PROVE  /\ s.alerted # None
             /\ Cardinality(ToSet(q)) = 1 => s.alerted = q[Len(q)]
  <2>1. \A j \in 0 .. Threshold - 1 : Back(q, j) \in ToSet(q)
    BY <1>1, <1>6 DEF Back, ToSet
  <2>2. s.fails = Threshold
    <3>1. CASE s.fails < Threshold
      <4>1. s.fails \in 0 .. Threshold - 1 /\ Back(q, s.fails) = "healthy"
        BY <1>1, <1>6, <3>1 DEF Counted
      <4> QED
        BY <4>1, <2>1, <1>6
    <3> QED
      BY <1>1, <3>1
  <2>3. ASSUME Cardinality(ToSet(q)) = 1 PROVE s.alerted = q[Len(q)]
    <3>1. ToSet(q) \subseteq HealthStatus
      BY DEF ToSet
    <3>2. IsFiniteSet(HealthStatus)
      <4>1. HealthStatus = (({} \cup {"healthy"}) \cup {"unhealthy"}) \cup {"blocked"}
        BY DEF HealthStatus
      <4> QED
        BY <4>1, FS_EmptySet, FS_AddElement
    <3>3. IsFiniteSet(ToSet(q))
      BY <3>1, <3>2, FS_Subset
    <3>4. PICK x : ToSet(q) = {x}
      BY <3>3, <2>3, FS_Singleton
    <3>5. \A j \in 0 .. Threshold - 1 : Back(q, j) = x
      BY <2>1, <3>4
    <3>6. s.stable > 0 /\ Back(q, 0) = s.pending
      BY <1>1, <2>2 DEF Counted
    <3>7. s.pending = x
      BY <3>5, <3>6
    <3>8. CASE s.stable < Threshold
      <4>1. s.stable \in 0 .. Threshold - 1 /\ Back(q, s.stable) # s.pending
        BY <1>1, <1>6, <3>8 DEF Counted
      <4> QED
        BY <4>1, <3>5, <3>7
    <3>9. CASE s.stable = Threshold
      BY <3>9, <3>6, <1>3 DEF Counted
    <3> QED
      BY <3>8, <3>9, <1>1
  <2> QED
    BY <2>2, <2>3 DEF Counted
<1> QED
  BY <1>4, <1>5, <1>6

-----------------------------------------------------------------------------
(* The security check and its channels.                                    *)

LEMMA ExamineHears ==
    ASSUME SecurityTypes, HeardInv, NEW failing, Examine(failing)
    PROVE  SecurityTypes' /\ HeardInv'
<1>1. PICK report \in Report : report = Run(failing)
  BY RunType
<1>2. PICK todo \in Seq(Channels) : todo = IF "providers" \in using THEN Providers ELSE <<>>
  <2>1. Providers \in Seq(Channels) /\ <<>> \in Seq(Channels)
    BY ProvidersAssumption DEF Channels
  <2> QED
    BY <2>1
<1>3. /\ check.phase = "idle"
      /\ check' = [phase |-> "notify", report |-> report, age |-> 0, del |-> sfile.del, todo |-> todo]
      /\ UNCHANGED <<sfile, heard, repeated, cut>>
  BY <1>1, <1>2 DEF Examine
<1>4. sfile.del \in Deliveries
  BY DEF SecurityTypes
<1>5. SecurityTypes'
  BY <1>3, <1>4 DEF SecurityTypes
<1> QED
  BY <1>3, <1>5 DEF HeardInv

(* What a channel has to hear is never what it heard last. *)
LEMMA DueIsNews ==
    ASSUME NEW d \in [digest : Report, alerted : BOOLEAN], NEW report \in Report,
           NEW last \in Report, Told(d, last)
    PROVE  /\ d.digest # report /\ (Calls(report) \/ d.alerted) => last # report
           /\ ~(d.digest # report /\ (Calls(report) \/ d.alerted))
                => Told([digest |-> report, alerted |-> Calls(report)], last)
           /\ Told([digest |-> report, alerted |-> Calls(report)], report)
BY CallsType DEF Told

LEMMA NotifyHears ==
    ASSUME SecurityTypes, HeardInv, Notify
    PROVE  SecurityTypes' /\ HeardInv'
<1>1. /\ check.phase = "notify" /\ check.todo # <<>> /\ check.todo \in Seq(Channels)
      /\ check.del \in Deliveries /\ check.report \in Report
  BY DEF Notify, SecurityTypes
<1>2. PICK c \in Channels : c = Head(check.todo)
  BY <1>1
<1>3. PICK todo \in Seq(Channels) : todo = Tail(check.todo)
  <2>1. Tail(check.todo) \in Seq(Channels)
    BY <1>1
  <2> QED
    BY <2>1
<1>4. PICK d \in [digest : Report, alerted : BOOLEAN] :
         d = [digest |-> check.report, alerted |-> Calls(check.report)]
  <2>1. [digest |-> check.report, alerted |-> Calls(check.report)]
           \in [digest : Report, alerted : BOOLEAN]
    BY <1>1, CallsType
  <2> QED
    BY <2>1
<1>5. PICK del \in Deliveries : del = [check.del EXCEPT ![c] = d]
  BY <1>1 DEF Deliveries
<1>6. check.del[c] \in [digest : Report, alerted : BOOLEAN] /\ heard[c] \in Report
  BY <1>1 DEF Deliveries, SecurityTypes
<1>7. PICK next : next = Advanced(c)
  OBVIOUS
<1>8. /\ next \in [phase : {"idle", "notify"}, report : Report, age : Nat,
                   del : Deliveries \cup {<<>>}, todo : Seq(Channels)]
      /\ next.phase = "notify" /\ next.del = del /\ next.report = check.report
  <2>1. next = [check EXCEPT !.todo = todo, !.del = del]
    BY <1>3, <1>4, <1>5, <1>7 DEF Advanced
  <2> QED
    BY <2>1, <1>1, <1>5 DEF SecurityTypes
<1>9. UNCHANGED <<sfile, cut>> /\ (NotifyPasses(c) \/ NotifyAccepted(c) \/ NotifyRefused(c))
  BY <1>2 DEF Notify
<1>10. cut' \/ (~cut /\ ~repeated /\ \A x \in Channels : Told(check.del[x], heard[x]))
  BY <1>1, <1>9 DEF HeardInv, SecurityTypes
<1>11. \A x \in Channels : del[x] = IF x = c THEN d ELSE check.del[x]
  BY <1>1, <1>5 DEF Deliveries
<1>12. CASE NotifyPasses(c)
  <2>1. check' = next /\ UNCHANGED <<heard, repeated>> /\ ~Due(c)
    BY <1>7, <1>12 DEF NotifyPasses
  <2>2. SecurityTypes'
    BY <2>1, <1>5, <1>8, <1>9 DEF SecurityTypes
  <2>3. Told(check.del[c], heard[c]) => Told(d, heard[c])
    BY <2>1, <1>1, <1>4, <1>6, DueIsNews DEF Due
  <2> QED
    BY <2>1, <2>2, <2>3, <1>8, <1>9, <1>10, <1>11 DEF HeardInv
<1>13. CASE NotifyAccepted(c)
  <2>1. /\ check' = next /\ heard' = [heard EXCEPT ![c] = check.report] /\ Due(c)
        /\ repeated' = (repeated \/ heard[c] = check.report)
    BY <1>7, <1>13 DEF NotifyAccepted
  <2>2. heard \in [Channels -> Report]
    BY DEF SecurityTypes
  <2>3. SecurityTypes'
    BY <2>1, <2>2, <1>1, <1>5, <1>8, <1>9 DEF SecurityTypes
  <2>4. Told(check.del[c], heard[c]) => heard[c] # check.report /\ Told(d, check.report)
    BY <2>1, <1>1, <1>4, <1>6, DueIsNews DEF Due
  <2> QED
    BY <2>1, <2>2, <2>3, <2>4, <1>8, <1>9, <1>10, <1>11 DEF HeardInv
<1>14. CASE NotifyRefused(c)
  <2>1. check' = [check EXCEPT !.todo = todo] /\ UNCHANGED <<heard, repeated>>
    BY <1>3, <1>14 DEF NotifyRefused
  <2>2. /\ SecurityTypes'
        /\ check'.phase = "notify" /\ check'.del = check.del
    BY <2>1, <1>1, <1>9 DEF SecurityTypes
  <2> QED
    BY <2>1, <2>2, <1>9, <1>10 DEF HeardInv
<1> QED
  BY <1>9, <1>12, <1>13, <1>14

LEMMA RestingType ==
    /\ Resting \in [phase : {"idle", "notify"}, report : Report, age : Nat,
                    del : Deliveries \cup {<<>>}, todo : Seq(Channels)]
    /\ Resting.phase = "idle"
<1>1. NoReport \in Report /\ <<>> \in Seq(Channels)
  BY DEF NoReport, Report, Part
<1> QED
  BY <1>1 DEF Resting

LEMMA EndHears ==
    ASSUME SecurityTypes, HeardInv, Save \/ Lost
    PROVE  SecurityTypes' /\ HeardInv'
<1>1. CASE Save
  <2>1. /\ check.phase = "notify" /\ check.del \in Deliveries /\ check.report \in Report
        /\ check.age \in Nat
    BY <1>1 DEF Save, SecurityTypes
  <2>2. /\ sfile' = [report |-> check.report, age |-> check.age, del |-> check.del]
        /\ check' = Resting /\ UNCHANGED <<heard, repeated, cut>>
    BY <1>1 DEF Save
  <2>3. SecurityTypes'
    BY <2>1, <2>2, RestingType DEF SecurityTypes
  <2> QED
    BY <2>1, <2>2, <2>3, RestingType DEF HeardInv
<1>2. CASE Lost
  <2>1. /\ cut' = (cut \/ check.del # sfile.del) /\ check' = Resting
        /\ check.phase # "idle" /\ UNCHANGED <<sfile, heard, repeated>>
    BY <1>2 DEF Lost
  <2>2. check.phase = "notify"
    BY <2>1 DEF SecurityTypes
  <2>3. SecurityTypes'
    BY <2>1, RestingType DEF SecurityTypes
  <2> QED
    BY <2>1, <2>2, <2>3, RestingType DEF HeardInv
<1> QED
  BY <1>1, <1>2

LEMMA TickHears ==
    ASSUME SecurityTypes, HeardInv, Tick
    PROVE  SecurityTypes' /\ HeardInv'
<1>1. /\ check.age \in Nat /\ sfile.age \in Nat /\ SecurityAge \in Nat
  BY Limits DEF SecurityTypes
<1>2. PICK a \in Nat, b \in Nat :
         /\ a = Older(sfile.age, SecurityAge)
         /\ b = IF check.phase = "notify" THEN Older(check.age, SecurityAge) ELSE check.age
  BY <1>1, OlderType
<1>3. /\ sfile' = [sfile EXCEPT !.age = a] /\ check' = [check EXCEPT !.age = b]
      /\ UNCHANGED <<heard, repeated, cut>>
  BY <1>2 DEF Tick
<1>4. SecurityTypes'
  BY <1>3 DEF SecurityTypes
<1>5. check'.phase = check.phase /\ check'.del = check.del /\ sfile'.del = sfile.del
  BY <1>3 DEF SecurityTypes
<1> QED
  BY <1>3, <1>4, <1>5 DEF HeardInv

LEMMA NextHears ==
    ASSUME Next
    PROVE  \/ \E failing : Examine(failing)
           \/ Notify \/ Save \/ Lost \/ Tick
           \/ UNCHANGED <<check, sfile, heard, repeated, cut>>
<1>1. ASSUME NEW t \in Targets, Recorded(t) \/ NotSaved(t) PROVE UNCHANGED svars
  BY <1>1 DEF Recorded, NotSaved, record
<1>2. monitorStart \/ fleetSnapshot \/ handleFleet => UNCHANGED svars
  BY DEF monitorStart, fleetSnapshot, handleFleet
<1>3. Change => UNCHANGED <<check, sfile, heard, repeated, cut>>
  BY DEF Change
<1> QED
  BY <1>1, <1>2, <1>3 DEF Next, svars

LEMMA HeardStep ==
    SecurityTypes /\ HeardInv /\ [Next]_vars => SecurityTypes' /\ HeardInv'
<1>1. UNCHANGED <<check, sfile, heard, repeated, cut>> =>
        (SecurityTypes /\ HeardInv => SecurityTypes' /\ HeardInv')
  BY DEF SecurityTypes, HeardInv
<1>2. UNCHANGED vars => UNCHANGED <<check, sfile, heard, repeated, cut>>
  BY DEF vars, svars
<1> QED
  BY <1>1, <1>2, NextHears, ExamineHears, NotifyHears, EndHears, TickHears

-----------------------------------------------------------------------------
(* The types of the monitor and of the overview.                           *)

LEMMA AgedResultsType ==
    ASSUME NEW res \in [Targets -> Result]
    PROVE  /\ AgedResults(res) \in [Targets -> Result]
           /\ \A t \in Targets :
                /\ AgedResults(res)[t].status = res[t].status
                /\ AgedResults(res)[t].age <= StaleAfter =>
                      res[t].age <= StaleAfter /\ AgedResults(res)[t].age = res[t].age + 1
<1> USE Limits
<1>1. ASSUME NEW t \in Targets
      PROVE  /\ AgedResults(res)[t] \in Result
             /\ AgedResults(res)[t].status = res[t].status
             /\ AgedResults(res)[t].age = Older(res[t].age, StaleAfter)
  <2>1. res[t] \in Result /\ Older(res[t].age, StaleAfter) \in Nat
    BY OlderType DEF Result
  <2>2. AgedResults(res)[t] = [res[t] EXCEPT !.age = Older(res[t].age, StaleAfter)]
    BY DEF AgedResults
  <2> QED
    BY <2>1, <2>2 DEF Result
<1>2. AgedResults(res) \in [Targets -> Result]
  BY <1>1 DEF AgedResults
<1>3. ASSUME NEW t \in Targets, Older(res[t].age, StaleAfter) <= StaleAfter
      PROVE  res[t].age <= StaleAfter /\ Older(res[t].age, StaleAfter) = res[t].age + 1
  <2>1. res[t].age \in Nat
    BY DEF Result
  <2> QED
    BY <2>1, <1>3, OlderType
<1> QED
  BY <1>1, <1>2, <1>3

LEMMA AgedType ==
    ASSUME NEW s \in Snapshot
    PROVE  /\ Aged(s) \in Snapshot /\ Aged(s).mon = s.mon /\ Aged(s).sec = s.sec
           /\ Aged(s).monAge <= MaxAge => s.monAge <= MaxAge /\ Aged(s).monAge = s.monAge + 1
           /\ Aged(s).gen <= MaxAge => s.gen <= MaxAge /\ Aged(s).gen = s.gen + 1
<1> USE Limits
<1>1. s.gen \in Nat /\ s.monAge \in Nat /\ s.secAge \in Nat
  BY DEF Snapshot
<1>2. PICK a \in Nat, b \in Nat, c \in Nat :
        a = Older(s.gen, MaxAge) /\ b = Older(s.monAge, MaxAge) /\ c = Older(s.secAge, SecurityAge)
  BY <1>1, OlderType
<1>3. Aged(s) = [s EXCEPT !.gen = a, !.monAge = b, !.secAge = c]
  BY <1>2 DEF Aged
<1>4. /\ Aged(s) \in Snapshot /\ Aged(s).mon = s.mon /\ Aged(s).sec = s.sec
      /\ Aged(s).gen = a /\ Aged(s).monAge = b
  BY <1>3 DEF Snapshot
<1>5. /\ b <= MaxAge => s.monAge <= MaxAge /\ b = s.monAge + 1
      /\ a <= MaxAge => s.gen <= MaxAge /\ a = s.gen + 1
  BY <1>1, <1>2, OlderType
<1> QED
  BY <1>4, <1>5

LEMMA ExportType ==
    ASSUME MonitorTypes, SecurityTypes
    PROVE  Export \in Snapshot
<1>1. mfile.age \in Nat /\ sfile.age \in Nat
  BY DEF MonitorTypes, SecurityTypes
<1> QED
  BY <1>1, VerdictTypes DEF Export, Snapshot

LEMMA FetchType ==
    ASSUME FleetTypes, NEW c \in Fetch
    PROVE  /\ c \in [s : Snapshot, last : Nat]
           /\ c.s = cache.s \/ c.s = snap \/ c.s = Nothing
<1>1. CASE c = cache
  BY <1>1 DEF FleetTypes
<1>2. CASE c # cache
  <2>1. PICK a \in Agent \cup {Nothing} : c = [s |-> a, last |-> 0]
    BY <1>2 DEF Fetch
  <2>2. (a = snap \/ a = Nothing) /\ a \in Snapshot
    BY NothingType DEF Agent, FleetTypes
  <2> QED
    BY <2>1, <2>2
<1> QED
  BY <1>1, <1>2

LEMMA RecordTypes ==
    ASSUME TypeInv, AlertInv, NEW t \in Targets, NEW saved \in BOOLEAN, record(t, saved)
    PROVE  MonitorTypes'
<1>1. PICK res \in CheckOnce :
        /\ results' = [results EXCEPT ![t] = res]
        /\ good' = IF res.status = "healthy" THEN [good EXCEPT ![t] = res.age] ELSE good
        /\ IF saved THEN SaveState(res, t) ELSE UNCHANGED mfile
  BY DEF record
<1>2. res \in Result /\ res.age \in Nat
  BY Limits DEF CheckOnce, Result, Status
<1>3. results' \in [Targets -> Result] /\ good' \in [Targets -> Nat]
  BY <1>1, <1>2 DEF TypeInv, MonitorTypes
<1>4. mfile' \in [res : [Targets -> Result], age : Nat]
  <2>1. mfile' = [res |-> results', age |-> 0] \/ mfile' = mfile
    BY <1>1 DEF SaveState
  <2> QED
    BY <2>1, <1>3 DEF TypeInv, MonitorTypes
<1> QED
  BY <1>3, <1>4, RecordAlerts DEF MonitorTypes

LEMMA StartTypes == ASSUME TypeInv, monitorStart PROVE MonitorTypes'
BY NewTypes, StartAlerts DEF monitorStart, TypeInv, MonitorTypes

LEMMA TickTypes ==
    ASSUME TypeInv, Tick
    PROVE  /\ MonitorTypes'
           /\ snap' \in Snapshot /\ cache' \in [s : Snapshot, last : Nat]
<1> USE Limits DEF TypeInv
<1>1. results' \in [Targets -> Result]
  BY AgedResultsType DEF Tick, MonitorTypes
<1>2. good' \in [Targets -> Nat]
  <2>1. StaleAfter + MaxAge \in Nat /\ good \in [Targets -> Nat]
    BY DEF MonitorTypes
  <2>2. \A t \in Targets : Older(good[t], StaleAfter + MaxAge) \in Nat
    BY <2>1, OlderType
  <2> QED
    BY <2>2 DEF Tick
<1>3. mfile' \in [res : [Targets -> Result], age : Nat]
  <2>1. mfile.res \in [Targets -> Result] /\ mfile.age \in Nat
    BY DEF MonitorTypes
  <2>2. AgedResults(mfile.res) \in [Targets -> Result] /\ Older(mfile.age, MaxAge) \in Nat
    BY <2>1, AgedResultsType, OlderType
  <2> QED
    BY <2>2 DEF Tick
<1>4. snap' \in Snapshot
  BY AgedType DEF Tick, FleetTypes
<1>5. cache' \in [s : Snapshot, last : Nat]
  <2>1. cache.s \in Snapshot /\ cache.last \in Nat
    BY DEF FleetTypes
  <2>2. Aged(cache.s) \in Snapshot /\ Older(cache.last, TTL) \in Nat
    BY <2>1, AgedType, OlderType
  <2> QED
    BY <2>2 DEF Tick
<1>6. UNCHANGED <<states, recent>>
  BY DEF Tick
<1> QED
  BY <1>1, <1>2, <1>3, <1>4, <1>5, <1>6 DEF MonitorTypes

-----------------------------------------------------------------------------
(* The evidence for an "ok".                                               *)

(* What is exported as ok is ok. *)
LEMMA MonitoringIsOk ==
    ASSUME Monitoring = "ok"
    PROVE  /\ ~(mfile.age > MaxAge)
           /\ \A t \in Targets :
                 ~(mfile.res[t].age > StaleAfter) /\ mfile.res[t].status = "healthy"
<1>1. ~(mfile.age > MaxAge) /\ {Summarize[t] : t \in Targets} = {"healthy"}
  BY DEF Monitoring
<1>2. \A t \in Targets : Summarize[t] = "healthy"
  BY <1>1
<1> QED
  BY <1>1, <1>2 DEF Summarize

LEMMA NothingIsShown ==
    Nothing.mon = "unknown" /\ Nothing.sec = "unknown" /\ MonEvidence(Nothing) /\ SecEvidence(Nothing)
BY DEF Nothing, MonEvidence, SecEvidence

LEMMA SecStays ==
    ASSUME FleetTypes, Seen(FALSE), NEW s \in Snapshot, SecEvidence(s)
    PROVE  SecEvidence(s)'
<1>1. s.gen \in Nat /\ okAge' = IF Security = "ok" THEN 0 ELSE okAge
  BY DEF Snapshot, Seen
<1> QED
  BY <1>1 DEF SecEvidence

LEMMA SecTicks ==
    ASSUME FleetTypes, Seen(TRUE), NEW s \in Snapshot, NEW d, d = Aged(s), SecEvidence(s)
    PROVE  SecEvidence(d)'
<1> SUFFICES ASSUME d.sec = "ok", d.gen <= MaxAge PROVE okAge' <= d.gen
  BY DEF SecEvidence
<1>1. s.sec = "ok" /\ s.gen <= MaxAge /\ d.gen = s.gen + 1 /\ s.gen \in Nat
  BY AgedType DEF Snapshot
<1>2. PICK a \in Nat : a = IF Security = "ok" THEN 0 ELSE okAge
  BY DEF FleetTypes
<1>3. okAge' = Older(a, MaxAge) /\ a <= s.gen
  BY <1>1, <1>2 DEF Seen, SecEvidence
<1>4. Older(a, MaxAge) \in Nat /\ Older(a, MaxAge) <= a + 1
  BY Limits, OlderType
<1> QED
  BY <1>1, <1>3, <1>4

LEMMA MonStays ==
    ASSUME MonitorTypes, NEW s \in Snapshot, MonEvidence(s),
           \A t \in Targets : good'[t] = good[t] \/ good'[t] \in 0 .. Timeout
    PROVE  MonEvidence(s)'
<1> SUFFICES ASSUME s.mon = "ok", s.monAge <= MaxAge, NEW t \in Targets
             PROVE  good'[t] <= StaleAfter + s.monAge
  BY DEF MonEvidence
<1>1. good[t] <= StaleAfter + s.monAge /\ s.monAge \in Nat
  BY DEF MonEvidence, Snapshot
<1> QED
  BY <1>1, Limits

LEMMA GoodTicks ==
    ASSUME MonitorTypes, Tick, NEW t \in Targets
    PROVE  good[t] \in Nat /\ good'[t] \in Nat /\ good'[t] <= good[t] + 1
<1>1. PICK limit \in Nat : limit = StaleAfter + MaxAge
  BY Limits
<1>2. PICK age \in Nat : age = good[t]
  BY DEF MonitorTypes
<1>3. PICK older \in Nat : older = Older(age, limit) /\ older <= age + 1
  BY OlderType
<1>4. good'[t] = older
  BY <1>1, <1>2, <1>3 DEF Tick
<1> QED
  BY <1>2, <1>3, <1>4

LEMMA MonTicks ==
    ASSUME MonitorTypes, Tick, NEW s \in Snapshot, NEW d, d = Aged(s), MonEvidence(s)
    PROVE  MonEvidence(d)'
<1> SUFFICES ASSUME d.mon = "ok", d.monAge <= MaxAge, NEW t \in Targets
             PROVE  good'[t] <= StaleAfter + d.monAge
  BY DEF MonEvidence
<1>1. s.mon = "ok" /\ s.monAge <= MaxAge /\ d.monAge = s.monAge + 1 /\ s.monAge \in Nat
  BY AgedType DEF Snapshot
<1>2. good[t] <= StaleAfter + s.monAge
  BY <1>1 DEF MonEvidence
<1> QED
  BY <1>1, <1>2, GoodTicks, Limits

LEMMA RecordRecent ==
    ASSUME TypeInv, RecentInv, NEW t \in Targets, NEW saved \in BOOLEAN, record(t, saved), Seen(FALSE)
    PROVE  RecentInv'
<1> USE Limits
<1>1. PICK res \in CheckOnce :
        /\ results' = [results EXCEPT ![t] = res]
        /\ good' = IF res.status = "healthy" THEN [good EXCEPT ![t] = res.age] ELSE good
        /\ IF saved THEN SaveState(res, t) ELSE UNCHANGED mfile
  BY DEF record
<1>2. res.age \in 0 .. Timeout
  <2>1. res.age \in IF "fleet" \in using THEN 0 .. Timeout ELSE {0}
    BY DEF CheckOnce
  <2> QED
    BY <2>1
<1>3. MonitorTypes /\ FleetTypes
  BY DEF TypeInv
<1>4. \A x \in Targets : good'[x] = good[x] \/ good'[x] \in 0 .. Timeout
  BY <1>1, <1>2, <1>3 DEF MonitorTypes
<1>5. ASSUME NEW x \in Targets PROVE ResultEvidence(x)'
  <2>1. ResultEvidence(x) /\ good[x] \in Nat /\ mfile.age \in Nat /\ results[x].age \in Nat
    BY <1>3 DEF RecentInv, MonitorTypes, Result
  <2>2. results'[x].status = "healthy" /\ results'[x].age <= StaleAfter => good'[x] <= results'[x].age
    <3>1. CASE x = t
      <4>1. results'[x] = res /\ (res.status = "healthy" => good'[x] = res.age)
        BY <1>1, <1>3, <3>1 DEF MonitorTypes
      <4> QED
        BY <4>1, <1>2
    <3>2. CASE x # t
      <4>1. results'[x] = results[x] /\ good'[x] = good[x]
        BY <1>1, <1>3, <3>2 DEF MonitorTypes
      <4> QED
        BY <4>1, <2>1 DEF ResultEvidence
    <3> QED
      BY <3>1, <3>2
  <2>3. CASE saved
    <3>1. mfile'.res = results' /\ mfile'.age = 0
      BY <1>1, <2>3 DEF SaveState
    <3>2. good'[x] \in Nat /\ results'[x].age \in Nat
      BY <1>1, <1>2, <1>3, <1>4, <2>1 DEF MonitorTypes, Result
    <3> QED
      BY <3>1, <3>2, <2>2 DEF ResultEvidence
  <2>4. CASE ~saved
    <3>1. mfile' = mfile
      BY <1>1, <2>4
    <3> QED
      BY <3>1, <2>1, <2>2, <1>4 DEF ResultEvidence
  <2> QED
    BY <2>3, <2>4
<1>6. PICK a \in Snapshot, b \in Snapshot : a = snap /\ b = cache.s
  BY <1>3 DEF FleetTypes
<1>7. snap' = a /\ cache'.s = b
  BY <1>6 DEF record, fvars
<1>8. MonEvidence(a)' /\ MonEvidence(b)' /\ SecEvidence(a)' /\ SecEvidence(b)'
  BY <1>3, <1>4, <1>6, MonStays, SecStays DEF RecentInv
<1> QED
  BY <1>5, <1>7, <1>8 DEF RecentInv, MonEvidence, SecEvidence

LEMMA StartRecent ==
    ASSUME TypeInv, RecentInv, monitorStart, Seen(FALSE)
    PROVE  RecentInv'
<1>1. MonitorTypes /\ FleetTypes
  BY DEF TypeInv
<1>2. /\ UNCHANGED <<good, mfile, snap, cache>>
      /\ \A t \in Targets : results'[t].status # "healthy"
  BY DEF monitorStart, fvars, NoResult, None
<1>3. PICK a \in Snapshot, b \in Snapshot : a = snap /\ b = cache.s
  BY <1>1 DEF FleetTypes
<1>4. MonEvidence(a)' /\ MonEvidence(b)' /\ SecEvidence(a)' /\ SecEvidence(b)'
  BY <1>1, <1>2, <1>3, MonStays, SecStays DEF RecentInv
<1>5. snap' = a /\ cache'.s = b
  BY <1>2, <1>3
<1> QED
  BY <1>2, <1>4, <1>5 DEF RecentInv, ResultEvidence, MonEvidence, SecEvidence

(* The steps of the security check, of the export and of the overview. *)
LEMMA OtherRecent ==
    ASSUME TypeInv, RecentInv, Seen(FALSE), UNCHANGED <<results, good, mfile>>,
           snap' = snap \/ snap' = Export,
           cache'.s = cache.s \/ cache'.s = snap \/ cache'.s = Nothing
    PROVE  RecentInv'
<1>1. MonitorTypes /\ SecurityTypes /\ FleetTypes
  BY DEF TypeInv
<1>2. PICK a \in Snapshot, b \in Snapshot, e \in Snapshot, n \in Snapshot :
        a = snap /\ b = cache.s /\ e = Export /\ n = Nothing
  BY <1>1, ExportType, NothingType DEF FleetTypes
<1>3. e.mon = Monitoring /\ e.monAge = mfile.age /\ e.sec = Security /\ e.gen = 0
  BY <1>2 DEF Export
<1>4. MonEvidence(e)
  <2> SUFFICES ASSUME e.mon = "ok", NEW t \in Targets PROVE good[t] <= StaleAfter + e.monAge
    BY DEF MonEvidence
  <2>1. mfile.age \in Nat /\ mfile.res[t].age \in Nat
    BY <1>1 DEF MonitorTypes, Result
  <2> QED
    BY <2>1, <1>3, MonitoringIsOk, Limits DEF RecentInv, ResultEvidence
<1>5. SecEvidence(e)
  BY <1>3 DEF SecEvidence
<1>6. \A s \in {a, b, e, n} : MonEvidence(s)' /\ SecEvidence(s)'
  <2>1. \A s \in {a, b, e, n} : MonEvidence(s) /\ SecEvidence(s)
    BY <1>2, <1>4, <1>5, NothingIsShown DEF RecentInv
  <2> QED
    BY <2>1, <1>1, <1>2, MonStays, SecStays
<1>7. snap' \in {a, e} /\ cache'.s \in {a, b, n}
  BY <1>2
<1>8. MonEvidence(snap)' /\ SecEvidence(snap)' /\ MonEvidence(cache.s)' /\ SecEvidence(cache.s)'
  BY <1>6, <1>7 DEF MonEvidence, SecEvidence
<1> QED
  BY <1>8 DEF RecentInv, ResultEvidence

LEMMA TickRecent ==
    ASSUME TypeInv, RecentInv, Tick, Seen(TRUE)
    PROVE  RecentInv'
<1> USE Limits
<1>1. MonitorTypes /\ FleetTypes
  BY DEF TypeInv
<1>2. PICK a \in Snapshot, b \in Snapshot : a = snap /\ b = cache.s
  BY <1>1 DEF FleetTypes
<1>2a. PICK c, d : c = Aged(a) /\ d = Aged(b)
  OBVIOUS
<1>3. snap' = c /\ cache'.s = d
  BY <1>2, <1>2a DEF Tick
<1>4. MonEvidence(c)' /\ MonEvidence(d)' /\ SecEvidence(c)' /\ SecEvidence(d)'
  BY <1>1, <1>2, <1>2a, MonTicks, SecTicks DEF RecentInv
<1>5. ASSUME NEW t \in Targets PROVE ResultEvidence(t)'
  <2>1. ResultEvidence(t) /\ good[t] \in Nat /\ good'[t] \in Nat /\ good'[t] <= good[t] + 1
    BY <1>1, GoodTicks DEF RecentInv
  <2>2. /\ results \in [Targets -> Result] /\ mfile.res \in [Targets -> Result]
        /\ mfile.age \in Nat /\ results[t].age \in Nat
    BY <1>1 DEF MonitorTypes, Result
  <2>3. PICK r, f, m : r = AgedResults(results) /\ f = AgedResults(mfile.res)
                         /\ m = Older(mfile.age, MaxAge)
    OBVIOUS
  <2>4. results' = r /\ mfile'.res = f /\ mfile'.age = m
    BY <2>3 DEF Tick
  <2>5. /\ r[t].status = results[t].status /\ f[t].status = mfile.res[t].status
        /\ r[t].age <= StaleAfter => results[t].age <= StaleAfter /\ r[t].age = results[t].age + 1
        /\ f[t].age <= StaleAfter => mfile.res[t].age <= StaleAfter
    BY <2>2, <2>3, AgedResultsType
  <2>6. m <= MaxAge => mfile.age <= MaxAge /\ m = mfile.age + 1
    BY <2>2, <2>3, OlderType
  <2>7. r[t].status = "healthy" /\ r[t].age <= StaleAfter => good'[t] <= r[t].age
    BY <2>1, <2>2, <2>5 DEF ResultEvidence
  <2>8. f[t].status = "healthy" /\ f[t].age <= StaleAfter /\ m <= MaxAge
          => good'[t] <= StaleAfter + m
    BY <2>1, <2>2, <2>5, <2>6 DEF ResultEvidence
  <2> QED
    BY <2>4, <2>7, <2>8 DEF ResultEvidence
<1> QED
  BY <1>3, <1>4, <1>5 DEF RecentInv, MonEvidence, SecEvidence

LEMMA NextRecent ==
    ASSUME TypeInv, Next
    PROVE  \/ /\ Seen(FALSE)
              /\ \/ \E t \in Targets, saved \in BOOLEAN : record(t, saved)
                 \/ monitorStart
                 \/ /\ UNCHANGED <<results, good, mfile>>
                    /\ snap' = snap \/ snap' = Export
                    /\ cache' = cache \/ cache' \in Fetch
           \/ Tick /\ Seen(TRUE)
<1>1. ASSUME NEW t \in Targets, Recorded(t) \/ NotSaved(t)
      PROVE  \E saved \in BOOLEAN : record(t, saved)
  BY <1>1 DEF Recorded, NotSaved
<1>2. Notify \/ Save \/ Lost \/ Change => UNCHANGED <<results, good, mfile, snap, cache>>
  BY DEF Notify, Save, Lost, Change, mvars, fvars
<1>3. \A failing : Examine(failing) => UNCHANGED <<results, good, mfile, snap, cache>>
  BY DEF Examine, mvars, fvars
<1>4. fleetSnapshot => UNCHANGED <<results, good, mfile, cache>> /\ snap' = Export
  BY DEF fleetSnapshot, WriteSnapshot, mvars
<1>5. handleFleet => UNCHANGED <<results, good, mfile, snap>> /\ cache' \in Fetch
  BY DEF handleFleet, mvars
<1> QED
  BY <1>1, <1>2, <1>3, <1>4, <1>5 DEF Next

LEMMA RecentStep == TypeInv /\ RecentInv /\ [Next]_vars => RecentInv'
<1> SUFFICES ASSUME TypeInv, RecentInv, [Next]_vars PROVE RecentInv'
  OBVIOUS
<1>1. CASE UNCHANGED vars
  BY <1>1 DEF vars, mvars, svars, fvars, RecentInv, ResultEvidence, MonEvidence, SecEvidence, Security
<1>2. CASE Seen(FALSE) /\ UNCHANGED <<results, good, mfile>> /\ (snap' = snap \/ snap' = Export)
             /\ (cache' = cache \/ cache' \in Fetch)
  <2>1. cache'.s = cache.s \/ cache'.s = snap \/ cache'.s = Nothing
    <3>1. FleetTypes
      BY DEF TypeInv
    <3> QED
      BY <3>1, <1>2, FetchType
  <2> QED
    BY <2>1, <1>2, OtherRecent
<1>3. ASSUME NEW t \in Targets, NEW saved \in BOOLEAN, record(t, saved), Seen(FALSE)
      PROVE  RecentInv'
  BY <1>3, RecordRecent
<1>4. monitorStart /\ Seen(FALSE) => RecentInv'
  BY StartRecent
<1>5. Tick /\ Seen(TRUE) => RecentInv'
  BY TickRecent
<1> QED
  BY <1>1, <1>2, <1>3, <1>4, <1>5, NextRecent

-----------------------------------------------------------------------------
(* The inductive invariant and what it says.                               *)

LEMMA WatchersInit == Init => WatchersInv
<1> SUFFICES ASSUME Init PROVE WatchersInv
  OBVIOUS
<1> USE Limits
<1>1. MonitorTypes
  <2>1. StaleAfter + MaxAge + 1 \in Nat /\ MaxAge + 1 \in Nat /\ <<>> \in Seq(HealthStatus)
    OBVIOUS
  <2>2. results \in [Targets -> Result] /\ states \in [Targets -> AlertState]
    BY NewTypes DEF Init
  <2> QED
    BY <2>1, <2>2 DEF Init, MonitorTypes
<1>2. SecurityTypes
  <2>1. NoReport \in Report /\ SecurityAge + 1 \in Nat
    BY DEF NoReport, Report, Part
  <2>2. NoDelivery \in [digest : Report, alerted : BOOLEAN]
    BY <2>1 DEF NoDelivery
  <2>3. sfile \in [report : Report, age : Nat, del : Deliveries]
    BY <2>1, <2>2 DEF Init, Deliveries, Channels
  <2>4. heard \in [Channels -> Report]
    BY <2>1 DEF Init, Channels
  <2> QED
    BY <2>3, <2>4, RestingType DEF Init, SecurityTypes
<1>3. FleetTypes
  BY NothingType DEF Init, FleetTypes
<1>4. AlertInv
  BY FreshCounts DEF Init, AlertInv
<1>5. RecentInv
  <2>1. cache.s = Nothing /\ snap = Nothing
    BY DEF Init
  <2>2. \A t \in Targets : results[t].status # "healthy" /\ mfile.res[t].status # "healthy"
    BY DEF Init, NoResult, None
  <2> QED
    BY <2>1, <2>2, NothingIsShown DEF RecentInv, ResultEvidence
<1>6. HeardInv
  <2>1. /\ repeated = FALSE /\ check.phase = "idle"
        /\ \A c \in Channels : sfile.del[c] = NoDelivery /\ heard[c] = NoReport
    BY DEF Init, Channels, Resting
  <2>2. Told(NoDelivery, NoReport)
    BY NothingCalls, CallsType DEF Told, NoDelivery
  <2> QED
    BY <2>1, <2>2 DEF HeardInv
<1> QED
  BY <1>1, <1>2, <1>3, <1>4, <1>5, <1>6 DEF WatchersInv, TypeInv

LEMMA TypeStep == TypeInv /\ AlertInv /\ HeardInv /\ [Next]_vars => TypeInv'
<1> SUFFICES ASSUME TypeInv, AlertInv, HeardInv, [Next]_vars PROVE TypeInv'
  OBVIOUS
<1> USE DEF TypeInv
<1>1. SecurityTypes'
  BY HeardStep
<1>2. CASE UNCHANGED vars
  BY <1>1, <1>2 DEF vars, mvars, fvars, MonitorTypes, FleetTypes
<1>3. CASE Next
  <2>1. okAge' \in Nat
    <3>1. PICK a \in Nat : a = IF Security = "ok" THEN 0 ELSE okAge
      BY DEF FleetTypes
    <3>2. PICK b \in Nat : b = Older(a, MaxAge)
      BY Limits, OlderType
    <3>3. okAge' = a \/ okAge' = b
      BY <1>3, <3>1, <3>2 DEF Next, Seen
    <3> QED
      BY <3>3
  <2>2. MonitorTypes'
    <3>1. ASSUME UNCHANGED <<results, good, mfile>> PROVE MonitorTypes'
      <4>1. UNCHANGED <<states, recent>> \/ MonitorTypes'
        BY <1>3, NextAlerts, RecordTypes, StartTypes
      <4> QED
        BY <3>1, <4>1 DEF MonitorTypes
    <3> QED
      BY <1>3, <3>1, NextRecent, RecordTypes, StartTypes, TickTypes
  <2>3. snap' \in Snapshot /\ cache' \in [s : Snapshot, last : Nat]
    <3>1. /\ Export \in Snapshot /\ snap \in Snapshot /\ cache \in [s : Snapshot, last : Nat]
          /\ Fetch \subseteq [s : Snapshot, last : Nat]
      BY ExportType, FetchType DEF FleetTypes
    <3>2. \A t \in Targets, saved \in BOOLEAN : record(t, saved) => UNCHANGED <<snap, cache>>
      BY DEF record, fvars
    <3>3. monitorStart => UNCHANGED <<snap, cache>>
      BY DEF monitorStart, fvars
    <3> QED
      BY <1>3, <3>1, <3>2, <3>3, NextRecent, TickTypes
  <2> QED
    BY <1>1, <2>1, <2>2, <2>3 DEF FleetTypes
<1> QED
  BY <1>2, <1>3

LEMMA WatchersAlways == Spec => []WatchersInv
<1>1. WatchersInv /\ [Next]_vars => WatchersInv'
  BY TypeStep, AlertStep, RecentStep, HeardStep DEF WatchersInv, TypeInv
<1> QED
  BY <1>1, WatchersInit, PTL DEF Spec

(* An alert is open after as many failures in a row as the threshold, has   *)
(* the diagnosis that as many agree on, and is closed by a healthy check:   *)
(* AlertManager.Process counts no more than its window and no less.         *)
THEOREM AlertsAlwaysFollowChecks == Spec => []AlertFollowsChecks
<1>1. WatchersInv => AlertFollowsChecks
  <2> SUFFICES ASSUME WatchersInv PROVE AlertFollowsChecks
    OBVIOUS
  <2>1. /\ results \in [Targets -> Result] /\ states \in [Targets -> AlertState]
        /\ recent \in [Targets -> Seq(HealthStatus)] /\ cache.s \in Snapshot
        /\ \A t \in Targets : Counted(states[t], recent[t])
    BY DEF WatchersInv, TypeInv, MonitorTypes, FleetTypes, AlertInv
  <2>2. TypeOK
    <3>1. row \in [{"mon", "sec"} -> Verdict]
      <4>1. PICK s \in Snapshot : s = IF cache.last < TTL THEN cache.s ELSE Nothing
        BY <2>1, NothingType
      <4>2. \A a, b \in Verdict : [mon |-> a, sec |-> b] \in [{"mon", "sec"} -> Verdict]
        OBVIOUS
      <4>3. s.mon \in Verdict /\ s.sec \in Verdict /\ "unknown" \in Verdict
        BY DEF Snapshot, Verdict
      <4> QED
        BY <4>1, <4>2, <4>3 DEF row, fetchFleet
    <3>2. \A t \in Targets : results[t].age \in Nat /\ states[t].alerted \in Status
      BY <2>1 DEF Result, AlertState
    <3> QED
      BY <2>1, <3>1, <3>2 DEF TypeOK, Counted, Verdict, Status
  <2> QED
    BY <2>1, <2>2, CountedAlert DEF AlertFollowsChecks, Last1
<1> QED
  BY <1>1, WatchersAlways, PTL

(* What the overview shows as ok was ok a short while ago, whatever of the  *)
(* monitor, the state files, the agent and the cache stopped since.         *)
THEOREM OverviewIsNeverOld == Spec => []OverviewIsRecent
<1>1. WatchersInv => OverviewIsRecent
  <2> SUFFICES ASSUME WatchersInv PROVE OverviewIsRecent
    OBVIOUS
  <2>1. /\ cache.s \in Snapshot /\ MonEvidence(cache.s) /\ SecEvidence(cache.s)
        /\ good \in [Targets -> Nat] /\ okAge \in Nat
    BY DEF WatchersInv, TypeInv, MonitorTypes, FleetTypes, RecentInv
  <2>2. PICK s \in Snapshot : s = IF cache.last < TTL THEN cache.s ELSE Nothing
    BY <2>1, NothingType
  <2>3. MonEvidence(s) /\ SecEvidence(s)
    BY <2>1, <2>2, NothingIsShown
  <2>4. row = fetchFleet(s)
    BY <2>2 DEF row
  <2>5. s.gen \in Nat /\ s.monAge \in Nat
    BY DEF Snapshot
  <2>6. row.mon = "ok" => s.mon = "ok" /\ s.monAge <= MaxAge
    BY <2>4 DEF fetchFleet, Validate
  <2>7. row.sec = "ok" => s.sec = "ok" /\ s.gen <= MaxAge
    BY <2>4 DEF fetchFleet, Validate
  <2>8. row.mon = "ok" => \A t \in Targets : good[t] <= StaleAfter + MaxAge
    BY <2>1, <2>3, <2>5, <2>6, Limits DEF MonEvidence
  <2>9. row.sec = "ok" => Security = "ok" \/ okAge <= MaxAge
    BY <2>1, <2>3, <2>5, <2>7, Limits DEF SecEvidence
  <2> QED
    BY <2>8, <2>9 DEF OverviewIsRecent
<1> QED
  BY <1>1, WatchersAlways, PTL

(* Each channel is told of a change once, and of nothing that is not one,   *)
(* however the others fail: Notify remembers what each channel accepted.    *)
THEOREM ChannelsAlwaysHearChanges == Spec => []ChannelsHearChanges
<1>1. WatchersInv => ChannelsHearChanges
  BY DEF WatchersInv, HeardInv, Told, ChannelsHearChanges, Channels
<1> QED
  BY <1>1, WatchersAlways, PTL
=============================================================================
