----------------------------- MODULE AlertRelay -----------------------------
(***************************************************************************)
(* The durable alert relay, internal/notify (`fleetdeck alert watch`): a   *)
(* process tails the system journal, batches the events it finds, and      *)
(* sends each batch to every notification provider, keeping its cursor,    *)
(* the pending batch and the per-provider successes in a state file.       *)
(*                                                                         *)
(* A journal cursor is the index of an entry; 0 is the empty cursor.       *)
(***************************************************************************)
EXTENDS Integers, Sequences

CONSTANTS
    Procs,          \* relay processes that may be started
    RelayProviders, \* sequence of notification providers, in delivery order
    MaxBatch,       \* most entries readJournal returns (1000 in the code)
    MaxEntries,     \* bound: entries the journal ever gets
    MaxRelayFaults, \* bound: crashes, failed saves and lost acknowledgements
    NoProc

ASSUME BatchAssumption == MaxBatch \in Nat \ {0}
ASSUME BoundsAssumption == MaxEntries \in Nat /\ MaxRelayFaults \in Nat
ASSUME RelayAssumption == RelayProviders \in Seq(Nat)
ASSUME ProcsAssumption == NoProc \notin Procs

VARIABLES
    journal,   \* sequence of "event" (Classify gives it a kind) or "noise"
    file,      \* a state file exists
    disk,      \* its content, meaningful when file
    lock,      \* the process that holds the flock on the .lock file
    pc,        \* [Procs -> where Watch is]
    mem,       \* [Procs -> relayState in memory]
    idx,       \* [Procs -> provider the deliver loop is at]
    failed,    \* [Procs -> a provider failed in this deliver]
    copies,    \* history: [provider index -> [entry -> times received]]
    relayFaults \* number of faults so far

relayVars == <<journal, file, disk, lock, pc, mem, idx, failed, copies, relayFaults>>
env == <<journal, copies>>

ProviderIdx == 1 .. Len(RelayProviders)
Entries == 1 .. MaxEntries

(* relayState; pending = 0 is a nil Pending, done is Pending.Delivered. *)
States == [since : 0 .. MaxEntries, cursor : 0 .. MaxEntries,
           pending : 0 .. MaxEntries, done : SUBSET ProviderIdx]
State(since, cursor, pending, done) ==
    [since |-> since, cursor |-> cursor, pending |-> pending, done |-> done]
Blank == State(0, 0, 0, {})

(* Where reading resumes: --after-cursor, or --since when there is none. *)
Position(s) == IF s.cursor # 0 THEN s.cursor ELSE s.since

RelayInit ==
    /\ journal = << >>
    /\ file = FALSE /\ disk = Blank
    /\ lock = NoProc
    /\ pc = [p \in Procs |-> "off"]
    /\ mem = [p \in Procs |-> Blank]
    /\ idx = [p \in Procs |-> 1]
    /\ failed = [p \in Procs |-> FALSE]
    /\ copies = [v \in ProviderIdx |-> [i \in Entries |-> 0]]
    /\ relayFaults = 0

-----------------------------------------------------------------------------
(* The journal grows, with or without a relay. *)
Append1(kind) ==
    /\ Len(journal) < MaxEntries
    /\ journal' = Append(journal, kind)
    /\ UNCHANGED <<file, disk, lock, pc, mem, idx, failed, copies, relayFaults>>

(* The process ends; the kernel releases its flock. *)
Exit(p) ==
    /\ pc' = [pc EXCEPT ![p] = "off"]
    /\ mem' = [mem EXCEPT ![p] = Blank]
    /\ idx' = [idx EXCEPT ![p] = 1]
    /\ failed' = [failed EXCEPT ![p] = FALSE]
    /\ lock' = NoProc

Goto(p, step, i, f) ==
    /\ pc' = [pc EXCEPT ![p] = step]
    /\ idx' = [idx EXCEPT ![p] = i]
    /\ failed' = [failed EXCEPT ![p] = f]

(* saveState replaces the file atomically; then Watch goes on with s.      *)
SaveAndGoto(p, s, step, i, f) ==
    /\ mem' = [mem EXCEPT ![p] = s]
    /\ disk' = s /\ file' = TRUE
    /\ Goto(p, step, i, f)
    /\ UNCHANGED relayFaults

(* saveState fails, before the rename or after it (directory sync), and    *)
(* Watch returns the error.                                                *)
SaveFails(p, s) ==
    /\ relayFaults < MaxRelayFaults
    /\ relayFaults' = relayFaults + 1
    /\ \/ UNCHANGED <<file, disk>>
       \/ file' = TRUE /\ disk' = s
    /\ Exit(p)

(* What Watch loads: the state file, or a new state that starts now.       *)
Loaded == IF file THEN disk ELSE State(Len(journal), 0, 0, {})

LockIsFreeAnyway == TRUE
LockIsFree == lock = NoProc

(* Watch: take the lock without waiting, load or create the state, save.   *)
Start(p) ==
    /\ pc[p] = "off" /\ LockIsFree
    /\ \/ SaveAndGoto(p, Loaded, "deliver", 1, FALSE) /\ lock' = p
       \/ SaveFails(p, Loaded)
    /\ UNCHANGED env

-----------------------------------------------------------------------------
(* deliver: the batch covers the entries after the position up to pending. *)
InBatch(s, i) == Position(s) < i /\ i <= s.pending

Receive(v, s) ==
    copies' = [copies EXCEPT ![v] =
        [i \in Entries |-> copies[v][i] + (IF InBatch(s, i) THEN 1 ELSE 0)]]

(* The loop over providers of a batch is not finished. *)
AtProvider(p) ==
    /\ pc[p] = "deliver" /\ mem[p].pending # 0
    /\ idx[p] \in ProviderIdx

(* A provider that already has the batch is passed over. *)
SkipDelivered(p) ==
    /\ AtProvider(p) /\ idx[p] \in mem[p].done
    /\ Goto(p, "deliver", idx[p] + 1, failed[p])
    /\ UNCHANGED <<env, file, disk, lock, mem, relayFaults>>

(* provider.Send succeeds; the success is only in memory yet. *)
SendOK(p) ==
    /\ AtProvider(p) /\ idx[p] \notin mem[p].done
    /\ Receive(idx[p], mem[p])
    /\ Goto(p, "sent", idx[p], failed[p])
    /\ UNCHANGED <<journal, file, disk, lock, mem, relayFaults>>

(* provider.Send returns an error; the provider may have got the message   *)
(* all the same (a lost acknowledgement).  The other providers are tried.  *)
SendFails(p) ==
    /\ AtProvider(p) /\ idx[p] \notin mem[p].done
    /\ \/ UNCHANGED <<copies, relayFaults>>
       \/ /\ relayFaults < MaxRelayFaults /\ relayFaults' = relayFaults + 1
          /\ Receive(idx[p], mem[p])
    /\ Goto(p, "deliver", idx[p] + 1, TRUE)
    /\ UNCHANGED <<journal, file, disk, lock, mem>>

(* Delivered[name] = true, saved at once. *)
RecordSent(p) ==
    LET s == State(mem[p].since, mem[p].cursor, mem[p].pending,
                   mem[p].done \cup {idx[p]}) IN
    /\ pc[p] = "sent"
    /\ \/ SaveAndGoto(p, s, "deliver", idx[p] + 1, failed[p]) /\ UNCHANGED lock
       \/ SaveFails(p, s)
    /\ UNCHANGED env

FinishRegardless(p) ==
    pc[p] = "deliver" /\ mem[p].pending # 0 /\ idx[p] > Len(RelayProviders)
(* deliver reached its end without a failed provider. *)
AllDelivered(p) ==
    pc[p] = "deliver" /\ mem[p].pending # 0 /\ idx[p] > Len(RelayProviders)
        /\ ~failed[p]

(* The cursor passes the batch once every provider has it. *)
FinishBatch(p) ==
    LET s == State(mem[p].since, mem[p].pending, 0, {}) IN
    /\ AllDelivered(p)
    /\ \/ SaveAndGoto(p, s, "read", 1, FALSE) /\ UNCHANGED lock
       \/ SaveFails(p, s)
    /\ UNCHANGED env

(* deliver returns "pending batch retained for retry" and Watch ends. *)
GiveUp(p) ==
    /\ pc[p] = "deliver" /\ idx[p] > Len(RelayProviders) /\ failed[p]
    /\ Exit(p)
    /\ UNCHANGED <<env, file, disk, relayFaults>>

(* deliver without a pending batch has nothing to do. *)
NothingPending(p) ==
    /\ pc[p] = "deliver" /\ mem[p].pending = 0
    /\ Goto(p, "read", 1, FALSE)
    /\ UNCHANGED <<env, file, disk, lock, mem, relayFaults>>

-----------------------------------------------------------------------------
(* Summarize: nil when no entry of the batch classifies as an event. *)
HasEvent(from, to) == \E i \in (from + 1) .. to : journal[i] = "event"

(* The entries readJournal returns end here: all, or the first MaxBatch.   *)
BatchEnd(s) ==
    IF Len(journal) - Position(s) > MaxBatch THEN Position(s) + MaxBatch
                                              ELSE Len(journal)

EndOfJournal(s, end) == State(s.since, Len(journal), 0, {})
(* The new state: a pending batch, or a cursor past the noise. *)
AfterRead(s, end) ==
    IF HasEvent(Position(s), end)
    THEN State(s.since, s.cursor, end, {})
    ELSE State(s.since, end, 0, {})

(* readJournal finds entries; the batch is saved before anything is sent.  *)
ReadEntries(p) ==
    LET s == AfterRead(mem[p], BatchEnd(mem[p])) IN
    /\ pc[p] = "read" /\ Len(journal) > Position(mem[p])
    /\ \/ SaveAndGoto(p, s, "deliver", 1, FALSE) /\ UNCHANGED lock
       \/ SaveFails(p, s)
    /\ UNCHANGED env

(* journalctl fails, or ctx is cancelled: Watch returns. *)
ReadFails(p) ==
    /\ pc[p] = "read"
    /\ Exit(p)
    /\ UNCHANGED <<env, file, disk, relayFaults>>

(* The process is killed. *)
Crash(p) ==
    /\ pc[p] # "off" /\ relayFaults < MaxRelayFaults
    /\ relayFaults' = relayFaults + 1
    /\ Exit(p)
    /\ UNCHANGED <<env, file, disk>>

-----------------------------------------------------------------------------
Deliver(p) ==
    \/ SkipDelivered(p) \/ SendOK(p) \/ SendFails(p) \/ RecordSent(p)
    \/ FinishBatch(p)   \/ GiveUp(p) \/ NothingPending(p)

Step(p) == Start(p) \/ Deliver(p) \/ ReadEntries(p) \/ ReadFails(p)

RelayNext ==
    \/ \E kind \in {"event", "noise"} : Append1(kind)
    \/ \E p \in Procs : Step(p) \/ Crash(p)

RelaySpec == RelayInit /\ [][RelayNext]_relayVars

(* systemd restarts a failed relay without a start limit; journalctl and   *)
(* every provider work again and again, though they may fail in between.   *)
FairSpec ==
    /\ RelaySpec
    /\ WF_relayVars(\E p \in Procs : Start(p))
    /\ \A p \in Procs : WF_relayVars(Deliver(p))
    /\ SF_relayVars(\E p \in Procs : ReadEntries(p))
    /\ \A v \in ProviderIdx : SF_relayVars(\E p \in Procs : idx[p] = v /\ SendOK(p))

-----------------------------------------------------------------------------
(* Every variable keeps its type. *)
RelayTypeOK ==
    /\ journal \in Seq({"event", "noise"}) /\ Len(journal) <= MaxEntries
    /\ file \in BOOLEAN /\ disk \in States
    /\ lock \in Procs \cup {NoProc}
    /\ pc \in [Procs -> {"off", "deliver", "sent", "read"}]
    /\ mem \in [Procs -> States]
    /\ idx \in [Procs -> 1 .. Len(RelayProviders) + 1]
    /\ failed \in [Procs -> BOOLEAN]
    /\ copies \in [ProviderIdx -> [Entries -> Nat]]
    /\ relayFaults \in 0 .. MaxRelayFaults

(* Nothing the relay has passed is lost: every event between the first     *)
(* start and the cursor on disk has reached every provider, through        *)
(* crashes, failed saves, failed sends and restarts.                       *)
NoEventSkipped ==
    file => \A v \in ProviderIdx : \A i \in (disk.since + 1) .. Position(disk) :
                journal[i] = "event" => copies[v][i] >= 1

(* "A process crash in between may duplicate a message": a provider gets   *)
(* an event more than once only if as many faults happened; the failure of *)
(* one provider never makes another one receive the batch again.           *)
DuplicatesNeedFaults ==
    \A v \in ProviderIdx, i \in Entries : copies[v][i] <= 1 + relayFaults

(* Once in order, whatever fails: no event is passed over, and repeats are *)
(* no more than the faults.                                                *)
EventsOnceInOrder == RelayTypeOK /\ NoEventSkipped /\ DuplicatesNeedFaults

(* Every event logged while the relay is installed reaches every provider. *)
EventsDelivered ==
    \A i \in Entries :
        (file /\ i <= Len(journal) /\ i > disk.since /\ journal[i] = "event")
            ~> (\A v \in ProviderIdx : copies[v][i] >= 1)
=============================================================================
