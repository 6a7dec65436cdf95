---------------------------- MODULE BackupStore -----------------------------
(***************************************************************************)
(* One project's backups: the directories under the backup path and their  *)
(* rows in the backups table, as `fleetdeck backup create` (and snapshot)  *)
(* and `fleetdeck backup delete` change them.  Creating a backup ends with *)
(* EnforceRetention: at most a number of backups of each type, and none    *)
(* older than an age, except the last of its type.                         *)
(*                                                                         *)
(* No lock orders these commands: each database statement and each removal *)
(* of a directory is a step of its own, and any command may be killed      *)
(* between two of them.                                                    *)
(***************************************************************************)
EXTENDS Integers, FiniteSets

CONSTANTS
    Procs,       \* commands that run at the same time
    MaxBackups,  \* bound: backups ever created
    MaxFailures, \* bound: kills and failed removals
    Limit(_)     \* MaxManualBackups, MaxSnapshots; 0 is no limit

Types == {"manual", "snapshot"}
Backups == 1 .. MaxBackups

ASSUME StoreAssumption == MaxBackups \in Nat /\ MaxFailures \in Nat
ASSUME LimitAssumption == \A t \in Types : Limit(t) \in Nat

VARIABLES
    rows,     \* the backups in the table
    created,  \* [Backups -> their created_at; 0 before they have a row]
    clock,    \* the last created_at
    kind,     \* [Backups -> Types]: a backup's type
    partial,  \* directories still being written
    whole,    \* directories with everything their manifest names
    aged,     \* backups older than MaxAgeDays
    made,     \* backups created so far
    pc,       \* [Procs -> where the command is]
    id,       \* [Procs -> the backup it creates or deletes]
    loop,     \* [Procs -> EnforceRetention's phase: a type, or "age"]
    excess,   \* [Procs -> count - maxCount, as read]
    todo,     \* [Procs -> the records it will delete, the oldest first]
    failures,
    byHand,   \* history: backups a `backup delete` began to remove
    overlapped \* history: commands at work that another one overlapped

storeVars == <<rows, created, clock, kind, partial, whole, aged, made, pc, id, loop, excess, todo,
               failures, byHand, overlapped>>

OfType(t) == {b \in rows : kind[b] = t}
Count(t) == Cardinality(OfType(t))
Oldest(set) == {b \in set : \A c \in set : created[b] <= created[c]}

StoreInit ==
    /\ rows = {} /\ created = [b \in Backups |-> 0] /\ clock = 0
    /\ kind = [b \in Backups |-> "manual"]
    /\ partial = {} /\ whole = {} /\ aged = {}
    /\ made = 0 /\ failures = 0 /\ byHand = {} /\ overlapped = {}
    /\ pc = [p \in Procs |-> "idle"]
    /\ id = [p \in Procs |-> 0]
    /\ loop = [p \in Procs |-> "age"]
    /\ excess = [p \in Procs |-> 0]
    /\ todo = [p \in Procs |-> {}]

Goto(p, step) == pc' = [pc EXCEPT ![p] = step]

Finish(p) ==
    /\ Goto(p, "idle")
    /\ id' = [id EXCEPT ![p] = 0]
    /\ loop' = [loop EXCEPT ![p] = "age"]
    /\ excess' = [excess EXCEPT ![p] = 0]
    /\ todo' = [todo EXCEPT ![p] = {}]

-----------------------------------------------------------------------------
(* CreateBackup. *)

Begin(p, t) ==
    /\ pc[p] = "idle" /\ made < MaxBackups
    /\ made' = made + 1
    /\ kind' = [kind EXCEPT ![made + 1] = t]
    /\ partial' = partial \cup {made + 1}
    /\ id' = [id EXCEPT ![p] = made + 1]
    /\ Goto(p, "write")
    /\ UNCHANGED <<rows, created, clock, whole, aged, loop, excess, todo, failures, byHand>>

(* Configuration, dumps, volumes and the manifest; an error removes the    *)
(* incomplete directory.                                                   *)
WriteFiles(p) ==
    /\ pc[p] = "write"
    /\ partial' = partial \ {id[p]}
    /\ \/ whole' = whole \cup {id[p]} /\ Goto(p, "insert") /\ UNCHANGED <<id, loop, excess, todo>>
       \/ UNCHANGED whole /\ Finish(p)
    /\ UNCHANGED <<rows, created, clock, kind, aged, made, failures, byHand>>

RowAtOnce(p) == pc[p] \in {"write", "insert"}
(* The row is written once the directory is complete. *)
RowIsDue(p) == pc[p] = "insert"

(* The deferred clean-up of a backup that has no record. *)
Discard(p) == whole' = whole \ {id[p]}

(* CreateBackupRecord, stamped with the current time; an error removes the *)
(* directory.                                                              *)
Insert(p) ==
    /\ RowIsDue(p)
    /\ \/ /\ rows' = rows \cup {id[p]}
          /\ clock' = clock + 1 /\ created' = [created EXCEPT ![id[p]] = clock + 1]
          /\ Goto(p, "count")
          /\ loop' = [loop EXCEPT ![p] = "manual"]
          /\ UNCHANGED <<whole, id, excess, todo>>
       \/ Discard(p) /\ Finish(p) /\ UNCHANGED <<rows, created, clock>>
    /\ UNCHANGED <<kind, partial, aged, made, failures, byHand>>

-----------------------------------------------------------------------------
(* EnforceRetention. *)

(* A phase is over: manual, then snapshot, then age, then done. *)
NextPhase(p) ==
    IF loop[p] = "age" THEN Finish(p)
    ELSE /\ loop' = [loop EXCEPT ![p] = IF loop[p] = "manual" THEN "snapshot" ELSE "age"]
         /\ Goto(p, "count")
         /\ excess' = [excess EXCEPT ![p] = 0]
         /\ todo' = [todo EXCEPT ![p] = {}]
         /\ UNCHANGED id

OverLimit(t) == Limit(t) > 0 /\ Count(t) > Limit(t)

ExcessPlusOne(t) == Count(t) - Limit(t) + 1
Excess(t) == Count(t) - Limit(t)

(* enforceMaxCount: CountBackupsByType. *)
CountType(p) ==
    /\ pc[p] = "count" /\ loop[p] \in Types
    /\ \/ /\ OverLimit(loop[p])
          /\ excess' = [excess EXCEPT ![p] = Excess(loop[p])]
          /\ Goto(p, "oldest") /\ UNCHANGED <<id, loop, todo>>
       \/ ~OverLimit(loop[p]) /\ NextPhase(p)
    /\ UNCHANGED <<rows, created, clock, kind, partial, whole, aged, made, failures, byHand>>

(* enforceMaxCount: GetOldestBackups, LIMIT excess. *)
GetOldest(p) ==
    /\ pc[p] = "oldest"
    /\ todo' = [todo EXCEPT ![p] =
          {b \in OfType(loop[p]) :
             Cardinality({c \in OfType(loop[p]) : created[c] < created[b]}) < excess[p]}]
    /\ Goto(p, "delete")
    /\ UNCHANGED <<rows, created, clock, kind, partial, whole, aged, made, id, loop, excess, failures, byHand>>

(* GetExpiredBackups. *)
GetExpired(p) ==
    /\ pc[p] = "count" /\ loop[p] = "age"
    /\ todo' = [todo EXCEPT ![p] = rows \cap aged]
    /\ Goto(p, "check")
    /\ UNCHANGED <<rows, created, clock, kind, partial, whole, aged, made, id, loop, excess, failures, byHand>>

(* "never delete the last backup" *)
IsLast(t) == Count(t) <= 1

Step(p) == IF loop[p] = "age" THEN "check" ELSE "delete"
Skip(p, b) == Goto(p, Step(p)) /\ todo' = [todo EXCEPT ![p] = @ \ {b}]

CheckLast(p) ==
    /\ pc[p] = "check"
    /\ \E b \in Oldest(todo[p]) :
          \/ IsLast(kind[b]) /\ Skip(p, b)
          \/ ~IsLast(kind[b]) /\ Goto(p, "delete") /\ UNCHANGED todo
    /\ UNCHANGED <<rows, created, clock, kind, partial, whole, aged, made, id, loop, excess, failures, byHand>>

PhaseOver(p) ==
    /\ pc[p] \in {"check", "delete"} /\ todo[p] = {}
    /\ NextPhase(p)
    /\ UNCHANGED <<rows, created, clock, kind, partial, whole, aged, made, failures, byHand>>

(* deleteBackup: the row first; when that fails the files stay. *)
DeleteRow(p) ==
    /\ pc[p] = "delete"
    /\ \E b \in Oldest(todo[p]) :
          \/ /\ rows' = rows \ {b}
             /\ Goto(p, "unlink") /\ UNCHANGED <<todo, failures>>
          \/ /\ failures < MaxFailures /\ failures' = failures + 1
             /\ Skip(p, b) /\ UNCHANGED rows
    /\ UNCHANGED <<created, clock, kind, partial, whole, aged, made, id, loop, excess, byHand>>

(* deleteBackup: then the files; a failure is a warning. *)
Unlink(p) ==
    /\ pc[p] = "unlink"
    /\ \E b \in Oldest(todo[p]) :
          /\ Skip(p, b)
          /\ \/ whole' = whole \ {b} /\ UNCHANGED failures
             \/ failures < MaxFailures /\ failures' = failures + 1 /\ UNCHANGED whole
    /\ UNCHANGED <<rows, created, clock, kind, partial, aged, made, id, loop, excess, byHand>>

-----------------------------------------------------------------------------
(* `backup delete`: the files first, a failure is a warning; then the row. *)

DeleteFiles(p, b) ==
    /\ pc[p] = "idle" /\ b \in rows
    /\ id' = [id EXCEPT ![p] = b]
    /\ Goto(p, "deleteRecord")
    /\ byHand' = byHand \cup {b}
    /\ \/ whole' = whole \ {b} /\ UNCHANGED failures
       \/ failures < MaxFailures /\ failures' = failures + 1 /\ UNCHANGED whole
    /\ UNCHANGED <<rows, created, clock, kind, partial, aged, made, loop, excess, todo>>

DeleteRecord(p) ==
    /\ pc[p] = "deleteRecord"
    /\ \/ rows' = rows \ {id[p]} /\ UNCHANGED failures
       \/ failures < MaxFailures /\ failures' = failures + 1 /\ UNCHANGED rows
    /\ Finish(p)
    /\ UNCHANGED <<created, clock, kind, partial, whole, aged, made, byHand>>

-----------------------------------------------------------------------------
(* The command is killed. *)
Crash(p) ==
    /\ pc[p] # "idle" /\ failures < MaxFailures
    /\ failures' = failures + 1
    /\ Finish(p)
    /\ UNCHANGED <<rows, created, clock, kind, partial, whole, aged, made, byHand>>

(* Time passes: the oldest young backup crosses MaxAgeDays. *)
GrowOld ==
    /\ \E b \in Oldest(rows \ aged) : aged' = aged \cup {b}
    /\ UNCHANGED <<rows, created, clock, kind, partial, whole, made, pc, id, loop, excess, todo, failures, byHand>>

NoteOverlaps ==
    overlapped' = {p \in Procs : /\ pc'[p] # "idle"
                                 /\ p \in overlapped \/ \E q \in Procs \ {p} : pc'[q] # "idle"}

StoreNext ==
    /\ \/ \E p \in Procs :
             \/ \E t \in Types : Begin(p, t)
             \/ WriteFiles(p) \/ Insert(p)
             \/ CountType(p) \/ GetOldest(p) \/ GetExpired(p) \/ CheckLast(p) \/ PhaseOver(p)
             \/ DeleteRow(p) \/ Unlink(p)
             \/ \E b \in Backups : DeleteFiles(p, b)
             \/ DeleteRecord(p)
             \/ Crash(p)
       \/ GrowOld
    /\ NoteOverlaps

StoreSpec == StoreInit /\ [][StoreNext]_storeVars

-----------------------------------------------------------------------------
(* Every variable keeps its type.                                          *)
StoreTypeOK ==
    /\ rows \subseteq Backups /\ created \in [Backups -> Nat] /\ clock \in Nat
    /\ kind \in [Backups -> Types]
    /\ partial \subseteq Backups /\ whole \subseteq Backups /\ aged \subseteq Backups
    /\ made \in 0 .. MaxBackups /\ failures \in 0 .. MaxFailures /\ byHand \subseteq Backups
    /\ overlapped \subseteq Procs
    /\ pc \in [Procs -> {"idle", "write", "insert", "count", "oldest", "check", "delete",
                         "unlink", "deleteRecord"}]
    /\ id \in [Procs -> 0 .. MaxBackups]
    /\ loop \in [Procs -> Types \cup {"age"}]
    /\ excess \in [Procs -> 0 .. MaxBackups]
    /\ todo \in [Procs -> SUBSET Backups]

(* A row never points to missing data, whatever commands run together and  *)
(* wherever they are killed: a row appears after its directory is complete *)
(* and, except when `backup delete` began with the files, goes before it.  *)
RowsHaveData == \A b \in rows \ byHand : b \in whole

(* A directory without a row belongs to a command at work, or to a kill or *)
(* a failed removal.                                                       *)
OrphansAreFaults ==
    \A b \in (whole \cup partial) \ rows :
        failures > 0 \/ \E p \in Procs : b = id[p] \/ b \in todo[p]

(* Rows and directories belong together, in both directions, although they *)
(* are written and removed one after the other.                            *)
RowsMatchData == StoreTypeOK /\ RowsHaveData /\ OrphansAreFaults

(* Unless another command overlapped it, retention removes a row only      *)
(* while there are more of its type than the limit, or when it is older    *)
(* than the maximum age and not the last of its type.                      *)
PrunesOnlyExcess ==
    [][\A p \in Procs \ overlapped, b \in Backups :
          pc[p] = "delete" /\ b \in rows \ rows' =>
              \/ b \in aged /\ Count(kind[b]) > 1
              \/ Limit(kind[b]) > 0 /\ Count(kind[b]) > Limit(kind[b])]_storeVars

=============================================================================
