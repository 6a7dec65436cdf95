---------------------------- MODULE Restoration ----------------------------
(* What is in a backup and how it comes back: CreateBackup, RestoreBackup   *)
(* and the commands that use them (backup create, restore and delete,       *)
(* rollback, migrate, deploy with its watch, export and import of the state *)
(* of FleetDeck), on one host and for one project.                          *)
(*                                                                          *)
(* A command is a plan: its steps in order and what the failure of each     *)
(* means.  The application writes while it is up, any step may fail, any    *)
(* process may be killed, and processes interleave step by step.  Contents  *)
(* are version numbers.  Rows and files of backups under retention are the  *)
(* subject of BackupStore, the strategies of a deploy of DeployStrategy.    *)
EXTENDS Integers, Sequences, FiniteSets, SequencesExt, FiniteSetsExt

CONSTANTS
    Processes,    \* commands and handlers that may be at work at once
    Listed,       \* rows that ListBackupRecords returns at most (50 in the code)
    Kept,         \* rows of each type that EnforceRetention keeps
    MaxCommands,  \* bound: commands started in a behaviour
    MaxWrites,    \* bound: writes of the application
    MaxFaults     \* bound: failing steps and kills in a behaviour

Nobody == "nobody"

ASSUME ProcessAssumption == Nobody \notin Processes
ASSUME BoundsAssumption ==
    Listed \in Nat \ {0} /\ Kept \in Nat \ {0} /\ MaxCommands \in Nat /\ MaxWrites \in Nat /\ MaxFaults \in Nat

VARIABLES
    live,      \* what each part of the project holds
    run,       \* which containers run: none, the database, all
    saved,     \* the rows of the backups; a later one has a higher number
    aside,     \* copies of the bind directory that restores left on the disk
    registry,  \* the database file of FleetDeck
    exports,   \* the versions of it in archives of the state
    history,   \* snapshots of app_migrations, oldest first
    mutex,     \* the process that holds projectMutex(name), or None
    flock,     \* the process that holds the deploy lock of the project
    job,       \* per process, the command at work
    version,   \* the last version written
    started, writes, faults

vars == <<live, run, saved, aside, registry, exports, history, mutex, flock, job, version,
          started, writes, faults>>

None == -2   \* nothing there
Torn == -1   \* neither what was there nor what should have been

(* Configuration files; a directory of the project mounted into a           *)
(* container; a named volume; a database that is dumped and loaded.  The    *)
(* volume of a database that is dumped is not archived.                     *)
Dumped == {"data"}
Archived == {"bind", "volume"}
Owned == Dumped \cup Archived
Parts == {"config"} \cup Owned

(* A step, its subject ("all" where it is no particular part) and what its *)
(* failure means.                                                           *)
(*   stop: the command ends with an error;                                  *)
(*   go:   a warning, and the command continues;                            *)
(*   skip: a warning, and the command continues without the snapshot;       *)
(*   note: the failure is collected and the rest of the part left out;      *)
(*   undo: the directory that was moved away is moved back;                 *)
(*   keep: the staging directory is kept under another name;                *)
(*   drop: the database that does not open is removed.                      *)
S(do, of, on) == [do |-> do, of |-> of, on |-> on]

-----------------------------------------------------------------------------
(* CreateBackup: configuration, databases, volumes, manifest and row.  The  *)
(* directory of a backup that fails is removed.  The project is not stopped.*)
BackupConfigFiles(on) == S("take", "config", on)
BackupDatabases(on) == S("take", "data", on)
BackupVolumes(on) == S("take", "volumes", on)
CreateBackup(trigger, on) ==
    <<BackupConfigFiles(on), BackupDatabases(on), BackupVolumes(on), S("record", trigger, on)>>
Snapshot == {"take", "record"}

(* restoreProjectBindMount: extract beside the target, move the target away, *)
(* move the extracted directory in; move back if that fails.                *)
restoreProjectBindMountNoUndo ==
    <<S("stage", "bind", "note"), S("away", "bind", "note"), S("in", "bind", "note")>>
restoreProjectBindMount ==
    <<S("stage", "bind", "note"), S("away", "bind", "note"), S("in", "bind", "undo")>>
restoreConfigFiles == <<S("put", "config", "note")>>
restoreNamedVolume == <<S("put", "volume", "note")>>
restoreDatabases == <<S("dbup", "data", "note"), S("put", "data", "note")>>

(* RestoreBackup: nothing is replaced before the backup is verified and the *)
(* containers are stopped; nothing is started after a failure.              *)
Preflight == <<S("verify", "all", "stop")>>
RestoreBackup(parts) ==
    Preflight \o <<S("down", "all", "stop")>>
    \o (IF "config" \in parts THEN restoreConfigFiles ELSE <<>>)
    \o (IF "volume" \in parts THEN restoreNamedVolume \o restoreProjectBindMount ELSE <<>>)
    \o (IF "data" \in parts THEN restoreDatabases ELSE <<>>)
    \o <<S("failures", "all", "stop"), S("up", "all", "stop")>>

handleCreateBackup == CreateBackup("manual", "stop")
backupCreateCmd == CreateBackup("manual", "stop") \o <<S("prune", "all", "go")>>
autoSnapshot(trigger) == CreateBackup(trigger, "skip") \o <<S("prune", "all", "go")>>
backupRestoreCmd(parts) ==
    <<S("pick", "any", "stop")>> \o CreateBackup("pre-restore", "stop") \o RestoreBackup(parts)
backupDeleteCmd == <<S("pick", "any", "stop"), S("files-", "all", "go"), S("row-", "all", "stop")>>

runRollback(snapshot) ==
    <<S("pick", "any", "stop")>>
    \o (IF snapshot THEN CreateBackup("pre-rollback", "stop") ELSE <<>>) \o RestoreBackup(Parts)

handleRestoreBackupUnlocked == <<S("pick", "any", "stop")>> \o RestoreBackup(Parts)
handleRestoreBackup ==
    <<S("pick", "any", "stop"), S("lock", "all", "stop")>> \o RestoreBackup(Parts)
handleDeleteBackup == backupDeleteCmd
handleStartProject == <<S("lock", "all", "stop"), S("up", "all", "stop")>>
handleStopProject == <<S("lock", "all", "stop"), S("down", "all", "stop")>>

(* migrate.Run: a snapshot, a row, the command in the container, the result.*)
MigrateRun(skip) == (IF skip THEN <<>> ELSE CreateBackup("pre-migration", "stop"))
                    \o <<S("begin", "all", "stop"), S("alter", "data", "stop")>>
migrateRunCmd(skip) == MigrateRun(skip)
runDeployMigration == MigrateRun(FALSE)
migrateRollbackCmd == <<S("pick", "migration", "stop")>> \o RestoreBackup(Parts)

(* deployLocal takes the lock, snapshots and runs the strategy; the         *)
(* migration and the watch follow without the lock.                         *)
deployLocal == <<S("flock", "all", "stop")>> \o autoSnapshot("pre-deploy")
               \o <<S("deploy", "all", "stop"), S("funlock", "all", "go")>>
Observe == <<S("watch", "all", "stop")>>
rollbackToPreDeploySnapshotNewest(parts) == <<S("pick", "newest", "stop")>> \o RestoreBackup(parts)
rollbackToPreDeploySnapshot(parts) == <<S("pick", "pre-deploy", "stop")>> \o RestoreBackup(parts)
runPostDeployWatchdog(parts) == Observe \o rollbackToPreDeploySnapshot(parts)
deployCmd(migrate, parts) ==
    deployLocal \o (IF migrate THEN runDeployMigration ELSE <<>>) \o runPostDeployWatchdog(parts)

(* The state of FleetDeck itself.                                           *)
extractTarGz == S("extract", "all", "stop")
ImportState == <<extractTarGz, S("copydb", "all", "stop"), S("opens", "all", "drop"),
                 S("copyrest", "all", "stop")>>
importStateCmdNoExport == ImportState
ExportState(on) == <<S("export", "all", on)>>
importStateCmd == ExportState("go") \o ImportState
exportCmd == ExportState("stop")

Plans == [
    create |-> backupCreateCmd, delete |-> backupDeleteCmd,
    apiCreate |-> handleCreateBackup, apiDelete |-> handleDeleteBackup,
    restore |-> backupRestoreCmd(Parts), restoreVolumes |-> backupRestoreCmd({"bind", "volume"}),
    rollback |-> runRollback(TRUE), rollbackBare |-> runRollback(FALSE),
    migrate |-> migrateRunCmd(FALSE), migrateBare |-> migrateRunCmd(TRUE), migrateBack |-> migrateRollbackCmd,
    deploy |-> deployCmd(FALSE, Parts), deployFiles |-> deployCmd(TRUE, {"config"}),
    apiRestore |-> handleRestoreBackup, apiStart |-> handleStartProject, apiStop |-> handleStopProject,
    export |-> exportCmd, import |-> importStateCmd]
Commands == DOMAIN Plans
Deploys == {"deploy", "deployFiles"}
Serialised == {"apiRestore", "apiStart", "apiStop"}
Harmless == {"create", "delete", "apiCreate", "apiDelete", "export", "import"}
Restores == Commands \ (Harmless \cup {"apiStart", "apiStop", "migrate", "migrateBare"})

-----------------------------------------------------------------------------
Idle == [cmd |-> Nobody, todo |-> <<>>, pick |-> 0, cap |-> [x \in Parts |-> None], bad |-> FALSE,
         snap |-> 0, own |-> 0, prev |-> None, alone |-> TRUE]
Active(p) == job[p].cmd # Nobody
Others(p) == {q \in Processes \ {p} : Active(q)}
Quiet == \A p \in Processes : ~Active(p)
Now(p) == Head(job[p].todo)

(* The rows of backups that are listed, and the one a command has chosen.   *)
ListBackupRecords == {b \in saved : Cardinality({c \in saved : c.id > b.id}) < Listed}
IdsOf(rows) == {b.id : b \in rows}
Ids == IdsOf(saved)
Chosen(p) == CHOOSE b \in saved : b.id = job[p].pick
OnDisk(p) == job[p].pick \in Ids /\ Chosen(p).files # "gone"
Verified(p) == OnDisk(p) /\ Chosen(p).files = "whole"
Held(p, x) == Chosen(p).at[x]

(* What a command may choose: what the operator names, the newest, the      *)
(* newest before a deploy, the snapshot of the newest migration with one.   *)
ListAppMigrations == Reverse(history)
Newest(rows) == {b \in rows : \A c \in rows : c.id <= b.id}
findBackup(how) ==
    CASE how = "any" -> IdsOf(ListBackupRecords)
      [] how = "newest" -> IdsOf(Newest(ListBackupRecords))
      [] how = "pre-deploy" -> IdsOf(Newest({b \in ListBackupRecords : b.trigger = how}))
      [] how = "migration" ->
            LET known == SelectSeq(ListAppMigrations, LAMBDA id : id # 0) IN
            IF known = <<>> THEN {} ELSE {Head(known)} \cap IdsOf(ListBackupRecords)

(* An application that runs beside no backup, or beside an older one.       *)
Init ==
    /\ \E old \in BOOLEAN :
          saved = IF old THEN {[id |-> 1, at |-> [x \in Parts |-> 0], trigger |-> "manual",
                                files |-> "whole"]} ELSE {}
    /\ live = [x \in Parts |-> 1] /\ run = "all" /\ version = 1
    /\ aside = {} /\ registry = 0 /\ exports = {} /\ history = <<>>
    /\ mutex = Nobody /\ flock = Nobody /\ job = [p \in Processes |-> Idle]
    /\ started = 0 /\ writes = 0 /\ faults = 0

(* The application writes while it is up.  What it writes between commands  *)
(* makes no difference to them.                                             *)
Fresh(x) == IF live[x] < 0 THEN live[x] ELSE version + 1
Write ==
    /\ run = "all" /\ ~Quiet /\ writes < MaxWrites /\ writes' = writes + 1
    /\ live' = [x \in Parts |-> IF x \in Owned THEN Fresh(x) ELSE live[x]] /\ version' = version + 1
    /\ UNCHANGED <<run, saved, aside, registry, exports, history, mutex, flock, job, started, faults>>

(* A file of a backup goes bad while nobody uses it.                        *)
Damage ==
    /\ Quiet /\ faults < MaxFaults /\ faults' = faults + 1
    /\ \E b \in saved : b.files = "whole" /\ saved' = (saved \ {b}) \cup {[b EXCEPT !.files = "bad"]}
    /\ UNCHANGED <<live, run, aside, registry, exports, history, mutex, flock, job, version, started, writes>>

(* Commands that disturb each other, unless the lock keeps them apart.      *)
Disturbs(c, d) == {c, d} \cap Harmless = {} /\ ~({c, d} \subseteq Serialised)
(* Bound: commands that disturb each other overlap only where both restore. *)
(* The state of FleetDeck is exported and imported while nothing else works.*)
Together(c, d) == /\ {c, d} \cap {"export", "import"} = {}
                  /\ Disturbs(c, d) => {c, d} \subseteq {"rollbackBare", "apiRestore", "apiStart"}
Start(p, c) ==
    /\ ~Active(p) /\ started < MaxCommands /\ started' = started + 1
    /\ \A q \in Others(p) : Together(c, job[q].cmd)
    /\ job' = [q \in Processes |->
          IF q = p THEN [Idle EXCEPT !.cmd = c, !.todo = Plans[c],
                                     !.alone = \A o \in Others(p) : ~Disturbs(c, job[o].cmd)]
          ELSE [job[q] EXCEPT !.alone = @ /\ (Active(q) => ~Disturbs(c, job[q].cmd))]]
    /\ UNCHANGED <<live, run, saved, aside, registry, exports, history, mutex, flock, version, writes, faults>>

-----------------------------------------------------------------------------
(* When a step can be taken at all.                                         *)
Dumpable == run # "none"
Possible(p, s) ==
    /\ s.do = "take" /\ s.of \in Dumped => Dumpable
    /\ s.do = "pick" => findBackup(s.of) # {}
    /\ s.do = "verify" => Verified(p)
    /\ s.do \in {"put", "stage"} => OnDisk(p)
    /\ s.do \in {"in", "back"} => live["bind"] = None
    /\ s.do = "failures" => ~job[p].bad
    /\ s.do = "flock" => flock = Nobody
    /\ s.do = "alter" => run = "all"
    /\ s.do \in {"export", "opens"} => registry >= 0
    /\ s.do \in {"files-", "row-"} => job[p].pick \in Ids

(* A component that the backup does not have is not restored.               *)
Restored(p, x) == IF Held(p, x) = None THEN live[x]
                  ELSE IF Chosen(p).files = "bad" THEN Torn ELSE Held(p, x)
Exec == [live EXCEPT !["data"] = Fresh("data")]
LiveAfter(p, s) ==
    CASE s.do = "put" -> [live EXCEPT ![s.of] = Restored(p, s.of)]
      [] s.do = "away" -> [live EXCEPT !["bind"] = None]
      [] s.do = "in" -> [live EXCEPT !["bind"] = job[p].cap["bind"]]
      [] s.do = "back" -> [live EXCEPT !["bind"] = job[p].prev]
      [] s.do = "alter" -> Exec
      [] OTHER -> live
RunAfter(s) == CASE s.do \in {"up", "deploy"} -> "all"
                 [] s.do = "down" -> "none"
                 [] s.do = "dbup" /\ run = "none" -> "db"
                 [] OTHER -> run
CreateAppMigration(p) == Append(history, job[p].snap)
(* EnforceRetention, for backups of each type: see BackupStore.             *)
Type(b) == IF b.trigger = "manual" THEN "manual" ELSE "snapshot"
EnforceRetention ==
    {b \in saved : Cardinality({c \in saved : Type(c) = Type(b) /\ c.id > b.id}) < Kept}
SavedAfter(p, s) ==
    CASE s.do = "record" ->
            saved \cup {[id |-> version + 1, at |-> job[p].cap, trigger |-> s.of, files |-> "whole"]}
      [] s.do = "files-" -> (saved \ {Chosen(p)}) \cup {[Chosen(p) EXCEPT !.files = "gone"]}
      [] s.do = "prune" -> EnforceRetention
      [] s.do = "row-" -> saved \ {Chosen(p)}
      [] OTHER -> saved
(* The steps that remain: the three of a bind directory that the backup     *)
(* does not have are left out, and a watch that sees no failures ends.      *)
Rest(p, s) ==
    LET todo == Tail(job[p].todo) IN
    CASE s.do = "stage" /\ Held(p, "bind") = None -> {SubSeq(todo, 3, Len(todo))}
      [] s.do = "watch" -> {todo, <<>>}
      [] OTHER -> {todo}

Taken(of) == IF of = "volumes" THEN Archived ELSE {of}
CapAfter(p, s) ==
    CASE s.do = "take" -> [x \in Parts |-> IF x \in Taken(s.of) THEN live[x] ELSE job[p].cap[x]]
      [] s.do \in {"record", "in"} -> Idle.cap
      [] s.do = "stage" -> [job[p].cap EXCEPT !["bind"] = Restored(p, "bind")]
      [] OTHER -> job[p].cap
PrevAfter(p, s) ==
    CASE s.do = "away" -> live["bind"]
      [] s.do \in {"in", "back", "preserve"} -> None
      [] OTHER -> job[p].prev
Picks(p, s) == IF s.do = "pick" THEN findBackup(s.of) ELSE {job[p].pick}
JobAfter(p, s, t, k) ==
    [job[p] EXCEPT !.todo = t,
                   !.pick = k,
                   !.cap = CapAfter(p, s),
                   !.snap = IF s.do = "record" THEN version + 1 ELSE @,
                   !.own = IF s.do = "record" /\ s.of = "pre-deploy" THEN version + 1 ELSE @,
                   !.prev = PrevAfter(p, s)]

Do(p) ==
    /\ Active(p) /\ job[p].todo # <<>>
    /\ LET s == Now(p) IN
          /\ Possible(p, s) /\ (s.do = "lock" => mutex = Nobody)
          /\ live' = LiveAfter(p, s) /\ run' = RunAfter(s) /\ saved' = SavedAfter(p, s)
          /\ \E t \in Rest(p, s), k \in Picks(p, s) : job' = [job EXCEPT ![p] = JobAfter(p, s, t, k)]
          /\ aside' = IF s.do = "preserve" THEN aside \cup {job[p].prev} ELSE aside
          /\ registry' = IF s.do = "copydb" THEN 1 ELSE registry
          /\ exports' = IF s.do = "export" THEN exports \cup {registry} ELSE exports
          /\ history' = IF s.do = "begin" THEN CreateAppMigration(p) ELSE history
          /\ mutex' = IF s.do = "lock" THEN p ELSE mutex
          /\ flock' = CASE s.do = "flock" -> p [] s.do = "funlock" -> Nobody [] OTHER -> flock
          /\ version' = IF s.do \in {"record", "alter"} THEN version + 1 ELSE version
    /\ UNCHANGED <<started, writes, faults>>

(* After a failure.                                                         *)
Drop(todo, out) == LET keep == {i \in DOMAIN todo : todo[i] \notin out} IN
    IF keep = {} THEN <<>> ELSE SubSeq(todo, Min(keep), Len(todo))
After(p, s) ==
    LET todo == Tail(job[p].todo) IN
    CASE s.on = "go" -> todo
      [] s.on = "skip" -> Drop(todo, {t \in ToSet(todo) : t.do \in Snapshot})
      [] s.on = "note" -> Drop(todo, {t \in ToSet(todo) : t.of = s.of})
      [] s.on = "undo" -> IF job[p].prev = None THEN todo ELSE <<S("back", "bind", "keep")>> \o todo
      [] s.on = "keep" -> <<S("preserve", "bind", "go")>> \o todo
      [] OTHER -> <<>>
FailedJob(p, s) ==
    [job EXCEPT ![p].todo = After(p, s), ![p].bad = @ \/ s.on \in {"note", "undo"},
                ![p].prev = IF s.do = "preserve" THEN None ELSE @]
Failed(p, s) ==
    /\ job' = FailedJob(p, s)
    /\ registry' = IF s.on = "drop" THEN None ELSE registry
    /\ UNCHANGED <<saved, aside, exports, history, mutex, flock, version, started, writes>>

Refuse(p) ==
    /\ Active(p) /\ job[p].todo # <<>> /\ ~Possible(p, Now(p)) /\ Failed(p, Now(p))
    /\ UNCHANGED <<live, run, faults>>

(* What a step that fails, or is cut off, may have done to what it works    *)
(* on: several files are replaced one after another, a volume is cleared    *)
(* before it is filled, a dump is loaded statement by statement.            *)
Halfway(s) ==
    IF s.do \in {"put", "alter"} THEN {live, [live EXCEPT ![s.of] = Torn]} ELSE {live}
Halted(s) == IF s.do \in {"up", "down", "dbup", "deploy"} THEN {run, RunAfter(s), "none"} ELSE {run}
Fallible == {"take", "record", "down", "up", "dbup", "put", "stage", "away", "in", "back", "preserve",
             "deploy", "alter", "export", "extract", "opens", "copyrest", "files-", "row-"}
Fail(p) ==
    /\ Active(p) /\ job[p].todo # <<>> /\ faults < MaxFaults /\ faults' = faults + 1
    /\ LET s == Now(p) IN
          /\ s.do \in Fallible /\ Possible(p, s)
          /\ live' \in Halfway(s) /\ run' \in Halted(s) /\ Failed(p, s)
(* The copy of the database is written in place.                            *)
FailCopy(p) ==
    /\ Active(p) /\ job[p].todo # <<>> /\ faults < MaxFaults /\ faults' = faults + 1
    /\ Now(p).do = "copydb" /\ registry' \in {registry, Torn}
    /\ job' = [job EXCEPT ![p].todo = <<>>]
    /\ UNCHANGED <<live, run, saved, aside, exports, history, mutex, flock, version, started, writes>>

End(p) ==
    /\ Active(p) /\ job[p].todo = <<>>
    /\ job' = [job EXCEPT ![p] = Idle]
    /\ mutex' = IF mutex = p THEN Nobody ELSE mutex
    /\ flock' = IF flock = p THEN Nobody ELSE flock
    /\ UNCHANGED <<live, run, saved, aside, registry, exports, history, version, started, writes, faults>>

(* A killed process leaves its locks to nobody and its staging directory on *)
(* the disk.                                                                *)
Kill(p) ==
    /\ Active(p) /\ job[p].todo # <<>> /\ faults < MaxFaults /\ faults' = faults + 1
    /\ live' \in Halfway(Now(p)) /\ registry' \in IF Now(p).do = "copydb" THEN {registry, Torn} ELSE {registry}
    /\ aside' = IF job[p].prev = None THEN aside ELSE aside \cup {job[p].prev}
    /\ job' = [job EXCEPT ![p] = Idle]
    /\ mutex' = IF mutex = p THEN Nobody ELSE mutex
    /\ flock' = IF flock = p THEN Nobody ELSE flock
    /\ UNCHANGED <<run, saved, exports, history, version, started, writes>>

Next ==
    \/ Write \/ Damage
    \/ \E p \in Processes : \/ \E c \in Commands : Start(p, c)
                            \/ Do(p) \/ Refuse(p) \/ Fail(p) \/ FailCopy(p) \/ End(p) \/ Kill(p)

Spec == Init /\ [][Next]_vars

-----------------------------------------------------------------------------
TypeOK ==
    /\ live \in [Parts -> -2..version] /\ run \in {"none", "db", "all"}
    /\ \A b \in saved : b.id \in 1..version /\ b.at \in [Parts -> -2..version]
    /\ aside \subseteq -1..version /\ registry \in -2..1 /\ exports \subseteq {0, 1}
    /\ mutex \in Processes \cup {Nobody} /\ flock \in Processes \cup {Nobody}

(* A project is started after a restore only with every selected part as    *)
(* the backup had it: a damaged backup, a failed part, a backup deleted     *)
(* under the restore or a handler beside it never lead to a start on a      *)
(* mixture.  Commands that bypass the lock are excepted.                    *)
Selected(p) == CASE job[p].cmd = "deployFiles" -> {"config"}
                 [] job[p].cmd = "restoreVolumes" -> {"bind", "volume"}
                 [] OTHER -> Parts
RestoredIsWhole ==
    /\ TypeOK
    /\ \A p \in Processes :
          /\ job[p].cmd \in Restores /\ job[p].todo = <<S("up", "all", "stop")>>
          /\ job[p].alone /\ job[p].pick \in Ids
          => \A x \in Selected(p) : Held(p, x) # None => live[x] = Held(p, x)

(* The directory of a bind mount is where it was, or its content is beside  *)
(* it, however restores end, beside each other or not, and whatever two     *)
(* steps fail.  (A third failing rename loses it, with the staging          *)
(* directory.)                                                              *)
BindDataNeverLost ==
    live["bind"] = None => aside # {} \/ (\E p \in Processes : job[p].prev # None) \/ faults >= 3

(* The watch of a deploy restores the snapshot of this deploy, not one of   *)
(* its migration nor one of an earlier deploy, as long as it was taken and  *)
(* is listed.                                                               *)
WatchGoesBackOneDeploy ==
    \A p \in Processes :
        /\ job[p].cmd \in Deploys /\ job[p].alone
        /\ job[p].pick # 0 /\ job[p].own \in Ids
        => job[p].pick = job[p].own

(* An import that destroys the database of FleetDeck leaves an archive of   *)
(* it, unless the archive itself failed before.                             *)
ImportKeepsAWayBack == registry < 0 /\ exports = {} => faults >= 2
=============================================================================
