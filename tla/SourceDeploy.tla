---------------------------- MODULE SourceDeploy ----------------------------
(***************************************************************************)
(* The protected source deployment, internal/sourcedeploy (`fleetdeck      *)
(* deploy receive`): an uploaded source tree replaces a project's files    *)
(* file by file, after the writers were stopped and a verified backup was  *)
(* taken, and Compose brings the services up.  Several deploy processes    *)
(* and a local `fleetdeck deploy` compete for one project; any of them may *)
(* be killed between two steps.                                            *)
(*                                                                         *)
(* A file's content is the upload it came from, Server for what was on the *)
(* server before, or Absent.  File names are opaque: the sorted order in   *)
(* which Apply copies files is any order.                                  *)
(***************************************************************************)
EXTENDS FiniteSets, Integers

CONSTANTS
    Deployers,  \* processes that run Engine.Apply
    Local,      \* a `fleetdeck deploy` on the server
    NoProc,
    Uploads,    \* source archives
    Files,      \* project-relative file names
    Compose,    \* the Compose file
    Env,        \* the root .env
    Services,   \* Compose services that are not logical databases
    Server, Absent, NoBackup,
    MaxDeploys, \* bound: calls of Apply
    Contains(_),  \* the files of a source tree, with .env when one is to be sent
    PrivateOf(_)  \* the private files a Compose file of this content names

Contents == Uploads \cup {Server, Absent}

ASSUME ProcsAssumption == NoProc \notin Deployers \cup {Local} /\ Local \notin Deployers
ASSUME FilesAssumption == Compose \in Files /\ Env \in Files /\ Compose # Env
ASSUME ContentsAssumption == Server # Absent /\ Server \notin Uploads /\ Absent \notin Uploads
ASSUME UploadsAssumption ==
    /\ Uploads # {}
    /\ \A u \in Uploads : Contains(u) \subseteq Files /\ Compose \in Contains(u)
ASSUME PrivateAssumption ==
    \A c \in Contents : PrivateOf(c) \subseteq Files \ {Compose}
ASSUME NoComposeAssumption == PrivateOf(Absent) = {}
ASSUME BoundAssumption == MaxDeploys \in Nat
ASSUME NoBackupAssumption == NoBackup \notin [Files -> Contents]

VARIABLES
    admission,  \* holder of base/.source-locks/<name>
    lock,       \* holder of <project>/.fleetdeck.lock
    registered, \* the project has a database row
    dir,        \* the project directory exists
    disk,       \* [Files -> Contents]: the project directory
    temps,      \* files with a .fleetdeck-copy-<name> left by a killed copy
    stateful,   \* the Compose model mounts something writable
    running,    \* the services that run
    status,     \* the project row's status
    backups,    \* config trees of the verified backups
    pc,         \* [Deployers -> where Apply is]
    upload,     \* [Deployers -> the archive]
    created,    \* [Deployers -> result.Created]
    updates,    \* [Deployers -> files still to copy]
    written,    \* [Deployers -> files copied, to be restored on failure]
    record,     \* [Deployers -> config tree of this deploy's backup, or NoBackup]
    stopped,    \* [Deployers -> services to start again on return]
    result,     \* [Deployers -> how Apply returns]
    found,      \* history: [Deployers -> the directory when it was locked]
    abandoned,  \* history: services a kill, a failed start or a failed up left down
    deploys     \* calls of Apply so far

server == <<registered, dir, disk, temps, stateful, running, status, backups>>
flow == <<pc, upload, created, updates, written, record, stopped, result, found>>
vars == <<admission, lock, server, flow, abandoned, deploys>>

Trees == [Files -> Contents]
Nothing == [f \in Files |-> Absent]
Steps == {"idle", "register", "row", "lock", "stage", "quiesce", "backup", "retain", "build",
          "copy", "restore", "up", "record", "return", "unlock", "leave"}
Locked == {"stage", "quiesce", "backup", "retain", "build", "copy", "restore", "up", "record",
           "return", "unlock"}

(* A server on which the project is unknown, an unregistered directory     *)
(* lies in its place, or it is registered and was put there before.        *)
Init ==
    /\ admission = NoProc /\ lock = NoProc
    /\ registered \in BOOLEAN /\ dir \in BOOLEAN
    /\ registered => dir
    /\ disk \in [Files -> {Server, Absent}]
    /\ ~dir => disk = Nothing
    /\ temps = {}
    /\ stateful \in BOOLEAN
    /\ running \in SUBSET Services
    /\ disk[Compose] = Absent => running = {}
    /\ status = "created"
    /\ backups = {}
    /\ pc = [p \in Deployers |-> "idle"]
    /\ upload = [p \in Deployers |-> CHOOSE u \in Uploads : TRUE]
    /\ created = [p \in Deployers |-> FALSE]
    /\ updates = [p \in Deployers |-> {}]
    /\ written = [p \in Deployers |-> {}]
    /\ record = [p \in Deployers |-> NoBackup]
    /\ stopped = [p \in Deployers |-> {}]
    /\ result = [p \in Deployers |-> "none"]
    /\ found = [p \in Deployers |-> Nothing]
    /\ abandoned = Services \ running
    /\ deploys = 0

(* How a call of Apply ended; afterUp: compose up failed, or the status    *)
(* write after it.                                                         *)
Results == {"none", "failed", "unrestored", "afterUp", "healthy"}

(* The process is gone, and its variables with it. *)
End(p) ==
    /\ pc' = [pc EXCEPT ![p] = "idle"]
    /\ upload' = [upload EXCEPT ![p] = CHOOSE u \in Uploads : TRUE]
    /\ created' = [created EXCEPT ![p] = FALSE]
    /\ updates' = [updates EXCEPT ![p] = {}]
    /\ written' = [written EXCEPT ![p] = {}]
    /\ record' = [record EXCEPT ![p] = NoBackup]
    /\ stopped' = [stopped EXCEPT ![p] = {}]
    /\ result' = [result EXCEPT ![p] = "none"]
    /\ found' = [found EXCEPT ![p] = Nothing]

Goto(p, step) == pc' = [pc EXCEPT ![p] = step]

(* An error return: the deferred functions of Apply run next.              *)
Fail(p) ==
    /\ Goto(p, "return")
    /\ result' = [result EXCEPT ![p] = "failed"]

-----------------------------------------------------------------------------
(* Admission and registration. *)

LockIsFreeAnyway(l) == TRUE
(* deploy.AcquireLock: flock without waiting. *)
LockIsFree(l) == l = NoProc

(* Apply starts: the admission lock, or "project is already being deployed". *)
Admit(p, u) ==
    /\ pc[p] = "idle" /\ LockIsFree(admission)
    /\ deploys < MaxDeploys /\ deploys' = deploys + 1
    /\ admission' = p
    /\ Goto(p, "register")
    /\ upload' = [upload EXCEPT ![p] = u]
    /\ UNCHANGED <<lock, server, created, updates, written, record, stopped, result, found,
                   abandoned>>

(* The row is looked up; without one the path must not exist, and the user *)
(* and the directory are created.                                          *)
Register(p) ==
    /\ pc[p] = "register"
    /\ \/ registered /\ Goto(p, "lock") /\ UNCHANGED <<result, dir>>
       \/ ~registered /\ ~dir /\ dir' = TRUE /\ Goto(p, "row") /\ UNCHANGED result
       \/ Fail(p) /\ UNCHANGED dir
    /\ UNCHANGED <<admission, lock, registered, disk, temps, stateful, running, status,
                   backups, upload, created, updates, written, record, stopped, found,
                   abandoned, deploys>>

(* DB.CreateProject; when the insert fails the directory stays.            *)
CreateProject(p) ==
    /\ pc[p] = "row"
    /\ \/ /\ registered' = TRUE /\ status' = "created"
          /\ created' = [created EXCEPT ![p] = TRUE]
          /\ Goto(p, "lock") /\ UNCHANGED result
       \/ Fail(p) /\ UNCHANGED <<registered, status, created>>
    /\ UNCHANGED <<admission, lock, dir, disk, temps, stateful, running, backups, upload,
                   updates, written, record, stopped, found, abandoned, deploys>>

LockProject(p) ==
    /\ pc[p] = "lock"
    /\ \/ /\ LockIsFree(lock) /\ lock' = p
          /\ found' = [found EXCEPT ![p] = disk]
          /\ Goto(p, "stage") /\ UNCHANGED result
       \/ Fail(p) /\ UNCHANGED <<lock, found>>
    /\ UNCHANGED <<admission, server, upload, created, updates, written, record, stopped,
                   abandoned, deploys>>

-----------------------------------------------------------------------------
(* Staging, under the project lock. *)

ProtectedByUpload(p) == {Env} \cup PrivateOf(upload[p])
(* sensitive and protected: .env, and what the Compose files name private. *)
Protected(p) == {Env} \cup PrivateOf(upload[p]) \cup PrivateOf(disk[Compose])

(* The client leaves out what its own Compose file names private; .env is  *)
(* sent only on request.  Extract takes every regular file of the archive. *)
ArchiveWithEnv(u) == Contains(u) \ (PrivateOf(u) \ {Env})
Extract(p) == ArchiveWithEnv(upload[p])

(* The files to copy: protected ones stay out; .env only when there is none. *)
Updates(p) ==
    {f \in Extract(p) :
        f \notin Protected(p) \/ (f = Env /\ disk[Env] = Absent)}

Existing == disk[Compose] # Absent

(* Without a readable Compose model only an otherwise empty project goes on. *)
MayStartEmpty(p) == created[p] \/ \A f \in Files \ {Env} : disk[f] = Absent

(* Extract, secret scan, Compose and path validation in the staging tree:  *)
(* any of them may refuse, and nothing of the project changes.             *)
Stage(p) ==
    /\ pc[p] = "stage"
    /\ \/ /\ Existing \/ MayStartEmpty(p)
          /\ updates' = [updates EXCEPT ![p] = Updates(p)]
          /\ Goto(p, IF Existing THEN "quiesce" ELSE "build")
          /\ UNCHANGED result
       \/ Fail(p) /\ UNCHANGED updates
    /\ UNCHANGED <<admission, lock, server, upload, created, written, record, stopped, found,
                   abandoned, deploys>>

-----------------------------------------------------------------------------
(* Stop the writers, take the backup, build. *)

QuiesceForgetsOnError(S, ok) == IF ok THEN S ELSE {}
(* What quiesce hands back: the services it asked to stop, on an error too. *)
QuiesceResult(S, ok) == S

(* Stateful projects stop every running writer; a stop may fail half way.  *)
Quiesce(p) ==
    /\ pc[p] = "quiesce"
    /\ \/ ~stateful /\ Goto(p, "backup") /\ UNCHANGED <<running, stopped, result>>
       \/ /\ stateful
          /\ running' = {}
          /\ stopped' = [stopped EXCEPT ![p] = QuiesceResult(running, TRUE)]
          /\ Goto(p, "backup") /\ UNCHANGED result
       \/ /\ stateful
          /\ running' \in SUBSET running
          /\ stopped' = [stopped EXCEPT ![p] = QuiesceResult(running, FALSE)]
          /\ Fail(p)
       \/ Fail(p) /\ UNCHANGED <<running, stopped>>
    /\ UNCHANGED <<admission, lock, registered, dir, disk, temps, stateful, status, backups,
                   upload, created, updates, written, record, found, abandoned, deploys>>

SnapshotWithoutSource(p) == [f \in Files |-> IF f \in Protected(p) THEN disk[f] ELSE Absent]
(* AddSourceFiles: the previous content of the files about to be replaced  *)
(* and of the private files; a missing file has none.                      *)
Snapshot(p) == [f \in Files |-> IF f \in updates[p] \cup Protected(p) THEN disk[f] ELSE Absent]

(* Backup, AddSourceFiles and VerifyBackup. *)
TakeBackup(p) ==
    /\ pc[p] = "backup"
    /\ \/ /\ record' = [record EXCEPT ![p] = Snapshot(p)]
          /\ backups' = backups \cup {Snapshot(p)}
          /\ Goto(p, "retain") /\ UNCHANGED result
       \/ Fail(p) /\ UNCHANGED <<backups, record>>
    /\ UNCHANGED <<admission, lock, registered, dir, disk, temps, stateful, running, status,
                   upload, created, updates, written, stopped, found, abandoned, deploys>>

(* saveRuntime keeps the old images under tags of this backup. *)
SaveRuntime(p) ==
    /\ pc[p] = "retain"
    /\ \/ Goto(p, "build") /\ UNCHANGED result
       \/ Fail(p)
    /\ UNCHANGED <<admission, lock, server, upload, created, updates, written, record, stopped,
                   found, abandoned, deploys>>

(* Pull and build in the staging tree. *)
Build(p) ==
    /\ pc[p] = "build"
    /\ \/ Goto(p, "copy") /\ UNCHANGED result
       \/ Fail(p)
    /\ UNCHANGED <<admission, lock, server, upload, created, updates, written, record, stopped,
                   found, abandoned, deploys>>

-----------------------------------------------------------------------------
(* Replace the source. *)

(* copyRootFile opens .fleetdeck-copy-<name> with O_EXCL. *)
MayCopy(f) == f \notin temps

CopyFile(p, f) ==
    /\ pc[p] = "copy" /\ f \in updates[p] /\ MayCopy(f)
    /\ disk' = [disk EXCEPT ![f] = upload[p]]
    /\ updates' = [updates EXCEPT ![p] = @ \ {f}]
    /\ written' = [written EXCEPT ![p] = @ \cup {f}]
    /\ UNCHANGED <<admission, lock, registered, dir, temps, stateful, running, status, backups,
                   pc, upload, created, record, stopped, result, found, abandoned, deploys>>

FailKeepingSource(p) == Fail(p)
(* A failure after files were replaced: restoreSource, when there is a backup. *)
FailAndRestore(p) ==
    IF record[p] = NoBackup THEN Fail(p)
    ELSE Goto(p, "restore") /\ result' = [result EXCEPT ![p] = "failed"]

(* A copy fails (always when its temporary name is taken), or PrepareEdge. *)
ReplaceFails(p) ==
    /\ pc[p] = "copy"
    /\ FailAndRestore(p)
    /\ UNCHANGED <<admission, lock, server, upload, created, updates, written, record, stopped,
                   found, abandoned, deploys>>

PrepareEdge(p) ==
    /\ pc[p] = "copy" /\ updates[p] = {}
    /\ Goto(p, "up")
    /\ UNCHANGED <<admission, lock, server, upload, created, updates, written, record, stopped,
                   result, found, abandoned, deploys>>

(* restoreSource, one file: the old content comes back, or the file is     *)
(* removed when it had none; a failure is noted and the loop goes on.      *)
RestoreFile(p, f) ==
    /\ pc[p] = "restore" /\ f \in written[p]
    /\ \/ /\ MayCopy(f) \/ record[p][f] = Absent
          /\ disk' = [disk EXCEPT ![f] = record[p][f]]
          /\ UNCHANGED result
       \/ result' = [result EXCEPT ![p] = "unrestored"] /\ UNCHANGED disk
    /\ written' = [written EXCEPT ![p] = @ \ {f}]
    /\ UNCHANGED <<admission, lock, registered, dir, temps, stateful, running, status, backups,
                   pc, upload, created, updates, record, stopped, found, abandoned, deploys>>

RestoreDone(p) ==
    /\ pc[p] = "restore" /\ written[p] = {}
    /\ Goto(p, "return")
    /\ UNCHANGED <<admission, lock, server, upload, created, updates, written, record, stopped,
                   result, found, abandoned, deploys>>

-----------------------------------------------------------------------------
(* Start, and return. *)

(* compose up --wait; the stopped list is dropped whatever it says.        *)
Up(p) ==
    /\ pc[p] = "up"
    /\ stopped' = [stopped EXCEPT ![p] = {}]
    /\ Goto(p, "record")
    /\ \/ /\ running' = Services /\ abandoned' = {}
          /\ UNCHANGED result
       \/ /\ running' \in SUBSET Services /\ abandoned' = Services \ running'
          /\ result' = [result EXCEPT ![p] = "afterUp"]
    /\ UNCHANGED <<admission, lock, registered, dir, disk, temps, stateful, status, backups,
                   upload, created, updates, written, record, found, deploys>>

(* UpdateProjectStatus: an error is ignored after a failed up, returned    *)
(* after a good one.                                                       *)
RecordStatus(p) ==
    /\ pc[p] = "record"
    /\ Goto(p, "return")
    /\ \/ result[p] = "afterUp" /\ status' = "failed" /\ UNCHANGED result
       \/ result[p] = "afterUp" /\ UNCHANGED <<status, result>>
       \/ result[p] = "none" /\ status' = "running"
          /\ result' = [result EXCEPT ![p] = "healthy"]
       \/ result[p] = "none" /\ result' = [result EXCEPT ![p] = "afterUp"] /\ UNCHANGED status
    /\ UNCHANGED <<admission, lock, registered, dir, disk, temps, stateful, running, backups,
                   upload, created, updates, written, record, stopped, found, abandoned, deploys>>

(* The deferred restart: compose start of the stopped services, with a     *)
(* fresh minute; a failure is printed for the operator.                    *)
Restart(p) ==
    \/ running' = running \cup stopped[p] /\ abandoned' = abandoned \ stopped[p]
    \/ /\ stopped[p] # {}
       /\ \E S \in SUBSET stopped[p] :
            /\ running' = running \cup S
            /\ abandoned' = (abandoned \cup stopped[p]) \ running'

Return(p) ==
    /\ pc[p] = "return"
    /\ Restart(p)
    /\ stopped' = [stopped EXCEPT ![p] = {}]
    /\ Goto(p, IF lock = p THEN "unlock" ELSE "leave")
    /\ UNCHANGED <<admission, lock, registered, dir, disk, temps, stateful, status, backups,
                   upload, created, updates, written, record, result, found, deploys>>

(* The locks go in the reverse order of their acquisition. *)
ReleaseProject(p) ==
    /\ pc[p] = "unlock"
    /\ lock' = NoProc /\ Goto(p, "leave")
    /\ UNCHANGED <<admission, server, upload, created, updates, written, record, stopped,
                   result, found, abandoned, deploys>>

ReleaseAdmission(p) ==
    /\ pc[p] = "leave"
    /\ admission' = NoProc /\ End(p)
    /\ UNCHANGED <<lock, server, abandoned, deploys>>

(* The process is killed: the kernel drops its flocks; a copy in progress  *)
(* leaves its temporary file.                                              *)
InCopy(p) == CASE pc[p] = "copy" -> updates[p]
               [] pc[p] = "restore" -> written[p]
               [] OTHER -> {}

Crash(p) ==
    /\ pc[p] # "idle"
    /\ admission' = NoProc
    /\ lock' = IF lock = p THEN NoProc ELSE lock
    /\ \/ temps' = temps
       \/ \E f \in InCopy(p) : temps' = temps \cup {f}
    /\ abandoned' = abandoned \cup (stopped[p] \ running)
    /\ End(p)
    /\ UNCHANGED <<registered, dir, disk, stateful, running, status, backups, deploys>>

-----------------------------------------------------------------------------
(* deployLocal: the project lock, then a strategy that starts and replaces *)
(* containers; its own failures are the operator's.                        *)
LocalLock ==
    /\ dir /\ LockIsFree(lock)
    /\ lock' = Local
    /\ UNCHANGED <<admission, server, flow, abandoned, deploys>>

LocalDeploy ==
    /\ lock = Local
    /\ running' \in IF Existing THEN SUBSET Services ELSE {running}
    /\ abandoned' = Services \ running'
    /\ lock' = NoProc
    /\ UNCHANGED <<admission, registered, dir, disk, temps, stateful, status, backups, flow, deploys>>

Next ==
    \/ \E p \in Deployers :
          \/ \E u \in Uploads : Admit(p, u)
          \/ Register(p) \/ CreateProject(p) \/ LockProject(p) \/ Stage(p)
          \/ Quiesce(p) \/ TakeBackup(p) \/ SaveRuntime(p) \/ Build(p)
          \/ \E f \in Files : CopyFile(p, f) \/ RestoreFile(p, f)
          \/ ReplaceFails(p) \/ PrepareEdge(p) \/ RestoreDone(p)
          \/ Up(p) \/ RecordStatus(p) \/ Return(p)
          \/ ReleaseProject(p) \/ ReleaseAdmission(p)
          \/ Crash(p)
    \/ LocalLock \/ LocalDeploy

Spec == Init /\ [][Next]_vars
-----------------------------------------------------------------------------
(* Properties. *)

(* Every variable keeps its type; a deploy holds the admission lock from   *)
(* its start to its end, and the project lock through the locked steps.    *)
TypeOK ==
    /\ admission \in Deployers \cup {NoProc}
    /\ lock \in Deployers \cup {Local, NoProc}
    /\ registered \in BOOLEAN /\ dir \in BOOLEAN /\ stateful \in BOOLEAN
    /\ disk \in Trees /\ backups \in SUBSET Trees
    /\ temps \in SUBSET Files
    /\ running \in SUBSET Services /\ abandoned \in SUBSET Services
    /\ status \in {"created", "running", "failed"}
    /\ pc \in [Deployers -> Steps]
    /\ upload \in [Deployers -> Uploads]
    /\ created \in [Deployers -> BOOLEAN]
    /\ updates \in [Deployers -> SUBSET Files]
    /\ written \in [Deployers -> SUBSET Files]
    /\ record \in [Deployers -> Trees \cup {NoBackup}]
    /\ stopped \in [Deployers -> SUBSET Services]
    /\ result \in [Deployers -> Results]
    /\ found \in [Deployers -> Trees]
    /\ deploys \in 0 .. MaxDeploys

(* At most one process is at work on the project: two deploys never        *)
(* overlap, and none is past the project lock while a local deploy has it. *)
OneAtWork ==
    /\ TypeOK
    /\ \A p, q \in Deployers : pc[p] # "idle" /\ pc[q] # "idle" => p = q
    /\ lock = Local => \A p \in Deployers : pc[p] \notin Locked \ {"return"}

(* A file with content that the server has is only ever changed when a     *)
(* verified backup holds that content, or the deploy that wrote it takes   *)
(* it back (AddSourceFiles before copyRootFile, across failed and killed   *)
(* deploys and the retry of a first deploy that stopped half way).         *)
OverwritesAreBackedUp ==
    [][\A f \in Files :
          disk'[f] # disk[f] /\ disk[f] # Absent =>
              \/ \E b \in backups : b[f] = disk[f]
              \/ \E p \in Deployers : pc[p] = "restore" /\ f \in written[p]]_vars

(* The server's .env, and every file the project's Compose file named      *)
(* private when the deploy took the lock, keep their content; only the     *)
(* deploy that seeded .env itself may take it back.                        *)
PrivateFilesStay ==
    [][\A f \in Files :
          disk'[f] # disk[f] /\ disk[f] # Absent =>
              \A p \in Deployers :
                  pc[p] \in {"copy", "restore"} =>
                      \/ f \in written[p]
                      \/ f # Env /\ f \notin PrivateOf(found[p][Compose])]_vars

(* An update that fails before `up` leaves the source as it found it,      *)
(* unless a file could not be restored (which its error reports).          *)
FailedUpdateKeepsSource ==
    \A p \in Deployers :
        /\ pc[p] = "return" /\ lock = p
        /\ result[p] = "failed" /\ found[p][Compose] # Absent
        => disk = found[p]

(* A service that is down is one that a deploy will start again, or that   *)
(* a kill, a failed start or a failed up left down.                        *)
WritersComeBack ==
    \A s \in Services \ running :
        s \in abandoned \/ \E p \in Deployers : s \in stopped[p]

=============================================================================
