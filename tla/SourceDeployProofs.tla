------------------------- MODULE SourceDeployProofs -------------------------
(***************************************************************************)
(* Proofs about SourceDeploy for any number of deployers, uploads, files   *)
(* and services, and any rule for private files.                           *)
(*                                                                         *)
(* Whoever is past its start holds the admission lock, so one deploy is    *)
(* under way.  What it knows of the directory, step by step, is Progress:  *)
(* the directory is as it was found, but for the files already written,    *)
(* and what is about to be overwritten is in the backup or was not there.  *)
(***************************************************************************)
EXTENDS SourceDeploy, TLAPS

Holders ==
    /\ \A p \in Deployers : pc[p] # "idle" <=> admission = p
    /\ \A p \in Deployers : pc[p] \in Locked \ {"return"} => lock = p
    /\ \A p \in Deployers : lock = p => pc[p] \in Locked

(* Only a registered directory, or one just created, is there to be filled. *)
Directory ==
    /\ registered => dir
    /\ ~dir => disk = Nothing

(* Services are on the list of a deploy only between stop and start. *)
Stoppers ==
    \A p \in Deployers :
        pc[p] \in {"idle", "register", "row", "lock", "stage", "quiesce", "unlock", "leave"}
            => stopped[p] = {}

Untouched == {"stage", "quiesce", "backup", "retain", "build"}

(* The files of the server are as found, but for those already written.    *)
AsFound(p) == \A f \in Files \ written[p] : disk[f] = found[p][f]

(* What is written leaves .env and private files alone, and all that goes  *)
(* is in the backup; without one there was nothing to lose.                *)
MayGo(p) ==
    /\ Env \in updates[p] => found[p][Env] = Absent
    /\ \A f \in updates[p] : f # Env => f \notin PrivateOf(found[p][Compose])
Covered(p) ==
    IF record[p] = NoBackup
    THEN found[p][Compose] = Absent /\ \A f \in updates[p] : found[p][f] = Absent
    ELSE \A f \in updates[p] \cup written[p] : record[p][f] = found[p][f]

Progress(p) ==
    /\ pc[p] \in {"idle", "register"} =>
          written[p] = {} /\ updates[p] = {} /\ ~created[p]
    /\ pc[p] \in {"idle", "register", "row", "lock", "stage"} => record[p] = NoBackup
    /\ pc[p] \in {"row", "lock", "copy", "restore", "up"} \cup Untouched => dir
    /\ pc[p] = "row" => disk = Nothing
    /\ pc[p] \in {"lock", "stage"} /\ created[p] => disk = Nothing
    /\ pc[p] \in {"row", "lock"} \cup Untouched => written[p] = {}
    /\ pc[p] \in Untouched \cup {"copy"} => AsFound(p)
    /\ pc[p] \in {"quiesce", "backup", "retain", "build", "copy"} => MayGo(p)
    /\ pc[p] \in {"quiesce", "backup"} => found[p][Compose] # Absent
    /\ pc[p] = "retain" => record[p] # NoBackup
    /\ pc[p] \in {"retain", "build", "copy"} => Covered(p)
    /\ updates[p] \cap written[p] = {}
    /\ record[p] # NoBackup => record[p] \in backups
    /\ pc[p] \in {"idle", "register", "row", "lock", "copy", "up"} \cup Untouched
          => result[p] = "none"
    /\ pc[p] = "record" => result[p] \in {"none", "afterUp"}
    /\ pc[p] = "restore" =>
          /\ record[p] # NoBackup
          /\ \A f \in written[p] : record[p][f] = found[p][f]
          /\ result[p] \in {"failed", "unrestored"}
          /\ result[p] = "failed" => AsFound(p)
    /\ pc[p] = "return" /\ lock = p /\ result[p] = "failed" /\ found[p][Compose] # Absent
          => disk = found[p]

DeployInv ==
    /\ TypeOK
    /\ Holders
    /\ Directory
    /\ Stoppers
    /\ WritersComeBack
    /\ \A p \in Deployers : Progress(p)

-----------------------------------------------------------------------------
(* What Apply puts into its variables. *)
LEMMA TreeTypes ==
    /\ Nothing \in Trees /\ NoBackup \notin Trees
    /\ \A p \in Deployers : TypeOK => Snapshot(p) \in Trees
  BY ContentsAssumption, NoBackupAssumption
     DEF Trees, Nothing, Contents, TypeOK, Snapshot

LEMMA UploadTypes ==
    /\ (CHOOSE u \in Uploads : TRUE) \in Uploads
    /\ \A p \in Deployers : TypeOK => Updates(p) \subseteq Files
  BY UploadsAssumption DEF TypeOK, Updates, Extract, ArchiveWithEnv

LEMMA EndTypes ==
    ASSUME TypeOK, NEW p \in Deployers, End(p)
    PROVE  /\ pc' \in [Deployers -> Steps] /\ upload' \in [Deployers -> Uploads]
           /\ created' \in [Deployers -> BOOLEAN]
           /\ updates' \in [Deployers -> SUBSET Files]
           /\ written' \in [Deployers -> SUBSET Files]
           /\ record' \in [Deployers -> Trees \cup {NoBackup}]
           /\ stopped' \in [Deployers -> SUBSET Services]
           /\ result' \in [Deployers -> Results]
           /\ found' \in [Deployers -> Trees]
  BY TreeTypes, UploadTypes DEF TypeOK, End, Steps, Results

LEMMA FailTypes ==
    ASSUME TypeOK, NEW p \in Deployers, Fail(p)
    PROVE  pc' \in [Deployers -> Steps] /\ result' \in [Deployers -> Results]
  BY DEF TypeOK, Fail, Goto, Steps, Results

LEMMA TypeInit == Init => TypeOK
<1> SUFFICES ASSUME Init PROVE TypeOK
  OBVIOUS
<1>1. disk \in Trees
  BY ContentsAssumption DEF Init, Trees, Contents
<1>2. /\ pc \in [Deployers -> Steps] /\ upload \in [Deployers -> Uploads]
      /\ record \in [Deployers -> Trees \cup {NoBackup}]
      /\ result \in [Deployers -> Results] /\ found \in [Deployers -> Trees]
  BY TreeTypes, UploadTypes DEF Init, Steps, Results
<1> QED
  BY <1>1, <1>2, BoundAssumption DEF Init, TypeOK

LEMMA TypeStep == DeployInv /\ [Next]_vars => TypeOK'
<1> SUFFICES ASSUME DeployInv, [Next]_vars PROVE TypeOK'
  OBVIOUS
<1>0. TypeOK
  BY DEF DeployInv
<1> USE DEF server, flow
<1>1. ASSUME NEW p \in Deployers, NEW u \in Uploads, Admit(p, u) PROVE TypeOK'
  BY <1>0, <1>1, BoundAssumption DEF Admit, Goto, TypeOK, Steps
<1>2. ASSUME NEW p \in Deployers,
             Register(p) \/ CreateProject(p) \/ SaveRuntime(p) \/ Build(p)
      PROVE  TypeOK'
  BY <1>0, <1>2, FailTypes DEF Register, CreateProject, SaveRuntime, Build, Goto, TypeOK, Steps
<1>3. ASSUME NEW p \in Deployers, LockProject(p) PROVE TypeOK'
  BY <1>0, <1>3, FailTypes DEF LockProject, Goto, TypeOK, Steps
<1>4. ASSUME NEW p \in Deployers, Stage(p) PROVE TypeOK'
  BY <1>0, <1>4, FailTypes, UploadTypes DEF Stage, Goto, TypeOK, Steps
<1>5. ASSUME NEW p \in Deployers, Quiesce(p) PROVE TypeOK'
  BY <1>0, <1>5, FailTypes DEF Quiesce, QuiesceResult, Goto, TypeOK, Steps
<1>6. ASSUME NEW p \in Deployers, TakeBackup(p) PROVE TypeOK'
  <2>1. Snapshot(p) \in Trees
    BY <1>0, TreeTypes
  <2> QED BY <1>0, <1>6, <2>1, FailTypes DEF TakeBackup, Goto, TypeOK, Steps
<1>7. ASSUME NEW p \in Deployers, NEW f \in Files, CopyFile(p, f) PROVE TypeOK'
  <2>1. disk' \in Trees
    BY <1>0, <1>7 DEF CopyFile, TypeOK, Trees, Contents
  <2> QED BY <1>0, <1>7, <2>1 DEF CopyFile, TypeOK
<1>8. ASSUME NEW p \in Deployers, NEW f \in Files, RestoreFile(p, f) PROVE TypeOK'
  <2>1. record[p] \in Trees
    BY <1>0, <1>8 DEF RestoreFile, DeployInv, Progress, TypeOK
  <2>2. disk' \in Trees
    BY <1>0, <1>8, <2>1 DEF RestoreFile, TypeOK, Trees
  <2>3. result' \in [Deployers -> Results]
    BY <1>0, <1>8 DEF RestoreFile, TypeOK, Results
  <2> QED BY <1>0, <1>8, <2>2, <2>3 DEF RestoreFile, TypeOK
<1>9. ASSUME NEW p \in Deployers, ReplaceFails(p) \/ PrepareEdge(p) \/ RestoreDone(p)
      PROVE  TypeOK'
  BY <1>0, <1>9, FailTypes
     DEF ReplaceFails, FailAndRestore, PrepareEdge, RestoreDone, Goto, TypeOK, Steps, Results
<1>10. ASSUME NEW p \in Deployers, Up(p) \/ RecordStatus(p) \/ Return(p) PROVE TypeOK'
  BY <1>0, <1>10
     DEF Up, RecordStatus, Return, Restart, Goto, TypeOK, Steps, Results
<1>11. ASSUME NEW p \in Deployers, ReleaseProject(p) PROVE TypeOK'
  BY <1>0, <1>11 DEF ReleaseProject, Goto, TypeOK, Steps
<1>12. ASSUME NEW p \in Deployers, ReleaseAdmission(p) PROVE TypeOK'
  BY <1>0, <1>12, EndTypes DEF ReleaseAdmission, TypeOK
<1>13. ASSUME NEW p \in Deployers, Crash(p) PROVE TypeOK'
  <2>1. temps' \in SUBSET Files
    BY <1>0, <1>13 DEF Crash, InCopy, TypeOK
  <2> QED BY <1>0, <1>13, <2>1, EndTypes DEF Crash, TypeOK
<1>14. CASE LocalLock \/ LocalDeploy
  BY <1>0, <1>14 DEF LocalLock, LocalDeploy, TypeOK
<1>15. CASE UNCHANGED vars
  BY <1>0, <1>15 DEF vars, TypeOK
<1> QED
  BY <1>1, <1>2, <1>3, <1>4, <1>5, <1>6, <1>7, <1>8, <1>9, <1>10, <1>11, <1>12,
     <1>13, <1>14, <1>15 DEF Next

-----------------------------------------------------------------------------
(* Locks. *)

(* While one deploy is past its start, every other is idle. *)
LEMMA OthersIdle ==
    ASSUME Holders, NEW p \in Deployers, pc[p] # "idle",
           NEW q \in Deployers, q # p
    PROVE  pc[q] = "idle"
  BY DEF Holders

(* A deploy that goes from step to step keeps the locks it has. *)
LEMMA GotoKeepsHolders ==
    ASSUME TypeOK, Holders, NEW p \in Deployers, pc[p] # "idle",
           NEW step \in Steps \ {"idle"}, pc' = [pc EXCEPT ![p] = step],
           UNCHANGED <<admission, lock>>,
           step \in Locked \ {"return"} => lock = p,
           lock = p => step \in Locked
    PROVE  Holders'
  BY DEF TypeOK, Holders

LEMMA HoldersStep == DeployInv /\ [Next]_vars => Holders'
<1> SUFFICES ASSUME DeployInv, [Next]_vars PROVE Holders'
  OBVIOUS
<1>0. TypeOK /\ Holders
  BY DEF DeployInv
<1>1. ASSUME NEW p \in Deployers, NEW u \in Uploads, Admit(p, u) PROVE Holders'
  BY <1>0, <1>1, ProcsAssumption DEF Admit, LockIsFree, Goto, TypeOK, Holders, Locked
<1>2. ASSUME NEW p \in Deployers, Register(p) \/ CreateProject(p) PROVE Holders'
  BY <1>0, <1>2, GotoKeepsHolders
     DEF Register, CreateProject, Fail, Goto, Steps, Locked, Holders
<1>3. ASSUME NEW p \in Deployers, LockProject(p) PROVE Holders'
  BY <1>0, <1>3, ProcsAssumption DEF LockProject, LockIsFree, Fail, Goto, TypeOK, Holders, Locked
<1>4. ASSUME NEW p \in Deployers,
             \/ Stage(p) \/ Quiesce(p) \/ TakeBackup(p) \/ SaveRuntime(p) \/ Build(p)
             \/ ReplaceFails(p) \/ PrepareEdge(p) \/ RestoreDone(p)
             \/ Up(p) \/ RecordStatus(p) \/ Return(p)
      PROVE  Holders'
  <2>1. /\ pc[p] \in Locked /\ UNCHANGED <<admission, lock>>
        /\ pc[p] # "return" => lock = p
    BY <1>0, <1>4
       DEF Stage, Quiesce, TakeBackup, SaveRuntime, Build, ReplaceFails, PrepareEdge,
           RestoreDone, Up, RecordStatus, Return, Locked, Holders
  <2>2. PICK step \in Locked \cup {"leave"} :
            /\ pc' = [pc EXCEPT ![p] = step]
            /\ step = "unlock" => lock = p
            /\ step = "leave" => lock # p
            /\ pc[p] = "return" => step \in {"unlock", "leave"}
    BY <1>4
       DEF Stage, Quiesce, TakeBackup, SaveRuntime, Build, ReplaceFails, FailAndRestore,
           PrepareEdge, RestoreDone, Up, RecordStatus, Return, Fail, Goto, Locked
  <2> QED
    BY <1>0, <2>1, <2>2, GotoKeepsHolders DEF Locked, Steps
<1>5. ASSUME NEW p \in Deployers, NEW f \in Files, CopyFile(p, f) \/ RestoreFile(p, f)
      PROVE  Holders'
  BY <1>0, <1>5 DEF CopyFile, RestoreFile, Holders
<1>6. ASSUME NEW p \in Deployers, ReleaseProject(p) PROVE Holders'
  BY <1>0, <1>6, ProcsAssumption DEF ReleaseProject, Goto, TypeOK, Holders, Locked
<1>7. ASSUME NEW p \in Deployers, ReleaseAdmission(p) \/ Crash(p) PROVE Holders'
  BY <1>0, <1>7, ProcsAssumption
     DEF ReleaseAdmission, Crash, End, TypeOK, Holders, Locked
<1>8. CASE LocalLock \/ LocalDeploy
  BY <1>0, <1>8, ProcsAssumption DEF LocalLock, LocalDeploy, LockIsFree, flow, Holders
<1>9. CASE UNCHANGED vars
  BY <1>0, <1>9 DEF vars, flow, Holders
<1> QED
  BY <1>1, <1>2, <1>3, <1>4, <1>5, <1>6, <1>7, <1>8, <1>9 DEF Next

-----------------------------------------------------------------------------
(* The directory, and the services that wait for their start. *)

LEMMA DirectoryStep == DeployInv /\ [Next]_vars => Directory'
<1> SUFFICES ASSUME DeployInv, [Next]_vars PROVE Directory'
  OBVIOUS
<1>0. Directory
  BY DEF DeployInv
<1>1. ASSUME NEW p \in Deployers, CreateProject(p) PROVE Directory'
  BY <1>0, <1>1 DEF CreateProject, DeployInv, Progress, Directory
<1>2. ASSUME NEW p \in Deployers, Register(p) PROVE Directory'
  BY <1>0, <1>2 DEF Register, Directory, Nothing
<1>3. ASSUME NEW p \in Deployers, NEW f \in Files, CopyFile(p, f) \/ RestoreFile(p, f)
      PROVE  Directory'
  BY <1>0, <1>3 DEF CopyFile, RestoreFile, DeployInv, Progress, Directory
<1>4. CASE UNCHANGED <<registered, dir, disk>>
  BY <1>0, <1>4 DEF Directory, Nothing
<1>5. \/ \E p \in Deployers : \/ CreateProject(p) \/ Register(p)
                              \/ \E f \in Files : CopyFile(p, f) \/ RestoreFile(p, f)
      \/ UNCHANGED <<registered, dir, disk>>
  BY DEF Next, vars, server, Admit, LockProject, Stage, Quiesce, TakeBackup, SaveRuntime,
         Build, ReplaceFails, PrepareEdge, RestoreDone, Up, RecordStatus, Return,
         ReleaseProject, ReleaseAdmission, Crash, LocalLock, LocalDeploy
<1> QED
  BY <1>1, <1>2, <1>3, <1>4, <1>5

LEMMA StoppersStep == DeployInv /\ [Next]_vars => Stoppers' /\ WritersComeBack'
<1> SUFFICES ASSUME DeployInv, [Next]_vars PROVE Stoppers' /\ WritersComeBack'
  OBVIOUS
<1>0. TypeOK /\ Holders /\ Stoppers /\ WritersComeBack
  BY DEF DeployInv
<1> USE DEF server, flow
<1>1. ASSUME NEW p \in Deployers, Quiesce(p) PROVE Stoppers' /\ WritersComeBack'
  BY <1>0, <1>1
     DEF Quiesce, QuiesceResult, Fail, Goto, TypeOK, Stoppers, WritersComeBack
<1>2. ASSUME NEW p \in Deployers, Up(p) PROVE Stoppers' /\ WritersComeBack'
  BY <1>0, <1>2 DEF Up, Goto, TypeOK, Stoppers, WritersComeBack
<1>3. ASSUME NEW p \in Deployers, Return(p) PROVE Stoppers' /\ WritersComeBack'
  BY <1>0, <1>3 DEF Return, Restart, Goto, TypeOK, Stoppers, WritersComeBack
<1>4. ASSUME NEW p \in Deployers, ReleaseAdmission(p) \/ Crash(p)
      PROVE  Stoppers' /\ WritersComeBack'
  BY <1>0, <1>4
     DEF ReleaseAdmission, Crash, End, TypeOK, Stoppers, WritersComeBack
<1>5. CASE LocalDeploy
  BY <1>0, <1>5 DEF LocalDeploy, Stoppers, WritersComeBack
<1>6. ASSUME NEW p \in Deployers, UNCHANGED <<running, abandoned, stopped>>,
             NEW step, pc' = [pc EXCEPT ![p] = step],
             step \in {"idle", "register", "row", "lock", "stage", "quiesce", "unlock", "leave"}
                 => stopped[p] = {}
      PROVE  Stoppers' /\ WritersComeBack'
  BY <1>0, <1>6 DEF TypeOK, Stoppers, WritersComeBack
<1>7. ASSUME NEW p \in Deployers,
             \/ Register(p) \/ CreateProject(p) \/ LockProject(p) \/ Stage(p)
             \/ TakeBackup(p) \/ SaveRuntime(p) \/ Build(p) \/ ReplaceFails(p)
             \/ PrepareEdge(p) \/ RestoreDone(p) \/ RecordStatus(p) \/ ReleaseProject(p)
             \/ \E u \in Uploads : Admit(p, u)
      PROVE  Stoppers' /\ WritersComeBack'
  <2>1. UNCHANGED <<running, abandoned, stopped>>
    BY <1>7 DEF Register, CreateProject, LockProject, Stage, TakeBackup, SaveRuntime, Build,
                ReplaceFails, PrepareEdge, RestoreDone, RecordStatus, ReleaseProject, Admit
  <2>2. PICK step : /\ pc' = [pc EXCEPT ![p] = step]
                    /\ step \in {"idle", "register", "row", "lock", "stage", "quiesce",
                                 "unlock", "leave"}
                        => pc[p] \in {"idle", "register", "row", "lock", "stage", "unlock"}
    BY <1>7 DEF Register, CreateProject, LockProject, Stage, TakeBackup, SaveRuntime, Build,
                ReplaceFails, FailAndRestore, PrepareEdge, RestoreDone, RecordStatus,
                ReleaseProject, Admit, Fail, Goto
  <2> QED BY <1>0, <1>6, <2>1, <2>2 DEF Stoppers
<1>8. CASE UNCHANGED <<running, abandoned, stopped, pc>>
  BY <1>0, <1>8 DEF Stoppers, WritersComeBack
<1>9. ASSUME NEW p \in Deployers, NEW f \in Files, CopyFile(p, f) \/ RestoreFile(p, f)
      PROVE  UNCHANGED <<running, abandoned, stopped, pc>>
  BY <1>9 DEF CopyFile, RestoreFile
<1>10. LocalLock \/ UNCHANGED vars => UNCHANGED <<running, abandoned, stopped, pc>>
  BY DEF LocalLock, vars
<1> QED
  BY <1>1, <1>2, <1>3, <1>4, <1>5, <1>7, <1>8, <1>9, <1>10 DEF Next

-----------------------------------------------------------------------------
(* The files. *)

(* Nothing that others do concerns a deploy that has not begun. *)
LEMMA IdleKeepsProgress ==
    ASSUME NEW q \in Deployers, Progress(q), pc[q] = "idle", pc'[q] = "idle",
           created'[q] = created[q], updates'[q] = updates[q], written'[q] = written[q],
           record'[q] = record[q], result'[q] = result[q]
    PROVE  Progress(q)'
  BY DEF Progress, Untouched

(* So a step of a deploy only has to keep its own progress. *)
LEMMA StepKeepsProgress ==
    ASSUME DeployInv, NEW p \in Deployers, pc[p] # "idle" \/ admission = NoProc,
           \A q \in Deployers : q # p =>
               /\ pc'[q] = pc[q] /\ created'[q] = created[q] /\ updates'[q] = updates[q]
               /\ written'[q] = written[q] /\ record'[q] = record[q]
               /\ result'[q] = result[q],
           Progress(p)'
    PROVE  \A q \in Deployers : Progress(q)'
<1> SUFFICES ASSUME NEW q \in Deployers, q # p PROVE Progress(q)'
  OBVIOUS
<1>1. pc[q] = "idle"
  BY ProcsAssumption DEF DeployInv, Holders
<1> QED
  BY <1>1, IdleKeepsProgress DEF DeployInv

LEMMA EarlyProgress ==
    ASSUME DeployInv, NEW p \in Deployers,
           Register(p) \/ CreateProject(p) \/ LockProject(p) \/ \E u \in Uploads : Admit(p, u)
    PROVE  Progress(p)'
<1> USE ProcsAssumption DEF Fail, Goto, Untouched, Locked
<1>0. Progress(p) /\ TypeOK /\ Holders /\ Directory
  BY DEF DeployInv
<1>1. CASE Register(p)
  BY <1>0, <1>1 DEF Register, Progress, TypeOK, Holders, Directory, Nothing
<1>2. CASE CreateProject(p)
  BY <1>0, <1>2 DEF CreateProject, Progress, TypeOK, Holders, Nothing
<1>3. CASE LockProject(p)
  BY <1>0, <1>3 DEF LockProject, Progress, TypeOK, Holders, Nothing, AsFound, server
<1>4. ASSUME NEW u \in Uploads, Admit(p, u) PROVE Progress(p)'
  BY <1>0, <1>4 DEF Admit, Progress, TypeOK, server
<1> QED
  BY <1>1, <1>2, <1>3, <1>4

(* From the staging to the copy: an error return leaves things as found,   *)
(* and the files to write are chosen from what was found.                  *)
LEMMA ErrorReturnProgress ==
    ASSUME DeployInv, NEW p \in Deployers, pc[p] \in Untouched, Fail(p),
           UNCHANGED <<lock, dir, disk, created, updates, written, record, found>>,
           backups \subseteq backups'
    PROVE  Progress(p)'
<1>1. Progress(p) /\ TypeOK
  BY DEF DeployInv
<1>2. pc'[p] = "return" /\ updates'[p] \cap written'[p] = {}
  BY <1>1 DEF Fail, Goto, TypeOK, Progress
<1>3. disk = found[p]
  <2>1. disk \in [Files -> Contents] /\ found[p] \in [Files -> Contents]
    BY <1>1 DEF TypeOK, Trees
  <2>2. \A f \in Files : disk[f] = found[p][f]
    BY <1>1 DEF Progress, AsFound, Untouched
  <2> QED BY <2>1, <2>2
<1>4. record'[p] # NoBackup => record'[p] \in backups'
  BY <1>1 DEF Progress
<1> QED
  BY <1>2, <1>3, <1>4 DEF Progress, Untouched

LEMMA StageProgress ==
    ASSUME DeployInv, NEW p \in Deployers, Stage(p)
    PROVE  Progress(p)'
<1>1. Progress(p) /\ TypeOK
  BY DEF DeployInv
<1>2. CASE Fail(p) /\ UNCHANGED updates
  BY <1>2, ErrorReturnProgress DEF Stage, server, Untouched
<1>3. CASE /\ Existing \/ MayStartEmpty(p)
           /\ updates' = [updates EXCEPT ![p] = Updates(p)]
           /\ Goto(p, IF Existing THEN "quiesce" ELSE "build")
           /\ UNCHANGED result
  <2>1. /\ UNCHANGED <<lock, dir, disk, backups, created, written, record, result, found>>
        /\ pc[p] = "stage"
    BY <1>3 DEF Stage, server
  <2>2. /\ updates'[p] = Updates(p)
        /\ pc'[p] = IF Existing THEN "quiesce" ELSE "build"
    BY <1>1, <1>3 DEF Goto, TypeOK
  <2>3. \A f \in Files : found[p][f] = disk[f]
    BY <1>1, <2>1 DEF Progress, AsFound, Untouched
  <2>4. MayGo(p)'
    BY <2>1, <2>2, <2>3, FilesAssumption DEF MayGo, Updates, Protected
  <2>5. ~Existing => Covered(p)'
    <3>1. SUFFICES ASSUME ~Existing PROVE Covered(p)'
      OBVIOUS
    <3>2. record'[p] = NoBackup /\ found'[p][Compose] = Absent
      BY <1>1, <2>1, <2>3, <3>1, FilesAssumption DEF Progress, Existing
    <3>3. ASSUME NEW f \in Updates(p) PROVE disk[f] = Absent
      <4>1. f \in Files
        BY <1>1, UploadTypes
      <4>2. f # Env \/ disk[Env] = Absent
        BY DEF Updates, Protected
      <4> QED
        BY <1>1, <1>3, <2>1, <3>1, <4>1, <4>2 DEF MayStartEmpty, Progress, Nothing
    <3>4. \A f \in updates'[p] : found'[p][f] = Absent
      BY <1>1, <2>1, <2>2, <2>3, <3>3, UploadTypes
    <3> QED BY <3>2, <3>4 DEF Covered
  <2>6. AsFound(p)' /\ (Existing => found'[p][Compose] # Absent)
    BY <2>1, <2>3, FilesAssumption DEF AsFound, Existing
  <2> QED
    BY <1>1, <2>1, <2>2, <2>4, <2>5, <2>6 DEF Progress, Untouched
<1> QED
  BY <1>2, <1>3 DEF Stage

LEMMA BackupProgress ==
    ASSUME DeployInv, NEW p \in Deployers, TakeBackup(p)
    PROVE  Progress(p)'
<1>1. Progress(p) /\ TypeOK
  BY DEF DeployInv
<1>2. CASE Fail(p) /\ UNCHANGED <<backups, record>>
  BY <1>2, ErrorReturnProgress DEF TakeBackup, Untouched
<1>3. CASE /\ record' = [record EXCEPT ![p] = Snapshot(p)]
           /\ backups' = backups \cup {Snapshot(p)}
           /\ Goto(p, "retain") /\ UNCHANGED result
  <2>1. /\ UNCHANGED <<lock, dir, disk, created, updates, written, result, found>>
        /\ pc[p] = "backup"
    BY <1>3 DEF TakeBackup
  <2>2. record'[p] = Snapshot(p) /\ pc'[p] = "retain"
    BY <1>1, <1>3 DEF Goto, TypeOK
  <2>3. Snapshot(p) # NoBackup
    BY <1>1, TreeTypes
  <2>4. \A f \in updates[p] : Snapshot(p)[f] = found[p][f]
    BY <1>1, <2>1 DEF Snapshot, Progress, AsFound, Untouched, TypeOK
  <2>5. Covered(p)'
    BY <1>1, <2>1, <2>2, <2>3, <2>4 DEF Covered, Progress, Untouched
  <2>6. AsFound(p)' /\ MayGo(p)'
    BY <1>1, <2>1 DEF AsFound, MayGo, Progress, Untouched
  <2> QED
    BY <1>1, <1>3, <2>1, <2>2, <2>3, <2>5, <2>6 DEF Progress, Untouched
<1> QED
  BY <1>2, <1>3 DEF TakeBackup

LEMMA PrepareProgress ==
    ASSUME DeployInv, NEW p \in Deployers, Quiesce(p) \/ SaveRuntime(p) \/ Build(p)
    PROVE  Progress(p)'
<1>1. Progress(p) /\ TypeOK
  BY DEF DeployInv
<1>2. /\ UNCHANGED <<lock, dir, disk, backups, created, updates, written, record, found>>
      /\ pc[p] \in {"quiesce", "retain", "build"}
  BY DEF Quiesce, SaveRuntime, Build, server
<1>3. CASE Fail(p)
  BY <1>2, <1>3, ErrorReturnProgress DEF Untouched
<1>4. CASE ~Fail(p)
  <2>1. /\ result' = result
        /\ \/ pc[p] = "quiesce" /\ pc'[p] = "backup"
           \/ pc[p] = "retain" /\ pc'[p] = "build"
           \/ pc[p] = "build" /\ pc'[p] = "copy"
    BY <1>1, <1>4 DEF Quiesce, SaveRuntime, Build, Goto, TypeOK
  <2>2. /\ AsFound(p)' <=> AsFound(p)
        /\ MayGo(p)' <=> MayGo(p)
        /\ Covered(p)' <=> Covered(p)
    BY <1>2 DEF AsFound, MayGo, Covered
  <2> QED
    BY <1>1, <1>2, <2>1, <2>2 DEF Progress, Untouched
<1> QED
  BY <1>3, <1>4

(* One file of the loop. *)
LEMMA CopyProgress ==
    ASSUME DeployInv, NEW p \in Deployers, NEW f \in Files, CopyFile(p, f)
    PROVE  Progress(p)'
<1>1. Progress(p) /\ TypeOK
  BY DEF DeployInv
<1>2. /\ UNCHANGED <<lock, dir, backups, pc, created, record, result, found>>
      /\ pc[p] = "copy" /\ f \in updates[p]
      /\ updates'[p] = updates[p] \ {f} /\ written'[p] = written[p] \cup {f}
      /\ \A g \in Files : g # f => disk'[g] = disk[g]
  BY <1>1 DEF CopyFile, TypeOK, Trees
<1>3. AsFound(p)' /\ MayGo(p)' /\ Covered(p)'
  BY <1>1, <1>2 DEF AsFound, MayGo, Covered, Progress
<1> QED
  BY <1>1, <1>2, <1>3 DEF Progress, Untouched

LEMMA RestoreProgress ==
    ASSUME DeployInv, NEW p \in Deployers, NEW f \in Files, RestoreFile(p, f)
    PROVE  Progress(p)'
<1>1. Progress(p) /\ TypeOK
  BY DEF DeployInv
<1>2. /\ UNCHANGED <<lock, dir, backups, pc, created, updates, record, found>>
      /\ pc[p] = "restore" /\ f \in written[p]
      /\ written'[p] = written[p] \ {f}
  BY <1>1 DEF RestoreFile, TypeOK
<1>3. \/ result'[p] = "unrestored"
      \/ result'[p] = result[p] /\ disk'[f] = record[p][f]
         /\ \A g \in Files : g # f => disk'[g] = disk[g]
  BY <1>1 DEF RestoreFile, TypeOK, Trees
<1>4. result'[p] = "failed" => AsFound(p)'
  BY <1>1, <1>2, <1>3 DEF AsFound, Progress
<1> QED
  BY <1>1, <1>2, <1>3, <1>4 DEF Progress, Untouched

(* How the loop ends. *)
LEMMA LoopEndProgress ==
    ASSUME DeployInv, NEW p \in Deployers, ReplaceFails(p) \/ PrepareEdge(p) \/ RestoreDone(p)
    PROVE  Progress(p)'
<1>1. Progress(p) /\ TypeOK /\ Holders
  BY DEF DeployInv
<1>2. UNCHANGED <<lock, dir, disk, backups, created, updates, written, record, found>>
  BY DEF ReplaceFails, PrepareEdge, RestoreDone, server
<1>3. AsFound(p)' <=> AsFound(p)
  BY <1>2 DEF AsFound
<1>4. CASE ReplaceFails(p) /\ record[p] = NoBackup
  <2>1. pc'[p] = "return" /\ pc[p] = "copy"
    BY <1>1, <1>4 DEF ReplaceFails, FailAndRestore, Fail, Goto, TypeOK
  <2>2. found[p][Compose] = Absent
    BY <1>1, <1>4, <2>1 DEF Progress, Covered
  <2> QED BY <1>1, <1>2, <2>1, <2>2 DEF Progress, Untouched
<1>5. CASE ReplaceFails(p) /\ record[p] # NoBackup
  <2>1. pc'[p] = "restore" /\ pc[p] = "copy" /\ result'[p] = "failed"
    BY <1>1, <1>5 DEF ReplaceFails, FailAndRestore, Goto, TypeOK
  <2>2. \A f \in written[p] : record[p][f] = found[p][f]
    BY <1>1, <1>5, <2>1 DEF Progress, Covered
  <2> QED BY <1>1, <1>2, <1>3, <1>5, <2>1, <2>2 DEF Progress, Untouched
<1>6. CASE PrepareEdge(p)
  <2>1. pc'[p] = "up" /\ pc[p] = "copy" /\ result' = result
    BY <1>1, <1>6 DEF PrepareEdge, Goto, TypeOK
  <2> QED BY <1>1, <1>2, <2>1 DEF Progress, Untouched
<1>7. CASE RestoreDone(p)
  <2>1. pc'[p] = "return" /\ pc[p] = "restore" /\ result' = result /\ written[p] = {}
    BY <1>1, <1>7 DEF RestoreDone, Goto, TypeOK
  <2>2. disk \in [Files -> Contents] /\ found[p] \in [Files -> Contents]
    BY <1>1 DEF TypeOK, Trees
  <2>3. result[p] = "failed" => disk = found[p]
    BY <1>1, <2>1, <2>2 DEF Progress, AsFound
  <2> QED BY <1>1, <1>2, <2>1, <2>3 DEF Progress, Untouched
<1> QED
  BY <1>4, <1>5, <1>6, <1>7

(* From `up` to the end. *)
LEMMA LateProgress ==
    ASSUME DeployInv, NEW p \in Deployers,
           \/ Up(p) \/ RecordStatus(p) \/ Return(p)
           \/ ReleaseProject(p) \/ ReleaseAdmission(p) \/ Crash(p)
    PROVE  Progress(p)'
<1>1. Progress(p) /\ TypeOK
  BY DEF DeployInv
<1>2. CASE Up(p) \/ RecordStatus(p) \/ Return(p) \/ ReleaseProject(p)
  <2>1. /\ UNCHANGED <<dir, disk, backups, created, updates, written, record, found>>
        /\ \/ pc[p] = "up" /\ pc'[p] = "record"
              /\ result'[p] \in {result[p], "afterUp"}
           \/ pc[p] = "record" /\ pc'[p] = "return"
              /\ result'[p] \in {"afterUp", "healthy"}
           \/ pc'[p] \in {"unlock", "leave"}
    BY <1>1, <1>2
       DEF Up, RecordStatus, Return, ReleaseProject, Goto, TypeOK, Results, server
  <2> QED BY <1>1, <2>1 DEF Progress, Untouched
<1>3. CASE ReleaseAdmission(p) \/ Crash(p)
  <2>1. /\ pc'[p] = "idle" /\ created'[p] = FALSE /\ updates'[p] = {} /\ written'[p] = {}
        /\ record'[p] = NoBackup /\ result'[p] = "none"
    BY <1>1, <1>3 DEF ReleaseAdmission, Crash, End, TypeOK
  <2> QED BY <2>1 DEF Progress, Untouched
<1> QED
  BY <1>2, <1>3

LEMMA ProgressStep ==
    ASSUME DeployInv, [Next]_vars
    PROVE  \A q \in Deployers : Progress(q)'
<1>0. TypeOK /\ Holders
  BY DEF DeployInv
<1>1. ASSUME NEW p \in Deployers,
             \/ Register(p) \/ CreateProject(p) \/ LockProject(p) \/ \E u \in Uploads : Admit(p, u)
             \/ Stage(p) \/ Quiesce(p) \/ TakeBackup(p) \/ SaveRuntime(p) \/ Build(p)
             \/ \E f \in Files : CopyFile(p, f) \/ RestoreFile(p, f)
             \/ ReplaceFails(p) \/ PrepareEdge(p) \/ RestoreDone(p)
             \/ Up(p) \/ RecordStatus(p) \/ Return(p)
             \/ ReleaseProject(p) \/ ReleaseAdmission(p) \/ Crash(p)
      PROVE  \A q \in Deployers : Progress(q)'
  <2>1. Progress(p)'
    BY <1>1, EarlyProgress, StageProgress, PrepareProgress, BackupProgress, CopyProgress,
       RestoreProgress, LoopEndProgress, LateProgress
  <2>2. pc[p] # "idle" \/ admission = NoProc
    BY <1>1
       DEF Register, CreateProject, LockProject, Admit, LockIsFree, Stage, Quiesce, TakeBackup,
           SaveRuntime, Build, CopyFile, RestoreFile, ReplaceFails, PrepareEdge, RestoreDone,
           Up, RecordStatus, Return, ReleaseProject, ReleaseAdmission, Crash
  <2>3. \A q \in Deployers : q # p =>
            /\ pc'[q] = pc[q] /\ created'[q] = created[q] /\ updates'[q] = updates[q]
            /\ written'[q] = written[q] /\ record'[q] = record[q] /\ result'[q] = result[q]
    <3>1. CASE \/ Register(p) \/ CreateProject(p) \/ LockProject(p)
               \/ \E u \in Uploads : Admit(p, u)
               \/ Stage(p) \/ Quiesce(p) \/ TakeBackup(p) \/ SaveRuntime(p) \/ Build(p)
      BY <1>0, <3>1
         DEF Register, CreateProject, LockProject, Admit, Stage, Quiesce, TakeBackup,
             SaveRuntime, Build, Fail, Goto, TypeOK
    <3>2. CASE \/ \E f \in Files : CopyFile(p, f) \/ RestoreFile(p, f)
               \/ ReplaceFails(p) \/ PrepareEdge(p) \/ RestoreDone(p)
      BY <1>0, <3>2
         DEF CopyFile, RestoreFile, ReplaceFails, FailAndRestore, PrepareEdge, RestoreDone,
             Fail, Goto, TypeOK
    <3>3. CASE \/ Up(p) \/ RecordStatus(p) \/ Return(p)
               \/ ReleaseProject(p) \/ ReleaseAdmission(p) \/ Crash(p)
      BY <1>0, <3>3
         DEF Up, RecordStatus, Return, ReleaseProject, ReleaseAdmission, Crash, End, Goto,
             TypeOK
    <3> QED BY <1>1, <3>1, <3>2, <3>3
  <2> QED BY <2>1, <2>2, <2>3, StepKeepsProgress
<1>2. CASE LocalLock \/ LocalDeploy
  <2>1. /\ UNCHANGED <<dir, disk, backups, pc, created, updates, written, record, result, found>>
        /\ lock' \notin Deployers
    BY <1>2, ProcsAssumption DEF LocalLock, LocalDeploy, server, flow
  <2> QED
    BY <2>1 DEF DeployInv, Progress, AsFound, MayGo, Covered, Nothing, Untouched
<1>3. CASE UNCHANGED vars
  BY <1>3 DEF vars, server, flow, DeployInv, Progress, AsFound, MayGo, Covered, Nothing,
              Untouched
<1> QED
  BY <1>1, <1>2, <1>3 DEF Next

LEMMA DeployInit == Init => DeployInv
<1> SUFFICES ASSUME Init PROVE DeployInv
  OBVIOUS
<1>1. Holders
  BY ProcsAssumption DEF Init, Holders, Locked
<1>2. Directory /\ Stoppers /\ WritersComeBack
  BY DEF Init, Directory, Stoppers, WritersComeBack
<1>3. \A p \in Deployers : Progress(p)
  BY DEF Init, Progress, Untouched
<1> QED
  BY <1>1, <1>2, <1>3, TypeInit DEF DeployInv

LEMMA DeployAlways == Spec => []DeployInv
<1>1. DeployInv /\ [Next]_vars => DeployInv'
  BY TypeStep, HoldersStep, DirectoryStep, StoppersStep, ProgressStep DEF DeployInv
<1> QED
  BY <1>1, DeployInit, PTL DEF Spec

-----------------------------------------------------------------------------
(* Two deploys never overlap, and no deploy works on the directory while a *)
(* local one has the project lock.                                         *)
THEOREM DeploysExclude == Spec => []OneAtWork
<1>1. DeployInv => OneAtWork
  BY ProcsAssumption DEF DeployInv, Holders, OneAtWork
<1> QED
  BY <1>1, DeployAlways, PTL

(* Whatever fails and whoever is killed: a service that is down will be    *)
(* started by a deploy, or was left down by a kill or a failed start.      *)
THEOREM WritersAreStartedAgain == Spec => []WritersComeBack
<1>1. DeployInv => WritersComeBack
  BY DEF DeployInv
<1> QED
  BY <1>1, DeployAlways, PTL

(* An update that returns its error without one of a restore has left the  *)
(* source as it was.                                                       *)
THEOREM FailuresKeepTheSource == Spec => []FailedUpdateKeepsSource
<1>1. DeployInv => FailedUpdateKeepsSource
  BY DEF DeployInv, Progress, FailedUpdateKeepsSource
<1> QED
  BY <1>1, DeployAlways, PTL

(* Only the loops change files: one a file with the upload, the other one  *)
(* a written file.                                                         *)
LEMMA WhoWrites ==
    ASSUME DeployInv, [Next]_vars, NEW f \in Files, disk'[f] # disk[f]
    PROVE  \E p \in Deployers :
              \/ pc[p] = "copy" /\ f \in updates[p]
              \/ pc[p] = "restore" /\ f \in written[p]
<1>1. PICK p \in Deployers, g \in Files : CopyFile(p, g) \/ RestoreFile(p, g)
  BY DEF Next, vars, server, Admit, Register, CreateProject, LockProject, Stage, Quiesce,
         TakeBackup, SaveRuntime, Build, ReplaceFails, PrepareEdge, RestoreDone, Up,
         RecordStatus, Return, ReleaseProject, ReleaseAdmission, Crash, LocalLock,
         LocalDeploy
<1>2. disk \in [Files -> Contents]
  BY DEF DeployInv, TypeOK, Trees
<1> QED
  BY <1>1, <1>2 DEF CopyFile, RestoreFile

(* What a deploy is about to replace is in its backup or was not there,    *)
(* and is neither the .env of the server nor private.                      *)
LEMMA AboutToCopy ==
    ASSUME DeployInv, NEW p \in Deployers, pc[p] = "copy", NEW f \in updates[p],
           disk[f] # Absent
    PROVE  /\ \E b \in backups : b[f] = disk[f]
           /\ f # Env /\ f \notin PrivateOf(found[p][Compose])
<1>1. Progress(p) /\ TypeOK
  BY DEF DeployInv
<1>2. f \in Files /\ disk[f] = found[p][f]
  BY <1>1 DEF Progress, AsFound, TypeOK
<1>3. record[p] # NoBackup /\ record[p] \in backups /\ record[p][f] = found[p][f]
  BY <1>1, <1>2 DEF Progress, Covered
<1>4. f # Env /\ f \notin PrivateOf(found[p][Compose])
  BY <1>1, <1>2 DEF Progress, MayGo
<1> QED
  BY <1>2, <1>3, <1>4

(* Nothing the server has is overwritten before a verified backup has it.  *)
THEOREM BackedUpBeforeOverwritten == Spec => OverwritesAreBackedUp
<1>1. DeployInv /\ [Next]_vars =>
        [\A f \in Files :
            disk'[f] # disk[f] /\ disk[f] # Absent =>
                \/ \E b \in backups : b[f] = disk[f]
                \/ \E p \in Deployers : pc[p] = "restore" /\ f \in written[p]]_vars
  BY WhoWrites, AboutToCopy
<1> QED
  BY <1>1, DeployAlways, PTL DEF Spec, OverwritesAreBackedUp

(* The server's .env and private files are not replaced by an upload.      *)
THEOREM PrivateFilesAreKept == Spec => PrivateFilesStay
<1>1. DeployInv /\ [Next]_vars =>
        [\A f \in Files :
            disk'[f] # disk[f] /\ disk[f] # Absent =>
                \A p \in Deployers :
                    pc[p] \in {"copy", "restore"} =>
                        \/ f \in written[p]
                        \/ f # Env /\ f \notin PrivateOf(found[p][Compose])]_vars
  <2> SUFFICES ASSUME DeployInv, [Next]_vars, NEW f \in Files, disk'[f] # disk[f],
                      disk[f] # Absent, NEW p \in Deployers, pc[p] \in {"copy", "restore"}
               PROVE  \/ f \in written[p]
                      \/ f # Env /\ f \notin PrivateOf(found[p][Compose])
    OBVIOUS
  <2>1. PICK q \in Deployers : \/ pc[q] = "copy" /\ f \in updates[q]
                               \/ pc[q] = "restore" /\ f \in written[q]
    BY WhoWrites
  <2>2. q = p
    BY <2>1, OthersIdle DEF DeployInv
  <2> QED
    BY <2>1, <2>2, AboutToCopy
<1> QED
  BY <1>1, DeployAlways, PTL DEF Spec, PrivateFilesStay
=============================================================================
