--------------------------- MODULE WebhookDeploy ----------------------------
(***************************************************************************)
(* Deployments the dashboard server starts, internal/server: a GitHub push *)
(* webhook or a manual request becomes a tracked goroutine that waits for  *)
(* a slot of the deploy semaphore, then for the project's mutex, and runs  *)
(* git pull, build, up and a health check with rollback.  Deliveries are   *)
(* repeated by GitHub; the server shuts down, is killed and restarts while *)
(* jobs are queued or running.                                             *)
(*                                                                         *)
(* A commit is its position in the project's history; 0 is none.           *)
(***************************************************************************)
EXTENDS Integers, FiniteSets

CONSTANTS
    Projects,
    Slots,       \* capacity of deploySem
    MaxPushes,   \* bound: pushes of a project
    MaxJobs,     \* bound: deployments ever started
    MaxFaults,    \* bound: shutdowns and kills of the server, failed writes
    NoJob

Jobs == 1 .. MaxJobs
Commits == 0 .. MaxPushes

ASSUME BoundsAssumption ==
    MaxPushes \in Nat /\ MaxJobs \in Nat /\ MaxFaults \in Nat /\ Slots \in Nat \ {0}
ASSUME NoJobAssumption == NoJob \notin Jobs
ASSUME ProjectsAssumption == Projects # {}

VARIABLES
    head,      \* [Projects -> newest commit on GitHub]
    known,     \* projects whose repository is registered
    seen,      \* webhookDedup: delivery ids (a push has one) remembered
    closing,   \* shutdownCtx is cancelled
    jobs,      \* jobs started so far
    proj,      \* [Jobs -> its project]
    commit,    \* [Jobs -> the push it was started for, 0 for a manual one]
    pc,        \* [Jobs -> where runDeployment is]
    status,    \* [Jobs -> the deployments row]
    before,    \* [Jobs -> the commit that ran when it began (previousImages)]
    mutex,     \* [Projects -> the job that holds the project's mutex]
    tree,      \* [Projects -> commit checked out]
    built,     \* [Projects -> commit of the built images]
    running,   \* [Projects -> commit the containers run]
    shown,     \* [Projects -> the project row's status]
    faults,     \* shutdowns, kills and failed writes so far
    forgotten, \* history: deliveries the dedup window lost
    killed     \* history: jobs whose rows a kill or a failed write left

work == <<proj, commit, before>>
disk == <<tree, built, running>>
vars == <<head, known, seen, closing, jobs, pc, status, work, mutex, disk, shown, faults,
          forgotten, killed>>

Active == {"pull", "build", "up", "health", "rollback"}
HasSlot == Active \cup {"waiting"}
InSlot == {j \in Jobs : pc[j] \in HasSlot}

Init ==
    /\ head = [p \in Projects |-> 0]
    /\ known \in SUBSET Projects
    /\ seen = {} /\ closing = FALSE /\ jobs = 0 /\ faults = 0
    /\ proj = [j \in Jobs |-> CHOOSE p \in Projects : TRUE]
    /\ commit = [j \in Jobs |-> 0]
    /\ pc = [j \in Jobs |-> "none"]
    /\ status = [j \in Jobs |-> "none"]
    /\ before = [j \in Jobs |-> 0]
    /\ mutex = [p \in Projects |-> NoJob]
    /\ tree = [p \in Projects |-> 0]
    /\ built = [p \in Projects |-> 0]
    /\ running = [p \in Projects |-> 0]
    /\ shown = [p \in Projects |-> "created"]
    /\ forgotten = {} /\ killed = {}

-----------------------------------------------------------------------------
(* The world outside. *)

Push(p) ==
    /\ head[p] < MaxPushes
    /\ head' = [head EXCEPT ![p] = @ + 1]
    /\ UNCHANGED <<known, seen, closing, jobs, pc, status, work, mutex, disk, shown, faults,
                   forgotten, killed>>

Register(p) ==
    /\ p \notin known
    /\ known' = known \cup {p}
    /\ UNCHANGED <<head, seen, closing, jobs, pc, status, work, mutex, disk, shown, faults,
                   forgotten, killed>>

-----------------------------------------------------------------------------
(* Starting a job. *)

(* goAsyncJob *)
Start(p, c) ==
    /\ jobs < MaxJobs /\ jobs' = jobs + 1
    /\ proj' = [proj EXCEPT ![jobs + 1] = p]
    /\ commit' = [commit EXCEPT ![jobs + 1] = c]
    /\ pc' = [pc EXCEPT ![jobs + 1] = "queued"]
    /\ UNCHANGED <<status, before>>

SeenNever(d) == FALSE
(* seenRecently *)
Seen(d) == d \in seen

(* handleGitHubWebhook: GitHub delivers, or delivers again, push c of p.   *)
(* The id is remembered before the project is looked up.  A request the    *)
(* server accepted before it began to stop is still served.                *)
Deliver(p, c) ==
    /\ c \in 1 .. head[p]
    /\ ~Seen(<<p, c>>)
    /\ seen' = seen \cup {<<p, c>>}
    /\ \/ p \in known /\ Start(p, c)
       \/ p \notin known /\ UNCHANGED <<jobs, pc, status, work>>
    /\ UNCHANGED <<head, known, closing, mutex, disk, shown, faults, forgotten, killed>>

(* handleManualDeploy, handleTriggerDeploy *)
Manual(p) ==
    /\ p \in known
    /\ Start(p, 0)
    /\ UNCHANGED <<head, known, seen, closing, mutex, disk, shown, faults, forgotten, killed>>

(* A delivery id ages out of the dedup window. *)
Forget(d) ==
    /\ d \in seen
    /\ seen' = seen \ {d} /\ forgotten' = forgotten \cup {d}
    /\ UNCHANGED <<head, known, closing, jobs, pc, status, work, mutex, disk, shown, faults,
                   killed>>

-----------------------------------------------------------------------------
(* The job. *)

SlotFree == Cardinality(InSlot) < Slots

(* select: the semaphore, or the shutdown; with both ready, either.        *)
TakeSlot(j) ==
    /\ pc[j] = "queued"
    /\ \/ SlotFree /\ pc' = [pc EXCEPT ![j] = "waiting"]
       \/ closing /\ pc' = [pc EXCEPT ![j] = "dropped"]
    /\ UNCHANGED <<head, known, seen, closing, jobs, status, work, mutex, disk, shown, faults,
                   forgotten, killed>>

MutexFree(p) == mutex[p] = NoJob

(* captureContainerImages: none when docker does not list them. *)
Captured(p) == {0, running[p]}

(* CreateDeployment, UpdateDeployment and UpdateProjectStatus: the server  *)
(* goes on when a write fails, and an UPDATE of a missing row does nothing. *)
Write(j, s, q) ==
    LET row == IF s # "deploying" /\ status[j] = "none" THEN status
               ELSE [status EXCEPT ![j] = s]
        project == [shown EXCEPT ![proj[j]] = q]
    IN \E r \in {status, row}, t \in {shown, project} :
          /\ status' = r /\ shown' = t
          /\ \/ r = row /\ t = project /\ UNCHANGED <<faults, killed>>
             \/ /\ r # row \/ t # project
                /\ faults < MaxFaults /\ faults' = faults + 1
                /\ killed' = killed \cup {j}

(* The project mutex; the row, the status, and the images now running.     *)
Begin(j) ==
    /\ pc[j] = "waiting" /\ MutexFree(proj[j])
    /\ mutex' = [mutex EXCEPT ![proj[j]] = j]
    /\ Write(j, "deploying", "deploying")
    /\ \E c \in Captured(proj[j]) : before' = [before EXCEPT ![j] = c]
    /\ pc' = [pc EXCEPT ![j] = "pull"]
    /\ UNCHANGED <<head, known, seen, closing, jobs, proj, commit, disk, forgotten>>

FinishKeepsMutex(j, s) ==
    /\ Write(j, s, IF s = "failed" THEN "error" ELSE "running")
    /\ pc' = [pc EXCEPT ![j] = "done"]
    /\ UNCHANGED mutex
(* finishDeployment, then the deferred unlock and the slot. *)
Finish(j, s) ==
    /\ Write(j, s, IF s = "failed" THEN "error" ELSE "running")
    /\ pc' = [pc EXCEPT ![j] = "done"]
    /\ mutex' = [mutex EXCEPT ![proj[j]] = NoJob]

Goto(j, step) ==
    /\ pc' = [pc EXCEPT ![j] = step]
    /\ UNCHANGED <<status, shown, mutex, faults, killed>>

PulledOwnCommit(j) == IF commit[j] = 0 THEN head[proj[j]] ELSE commit[j]
(* The branch's newest commit, not the one the webhook named. *)
Pulled(j) == head[proj[j]]

(* git pull --ff-only; a cancelled context fails it. *)
Pull(j) ==
    /\ pc[j] = "pull"
    /\ \/ /\ ~closing
          /\ tree' = [tree EXCEPT ![proj[j]] = Pulled(j)]
          /\ Goto(j, "build")
       \/ Finish(j, "failed") /\ UNCHANGED tree
    /\ UNCHANGED <<head, known, seen, closing, jobs, work, built, running, forgotten>>

(* Validation, compose build and the pre-deploy hook; a failure may come   *)
(* before or after the images are built.                                   *)
Build(j) ==
    /\ pc[j] = "build"
    /\ \/ /\ ~closing
          /\ built' = [built EXCEPT ![proj[j]] = tree[proj[j]]]
          /\ Goto(j, "up")
       \/ built' = [built EXCEPT ![proj[j]] = tree[proj[j]]] /\ Finish(j, "failed")
       \/ Finish(j, "failed") /\ UNCHANGED built
    /\ UNCHANGED <<head, known, seen, closing, jobs, work, tree, running, forgotten>>

UpImages(p) == running' = [running EXCEPT ![p] = built[p]]

(* compose up -d; a failed one may have replaced the containers. *)
Up(j) ==
    /\ pc[j] = "up"
    /\ \/ ~closing /\ UpImages(proj[j]) /\ Goto(j, "health")
       \/ UpImages(proj[j]) /\ Finish(j, "failed")
       \/ Finish(j, "failed") /\ UNCHANGED running
    /\ UNCHANGED <<head, known, seen, closing, jobs, work, tree, built, forgotten>>

(* waitForHealthy: the last report of 30 seconds of polling. *)
Verdicts == {"healthy", "unhealthy"}

(* The post-deploy hook may fail a healthy deployment; an unhealthy one    *)
(* without previous images is kept, and called a success.                  *)
Health(j) ==
    /\ pc[j] = "health"
    /\ \E v \in Verdicts :
          \/ v = "healthy" /\ (Finish(j, "success") \/ Finish(j, "failed"))
          \/ v = "unhealthy" /\ before[j] = 0 /\ Finish(j, "success")
          \/ v = "unhealthy" /\ before[j] # 0 /\ Goto(j, "rollback")
    /\ UNCHANGED <<head, known, seen, closing, jobs, work, disk, forgotten>>

(* The rollback: git checkout HEAD~1 of four Compose names (it changes     *)
(* nothing unless all of them exist), compose up -d, checkout HEAD.        *)
Rollback(j) ==
    /\ pc[j] = "rollback"
    /\ \/ UpImages(proj[j])
       \/ UNCHANGED running
    /\ Finish(j, "failed")
    /\ UNCHANGED <<head, known, seen, closing, jobs, work, tree, built, forgotten>>

-----------------------------------------------------------------------------
(* Shutdown cancels the context and waits for the jobs; the process ends   *)
(* when they are done, or is killed at the deadline or without warning.    *)

Shutdown ==
    /\ ~closing /\ faults < MaxFaults
    /\ closing' = TRUE /\ faults' = faults + 1
    /\ UNCHANGED <<head, known, seen, jobs, pc, status, work, mutex, disk, shown, forgotten,
                   killed>>

Alive == {j \in Jobs : pc[j] \in HasSlot \cup {"queued"}}

(* The memory of the old process is lost: dedup window, mutexes, jobs. *)
Restart ==
    /\ closing' = FALSE
    /\ seen' = {} /\ forgotten' = forgotten \cup seen
    /\ mutex' = [p \in Projects |-> NoJob]
    /\ pc' = [j \in Jobs |-> IF j \in Alive THEN "dropped" ELSE pc[j]]
    /\ UNCHANGED <<head, known, jobs, status, work, disk, shown>>

DrainIgnoresJobs == closing
Drained == closing /\ Alive = {}

Exit == Drained /\ Restart /\ UNCHANGED <<killed, faults>>

Kill ==
    /\ \/ faults < MaxFaults /\ faults' = faults + 1
       \/ closing /\ UNCHANGED faults
    /\ killed' = killed \cup {j \in Jobs : pc[j] \in Active}
    /\ Restart

JobStep(j) ==
    \/ TakeSlot(j) \/ Begin(j) \/ Pull(j) \/ Build(j) \/ Up(j) \/ Health(j) \/ Rollback(j)

Next ==
    \/ \E p \in Projects :
          \/ Push(p) \/ Register(p) \/ Manual(p)
          \/ \E c \in Commits : Deliver(p, c)
    \/ \E d \in seen : Forget(d)
    \/ \E j \in Jobs : JobStep(j)
    \/ Shutdown \/ Exit \/ Kill

Spec == Init /\ [][Next]_vars

-----------------------------------------------------------------------------
(* Every variable keeps its type. *)
TypeOK ==
    /\ head \in [Projects -> Commits] /\ known \subseteq Projects
    /\ seen \subseteq Projects \X Commits /\ forgotten \subseteq Projects \X Commits
    /\ closing \in BOOLEAN /\ jobs \in 0 .. MaxJobs /\ faults \in 0 .. MaxFaults
    /\ proj \in [Jobs -> Projects] /\ commit \in [Jobs -> Commits]
    /\ before \in [Jobs -> Commits]
    /\ pc \in [Jobs -> HasSlot \cup {"none", "queued", "dropped", "done"}]
    /\ status \in [Jobs -> {"none", "deploying", "success", "failed"}]
    /\ mutex \in [Projects -> Jobs \cup {NoJob}]
    /\ tree \in [Projects -> Commits] /\ built \in [Projects -> Commits]
    /\ running \in [Projects -> Commits]
    /\ shown \in [Projects -> {"created", "deploying", "running", "error"}]
    /\ killed \subseteq Jobs

(* Only one job is started for a delivery, however often GitHub repeats    *)
(* it, unless the window forgot it or the server restarted in between.     *)
NoDuplicateDeployment ==
    \A i, j \in 1 .. jobs :
        i # j /\ proj[i] = proj[j] /\ commit[i] = commit[j] /\ commit[i] # 0
            => <<proj[i], commit[i]>> \in forgotten

(* The containers never go back to an older commit.                        *)
NeverOlder == [][\A p \in Projects : running'[p] >= running[p]]_vars

(* A row says deploying only while its job is at work, or when a kill      *)
(* interrupted it or a write of it failed; so does the project's status.   *)
RowsSettle ==
    /\ TypeOK
    /\ \A j \in Jobs : status[j] = "deploying" => pc[j] \in Active \/ j \in killed
    /\ \A p \in Projects :
          shown[p] = "deploying" =>
              \/ mutex[p] # NoJob
              \/ \E j \in killed : proj[j] = p

(* Nobody waits for everybody: as long as a job is queued or at work, some *)
(* job runs, or can take the slot or the mutex it waits for, or is dropped *)
(* by the shutdown.                                                        *)
SomeJobCanMove ==
    Alive # {} =>
        \E j \in Alive :
            \/ pc[j] \in Active
            \/ pc[j] = "waiting" /\ mutex[proj[j]] = NoJob
            \/ pc[j] = "queued" /\ (Cardinality(InSlot) < Slots \/ closing)

(* A deployment that was rolled back leaves the containers on the commit   *)
(* that ran before it.                                                     *)
RollbackRestoresPrevious ==
    [][\A j \in Jobs :
          pc[j] = "rollback" /\ pc'[j] = "done" => running'[proj[j]] = before[j]]_vars

=============================================================================
