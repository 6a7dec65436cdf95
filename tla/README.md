# FleetDeck: TLA+ models, checks and proofs

FleetDeck deploys Docker Compose projects on a few servers. It is one Go
binary that runs in many forms: short-lived commands on an operator's machine
or on the server, a dashboard server, an alert relay, a monitor and timers, all
of which share a SQLite database, the project directories, the backup directory
and the Docker daemon. Nothing coordinates them but file locks, SQLite
transactions and in-process mutexes, and each of them may be killed between two
steps. This directory models the parts in which that matters.

## Inventory

| Part (source) | State it keeps | Operations | What is hard | What makes it correct |
|---|---|---|---|---|
| Release jobs (`internal/releasejob`, `internal/db/release_jobs.go`) | rows `release_jobs`, `release_targets`; containers | `Execute`: reserve, compare, preflight, backup, apply, health, recover, complete | several processes, retries of a key, kill, deadline, failed recovery | one job per target, one rollout per key, compare-and-swap of the current release, production runs what is recorded |
| Source deploy (`internal/sourcedeploy`) | project directory, row, stopped services, two locks | `Apply`: admit, register, stage, quiesce, back up, copy, edge, up, restore, restart | failure or kill between any two files; a local deploy on the same project | old source survives a failure, private files stay, stopped writers come back |
| Backup store (`internal/backup`, `internal/db/backups.go`, `cmd/backup.go`) | rows, directories | create, retention, delete | concurrent commands, kill between row and files, stale counts | rows have data, only the excess is pruned |
| Backups and restores (`internal/backup`, `cmd/rollback.go`, `internal/migrations`, `internal/disaster`, `cmd/deploy.go`) | contents of projects and snapshots, bind directories moved aside, the state database and its archives | create, verify, restore, roll back, migrate, watch a deploy, export, import | a part fails, is deleted or damaged under the restore; which snapshot is "the last" | what is started was restored whole, data moved aside is not lost, a watch restores its own snapshot, an import leaves a way back |
| Project lifecycle and environments (`cmd`, `internal/server`, `internal/environments`, `internal/project`) | accounts, files, rows, repositories, containers | create, destroy, start, stop, restart, sync, import, set a domain; create, promote, delete an environment | seven steps that may each fail, cleanups that fail or do not run, commands without a lock beside handlers with one | the status is true, a failed creation leaves nothing, a row has its files |
| Dashboard deployments (`internal/server/webhook.go`, `server.go`) | dedup window, semaphore, mutexes, rows | deliver, queue, deploy, shut down | repeated deliveries, order of jobs, shutdown and kill | no duplicate, rows settle, newest push wins, no jobs that wait for each other |
| Deploy strategies (`internal/deploy`) | containers of the project and of `<name>-new`, file lock | basic, rolling, bluegreen | failing commands, deadline, images published meanwhile | success means current, failure keeps the old set, a deploy ends |
| Dashboard page (`internal/server/static.go`) | address, body, timer, requests in flight | navigate, refresh, open a tab, submit | answers that come after the user moved on | one timer, a tab shows its project, refreshed logs the one drawn, a live page comes back |
| Sessions, sign-in, limits (`internal/server`: `sessions.go`, `oidc.go`, `ratelimit.go`, gates of `server.go`) | sessions, pending sign-ins, attempts | log in, callback, use, log out, expire, restart | a callback that waits for the provider, repeated callbacks, full tables | who is admitted is entitled, one session per sign-in, limits hold although addresses are forgotten |
| Monitor, security check, fleet (`internal/monitor`, `internal/securitywatch`, `internal/fleetstatus`, `internal/server/fleet.go`) | failure counts, incidents, four files, a cache | probe, alert, check, notify, save, export, serve, show | each hop may be stale or fail; one of two channels fails | an incident follows the last checks, each channel hears of each change, nothing old is shown as ok |
| Alert relay (`internal/notify`) | state file, flock, journal cursor | `Watch`: read, deliver, save | kill between send and save, one provider failing, two relays | no event skipped, duplicates only after faults |
| Everything else (SSH, DNS, bootstrap, discovery, templates, scans, metrics) | none of its own | single calls | - | not modelled, see below |

Interactions: release jobs, source deploys and local deploys all drive Docker
Compose; source and local deploys share the project's `.fleetdeck.lock`, and a
dashboard knows only its own mutexes; deploys, rollbacks, migrations and
several handlers create backups and run retention; the security check and the
monitor write files that the fleet export reads, and the overview reads the
exports of all hosts. `PROJECT.json` lists every part, and every hazard with
its line.

## Modules

Names are those of the code where possible. A definition's source lines are in
`PROJECT.json` under `map`. An operator that sits right before the definition
it resembles and is named for a mistake (`TargetNeverBusy`, `createCmdKeepsRepo`,
`ProcessSteady`) is a plausible wrong version of it, for which TLC finds a
property violated.

**ReleaseLedger** is the promise of the release store: a key is bound to one
request, a target has at most one open job, and a job commits only if the base
it names is current at that moment. **ReleaseJob** is the executor in steps:
each action is one call of `Execute` (a transaction, a runtime call), each with
its failure outcomes, a deadline that expires at any time and a kill. `status`,
`owner`, `stored` and `current` are the tables, `pc` .. `expired` the locals of
each process, `deployed` what the containers run (`Mixed` when a step was cut
short).

**SourceDeploy** is `Engine.Apply`: the admission lock, the project lock, the
directory as a function from files to contents (the server's, an upload's or
absent), the services that run, the config trees of the verified backups. A
kill inside `copyRootFile` leaves its temporary file. A local deploy contends
for the same lock.

**BackupStore** has the table as a set of backups with their `created_at`,
directories being written or whole, and one program counter per command.
`time.Now()` counts nanoseconds: no two rows get the same. Retention is its
loop: a pass per type that counts and then selects the oldest, a pass by age
that recounts for each record. `overlapped` is a history variable: the
processes whose retention ran while another command was at work.

**Restoration** is what is in a backup and how it comes back. Each command is a
plan, a sequence of steps that say what they do and what their failure means
(stop, warn and continue, collect, undo), taken from the function it models; a
process works its plan off one step at a time. Contents are version numbers:
the application writes a new one while it is up, and `Torn` is neither the old
nor the new. Rollback, the watch of a deploy and a migration choose their
snapshot from the rows they list, as the code does. In the model, of the
commands that stop the project or replace its contents only the command-line
rollback without the deploy lock, the restore handler and the start handler
overlap; others would
destroy each other's work in ways that need no search. Export and import, which
handle FleetDeck's own state, run alone. How retention deletes is
BackupStore's subject; here it is one step that keeps `Kept` rows.

**ProjectLifecycle** has the plans of the commands and handlers that create,
start, stop, import, reconcile and destroy a project, and of its environments.
A step acts on the host (account, directory, compose file, repository,
containers) or on the row; its record says what its failure means and what
undoes it, and cleanups run in reverse and may fail. Opening the database is a
step of `create` alone, because only there does it come after changes of the
host: it fails by `os.Exit`, and the cleanups do not run (`exit`). Two lookups
that fail are taken for "nothing found", as in the code, and the command goes
on (`Misread`): the name in the create handler, and the files of an environment
that is created. Two processes interleave; only the handlers that take the
project mutex in the code take it here.

`tainted`, `broken` and `crossed` are history variables that record when an
overlap without a lock, a fault, or an import that could not count the
containers, has already made a property void. `broken` is the exception of
`RegisteredHasFiles`. It is set when

- a creation past its check, or a removal, which may take the directory, is at
  work beside another such creation or an import, which may make the row
  (`Overlap`);
- the check of a creation does not see the project: `create` looks for the
  account only, the handler misreads a failed lookup;
- an import registers what has no directory;
- a removal fails at a step or is killed.

An overlap by itself does not set it: commands that only overlap before the
check for the name, or beside the environments, starts and stops, keep the
property. What the code does to a project in the excepted cases is among the
findings below.

**WebhookDeploy** is the dashboard's deployment path: a delivery becomes a job
that waits for a semaphore slot and then for the project's mutex, pulls, builds,
starts and checks. Commits are positions in the history of the branch. A
shutdown cancels the context, which fails every later command but the
rollback's; a kill loses mutexes, dedup window and jobs. A failed write of a
row is ignored, as in the code. Compose files are not
versioned in the model: `git checkout HEAD~1` of four file names changes
nothing unless a project has all four, which none has.

**DeployStrategy** is `deployLocal` with the three strategies. A container is
the version of its image. A failed or cancelled `compose up` leaves each
container old, new or gone. The two `down` commands of a blue/green deploy
whose failure is only logged may leave any part; `removeProject` runs without
the deadline, as in the code.

**DashboardPage** is one browser tab running the script of `static.go`: the
address, the body, the armed timer and the requests in flight, whose answers
arrive in any order, late or never. A page is a plan of two requests, the one
it opens with and the one its timer repeats, each "blind" (drawn whatever the
address is by then) or "checked". Tasks run one at a time, as in a browser;
`hashchange` is a task of its own. Three things load a list into an element of
a project page: a tab, for the project in the address (`switchTab`); the
Refresh button of the logs, for the project drawn (`refreshLogs`); and the
answer of a new backup, for the project the button was drawn for
(`createBackup`, `Done`). The element is looked up when the request is sent, so
that `here` says whether it is still drawn when the answer comes. The last of
the three may therefore fill the list of another project, which
`TabsFollowAddress` excepts. `pane` is the last of all loads; the page keeps
one element for each list.

**Access** is who may use the dashboard: session store, token login, OIDC
sign-in, logout and the limiter of login attempts. Deadlines are the ticks left
until them. A browser is a device of its own; a copied profile carries the
cookie to another one. A request names the origin of the dashboard, another
one, or none, which the login form may do. A callback takes two steps, before and after it asks the
provider. `right`, `ideal` and `answer` are ghosts: what a login entitles to,
the attempts that would be left if no address were ever forgotten, and the
request just admitted.

**Watchers** is monitor, security check, exported snapshot, agent, client cache
and overview. An observation carries its age in ticks, capped where older makes
no difference. Every write, tool and channel may fail, every process may stop.
The parts are optional in an installation and meet only in the snapshot.

**AlertRelay** is `Watch`: the flock, the state file with cursor and pending
batch, delivery provider by provider with a save after each, and batches of
bounded size read from the journal.

The modules are separate because what they share is small (the lock, the
backup directory, one file). Each `*Proofs` module holds the theorems about the
module it is named for; three have those of two modules, which they both
extend: **DashboardProofs** (Access and DashboardPage), **AlertProofs**
(AlertRelay and Watchers) and **BackupProofs** (BackupStore and Restoration). One
of the two therefore has names of its own, such as `PageSpec`, `StoreSpec`,
`pageVars`, `storeVars`.

## Runs

| Run | Bounds | Shows |
|---|---|---|
| `release_jobs` | 2 processes, 3 keys, a production and a staging target, 2 releases, 2 health attempts, all faults | the safety properties, the refinement of ReleaseLedger, and that every job that began ends, deadlines and failing writes included |
| `source_deploy` | 2 deployers and a local deploy, 2 uploads, 4 files, 2 services, 2 deploys, from every starting directory | no source lost, no writer forgotten, no private file replaced, under failures and kills at each step |
| `backup_store` | 2 processes, 3 backups, 1 fault | a row has its data unless `backup delete` removed it, directories without row need a fault, retention that nothing overlaps removes only what is over a limit |
| `restoration` | 2 processes, 2 commands, 3 listed rows, 1 kept, 1 write, 2 faults | no project started on a mixture, bind data never lost, a watch restores its own snapshot, an import leaves a way back |
| `project_lifecycle` | 2 processes, 3 commands, 1 fault | true statuses, nothing left by a failed creation, rows with files, listed environments whole |
| `webhook_deploy` | 1 project, 2 slots, 3 jobs, 2 pushes, 1 fault (stop, kill or failed write) | no duplicate, rows settle, jobs never all wait for each other, never an older commit |
| `webhook_deploy_rollback` (violation) | as `webhook_deploy` | the rollback keeps the new images |
| `deploy_strategy` | 2 deployers, 2 services, 2 versions, 2 deploys | success is current, a failed check keeps the old set, leftovers need a fault, a deploy ends |
| `dashboard_page` | 2 projects, 3 more routes, 2 requests in flight when the user acts, 1 of them of a click | intervals never pile up, tabs follow the address, refreshed logs the page, the page of a project comes back |
| `access` | 2 browsers, 2 tokens, 2 states, 4 kinds of requests, tables of 1, lifetimes of 1 and 2 ticks, sign-in window 1, 2 attempts, 1 idle tick; with and without OIDC and device certificates | an admitted request is entitled, one session per sign-in, limits hold |
| `watchers` | 2 targets, 2 channels, threshold 2, 1 fault; ages of 1 and 2 ticks | incidents follow the checks, channels hear each change once, the overview shows nothing old as ok |
| `alert_relay` | 2 relays, 2 providers, batches of 2, 3 entries, 2 faults | no event skipped, duplicates need a fault, every event is delivered |

Why the bounds are enough: the protocols compare one pair of actors at a time
(two processes on one lock, row or target), so two of each give every
interleaving of a pair; a third job or command is there where one more can
queue behind the pair or find what it left. Two releases, uploads or versions
distinguish old from new, and a third backup, listed row or key shows what
happens after a pair. A second fault is there where a recovery may itself fail.
Batches of two out of three entries reach the cut of a batch. Tables of one and
lifetimes of one and two ticks make full tables, expiry and both orders of two
deadlines happen; two attempts with one idle tick reach the limit and the
forgetting of an address. One click that waits for its answer is enough on
a page, because the answers of two meet only in the element that shows the
last; the loads of pages and intervals, and the list that a finished backup
loads, come on top. The model has no clock: it counts what is left or
past in ticks, so that one tick stands for "within the limit" and one more for
"past it". Deadlock checking is off where a system may stop: counters of
pushes, backups, commands and deploys run out.

Fairness: a process that is alive takes its next step, because every command
in the modelled paths has a deadline or ends by itself (`removeProject` is the
exception: it assumes that `docker compose down` returns). A killed executor
is not expected to finish; its row stays running, as the code leaves it. Go
wakes a waiter of a freed mutex or channel slot. For the dashboard's jobs no
liveness is claimed; the invariant `SomeJobCanMove` says that the slots and the
mutexes cannot leave all jobs waiting for each other. A browser runs its tasks
and timers and ends every request, with an error if need be (weak fairness);
that the server answers a refresh with data is assumed again and again, not
always (strong fairness). The relay's restart is systemd's (`Restart=` without
a start limit), and its providers and `journalctl` are assumed to work again
and again: hence strong fairness for them.

## Findings

`webhook_deploy_rollback` is a run that TLC refutes; the quotation is in
`PROJECT.json`. The automatic rollback of a dashboard deployment starts the
images that were just built, not the previous ones.

The following was seen while modelling. The models do what the code does, and
the properties say what holds in spite of it.

Deploys and releases:
- A release job that fails because its deadline passed records its failure with
  the expired context (`executor.go:224`): the caller gets no code and the row
  stays running, although `docs/RELEASE_JOBS.md:222` promises a code.
- Blue/green takes both sets down before it starts the promoted one
  (`bluegreen.go:79`), and its health check polls the public domain, which the
  old set may answer; the model lets the check pass whatever the new set does.
- Dashboard deployments take the server's own mutex and never the file lock
  that command-line deploys hold. A webhook's delivery id is remembered before
  the project is found, so a redelivery after a 404 starts nothing.
- A source deploy killed between `MkdirAll` and `CreateProject` leaves a
  directory without a row, which later deploys refuse. Retention of another
  command may prune the snapshot that a failing source deploy would restore.

Backups and restores:
- Two commands that run retention at once count before either deletes
  (`retention.go:59`) and may remove the last snapshot: `PrunesOnlyExcess` is
  about retention that nothing overlaps.
- `backup delete` removes the files before the row, retention does the reverse
  and says why. `RowsHaveData` excepts what `backup delete` began to remove.
- The snapshot before a restore is taken while the project runs and misses what
  is written until the stop (`cmd/backup.go:196`).
- A rollback takes a snapshot first and ends if that fails: after a failed
  restore left the database down, only `--no-snapshot` gets further.
- A snapshot behind the 50 newest rows is not found. When this deploy took no
  snapshot, a rollback of the watch or of a migration goes to an older one.
- `restoreNamedVolume` clears the volume before the copy that may fail; three
  renames failing in a row leave the bind directory under its other name only.
- An import after a failed export has no archive of the state it replaces.

Projects and environments:
- The help of `create` says that any failing step rolls back all completed ones
  (`create.go:26`). `openDB` (`create.go:195`) comes after the account, the
  directory and the repository, and exits the process when the database does
  not open (`root.go:87`), so that no cleanup runs:
  `FailedCreationLeavesNothing` excepts it (`Exited`).
- The cleanup of a failed `create` or of the create handler removes the
  directory also when it belongs to a project registered meanwhile: two
  requests for one name may both pass the check for a duplicate
  (`server.go:652`), and the one whose insert fails removes the directory of
  the project that the other has created (`server.go:685`). One failed
  lookup is enough for the create handler: it takes any error of `GetProject`
  for a free name (`server.go:653`), and the failing insert removes the
  directory of the registered project. The delete
  handler leaves the Linux account, so a later `create` of the name fails. A
  scaffold or `useradd` that fails half way is not cleaned up.
- Setting a domain writes back the whole row read before, with its old status.
  The restart handler does not set the status. Discovery takes a failed
  listing of containers for "stopped".
- An environment whose creation failed between `.env` and its metadata cannot
  be created again before it is deleted; destroying a project leaves the
  containers of its environments.

Watching:
- The monitor says "Restored previous monitor state" but restores nothing: a
  restart during an outage loses the recovery alert (`docs/SMTP.md:31`).
- A security check killed between notifying and saving repeats its message, or
  never tells that a finding is gone.
- The failure of a request that the browser cancelled is kept for 30 seconds as
  the answer of every node.
- The first answer of a page is drawn without a look at the address
  (`static.go:1394`), over the page the user went to meanwhile; a page that
  refreshes itself recovers, the others stay overwritten.
- The list of backups that is loaded when a backup is done goes to the page of
  whatever project is drawn by then (`static.go:1590`).

## Proofs

A theorem holds for any sets of processes, keys, services and so on, for any
limits and any number of faults. The assumptions are the named ones of each
model: the values that mean "none" lie outside the sets, the bounds are
natural numbers, requests and verdicts have the type of their records, there is
at least one project and one upload, a burst of login attempts is refilled
within the time after which an address is forgotten, and a probe ends before
its result is stale (`summary.go` takes three intervals and the timeout). None
of the properties is inductive as it stands; each module names what has to be
added and why.

`ReleaseJobProofs`: `TypeCorrect`; `TargetsAreExclusive` (one live execution
per target); `ComparedBaseStaysCurrent`; `ExecutorImplementsLedger` (ReleaseJob
refines ReleaseLedger); `TerminalRowsStayFinal`. A step of one process says
nothing about another's row. `OwnershipInv` adds that rows are bound to
requests of their own key, that a live process owns the running row of its
request, that at most one row per target runs and that two live processes have
different keys. Only `Reserve` creates a running row, and only when none of the
target runs; only the owner of a running row of the target advances the base.
`CompleteSuccess` therefore happens with the base current, which is the guard
of `Commit`; all other steps map to `Open`, `Abort` or a stutter.

On top of `OwnershipInv`, in the same module: `KeysRollOutOnce`, from
`RolloutInv` (before `compose up` nothing of the key has run);
`GivenAnswersStayTrue`, from `AnswerInv` (an answer with a result belongs to a
closed row); `ProductionIsAsRecorded`, from `RecoveryInv`, which says for each
step of an execution what the target runs and what is saved for the recovery.

`SourceDeployProofs`: `DeploysExclude`, `WritersAreStartedAgain`,
`FailuresKeepTheSource`, `BackedUpBeforeOverwritten`, `PrivateFilesAreKept`.
`DeployInv` says who holds the two locks, and then, because only their holder
writes, what the directory is at each step: as it was found, but for the files
already copied, all of which are in the verified backup or were not there.

`DeployStrategyProofs`: `FailedDeploysKeepOldSet`, `SuccessMeansCurrent`. By
`StrategyInv` whoever is at work holds the lock; what a rolling update has done
so far is at least as new as what was published when it began.

`WebhookDeployProofs`: `DeliveriesStartOneJob`, `RowsAlwaysSettle`,
`JobsNeverDeadlock`, `CodeNeverGetsOlder`. In `JobInv` the job at work on a
project is the one that holds its mutex; rows and status follow the mutex;
every delivery that started a job is remembered or was forgotten; what runs
was built, what was built was pulled, what was pulled was pushed. Without a job
at work no mutex is held, and without one that waits every slot is free.

`AlertProofs`, about AlertRelay: `EventsArriveInOrder`. `RelayInv` says what a saved state
promises of the journal and of each provider (`Faithful`, `Fits`); it holds of
the file at all times, and the process with the lock remembers what is on disk.

`DashboardProofs`, about Access: `AdmittedAreEntitled`, `SignInsMakeOneSession`,
`LimitsAlwaysHold`. In `AccessInv` a session never outlives its login
(`Entitled`), a state parameter is at the provider, in one callback or in one
session and never in two of these places (`Subjects`), stores and table are
finite and within their limits (`Sized`), and an address that may be forgotten
has all its attempts back (`Refilled`).

`DashboardProofs`, about DashboardPage: `IntervalsNeverPileUp`,
`TabsShowTheirProject`.
`PageInv` adds that a tab's request whose answer will be shown is about the
project in the address unless a hashchange waits, and a request of the Refresh
button about the project drawn (`Tabs`): a new body cuts off all others.

`AlertProofs`, about Watchers: `AlertsAlwaysFollowChecks`, `OverviewIsNeverOld`,
`ChannelsAlwaysHearChanges`. `WatchersInv` has three parts. `AlertInv`: the two
counters of an alert count back through the last results, to the last healthy
one and to the last of another diagnosis, so the alert opens exactly when the
last `Threshold` results say so. `RecentInv`: whatever calls itself healthy (a
result, the state file, the snapshot, the cache) bounds the age of the last
healthy check by its own age; each copy adds its own. Here a probe that takes as
long as a result stays valid would be a counterexample, hence
`Timeout <= StaleAfter`. `HeardInv`: the deliveries in the file, or of the check
at work, are what each channel heard last, until a check is killed between the
notifications and the file.

`ProjectLifecycleProofs`: `ListedAreWhole`, `RegisteredKeepFiles`,
`FailedCreationsLeaveNothing`, `StatusStaysTrue`, for any number of commands at
work. The plans are
sequences; what an invariant needs of them is only which steps come before
which (`Precede`), which are taken at all (`Takes`) and which come last, and
three lemmas say how `Tail` and concatenation keep that. `EnvInv`: the metadata
of an environment is still to come after its compose file, or the compose file
is there, and nothing removes it but what removes the metadata in the same
step. `FilesInv`: as long as `broken` is not set, nothing overlaps (`Overlap`)
and no creation is past its check while there is a row; a creation registers
last, after its directory exists, and no cleanup registers; a removal that is
not finished ends with the row. `CreationInv`: while a creation that
works alone goes on, its cleanups cover all it added and spare what was there;
after a failure, what is left of them covers all but the failing step's own
half; a process that exits keeps its cleanups in `undo` and runs none, and is
the exception. `StatusInv`: until something taints the status, it is what the containers
do, or a command owes it (`Owes`: it has changed the containers, and all it has
left to do leads to a step that sets the status); a command that is about to set
it knows what it writes (`Knows`: that the containers are up, or down, how many
run, the row it read), because the steps it learnt it from come first, and what
it knows stays true, because whoever changes it holds the lock that this command
holds, or does not run beside it. A `sync --fix` that works alone knows these
things whatever happened before (`SyncKnows`). The proof also found what three
commands in a row do not show: an import that cannot count the containers leaves
the row `stopped` although they may run (`import.go:59`), so it taints the status.

`BackupProofs`, about BackupStore: `RowsAlwaysMatchData`, `PruningIsNeeded`.
`StoreInv` says of a command, by its program counter, which backup it owns and
what is there of it: whoever is about to insert a row has the complete directory
(`DataFirst`), whoever removes files after the row keeps the backup in its list
(`NoneLeft`: before anything has failed, a directory without a row is expected by
one of them). What retention has counted is in `PassInv`, and is true only while
no other command works: `Surplus` says that at least as many rows are too many
as are still to be removed, so each removal leaves the surplus of the rest.

`BackupProofs`, about Restoration: `ImportKeepsAWayBackAlways`,
`BindDataIsNeverLost`, `WatchGoesBackOneDeployAlways`, `RestoredIsWholeAlways`.
`InShape` is the base of all: what is left of a command is a sequence of steps
in which only certain steps follow one another (`Follows`). `PlansInShape` says
it of the eighteen plans, and no step breaks it, done, failed, refused or left out;
`NextStep` and `StepAfterFailure` then say what may come after a step. On top:

- `ExportFirst`: an import that has come to its archive has left one of its own
  state, or the export has failed.
- `BindKnown`: while the directory of the bind mount is away, a command that
  knows it (`prev`) is about to move it in or back; each further step of the
  retreat costs a failure. It needs no command to be alone: two restores may
  take the directory away from each other.
- `Apartness` and `DeployKnows`: what works beside a deploy that is alone takes
  no `pre-deploy` snapshot, so that the newest one is the deploy's own, or the
  deploy's own is gone; the limit of the listing cannot hide it behind newer ones
  (`NewestIsOwn`).
- `HasMutex` and `RestoresInOrder`: by its next step a restore is at a rank, and
  every part whose rank it has passed is as in the backup, or a failure is noted;
  the containers are down from the second rank on, so nothing writes; the steps
  that others may take then change no part, because they work on backups only or
  wait for the mutex. A backup that is deleted meanwhile keeps what was verified
  or is gone, which fails the steps that read it.

The theorems put no limit on processes, commands, writes, faults and kept or
listed rows; the runs do. What overlaps is limited in both in the same way
(`Together`, see above).

Only model-checked: liveness (`JobsTerminate`, `EventsDelivered`, `DeploysEnd`,
`LivePagesRecover`), because the prover has neither fairness nor ENABLED. Every
safety property of a run is a theorem.

## Not modelled

Parsers, text generation (templates, profiles, systemd units), HTTP and SSH
transport, DNS, bootstrap, discovery and detection, secret scanning, TLS and
encryption have no state whose order could go wrong: their outcomes appear as
choices (a request is valid or not, a command succeeds or fails, a file is
private or not). Metrics are sampled for display only. `scaffold` and
`upgrade`, self update, the proxy handover and off-site copies are sequences of
host commands run by one operator. Configuration, the audit log and terminal
output keep nothing another part reads back. Handlers that only read are left
out, except where a page draws their answer late. Clocks appear only as
deadlines and ages in ticks.

## Plan

What is left, in order.

1. Composition of SourceDeploy and BackupStore: retention of another command
   against the snapshot a failing deploy needs.
2. The commands left out of ProjectLifecycle (`scaffold`, `upgrade`), the edge
   network's own state, schedules.
