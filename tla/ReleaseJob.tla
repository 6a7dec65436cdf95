----------------------------- MODULE ReleaseJob -----------------------------
(***************************************************************************)
(* The bounded release executor: internal/releasejob (Executor.Execute,    *)
(* ComposeRuntime, the external backup provider) running against the       *)
(* release_jobs and release_targets tables of internal/db.                 *)
(*                                                                         *)
(* Every member of Execs is one `fleetdeck release apply` or `release      *)
(* receive` process.  They share nothing but the SQLite database and the   *)
(* containers of the target.  A process may be killed between any two      *)
(* steps, the deadline of `release receive` may expire at any time, and    *)
(* any database statement may fail.                                        *)
(***************************************************************************)
EXTENDS Naturals

CONSTANTS
    Execs,      \* processes
    Keys,       \* idempotency keys
    JobIDs,     \* job ids, UNIQUE in release_jobs
    Targets,    \* target ids
    Releases,   \* release ids
    Requests,   \* the requests callers may submit
    Policy,     \* [Targets -> environment allowlisted in the configuration]
    NoRelease,  \* no row in release_targets; the runtime before any release
    NoRequest,  \* no row in release_jobs
    Mixed,      \* a runtime that is neither the old release nor the new one
    MaxAttempts,\* health_max_attempts
    Faults      \* which of "crash", "expire", "store" may happen

Environments == {"staging", "production"}
Compatibility == {"not-applicable", "unreviewed", "online-expand-contract",
                  "maintenance-write-freeze"}

RequestType ==
    [key : Keys, job : JobIDs, release : Releases, target : Targets,
     env : Environments, expected : Releases \cup {NoRelease},
     backup : BOOLEAN, migration : {"none", "preflight-and-apply"},
     compat : Compatibility, recovery : {"manual", "runtime-only"}]

ASSUME RequestsAssumption == Requests \subseteq RequestType
ASSUME SentinelAssumption ==
    /\ NoRequest \notin Requests
    /\ NoRelease \notin Releases /\ Mixed \notin Releases
    /\ NoRelease # Mixed
ASSUME PolicyAssumption == Policy \in [Targets -> Environments \cup {"absent"}]
ASSUME AttemptsAssumption == MaxAttempts \in Nat \ {0}

VARIABLES
    status,    \* [Keys -> status column of release_jobs, "none": no row]
    owner,     \* [Keys -> request_json and request_sha256 of the row]
    stored,    \* [Keys -> result_json of the row]
    current,   \* [Targets -> current_release_id of release_targets]
    pc,        \* [Execs -> the call of Execute that comes next]
    req,       \* [Execs -> the request being executed]
    result,    \* [Execs -> the Result as assembled so far]
    saved,     \* [Execs -> the runtime its verified backup captured]
    attempt,   \* [Execs -> health attempt]
    expired,   \* [Execs -> the deadline of its context has passed]
    answer,    \* [Execs -> what the last Execute of the process returned]
    deployed,  \* [Targets -> the release the containers really run]
    rollouts   \* history: [Keys -> how often the key changed containers]

table == <<status, owner, stored>>
frame == <<req, saved, attempt, expired>>
world == <<deployed, rollouts>>
vars == <<table, current, pc, result, frame, answer, world>>

Codes == {"none", "CURRENT_RELEASE_UNAVAILABLE", "CURRENT_RELEASE_MISMATCH",
          "PREFLIGHT_FAILED", "BACKUP_NOT_VERIFIED", "APPLY_FAILED",
          "HEALTH_FAILED", "ROLLBACK_FAILED"}

(* The Result: its error code and which evidence it carries. *)
Evidence == {"backup", "rollback"}
Results == [code : Codes, evidence : SUBSET Evidence]
Result(code, evidence) == [code |-> code, evidence |-> evidence]
NoResult == Result("none", {})

Statuses == {"none", "running", "succeeded", "failed"}
Runtimes == Releases \cup {NoRelease, Mixed}
Steps == {"idle", "compare", "preflight", "backup", "migrate", "up",
          "health", "succeed", "recover", "fail"}
AnswerKinds == {"none", "error", "busy", "failure lost", "success lost",
                "result"}

Answers == [kind : AnswerKinds, key : Keys \cup {NoRequest}, result : Results]
Answer(kind, key, res) == [kind |-> kind, key |-> key, result |-> res]
Error(kind) == Answer(kind, NoRequest, NoResult)

Init ==
    /\ status = [k \in Keys |-> "none"]
    /\ owner = [k \in Keys |-> NoRequest]
    /\ stored = [k \in Keys |-> NoResult]
    /\ current = [t \in Targets |-> NoRelease]
    /\ pc = [p \in Execs |-> "idle"]
    /\ req = [p \in Execs |-> NoRequest]
    /\ result = [p \in Execs |-> NoResult]
    /\ saved = [p \in Execs |-> NoRelease]
    /\ attempt = [p \in Execs |-> 0]
    /\ expired = [p \in Execs |-> FALSE]
    /\ answer = [p \in Execs |-> Error("none")]
    /\ deployed = [t \in Targets |-> NoRelease]
    /\ rollouts = [k \in Keys |-> 0]

-----------------------------------------------------------------------------
(* Request.Validate: the part of the contract that later steps rely on. *)
Validate(r) ==
    /\ r.env = "production" =>
          /\ r.backup
          /\ r.recovery = "runtime-only"
          /\ r.migration = "preflight-and-apply" =>
                r.compat = "online-expand-contract"
    /\ r.env = "staging" => r.recovery = "manual"
    /\ (r.migration = "none") <=> (r.compat = "not-applicable")

TargetNeverBusy(t) == FALSE
(* SELECT job_id FROM release_jobs WHERE target_id = ? AND status = 'running' *)
TargetBusy(t) ==
    \E k \in Keys : status[k] = "running" /\ owner[k].target = t

(* Execute returns: the locals of the call are gone. *)
Return(p, a) ==
    /\ pc' = [pc EXCEPT ![p] = "idle"]
    /\ req' = [req EXCEPT ![p] = NoRequest]
    /\ result' = [result EXCEPT ![p] = NoResult]
    /\ saved' = [saved EXCEPT ![p] = NoRelease]
    /\ attempt' = [attempt EXCEPT ![p] = 0]
    /\ expired' = [expired EXCEPT ![p] = FALSE]
    /\ answer' = [answer EXCEPT ![p] = a]

Goto(p, step) == pc' = [pc EXCEPT ![p] = step]

SetCode(p, code) ==
    result' = [result EXCEPT ![p] = Result(code, result[p].evidence)]

(* result.FailedStep and ErrorCode are set before CompleteFailure runs. *)
FailWith(p, code) == Goto(p, "fail") /\ SetCode(p, code)

(* Execute: an invalid request, or a database that cannot be reached, ends *)
(* before anything is stored.                                              *)
Refuse(p, r) ==
    /\ pc[p] = "idle"
    /\ ~Validate(r) \/ "store" \in Faults
    /\ Return(p, Error("error"))
    /\ UNCHANGED <<table, current, world>>

(* DB.Reserve for a key that has a row, in one immediate transaction:      *)
(* a different request is refused, a running one is in progress, and a     *)
(* terminal one is replayed.                                               *)
ReserveKnownKey(p, r) ==
    /\ pc[p] = "idle" /\ Validate(r)
    /\ status[r.key] # "none"
    /\ \/ owner[r.key] # r /\ Return(p, Error("error"))
       \/ /\ owner[r.key] = r /\ status[r.key] = "running"
          /\ Return(p, Error("busy"))
       \/ /\ owner[r.key] = r /\ status[r.key] # "running"
          /\ Return(p, Answer("result", r.key, stored[r.key]))
    /\ UNCHANGED <<table, current, world>>

(* DB.Reserve for a new key that may not start: the target has a running   *)
(* job, or another key already uses the job id (UNIQUE).                   *)
ReserveRefused(p, r) ==
    /\ pc[p] = "idle" /\ Validate(r)
    /\ status[r.key] = "none"
    /\ \/ TargetBusy(r.target) /\ Return(p, Error("busy"))
       \/ /\ ~TargetBusy(r.target)
          /\ \E k \in Keys : status[k] # "none" /\ owner[k].job = r.job
          /\ Return(p, Error("error"))
    /\ UNCHANGED <<table, current, world>>

Begin(p, r) ==
    /\ status' = [status EXCEPT ![r.key] = "running"]
    /\ owner' = [owner EXCEPT ![r.key] = r]
    /\ stored' = [stored EXCEPT ![r.key] = NoResult]
    /\ pc' = [pc EXCEPT ![p] = "compare"]
    /\ req' = [req EXCEPT ![p] = r]
    /\ answer' = [answer EXCEPT ![p] = Error("none")]
    /\ UNCHANGED <<current, result, saved, attempt, expired, world>>

ReserveRetriesFailed(p, r) ==
    /\ pc[p] = "idle" /\ Validate(r)
    /\ status[r.key] \in {"none", "failed"}
    /\ ~TargetBusy(r.target)
    /\ Begin(p, r)
(* DB.Reserve inserts the running row: the process now owns the job. *)
ReserveAcquired(p, r) ==
    /\ pc[p] = "idle" /\ Validate(r)
    /\ status[r.key] = "none"
    /\ ~TargetBusy(r.target)
    /\ \A k \in Keys : status[k] # "none" => owner[k].job # r.job
    /\ Begin(p, r)

AlwaysSameBase(p) == TRUE
(* sameOptionalString(current, request.Target.ExpectedCurrentReleaseID) *)
SameBase(p) == current[req[p].target] = req[p].expected

(* Execute compares the recorded release with the one the caller expected. *)
CompareCurrent(p) ==
    /\ pc[p] = "compare"
    /\ \/ /\ "store" \in Faults \/ expired[p]
          /\ FailWith(p, "CURRENT_RELEASE_UNAVAILABLE")
       \/ /\ ~expired[p] /\ ~SameBase(p)
          /\ FailWith(p, "CURRENT_RELEASE_MISMATCH")
       \/ /\ ~expired[p] /\ SameBase(p)
          /\ Goto(p, "preflight") /\ UNCHANGED result
    /\ UNCHANGED <<table, current, frame, answer, world>>

(* ComposeRuntime.resolve: the target is allowlisted for the environment. *)
Resolves(r) == Policy[r.target] = r.env

(* ComposeRuntime.Preflight validates, pulls images and removes its        *)
(* temporary override; it changes nothing that runs.                       *)
Preflight(p) ==
    /\ pc[p] = "preflight"
    /\ \/ /\ Resolves(req[p]) /\ ~expired[p]
          /\ Goto(p, IF req[p].backup THEN "backup" ELSE "migrate")
          /\ UNCHANGED result
       \/ FailWith(p, "PREFLIGHT_FAILED")
    /\ UNCHANGED <<table, current, frame, answer, world>>

(* The provider answers for this release and target with well-formed       *)
(* evidence, in time.  It is asked for production only.                    *)
CreateAndVerify(p) == req[p].env = "production" /\ ~expired[p]
Restore(p) == ~expired[p]

(* CreateAndVerifyBackup: only for production; the provider captures the   *)
(* runtime as it is before the release changes it.  result.Backup is set   *)
(* whether or not the evidence is good.                                    *)
CreateAndVerifyBackup(p) ==
    /\ pc[p] = "backup"
    /\ \/ /\ CreateAndVerify(p)
          /\ Goto(p, "migrate")
          /\ result' = [result EXCEPT ![p] = Result("none", {"backup"})]
          /\ saved' = [saved EXCEPT ![p] = deployed[req[p].target]]
       \/ /\ Goto(p, "fail")
          /\ result' = [result EXCEPT ![p] =
                           Result("BACKUP_NOT_VERIFIED", {"backup"})]
          /\ UNCHANGED saved
    /\ UNCHANGED <<table, current, req, attempt, expired, answer, world>>

(* After Apply or VerifyHealth failed: recoverAndFail when there is a      *)
(* backup and the recovery mode allows it, fail otherwise.                 *)
RecoverOrFail(p, code) ==
    /\ Goto(p, IF "backup" \in result[p].evidence /\ req[p].recovery = "runtime-only"
               THEN "recover" ELSE "fail")
    /\ SetCode(p, code)

(* ComposeRuntime.Apply, first half: write the durable override and run    *)
(* the migration service if the request has one.                           *)
ApplyMigration(p) ==
    /\ pc[p] = "migrate"
    /\ \/ ~expired[p] /\ Goto(p, "up") /\ UNCHANGED result
       \/ RecoverOrFail(p, "APPLY_FAILED")
    /\ UNCHANGED <<table, current, frame, answer, world>>

SetDeployed(t, v) == deployed' = [deployed EXCEPT ![t] = v]

(* ComposeRuntime.Apply, second half: docker compose up.  When it fails,   *)
(* or is killed by the deadline, any part of the change may have happened. *)
ApplyUp(p) ==
    LET t == req[p].target IN
    /\ pc[p] = "up"
    /\ rollouts' = [rollouts EXCEPT ![req[p].key] = @ + 1]
    /\ \/ /\ ~expired[p]
          /\ SetDeployed(t, req[p].release)
          /\ attempt' = [attempt EXCEPT ![p] = 1]
          /\ Goto(p, "health") /\ UNCHANGED result
       \/ /\ \E v \in {deployed[t], Mixed, req[p].release} : SetDeployed(t, v)
          /\ RecoverOrFail(p, "APPLY_FAILED")
          /\ UNCHANGED attempt
    /\ UNCHANGED <<table, current, req, saved, expired, answer>>

HealthCountRestarts(p) ==
    /\ pc[p] = "health"
    /\ \/ Goto(p, "succeed") /\ UNCHANGED attempt
       \/ /\ attempt' = [attempt EXCEPT ![p] =
                             IF @ < MaxAttempts THEN @ + 1 ELSE 1]
          /\ UNCHANGED pc
    /\ UNCHANGED <<table, current, req, saved, expired, result, answer, world>>
(* ComposeRuntime.VerifyHealth: one attempt, all URLs; a failed attempt is *)
(* retried until MaxAttempts or until the stage's own timeout or the       *)
(* deadline ends it.                                                       *)
HealthAttempt(p) ==
    /\ pc[p] = "health"
    /\ \/ ~expired[p] /\ Goto(p, "succeed") /\ UNCHANGED <<result, attempt>>
       \/ /\ attempt[p] < MaxAttempts /\ ~expired[p]
          /\ attempt' = [attempt EXCEPT ![p] = @ + 1]
          /\ UNCHANGED <<pc, result>>
       \/ RecoverOrFail(p, "HEALTH_FAILED") /\ UNCHANGED attempt
    /\ UNCHANGED <<table, current, req, saved, expired, answer, world>>

RestoreUnverified(p) ==
    /\ pc[p] = "recover"
    /\ \E v \in {deployed[req[p].target], Mixed, saved[p]} :
          SetDeployed(req[p].target, v)
    /\ result' = [result EXCEPT ![p] = Result(@.code, Evidence)]
    /\ Goto(p, "fail")
    /\ UNCHANGED <<table, current, frame, answer, rollouts>>
(* recoverAndFail: the provider restores the runtime of the backup and     *)
(* proves its health, or the code is raised to ROLLBACK_FAILED.            *)
RestoreBackup(p) ==
    LET t == req[p].target IN
    /\ pc[p] = "recover"
    /\ \/ /\ Restore(p)
          /\ SetDeployed(t, saved[p])
          /\ result' = [result EXCEPT ![p] =
                           Result(result[p].code, Evidence)]
       \/ /\ \E v \in {deployed[t], Mixed, saved[p]} : SetDeployed(t, v)
          /\ result' = [result EXCEPT ![p] =
                           Result("ROLLBACK_FAILED", Evidence)]
    /\ Goto(p, "fail")
    /\ UNCHANGED <<table, current, frame, answer, rollouts>>

(* The compare-and-set of both completions: UPDATE ... WHERE key AND       *)
(* job id AND status = 'running' must update exactly one row.              *)
OwnsRow(p) ==
    status[req[p].key] = "running" /\ owner[req[p].key].job = req[p].job

Persist(p, final) ==
    /\ OwnsRow(p) /\ ~expired[p]
    /\ status' = [status EXCEPT ![req[p].key] = final]
    /\ stored' = [stored EXCEPT ![req[p].key] = result[p]]
    /\ UNCHANGED owner
    /\ Return(p, Answer("result", req[p].key, result[p]))

(* The completion did not reach the database: Execute returns an empty     *)
(* Result and the row stays running.                                       *)
Unrecorded(p, kind) ==
    /\ "store" \in Faults \/ expired[p] \/ ~OwnsRow(p)
    /\ Return(p, Error(kind))
    /\ UNCHANGED <<table, current>>

AdvanceNothing(p) == UNCHANGED current
AdvanceCurrent(p) ==
    current' = [current EXCEPT ![req[p].target] = req[p].release]

(* DB.CompleteSuccess: the row and the target's current release advance in *)
(* one transaction.                                                        *)
CompleteSuccess(p) ==
    /\ pc[p] = "succeed"
    /\ \/ Persist(p, "succeeded") /\ AdvanceCurrent(p)
       \/ Unrecorded(p, "success lost")
    /\ UNCHANGED world

CompleteFailureUnstored(p) ==
    /\ pc[p] = "fail"
    /\ status' = [status EXCEPT ![req[p].key] = "failed"]
    /\ Return(p, Answer("result", req[p].key, result[p]))
    /\ UNCHANGED <<owner, stored, current, world>>
(* Executor.fail and DB.CompleteFailure. *)
CompleteFailure(p) ==
    /\ pc[p] = "fail"
    /\ \/ Persist(p, "failed") /\ UNCHANGED current
       \/ Unrecorded(p, "failure lost")
    /\ UNCHANGED world

(* `release receive` bounds the whole job with a deadline; it refuses      *)
(* production, and `release apply` has no deadline.                        *)
Expire(p) ==
    /\ "expire" \in Faults
    /\ pc[p] # "idle" /\ req[p].env = "staging" /\ ~expired[p]
    /\ expired' = [expired EXCEPT ![p] = TRUE]
    /\ UNCHANGED <<table, current, pc, req, result, saved, attempt, answer,
                   world>>

(* What a compose or provider command in flight may leave behind. *)
LeftBehind(p) ==
    {deployed[req[p].target]}
        \cup (IF pc[p] = "up" THEN {Mixed, req[p].release} ELSE {})
        \cup (IF pc[p] = "recover" THEN {Mixed, saved[p]} ELSE {})

(* The process is killed.  The database keeps its rows. *)
Crash(p) ==
    /\ "crash" \in Faults
    /\ pc[p] # "idle"
    /\ \E v \in LeftBehind(p) : SetDeployed(req[p].target, v)
    /\ Return(p, Error("none"))
    /\ UNCHANGED <<table, current, rollouts>>

-----------------------------------------------------------------------------
Reserve(p, r) ==
    Refuse(p, r) \/ ReserveKnownKey(p, r) \/ ReserveRefused(p, r)
        \/ ReserveAcquired(p, r)

(* One step of a process that owns a job. *)
Work(p) ==
    \/ CompareCurrent(p)  \/ Preflight(p) \/ CreateAndVerifyBackup(p)
    \/ ApplyMigration(p)  \/ ApplyUp(p)   \/ HealthAttempt(p)
    \/ RestoreBackup(p)   \/ CompleteSuccess(p) \/ CompleteFailure(p)

Next ==
    \E p \in Execs :
        \/ \E r \in Requests : Reserve(p, r)
        \/ Work(p)
        \/ Expire(p)
        \/ Crash(p)

Spec == Init /\ [][Next]_vars

(* A live process keeps working: every step of Execute is a bounded call.  *)
FairSpec == Spec /\ \A p \in Execs : WF_vars(Work(p))

-----------------------------------------------------------------------------
(* Every variable keeps its type, and exactly the idle have no request. *)
TypeOK ==
    /\ status \in [Keys -> Statuses]
    /\ owner \in [Keys -> Requests \cup {NoRequest}]
    /\ stored \in [Keys -> Results]
    /\ current \in [Targets -> Releases \cup {NoRelease}]
    /\ pc \in [Execs -> Steps]
    /\ req \in [Execs -> Requests \cup {NoRequest}]
    /\ result \in [Execs -> Results]
    /\ saved \in [Execs -> Runtimes]
    /\ attempt \in [Execs -> 0 .. MaxAttempts]
    /\ expired \in [Execs -> BOOLEAN]
    /\ answer \in [Execs -> Answers]
    /\ deployed \in [Targets -> Runtimes]
    /\ rollouts \in [Keys -> Nat]
    /\ \A p \in Execs : pc[p] = "idle" <=> req[p] = NoRequest

Active(p) == pc[p] # "idle"
PastCompare == Steps \ {"idle", "compare", "fail"}

(* "Only one release job may run on a target at a time": no two live       *)
(* processes are inside Execute for the same target.                       *)
OneJobPerTarget ==
    \A p, q \in Execs :
        p # q /\ Active(p) /\ Active(q) => req[p].target # req[q].target

(* The base Execute compared before its first runtime action is still the  *)
(* recorded release at every later step of the same job, whatever other    *)
(* processes do in between: the check does not go stale before it is used. *)
BaseStaysCurrent ==
    \A p \in Execs : pc[p] \in PastCompare =>
        current[req[p].target] = req[p].expected

(* Containers are changed at most once for one idempotency key, however    *)
(* often, and by however many processes, it is submitted again.            *)
RolloutOncePerKey == \A k \in Keys : rollouts[k] <= 1

(* Whatever result a caller was ever given for a key, first execution or   *)
(* replay, is the result the database holds for the key from then on.      *)
AnswersStayTrue ==
    /\ TypeOK
    /\ \A p \in Execs : answer[p].kind = "result" =>
          /\ status[answer[p].key] \in {"succeeded", "failed"}
          /\ stored[answer[p].key] = answer[p].result

(* A production target with no open job, none of whose jobs ended in       *)
(* ROLLBACK_FAILED, runs exactly the release that is recorded as current:  *)
(* failed rollouts were undone, successful ones were recorded.             *)
ProductionRunsRecordedRelease ==
    \A t \in Targets :
        /\ Policy[t] = "production"
        /\ ~TargetBusy(t)
        /\ \A k \in Keys : owner[k] # NoRequest /\ owner[k].target = t
                             => stored[k].code # "ROLLBACK_FAILED"
        => deployed[t] = current[t]

(* A stored terminal result never changes again. *)
TerminalRowsAreFinal ==
    [][\A k \in Keys : status[k] \in {"succeeded", "failed"}
                           => status'[k] = status[k] /\ owner'[k] = owner[k]
                                /\ stored'[k] = stored[k]]_vars

(* The whole executor implements the compare-and-swap ledger. *)
Ledger == INSTANCE ReleaseLedger WITH ledger <- status
ImplementsLedger == Ledger!LedgerSpec

(* Every job that a process has begun ends, whatever the runtime answers,  *)
(* how often health is tried and whoever competes for the target: it       *)
(* returns a result that its row holds (and the target is free), returns   *)
(* that it could not record one, or was killed.                            *)
JobsTerminate ==
    \A p \in Execs :
        pc[p] # "idle" ~>
            /\ pc[p] = "idle"
            /\ \/ answer[p].kind \in {"none", "success lost", "failure lost"}
               \/ answer[p].kind = "result" /\ status[answer[p].key] \in {"succeeded", "failed"}

=============================================================================
