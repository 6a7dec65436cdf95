-------------------------- MODULE ReleaseJobProofs --------------------------
(***************************************************************************)
(* Proofs about ReleaseJob for any number of processes, keys, targets and  *)
(* requests, and any subset of the faults.                                 *)
(*                                                                         *)
(* OneJobPerTarget and BaseStaysCurrent are not inductive: they hold       *)
(* because a live process always owns the running row of its key, and at   *)
(* most one row per target is running.  OwnershipInv says so.              *)
(***************************************************************************)
EXTENDS ReleaseJob, TLAPS

(* A row is bound to a request exactly when it exists, and to its own key. *)
RowsBound ==
    \A k \in Keys :
        /\ status[k] = "none" <=> owner[k] = NoRequest
        /\ owner[k] # NoRequest => owner[k].key = k

(* A live process owns the running row of its request. *)
ActiveOwnsRow ==
    \A p \in Execs : Active(p) =>
        status[req[p].key] = "running" /\ owner[req[p].key] = req[p]

(* At most one running row per target, and one live process per row. *)
OneRowPerTarget ==
    \A j, k \in Keys :
        /\ status[j] = "running" /\ status[k] = "running"
        /\ owner[j].target = owner[k].target
        => j = k
OneProcessPerKey ==
    \A p, q \in Execs :
        p # q /\ Active(p) /\ Active(q) => req[p].key # req[q].key

OwnershipInv ==
    /\ TypeOK
    /\ RowsBound
    /\ ActiveOwnsRow
    /\ OneRowPerTarget
    /\ OneProcessPerKey
    /\ BaseStaysCurrent

-----------------------------------------------------------------------------
(* Members of the constant sets that the actions store. *)
LEMMA ResultTypes ==
    /\ NoResult \in Results
    /\ \A c \in Codes, e \in SUBSET Evidence : Result(c, e) \in Results
    /\ \A x \in Results : x.code \in Codes /\ x.evidence \in SUBSET Evidence
  BY DEF NoResult, Results, Result, Codes

LEMMA AnswerTypes ==
    /\ \A kind \in AnswerKinds : Error(kind) \in Answers
    /\ \A kind \in AnswerKinds, k \in Keys, x \in Results :
          Answer(kind, k, x) \in Answers
  BY ResultTypes DEF Answers, Answer, Error

LEMMA RequestTypes ==
    \A r \in Requests :
        /\ r.key \in Keys /\ r.target \in Targets /\ r.release \in Releases
        /\ r.expected \in Releases \cup {NoRelease}
        /\ r # NoRequest
  BY RequestsAssumption, SentinelAssumption DEF RequestType

(* A return clears the locals of one process and types its answer. *)
LEMMA ReturnTypes ==
    ASSUME TypeOK, NEW p \in Execs, NEW a \in Answers, Return(p, a)
    PROVE  /\ pc' \in [Execs -> Steps]
           /\ req' \in [Execs -> Requests \cup {NoRequest}]
           /\ result' \in [Execs -> Results]
           /\ saved' \in [Execs -> Runtimes]
           /\ attempt' \in [Execs -> 0 .. MaxAttempts]
           /\ expired' \in [Execs -> BOOLEAN]
           /\ answer' \in [Execs -> Answers]
           /\ \A q \in Execs : pc'[q] = "idle" <=> req'[q] = NoRequest
  BY ResultTypes, AttemptsAssumption DEF TypeOK, Return, Steps, Runtimes

(* A live process moves to another step of its job. *)
LEMMA GotoTypes ==
    ASSUME TypeOK, NEW p \in Execs, pc[p] # "idle",
           NEW step \in Steps \ {"idle"}, Goto(p, step), req' = req
    PROVE  /\ pc' \in [Execs -> Steps]
           /\ \A q \in Execs : pc'[q] = "idle" <=> req'[q] = NoRequest
  BY DEF TypeOK, Goto

LEMMA SetCodeTypes ==
    ASSUME TypeOK, NEW p \in Execs, NEW code \in Codes, SetCode(p, code)
    PROVE  result' \in [Execs -> Results]
  <1>1. Result(code, result[p].evidence) \in Results
    BY ResultTypes DEF TypeOK
  <1> QED BY <1>1 DEF TypeOK, SetCode

LEMMA RecoverOrFailTypes ==
    ASSUME NEW p \in Execs, NEW code \in Codes, RecoverOrFail(p, code)
    PROVE  /\ SetCode(p, code)
           /\ \E step \in Steps \ {"idle"} : Goto(p, step)
  BY DEF RecoverOrFail, Steps

LEMMA PersistTypes ==
    ASSUME TypeOK, NEW p \in Execs, req[p] \in Requests,
           NEW final \in Statuses, Persist(p, final)
    PROVE  /\ status' \in [Keys -> Statuses]
           /\ stored' \in [Keys -> Results]
           /\ owner' = owner
  BY RequestTypes DEF TypeOK, Persist

LEMMA TypeStep == TypeOK /\ [Next]_vars => TypeOK'
<1> SUFFICES ASSUME TypeOK, [Next]_vars PROVE TypeOK'
  OBVIOUS
<1> USE DEF TypeOK, table, frame, world
<1>1. ASSUME NEW p \in Execs, NEW r \in Requests, Reserve(p, r)
      PROVE  TypeOK'
  <2>1. CASE Refuse(p, r)
    <3>1. Error("error") \in Answers  BY AnswerTypes DEF AnswerKinds
    <3> QED BY <2>1, <3>1, ReturnTypes DEF Refuse
  <2>2. CASE ReserveKnownKey(p, r)
    <3>1. PICK a \in Answers : Return(p, a)
      BY <2>2, AnswerTypes, RequestTypes DEF ReserveKnownKey, AnswerKinds
    <3> QED BY <2>2, <3>1, ReturnTypes DEF ReserveKnownKey
  <2>3. CASE ReserveRefused(p, r)
    <3>1. PICK a \in Answers : Return(p, a)
      BY <2>3, AnswerTypes DEF ReserveRefused, AnswerKinds
    <3> QED BY <2>3, <3>1, ReturnTypes DEF ReserveRefused
  <2>4. CASE ReserveAcquired(p, r)
    <3>1. Error("none") \in Answers  BY AnswerTypes DEF AnswerKinds
    <3> QED
      BY <2>4, <3>1, RequestTypes, ResultTypes
         DEF ReserveAcquired, Begin, Statuses, Steps
  <2> QED BY <1>1, <2>1, <2>2, <2>3, <2>4 DEF Reserve
<1>2. ASSUME NEW p \in Execs, Work(p) PROVE TypeOK'
  <2> USE GotoTypes, SetCodeTypes, RecoverOrFailTypes DEF FailWith
  <2>1. CASE CompareCurrent(p)
    BY <2>1 DEF CompareCurrent, Codes, Steps
  <2>2. CASE Preflight(p)
    BY <2>2 DEF Preflight, Codes, Steps
  <2>3. CASE CreateAndVerifyBackup(p)
    <3>1. req[p] \in Requests BY <2>3 DEF CreateAndVerifyBackup
    <3>2. /\ Result("none", {"backup"}) \in Results
          /\ Result("BACKUP_NOT_VERIFIED", {"backup"}) \in Results
      BY ResultTypes DEF Codes, Evidence
    <3> QED
      BY <2>3, <3>1, <3>2, RequestTypes DEF CreateAndVerifyBackup, Steps
  <2>4. CASE ApplyMigration(p) BY <2>4 DEF ApplyMigration, Codes, Steps
  <2>5. CASE ApplyUp(p)
    <3>1. req[p] \in Requests /\ pc[p] # "idle" BY <2>5 DEF ApplyUp
    <3>2. deployed' \in [Targets -> Runtimes]
      BY <2>5, <3>1, RequestTypes DEF ApplyUp, SetDeployed, Runtimes
    <3>3. rollouts' \in [Keys -> Nat] /\ attempt' \in [Execs -> 0 .. MaxAttempts]
      BY <2>5, <3>1, RequestTypes, AttemptsAssumption DEF ApplyUp
    <3>4. result' \in [Execs -> Results]
      BY <2>5 DEF ApplyUp, Codes
    <3>5. \E step \in Steps \ {"idle"} : Goto(p, step)
      BY <2>5 DEF ApplyUp, Codes, Steps
    <3> QED BY <2>5, <3>1, <3>2, <3>3, <3>4, <3>5 DEF ApplyUp
  <2>6. CASE HealthAttempt(p)
    <3>1. attempt' \in [Execs -> 0 .. MaxAttempts]
      BY <2>6, AttemptsAssumption DEF HealthAttempt
    <3>2. result' \in [Execs -> Results]
      BY <2>6 DEF HealthAttempt, Codes
    <3> QED BY <2>6, <3>1, <3>2 DEF HealthAttempt, Codes, Steps
  <2>7. CASE RestoreBackup(p)
    <3>1. /\ Result(result[p].code, Evidence) \in Results
          /\ Result("ROLLBACK_FAILED", Evidence) \in Results
      BY ResultTypes DEF Codes
    <3>2. deployed' \in [Targets -> Runtimes]
      BY <2>7 DEF RestoreBackup, SetDeployed, Runtimes
    <3> QED BY <2>7, <3>1, <3>2 DEF RestoreBackup, Steps
  <2>8. CASE CompleteSuccess(p)
    <3>1. req[p] \in Requests BY <2>8 DEF CompleteSuccess
    <3>2. PICK a \in Answers : Return(p, a)
      BY <2>8, <3>1, AnswerTypes, RequestTypes
         DEF CompleteSuccess, Persist, Unrecorded, AnswerKinds
    <3>3. /\ status' \in [Keys -> Statuses] /\ stored' \in [Keys -> Results]
          /\ owner' = owner
          /\ current' \in [Targets -> Releases \cup {NoRelease}]
      BY <2>8, <3>1, RequestTypes, PersistTypes
         DEF CompleteSuccess, Unrecorded, AdvanceCurrent, Statuses
    <3> QED
      BY <2>8, <3>2, <3>3, ReturnTypes DEF CompleteSuccess
  <2>9. CASE CompleteFailure(p)
    <3>1. req[p] \in Requests BY <2>9 DEF CompleteFailure
    <3>2. PICK a \in Answers : Return(p, a)
      BY <2>9, <3>1, AnswerTypes, RequestTypes
         DEF CompleteFailure, Persist, Unrecorded, AnswerKinds
    <3>3. /\ status' \in [Keys -> Statuses] /\ stored' \in [Keys -> Results]
          /\ owner' = owner /\ current' = current
      BY <2>9, <3>1, PersistTypes DEF CompleteFailure, Unrecorded, Statuses
    <3> QED
      BY <2>9, <3>2, <3>3, ReturnTypes DEF CompleteFailure
  <2> QED
    BY <1>2, <2>1, <2>2, <2>3, <2>4, <2>5, <2>6, <2>7, <2>8, <2>9 DEF Work
<1>3. ASSUME NEW p \in Execs, Expire(p) PROVE TypeOK'
  BY <1>3 DEF Expire
<1>4. ASSUME NEW p \in Execs, Crash(p) PROVE TypeOK'
  <2>1. req[p] \in Requests BY <1>4 DEF Crash
  <2>2. Error("none") \in Answers BY AnswerTypes DEF AnswerKinds
  <2>3. deployed' \in [Targets -> Runtimes]
    BY <1>4, <2>1, RequestTypes DEF Crash, LeftBehind, SetDeployed, Runtimes
  <2> QED BY <1>4, <2>2, <2>3, ReturnTypes DEF Crash
<1>5. CASE UNCHANGED vars
  BY <1>5 DEF vars
<1> QED
  BY <1>1, <1>2, <1>3, <1>4, <1>5 DEF Next

LEMMA TypeInit == Init => TypeOK
<1> SUFFICES ASSUME Init PROVE TypeOK
  OBVIOUS
<1> USE DEF Init
<1>1. Error("none") \in Answers  BY AnswerTypes DEF AnswerKinds
<1>2. /\ status \in [Keys -> Statuses]
      /\ owner \in [Keys -> Requests \cup {NoRequest}]
      /\ stored \in [Keys -> Results]
  BY ResultTypes DEF Statuses
<1>3. /\ pc \in [Execs -> Steps]
      /\ req \in [Execs -> Requests \cup {NoRequest}]
      /\ result \in [Execs -> Results]
      /\ saved \in [Execs -> Runtimes]
      /\ attempt \in [Execs -> 0 .. MaxAttempts]
      /\ answer \in [Execs -> Answers]
  BY <1>1, ResultTypes, AttemptsAssumption DEF Steps, Runtimes
<1> QED BY <1>2, <1>3 DEF TypeOK, Runtimes

(* The tables, the locals of every process and the runtime stay within     *)
(* their types, and a process without a request is idle.                   *)
THEOREM TypeCorrect == Spec => []TypeOK
  BY TypeInit, TypeStep, PTL DEF Spec

-----------------------------------------------------------------------------
(* A process that returns and leaves the tables alone only gives up rights. *)
LEMMA ReturnKeepsOwnership ==
    ASSUME OwnershipInv, TypeOK', NEW p \in Execs, NEW a, Return(p, a),
           UNCHANGED <<table, current>>
    PROVE  OwnershipInv'
  BY DEF OwnershipInv, TypeOK, RowsBound, ActiveOwnsRow, OneRowPerTarget,
         OneProcessPerKey, BaseStaysCurrent, PastCompare, Active, Return, table

(* A live process that goes on needs its base to be current from the       *)
(* comparison on.                                                          *)
LEMMA GotoKeepsOwnership ==
    ASSUME OwnershipInv, TypeOK', NEW p \in Execs, Active(p),
           NEW step \in Steps \ {"idle"}, Goto(p, step),
           UNCHANGED <<table, current, req>>,
           step \in PastCompare => SameBase(p)
    PROVE  OwnershipInv'
  BY DEF OwnershipInv, TypeOK, RowsBound, ActiveOwnsRow, OneRowPerTarget,
         OneProcessPerKey, BaseStaysCurrent, PastCompare, Active, Goto, table,
         SameBase

(* A completed job closes its row; no other live process has this target,  *)
(* so the new current release invalidates nobody's base.                   *)
LEMMA PersistKeepsOwnership ==
    ASSUME OwnershipInv, TypeOK', NEW p \in Execs, Active(p),
           NEW final \in {"succeeded", "failed"}, Persist(p, final),
           AdvanceCurrent(p) \/ UNCHANGED current
    PROVE  OwnershipInv'
<1> USE DEF OwnershipInv, TypeOK, Persist, Return, Active
<1>1. req[p] \in Requests /\ req[p].key \in Keys /\ req[p].target \in Targets
  BY RequestTypes
<1>2. \A q \in Execs : pc'[q] # "idle" =>
          /\ q # p /\ pc'[q] = pc[q] /\ req'[q] = req[q]
          /\ req[q] \in Requests /\ req[q].key # req[p].key
  BY <1>1 DEF OneProcessPerKey
<1>3. RowsBound'
  BY <1>1 DEF RowsBound, ActiveOwnsRow
<1>4. ActiveOwnsRow'
  BY <1>2, RequestTypes DEF ActiveOwnsRow
<1>5. OneRowPerTarget'
  BY DEF OneRowPerTarget
<1>6. OneProcessPerKey'
  BY <1>2 DEF OneProcessPerKey
<1>7. \A q \in Execs : pc'[q] # "idle" => req[q].target # req[p].target
  BY <1>1, <1>2, RequestTypes DEF ActiveOwnsRow, OneRowPerTarget
<1>8. BaseStaysCurrent'
  <2>1. \A q \in Execs : pc'[q] # "idle" =>
            current'[req[q].target] = current[req[q].target]
    BY <1>2, <1>7, RequestTypes DEF AdvanceCurrent
  <2> QED BY <1>2, <2>1 DEF BaseStaysCurrent, PastCompare
<1> QED BY <1>3, <1>4, <1>5, <1>6, <1>8

(* A reservation takes a free key and a target without a running row. *)
LEMMA BeginKeepsOwnership ==
    ASSUME OwnershipInv, TypeOK', NEW p \in Execs, NEW r \in Requests,
           pc[p] = "idle", status[r.key] = "none", ~TargetBusy(r.target),
           Begin(p, r)
    PROVE  OwnershipInv'
<1> USE RequestTypes DEF OwnershipInv, TypeOK, Begin, Active
<1>1. RowsBound'
  BY DEF RowsBound
<1>2. \A q \in Execs : q # p => pc'[q] = pc[q] /\ req'[q] = req[q]
  OBVIOUS
<1>3. \A q \in Execs : q # p /\ pc[q] # "idle" =>
          req[q] \in Requests /\ req[q].key # r.key
  BY DEF ActiveOwnsRow
<1>4. ActiveOwnsRow'
  BY <1>2, <1>3 DEF ActiveOwnsRow
<1>5. OneRowPerTarget'
  BY DEF OneRowPerTarget, TargetBusy
<1>6. OneProcessPerKey'
  BY <1>2, <1>3 DEF OneProcessPerKey
<1>7. BaseStaysCurrent'
  BY <1>2 DEF BaseStaysCurrent, PastCompare
<1> QED BY <1>1, <1>4, <1>5, <1>6, <1>7

LEMMA OwnershipInit == Init => OwnershipInv
  BY TypeInit DEF Init, OwnershipInv, RowsBound, ActiveOwnsRow,
     OneRowPerTarget, OneProcessPerKey, BaseStaysCurrent, PastCompare, Active

LEMMA OwnershipStep == OwnershipInv /\ [Next]_vars => OwnershipInv'
<1> SUFFICES ASSUME OwnershipInv, [Next]_vars PROVE OwnershipInv'
  OBVIOUS
<1>0. TypeOK'
  BY TypeStep DEF OwnershipInv
<1>1. ASSUME NEW p \in Execs, NEW r \in Requests, Reserve(p, r)
      PROVE  OwnershipInv'
  <2>1. CASE Refuse(p, r)
    BY <1>0, <2>1, ReturnKeepsOwnership DEF Refuse
  <2>2. CASE ReserveKnownKey(p, r)
    <3>1. PICK a : Return(p, a) BY <2>2 DEF ReserveKnownKey
    <3> QED BY <1>0, <2>2, <3>1, ReturnKeepsOwnership DEF ReserveKnownKey
  <2>3. CASE ReserveRefused(p, r)
    <3>1. PICK a : Return(p, a) BY <2>3 DEF ReserveRefused
    <3> QED BY <1>0, <2>3, <3>1, ReturnKeepsOwnership DEF ReserveRefused
  <2>4. CASE ReserveAcquired(p, r)
    BY <1>0, <2>4, BeginKeepsOwnership DEF ReserveAcquired
  <2> QED BY <1>1, <2>1, <2>2, <2>3, <2>4 DEF Reserve
<1>2. ASSUME NEW p \in Execs, Work(p) PROVE OwnershipInv'
  <2>1. CASE CompareCurrent(p)
    BY <1>0, <2>1, GotoKeepsOwnership
       DEF CompareCurrent, FailWith, frame, Active, Steps, PastCompare
  <2>2. ASSUME pc[p] \in PastCompare, UNCHANGED <<table, current, req>>,
               NEW step \in Steps \ {"idle"}, Goto(p, step)
        PROVE  OwnershipInv'
    <3>1. SameBase(p) /\ Active(p)
      BY <2>2 DEF OwnershipInv, BaseStaysCurrent, SameBase, PastCompare, Active
    <3> QED BY <1>0, <2>2, <3>1, GotoKeepsOwnership
  <2>3. CASE Preflight(p)
    BY <2>2, <2>3 DEF Preflight, FailWith, frame, Steps, PastCompare
  <2>4. CASE CreateAndVerifyBackup(p)
    BY <2>2, <2>4 DEF CreateAndVerifyBackup, Steps, PastCompare
  <2>5. CASE ApplyMigration(p)
    BY <2>2, <2>5, RecoverOrFailTypes
       DEF ApplyMigration, frame, Steps, PastCompare, Codes
  <2>6. CASE ApplyUp(p)
    BY <2>2, <2>6, RecoverOrFailTypes DEF ApplyUp, Steps, PastCompare, Codes
  <2>7. CASE HealthAttempt(p)
    <3>1. \E step \in Steps \ {"idle"} : Goto(p, step)
      BY <2>7, RecoverOrFailTypes
         DEF HealthAttempt, Goto, Steps, Codes, OwnershipInv, TypeOK
    <3> QED BY <2>2, <2>7, <3>1 DEF HealthAttempt, Steps, PastCompare
  <2>8. CASE RestoreBackup(p)
    BY <2>2, <2>8 DEF RestoreBackup, frame, Steps, PastCompare
  <2>9. CASE CompleteSuccess(p)
    BY <1>0, <2>9, PersistKeepsOwnership, ReturnKeepsOwnership
       DEF CompleteSuccess, Unrecorded, Active
  <2>10. CASE CompleteFailure(p)
    BY <1>0, <2>10, PersistKeepsOwnership, ReturnKeepsOwnership
       DEF CompleteFailure, Unrecorded, Active
  <2> QED
    BY <1>2, <2>1, <2>3, <2>4, <2>5, <2>6, <2>7, <2>8, <2>9, <2>10 DEF Work
<1>3. ASSUME NEW p \in Execs, Expire(p) PROVE OwnershipInv'
  BY <1>0, <1>3
     DEF Expire, table, OwnershipInv, RowsBound, ActiveOwnsRow,
         OneRowPerTarget, OneProcessPerKey, BaseStaysCurrent, Active
<1>4. ASSUME NEW p \in Execs, Crash(p) PROVE OwnershipInv'
  BY <1>0, <1>4, ReturnKeepsOwnership DEF Crash
<1>5. CASE UNCHANGED vars
  BY <1>0, <1>5
     DEF vars, table, frame, OwnershipInv, RowsBound, ActiveOwnsRow,
         OneRowPerTarget, OneProcessPerKey, BaseStaysCurrent, Active
<1> QED
  BY <1>1, <1>2, <1>3, <1>4, <1>5 DEF Next

LEMMA Ownership == Spec => []OwnershipInv
  BY OwnershipInit, OwnershipStep, PTL DEF Spec

(* However many processes submit jobs, crash and are submitted again, at   *)
(* most one live Execute works on a target.                                *)
THEOREM TargetsAreExclusive == Spec => []OneJobPerTarget
<1>1. OwnershipInv => OneJobPerTarget
  <2> SUFFICES ASSUME OwnershipInv, NEW p \in Execs, NEW q \in Execs,
                      p # q, Active(p), Active(q)
               PROVE  req[p].target # req[q].target
    BY DEF OneJobPerTarget
  <2>1. req[p] \in Requests /\ req[q] \in Requests
    BY DEF OwnershipInv, TypeOK, Active
  <2> QED
    BY <2>1, RequestTypes
       DEF OwnershipInv, ActiveOwnsRow, OneRowPerTarget, OneProcessPerKey
<1> QED
  BY <1>1, Ownership, PTL

(* The release compared before the first runtime action is still current   *)
(* at every later step of the job.                                         *)
THEOREM ComparedBaseStaysCurrent == Spec => []BaseStaysCurrent
<1>1. OwnershipInv => BaseStaysCurrent
  BY DEF OwnershipInv
<1> QED
  BY <1>1, Ownership, PTL

-----------------------------------------------------------------------------
(* What a step may do to the two tables: nothing, or one of the ledger's   *)
(* three steps.                                                            *)
LEMMA TableSteps ==
    ASSUME OwnershipInv, [Next]_vars
    PROVE  \/ UNCHANGED <<status, owner, current>> /\ UNCHANGED stored
           \/ \E r \in Requests : Ledger!Open(r)
                /\ stored' = [stored EXCEPT ![r.key] = NoResult]
           \/ \E p \in Execs :
                /\ Active(p)
                /\ Ledger!Commit(req[p].key) \/ Ledger!Abort(req[p].key)
                /\ stored' = [stored EXCEPT ![req[p].key] = result[p]]
<1>1. ASSUME NEW p \in Execs, NEW r \in Requests, ReserveAcquired(p, r)
      PROVE  Ledger!Open(r) /\ stored' = [stored EXCEPT ![r.key] = NoResult]
  BY <1>1 DEF ReserveAcquired, Begin, Ledger!Open, TargetBusy
<1>2. ASSUME NEW p \in Execs, CompleteSuccess(p), ~UNCHANGED <<table, current>>
      PROVE  /\ Active(p) /\ Ledger!Commit(req[p].key)
             /\ stored' = [stored EXCEPT ![req[p].key] = result[p]]
  <2>1. Active(p) /\ current[req[p].target] = req[p].expected
    BY <1>2 DEF CompleteSuccess, Active, OwnershipInv, BaseStaysCurrent,
                PastCompare, Steps
  <2>2. status[req[p].key] = "running" /\ owner[req[p].key] = req[p]
    BY <2>1 DEF OwnershipInv, ActiveOwnsRow
  <2> QED
    BY <1>2, <2>1, <2>2
       DEF CompleteSuccess, Unrecorded, Persist, AdvanceCurrent, Ledger!Commit
<1>3. ASSUME NEW p \in Execs, CompleteFailure(p), ~UNCHANGED <<table, current>>
      PROVE  /\ Active(p) /\ Ledger!Abort(req[p].key)
             /\ stored' = [stored EXCEPT ![req[p].key] = result[p]]
  BY <1>3 DEF CompleteFailure, Unrecorded, Persist, OwnsRow, Active,
              Ledger!Abort
<1>4. ASSUME NEW p \in Execs, Work(p)
      PROVE  CompleteSuccess(p) \/ CompleteFailure(p) \/ UNCHANGED <<table, current>>
  BY <1>4 DEF Work, CompareCurrent, Preflight, CreateAndVerifyBackup,
              ApplyMigration, ApplyUp, HealthAttempt, RestoreBackup
<1>5. ASSUME NEW p \in Execs, NEW r \in Requests, Reserve(p, r)
      PROVE  ReserveAcquired(p, r) \/ UNCHANGED <<table, current>>
  BY <1>5 DEF Reserve, Refuse, ReserveKnownKey, ReserveRefused
<1>6. ASSUME NEW p \in Execs, Expire(p) \/ Crash(p)
      PROVE  UNCHANGED <<table, current>>
  BY <1>6 DEF Expire, Crash
<1>7. UNCHANGED vars => UNCHANGED <<table, current>>
  BY DEF vars
<1> QED
  BY <1>1, <1>2, <1>3, <1>4, <1>5, <1>6, <1>7 DEF Next, table

(* The executor, with its crashes, lost completions and concurrent         *)
(* callers, implements an atomic compare-and-swap of the current release:  *)
(* the comparison at the start and the update at the end act as one step.  *)
THEOREM ExecutorImplementsLedger == Spec => ImplementsLedger
<1>1. Init => Ledger!LedgerInit
  BY DEF Init, Ledger!LedgerInit
<1>2. OwnershipInv /\ [Next]_vars => [Ledger!LedgerNext]_(Ledger!lvars)
  <2> SUFFICES ASSUME OwnershipInv, [Next]_vars
               PROVE  [Ledger!LedgerNext]_(Ledger!lvars)
    OBVIOUS
  <2>1. \A p \in Execs : Active(p) => req[p].key \in Keys
    BY RequestTypes DEF OwnershipInv, TypeOK, Active
  <2> QED
    BY <2>1, TableSteps DEF Ledger!LedgerNext, Ledger!lvars
<1> QED
  BY <1>1, <1>2, Ownership, PTL DEF Spec, Ledger!LedgerSpec, ImplementsLedger

(* Once a job has a stored terminal result, no process changes its row. *)
THEOREM TerminalRowsStayFinal == Spec => TerminalRowsAreFinal
<1>1. OwnershipInv /\ [Next]_vars =>
        [\A k \in Keys : status[k] \in {"succeeded", "failed"}
            => status'[k] = status[k] /\ owner'[k] = owner[k]
                 /\ stored'[k] = stored[k]]_vars
  <2> SUFFICES ASSUME OwnershipInv, [Next]_vars, NEW k \in Keys,
                      status[k] \in {"succeeded", "failed"}
               PROVE  /\ status'[k] = status[k] /\ owner'[k] = owner[k]
                      /\ stored'[k] = stored[k]
    OBVIOUS
  <2>1. /\ status \in [Keys -> Statuses] /\ stored \in [Keys -> Results]
        /\ owner \in [Keys -> Requests \cup {NoRequest}]
    BY DEF OwnershipInv, TypeOK
  <2> QED
    BY <2>1, TableSteps, RequestTypes DEF Ledger!Open, Ledger!Commit, Ledger!Abort
<1> QED
  BY <1>1, Ownership, PTL DEF Spec, TerminalRowsAreFinal

-----------------------------------------------------------------------------
(***************************************************************************)
(* What the outcome of a release job means: a key changes containers once, *)
(* an answer stays true, and production runs what is recorded.  These      *)
(* proofs rest on the ownership proved above: the steps of one process     *)
(* leave the target and the key of another alone.                          *)
(***************************************************************************)

(* The steps of Execute up to the change of the containers. *)
BeforeUp == {"compare", "preflight", "backup", "migrate", "up"}

(* A key whose job has not come to `compose up` has changed nothing. *)
RolloutInv ==
    /\ \A k \in Keys : status[k] = "none" => rollouts[k] = 0
    /\ \A p \in Execs : pc[p] \in BeforeUp => rollouts[req[p].key] = 0
    /\ RolloutOncePerKey

(* An answer with a result belongs to a row that is closed for good. *)
AnswerInv ==
    \A p \in Execs : answer[p].kind = "result" =>
        /\ answer[p].key \in Keys
        /\ status[answer[p].key] \in {"succeeded", "failed"}
        /\ stored[answer[p].key] = answer[p].result

(* No job on the target ended in a recovery that failed; if so, and while  *)
(* nothing is under way, the recorded release runs.                        *)
Clean(t) ==
    \A k \in Keys : owner[k] # NoRequest /\ owner[k].target = t
                        => stored[k].code # "ROLLBACK_FAILED"
Settled(t) == Clean(t) => deployed[t] = current[t]

(* A job on a production target, from step to step: the containers are     *)
(* untouched until `up`; from the backup on it holds the recorded release; *)
(* what passes the health check is the new one; and a failure that did not *)
(* change or restore everything says ROLLBACK_FAILED.                      *)
Secured == {"migrate", "up", "health", "succeed", "recover"}
ProductionJob(p, t) ==
    /\ pc[p] \in BeforeUp => Settled(t)
    /\ pc[p] \in Secured \cup {"backup"} => req[p].env = "production"
    /\ pc[p] \in Secured =>
          "backup" \in result[p].evidence /\ (Clean(t) => saved[p] = current[t])
    /\ pc[p] \in {"health", "succeed"} => deployed[t] = req[p].release
    /\ pc[p] = "fail" => result[p].code = "ROLLBACK_FAILED" \/ Settled(t)
JobInv(p) ==
    pc[p] # "idle" =>
        /\ Validate(req[p])
        /\ \A t \in Targets :
              t = req[p].target /\ Policy[t] = "production" => ProductionJob(p, t)
RestInv(t) == Policy[t] = "production" /\ ~TargetBusy(t) => Settled(t)

RecoveryInv ==
    /\ \A k \in Keys : status[k] = "running" => stored[k] = NoResult
    /\ \A p \in Execs : JobInv(p)
    /\ \A t \in Targets : RestInv(t)

-----------------------------------------------------------------------------
(* A step that starts no job and changes no containers. *)
LEMMA QuietKeepsRollouts ==
    ASSUME RolloutInv, rollouts' = rollouts,
           \A k \in Keys : status'[k] = "none" => status[k] = "none",
           \A p \in Execs : pc'[p] \in BeforeUp => pc[p] \in BeforeUp /\ req'[p] = req[p]
    PROVE  RolloutInv'
  BY DEF RolloutInv, RolloutOncePerKey

(* A process that returns, for whatever reason, is in front of no step. *)
LEMMA ReturnKeepsRollouts ==
    ASSUME OwnershipInv, RolloutInv, NEW p \in Execs, NEW a, Return(p, a),
           UNCHANGED rollouts,
           \A k \in Keys : status'[k] = "none" => status[k] = "none"
    PROVE  RolloutInv'
  BY QuietKeepsRollouts DEF Return, BeforeUp, OwnershipInv, TypeOK

LEMMA GotoKeepsRollouts ==
    ASSUME OwnershipInv, RolloutInv, NEW p \in Execs, NEW step, Goto(p, step),
           UNCHANGED <<rollouts, status, req>>,
           step \in BeforeUp => pc[p] \in BeforeUp
    PROVE  RolloutInv'
  BY QuietKeepsRollouts DEF Goto, OwnershipInv, TypeOK

LEMMA PersistKeepsRollouts ==
    ASSUME OwnershipInv, RolloutInv, NEW p \in Execs, req[p] \in Requests,
           NEW final \in {"succeeded", "failed"}, Persist(p, final), UNCHANGED rollouts
    PROVE  RolloutInv'
<1>1. \A k \in Keys : status'[k] = "none" => status[k] = "none"
  BY RequestTypes DEF Persist, OwnershipInv, TypeOK
<1> QED
  BY <1>1, ReturnKeepsRollouts DEF Persist

(* The one step that counts: the key had none, and has a row. *)
LEMMA UpKeepsRollouts ==
    ASSUME OwnershipInv, RolloutInv, NEW p \in Execs, ApplyUp(p)
    PROVE  RolloutInv'
<1>1. /\ req[p] \in Requests /\ req[p].key \in Keys /\ pc[p] = "up"
      /\ status[req[p].key] = "running" /\ rollouts[req[p].key] = 0
  BY RequestTypes
     DEF ApplyUp, OwnershipInv, TypeOK, ActiveOwnsRow, Active, RolloutInv, BeforeUp
<1>2. /\ rollouts' = [rollouts EXCEPT ![req[p].key] = 1]
      /\ status' = status /\ req' = req
  BY <1>1 DEF ApplyUp, table
<1>3. pc'[p] \notin BeforeUp /\ \A q \in Execs : q # p => pc'[q] = pc[q]
  BY DEF ApplyUp, Goto, RecoverOrFail, BeforeUp, OwnershipInv, TypeOK
<1>4. \A q \in Execs : q # p /\ pc[q] \in BeforeUp =>
          req[q].key \in Keys /\ req[q].key # req[p].key
  BY <1>1, RequestTypes DEF OwnershipInv, OneProcessPerKey, Active, BeforeUp, TypeOK
<1>5. rollouts \in [Keys -> Nat]
  BY DEF OwnershipInv, TypeOK
<1> QED
  BY <1>1, <1>2, <1>3, <1>4, <1>5 DEF RolloutInv, RolloutOncePerKey

LEMMA RolloutStep == OwnershipInv /\ RolloutInv /\ [Next]_vars => RolloutInv'
<1> SUFFICES ASSUME OwnershipInv, RolloutInv, [Next]_vars PROVE RolloutInv'
  OBVIOUS
<1> USE DEF table, frame, world
<1>1. ASSUME NEW p \in Execs, NEW r \in Requests, Reserve(p, r)
      PROVE  RolloutInv'
  <2>1. CASE Refuse(p, r)
    BY <2>1, ReturnKeepsRollouts DEF Refuse
  <2>2. CASE ReserveKnownKey(p, r)
    BY <2>2, ReturnKeepsRollouts DEF ReserveKnownKey
  <2>3. CASE ReserveRefused(p, r)
    BY <2>3, ReturnKeepsRollouts DEF ReserveRefused
  <2>4. CASE ReserveAcquired(p, r)
    BY <2>4, RequestTypes
       DEF ReserveAcquired, Begin, RolloutInv, RolloutOncePerKey, OwnershipInv, TypeOK
  <2> QED BY <1>1, <2>1, <2>2, <2>3, <2>4 DEF Reserve
<1>2. ASSUME NEW p \in Execs, Work(p) PROVE RolloutInv'
  <2> USE GotoKeepsRollouts DEF BeforeUp
  <2>1. CASE CompareCurrent(p)
    BY <2>1 DEF CompareCurrent, FailWith
  <2>2. CASE Preflight(p)
    BY <2>2 DEF Preflight, FailWith
  <2>3. CASE CreateAndVerifyBackup(p)
    BY <2>3 DEF CreateAndVerifyBackup
  <2>4. CASE ApplyMigration(p)
    BY <2>4 DEF ApplyMigration, RecoverOrFail
  <2>5. CASE ApplyUp(p)
    BY <2>5, UpKeepsRollouts
  <2>6. CASE HealthAttempt(p)
    <3>1. \E step \in {"health", "succeed", "recover", "fail"} : Goto(p, step)
      BY <2>6 DEF HealthAttempt, RecoverOrFail, Goto, OwnershipInv, TypeOK
    <3> QED BY <2>6, <3>1 DEF HealthAttempt
  <2>7. CASE RestoreBackup(p)
    BY <2>7 DEF RestoreBackup
  <2>8. CASE CompleteSuccess(p)
    <3>1. req[p] \in Requests BY <2>8 DEF CompleteSuccess, OwnershipInv, TypeOK
    <3> QED
      BY <2>8, <3>1, PersistKeepsRollouts, ReturnKeepsRollouts
         DEF CompleteSuccess, Unrecorded
  <2>9. CASE CompleteFailure(p)
    <3>1. req[p] \in Requests BY <2>9 DEF CompleteFailure, OwnershipInv, TypeOK
    <3> QED
      BY <2>9, <3>1, PersistKeepsRollouts, ReturnKeepsRollouts
         DEF CompleteFailure, Unrecorded
  <2> QED
    BY <1>2, <2>1, <2>2, <2>3, <2>4, <2>5, <2>6, <2>7, <2>8, <2>9 DEF Work
<1>3. ASSUME NEW p \in Execs, Expire(p) \/ Crash(p) PROVE RolloutInv'
  BY <1>3, QuietKeepsRollouts, ReturnKeepsRollouts DEF Expire, Crash
<1>4. CASE UNCHANGED vars
  BY <1>4, QuietKeepsRollouts DEF vars
<1> QED
  BY <1>1, <1>2, <1>3, <1>4 DEF Next

(* However often a key is submitted, by however many processes, and        *)
(* whichever of them are killed: Execute changes containers for it once.   *)
THEOREM KeysRollOutOnce == Spec => []RolloutOncePerKey
<1>1. Init => RolloutInv
  BY DEF Init, RolloutInv, RolloutOncePerKey, BeforeUp
<1>2. RolloutInv => RolloutOncePerKey
  BY DEF RolloutInv
<1> QED
  BY <1>1, <1>2, RolloutStep, Ownership, PTL DEF Spec

-----------------------------------------------------------------------------
(* A process that leaves the rows alone may answer what they hold. *)
LEMMA ReturnKeepsAnswers ==
    ASSUME OwnershipInv, AnswerInv, NEW p \in Execs, NEW a, Return(p, a),
           UNCHANGED table,
           a.kind = "result" =>
               /\ a.key \in Keys /\ status[a.key] \in {"succeeded", "failed"}
               /\ stored[a.key] = a.result
    PROVE  AnswerInv'
  BY DEF Return, table, AnswerInv, OwnershipInv, TypeOK

LEMMA ErrorsHaveNoResult == \A kind \in AnswerKinds \ {"result"} : Error(kind).kind # "result"
  BY DEF Error, Answer

(* The row that closes was running, so nobody has an answer from it. *)
LEMMA PersistKeepsAnswers ==
    ASSUME OwnershipInv, AnswerInv, NEW p \in Execs, req[p] \in Requests,
           NEW final \in {"succeeded", "failed"}, Persist(p, final)
    PROVE  AnswerInv'
<1> DEFINE key == req[p].key
<1>1. key \in Keys /\ status[key] = "running"
  BY RequestTypes DEF Persist, OwnsRow
<1>2. /\ status' = [status EXCEPT ![key] = final]
      /\ stored' = [stored EXCEPT ![key] = result[p]]
      /\ answer' = [answer EXCEPT ![p] = Answer("result", key, result[p])]
  BY DEF Persist, Return
<1>3. /\ status \in [Keys -> Statuses] /\ stored \in [Keys -> Results]
      /\ answer \in [Execs -> Answers]
  BY DEF OwnershipInv, TypeOK
<1>4. /\ Answer("result", key, result[p]).key = key
      /\ Answer("result", key, result[p]).result = result[p]
  BY DEF Answer
<1>5. \A q \in Execs : answer[q].kind = "result" => answer[q].key # key
  BY <1>1 DEF AnswerInv
<1> HIDE DEF key
<1> QED
  BY <1>1, <1>2, <1>3, <1>4, <1>5 DEF AnswerInv

LEMMA BeginKeepsAnswers ==
    ASSUME OwnershipInv, AnswerInv, NEW p \in Execs, NEW r \in Requests,
           ReserveAcquired(p, r)
    PROVE  AnswerInv'
<1>1. r.key \in Keys /\ status[r.key] = "none"
  BY RequestTypes DEF ReserveAcquired
<1>2. /\ status' = [status EXCEPT ![r.key] = "running"]
      /\ stored' = [stored EXCEPT ![r.key] = NoResult]
      /\ answer' = [answer EXCEPT ![p] = Error("none")]
  BY DEF ReserveAcquired, Begin
<1>3. /\ status \in [Keys -> Statuses] /\ stored \in [Keys -> Results]
      /\ answer \in [Execs -> Answers]
  BY DEF OwnershipInv, TypeOK
<1>4. \A q \in Execs : answer[q].kind = "result" => answer[q].key # r.key
  BY <1>1 DEF AnswerInv
<1>5. Error("none").kind # "result"
  BY ErrorsHaveNoResult DEF AnswerKinds
<1> QED
  BY <1>1, <1>2, <1>3, <1>4, <1>5 DEF AnswerInv

LEMMA AnswerStep == OwnershipInv /\ AnswerInv /\ [Next]_vars => AnswerInv'
<1> SUFFICES ASSUME OwnershipInv, AnswerInv, [Next]_vars PROVE AnswerInv'
  OBVIOUS
<1> USE ErrorsHaveNoResult DEF AnswerKinds
<1>1. ASSUME NEW p \in Execs, NEW r \in Requests, Reserve(p, r)
      PROVE  AnswerInv'
  <2>1. CASE Refuse(p, r)
    BY <2>1, ReturnKeepsAnswers DEF Refuse
  <2>2. CASE ReserveKnownKey(p, r)
    <3>1. r.key \in Keys /\ status[r.key] \in {"running", "succeeded", "failed"}
      BY <2>2, RequestTypes DEF ReserveKnownKey, OwnershipInv, TypeOK, Statuses
    <3>2. /\ Answer("result", r.key, stored[r.key]).key = r.key
          /\ Answer("result", r.key, stored[r.key]).result = stored[r.key]
      BY DEF Answer
    <3> QED BY <2>2, <3>1, <3>2, ReturnKeepsAnswers DEF ReserveKnownKey
  <2>3. CASE ReserveRefused(p, r)
    BY <2>3, ReturnKeepsAnswers DEF ReserveRefused
  <2>4. CASE ReserveAcquired(p, r)
    BY <2>4, BeginKeepsAnswers
  <2> QED BY <1>1, <2>1, <2>2, <2>3, <2>4 DEF Reserve
<1>2. ASSUME NEW p \in Execs, Work(p) PROVE AnswerInv'
  <2>1. CASE CompleteSuccess(p)
    <3>1. req[p] \in Requests BY <2>1 DEF CompleteSuccess, OwnershipInv, TypeOK
    <3> QED
      BY <2>1, <3>1, PersistKeepsAnswers, ReturnKeepsAnswers
         DEF CompleteSuccess, Unrecorded
  <2>2. CASE CompleteFailure(p)
    <3>1. req[p] \in Requests BY <2>2 DEF CompleteFailure, OwnershipInv, TypeOK
    <3> QED
      BY <2>2, <3>1, PersistKeepsAnswers, ReturnKeepsAnswers
         DEF CompleteFailure, Unrecorded
  <2>3. CASE UNCHANGED <<table, answer>>
    BY <2>3 DEF table, AnswerInv
  <2>4. CompleteSuccess(p) \/ CompleteFailure(p) \/ UNCHANGED <<table, answer>>
    BY <1>2 DEF Work, CompareCurrent, Preflight, CreateAndVerifyBackup,
                ApplyMigration, ApplyUp, HealthAttempt, RestoreBackup
  <2> QED BY <2>1, <2>2, <2>3, <2>4
<1>3. ASSUME NEW p \in Execs, Expire(p) PROVE AnswerInv'
  BY <1>3 DEF Expire, table, AnswerInv
<1>4. ASSUME NEW p \in Execs, Crash(p) PROVE AnswerInv'
  BY <1>4, ReturnKeepsAnswers DEF Crash
<1>5. CASE UNCHANGED vars
  BY <1>5 DEF vars, table, AnswerInv
<1> QED
  BY <1>1, <1>2, <1>3, <1>4, <1>5 DEF Next

(* A result that a caller was given, by the first execution or a replay,   *)
(* is what the database holds for the key ever after.                      *)
THEOREM GivenAnswersStayTrue == Spec => []AnswersStayTrue
<1>1. Init => AnswerInv
  <2>1. Error("none").kind # "result"
    BY ErrorsHaveNoResult DEF AnswerKinds
  <2> QED BY <2>1 DEF Init, AnswerInv
<1>2. OwnershipInv /\ AnswerInv => AnswersStayTrue
  BY DEF OwnershipInv, AnswerInv, AnswersStayTrue
<1> QED
  BY <1>1, <1>2, AnswerStep, Ownership, PTL DEF Spec

-----------------------------------------------------------------------------
(* A step of a process concerns at most the target of its job: the jobs of *)
(* the others are about other targets, whose rows, releases and containers *)
(* stay.                                                                   *)
LEMMA OtherTargetsStay ==
    ASSUME OwnershipInv, RecoveryInv, NEW p \in Execs, NEW T \in SUBSET Targets,
           \A t \in Targets \ T :
               /\ Settled(t) => Settled(t)'
               /\ Clean(t)' => Clean(t)
               /\ TargetBusy(t) => TargetBusy(t)'
               /\ current'[t] = current[t] /\ deployed'[t] = deployed[t],
           \A q \in Execs : q # p =>
               /\ pc'[q] = pc[q] /\ req'[q] = req[q]
               /\ result'[q] = result[q] /\ saved'[q] = saved[q]
               /\ Active(q) => req[q].target \notin T,
           \A k \in Keys : status'[k] = "running" => stored'[k] = NoResult,
           JobInv(p)', \A t \in T : RestInv(t)'
    PROVE  RecoveryInv'
<1>1. ASSUME NEW q \in Execs, q # p, pc[q] # "idle" PROVE JobInv(q)'
  <2>1. req[q] \in Requests /\ req[q].target \notin T
    BY <1>1 DEF OwnershipInv, TypeOK, Active
  <2>2. Validate(req[q]) /\ JobInv(q)
    BY <1>1 DEF RecoveryInv, JobInv
  <2>3. Validate(req[q])'
    BY <1>1, <2>2 DEF Validate
  <2>4. ASSUME NEW t \in Targets, t = req[q].target, Policy[t] = "production"
        PROVE  ProductionJob(q, t)'
    BY <1>1, <2>1, <2>2, <2>4 DEF JobInv, ProductionJob
  <2> QED
    BY <1>1, <2>3, <2>4 DEF JobInv
<1>2. ASSUME NEW q \in Execs PROVE JobInv(q)'
  BY <1>1 DEF JobInv
<1>3. ASSUME NEW t \in Targets PROVE RestInv(t)'
  BY DEF RecoveryInv, RestInv
<1> QED
  BY <1>2, <1>3 DEF RecoveryInv

(* Two live processes work on different targets. *)
LEMMA OthersElsewhere ==
    ASSUME OwnershipInv, NEW p \in Execs, Active(p),
           NEW q \in Execs, q # p, Active(q)
    PROVE  req[q].target # req[p].target
<1>1. req[p] \in Requests /\ req[q] \in Requests
  BY DEF OwnershipInv, TypeOK, Active
<1> QED
  BY <1>1, RequestTypes DEF OwnershipInv, ActiveOwnsRow, OneRowPerTarget, OneProcessPerKey

(* The target of a live process has its running row. *)
LEMMA LiveTargetsAreBusy ==
    ASSUME OwnershipInv, NEW p \in Execs, Active(p)
    PROVE  /\ req[p] \in Requests /\ req[p].target \in Targets
           /\ req[p].key \in Keys /\ status[req[p].key] = "running"
           /\ owner[req[p].key] = req[p] /\ TargetBusy(req[p].target)
<1>1. req[p] \in Requests
  BY DEF OwnershipInv, TypeOK, Active
<1> QED
  BY <1>1, RequestTypes DEF OwnershipInv, ActiveOwnsRow, TargetBusy

(* A process that goes on without touching the tables. *)
LEMMA WorkKeepsRecovery ==
    ASSUME OwnershipInv, RecoveryInv, NEW p \in Execs, Active(p),
           UNCHANGED <<table, current, req>>,
           \A t \in Targets : t # req[p].target => deployed'[t] = deployed[t],
           \A q \in Execs : q # p =>
               pc'[q] = pc[q] /\ result'[q] = result[q] /\ saved'[q] = saved[q],
           \A t \in Targets :
               t = req[p].target /\ Policy[t] = "production" => ProductionJob(p, t)'
    PROVE  RecoveryInv'
<1> DEFINE T == {req[p].target}
<1>1. /\ req[p] \in Requests /\ T \in SUBSET Targets
      /\ TargetBusy(req[p].target)
  BY LiveTargetsAreBusy
<1>2. \A t \in Targets : /\ Clean(t)' <=> Clean(t)
                         /\ TargetBusy(t)' <=> TargetBusy(t)
  BY DEF table, Clean, TargetBusy
<1>3. \A t \in Targets \ T : Settled(t) => Settled(t)'
  BY <1>2 DEF Settled
<1>4. \A q \in Execs : q # p /\ Active(q) => req[q].target \notin T
  BY OthersElsewhere
<1>5. Validate(req[p]) /\ JobInv(p)'
  BY DEF RecoveryInv, JobInv, Active, Validate
<1>6. \A t \in Targets : t = req[p].target => RestInv(t)'
  BY <1>1, <1>2 DEF RestInv
<1>7. \A k \in Keys : status'[k] = "running" => stored'[k] = NoResult
  BY DEF RecoveryInv, table
<1>8. PICK S \in SUBSET Targets : S = T
  BY <1>1
<1> HIDE DEF T
<1>9. /\ \A t \in Targets \ S :
             /\ Settled(t) => Settled(t)'
             /\ Clean(t)' => Clean(t)
             /\ TargetBusy(t) => TargetBusy(t)'
             /\ current'[t] = current[t] /\ deployed'[t] = deployed[t]
      /\ \A t \in S : RestInv(t)'
  BY <1>2, <1>3, <1>6, <1>8 DEF T
<1>10. \A q \in Execs : q # p =>
          /\ pc'[q] = pc[q] /\ req'[q] = req[q]
          /\ result'[q] = result[q] /\ saved'[q] = saved[q]
          /\ Active(q) => req[q].target \notin S
  BY <1>4, <1>8
<1> QED
  BY <1>5, <1>7, <1>9, <1>10, OtherTargetsStay

(* A process that returns without a word to the database, killed or not:   *)
(* what it left of its job is under the row that stays running.            *)
LEMMA ReturnKeepsRecovery ==
    ASSUME OwnershipInv, RecoveryInv, NEW p \in Execs, NEW a, Return(p, a),
           UNCHANGED <<table, current>>,
           \/ deployed' = deployed
           \/ /\ Active(p)
              /\ \A t \in Targets : t # req[p].target => deployed'[t] = deployed[t]
    PROVE  RecoveryInv'
<1>1. \A t \in Targets : /\ Clean(t)' <=> Clean(t)
                         /\ TargetBusy(t)' <=> TargetBusy(t)
  BY DEF table, Clean, TargetBusy
<1>2. \A q \in Execs : q # p =>
          /\ pc'[q] = pc[q] /\ req'[q] = req[q]
          /\ result'[q] = result[q] /\ saved'[q] = saved[q]
  BY DEF Return, OwnershipInv, TypeOK
<1>3. JobInv(p)'
  BY DEF JobInv, Return, OwnershipInv, TypeOK
<1>4. \A k \in Keys : status'[k] = "running" => stored'[k] = NoResult
  BY DEF RecoveryInv, table
<1>5. CASE deployed' = deployed
  <2>1. \A t \in Targets : Settled(t) => Settled(t)'
    BY <1>1, <1>5 DEF Settled
  <2>2. PICK T \in SUBSET Targets : T = {}
    OBVIOUS
  <2> QED BY <1>1, <1>2, <1>3, <1>4, <1>5, <2>1, <2>2, OtherTargetsStay
<1>6. CASE /\ Active(p)
           /\ \A t \in Targets : t # req[p].target => deployed'[t] = deployed[t]
  <2>1. PICK T \in SUBSET Targets : T = {req[p].target}
    BY <1>6, LiveTargetsAreBusy
  <2>2. \A t \in T : RestInv(t)'
    BY <1>1, <1>6, <2>1, LiveTargetsAreBusy DEF RestInv
  <2>3. \A t \in Targets \ T : Settled(t) => Settled(t)'
    BY <1>1, <1>6, <2>1 DEF Settled
  <2>4. \A q \in Execs : q # p /\ Active(q) => req[q].target \notin T
    BY <1>6, <2>1, OthersElsewhere
  <2> QED
    BY <1>1, <1>2, <1>3, <1>4, <1>6, <2>1, <2>2, <2>3, <2>4, OtherTargetsStay
<1> QED
  BY <1>5, <1>6

(* A job begins where nothing is under way, so with the recorded release.  *)
LEMMA BeginKeepsRecovery ==
    ASSUME OwnershipInv, RecoveryInv, NEW p \in Execs, NEW r \in Requests,
           ReserveAcquired(p, r)
    PROVE  RecoveryInv'
<1>1. /\ r.key \in Keys /\ r.target \in Targets /\ Validate(r) /\ r # NoRequest
      /\ status[r.key] = "none" /\ owner[r.key] = NoRequest
      /\ ~TargetBusy(r.target)
  BY RequestTypes DEF ReserveAcquired, OwnershipInv, RowsBound
<1>2. /\ status' = [status EXCEPT ![r.key] = "running"]
      /\ owner' = [owner EXCEPT ![r.key] = r]
      /\ stored' = [stored EXCEPT ![r.key] = NoResult]
      /\ pc' = [pc EXCEPT ![p] = "compare"] /\ req' = [req EXCEPT ![p] = r]
      /\ UNCHANGED <<current, result, saved, deployed>>
  BY DEF ReserveAcquired, Begin, world
<1>3. /\ status \in [Keys -> Statuses] /\ stored \in [Keys -> Results]
      /\ owner \in [Keys -> Requests \cup {NoRequest}]
      /\ pc \in [Execs -> Steps] /\ req \in [Execs -> Requests \cup {NoRequest}]
  BY DEF OwnershipInv, TypeOK
<1>4. \A t \in Targets : Clean(t)' => Clean(t)
  BY <1>1, <1>2, <1>3 DEF Clean
<1>5. \A t \in Targets : TargetBusy(t) => TargetBusy(t)'
  BY <1>1, <1>2, <1>3 DEF TargetBusy
<1>6. \A t \in Targets : Settled(t) => Settled(t)'
  BY <1>2, <1>4 DEF Settled
<1>7. PICK T \in SUBSET Targets : T = {r.target}
  BY <1>1
<1>8. TargetBusy(r.target)'
  BY <1>1, <1>2, <1>3 DEF TargetBusy
<1>9. \A t \in T : RestInv(t)'
  BY <1>7, <1>8 DEF RestInv
<1>10. \A q \in Execs : q # p /\ Active(q) => req[q].target \notin T
  BY <1>1, <1>7, LiveTargetsAreBusy
<1>11. JobInv(p)'
  <2>1. pc'[p] = "compare" /\ req'[p] = r /\ Validate(r)'
    BY <1>1, <1>2, <1>3 DEF Validate
  <2>2. ASSUME NEW t \in Targets, t = r.target, Policy[t] = "production"
        PROVE  ProductionJob(p, t)'
    <3>1. Settled(t)'
      BY <1>1, <1>6, <2>2 DEF RecoveryInv, RestInv
    <3> QED BY <2>1, <3>1 DEF ProductionJob, Secured
  <2> QED BY <2>1, <2>2 DEF JobInv, Validate
<1>12. \A k \in Keys : status'[k] = "running" => stored'[k] = NoResult
  BY <1>2, <1>3 DEF RecoveryInv
<1>13. \A q \in Execs : q # p =>
          /\ pc'[q] = pc[q] /\ req'[q] = req[q]
          /\ result'[q] = result[q] /\ saved'[q] = saved[q]
  BY <1>2, <1>3
<1> QED
  BY <1>2, <1>4, <1>5, <1>6, <1>9, <1>10, <1>11, <1>12, <1>13, OtherTargetsStay

(* A job that ends leaves its target at rest: with the new release, or     *)
(* with the old one, or with ROLLBACK_FAILED in its row.                   *)
LEMMA PersistKeepsRecovery ==
    ASSUME OwnershipInv, RecoveryInv, NEW p \in Execs,
           NEW final \in {"succeeded", "failed"}, Persist(p, final),
           deployed' = deployed,
           \/ pc[p] = "succeed" /\ AdvanceCurrent(p)
           \/ pc[p] = "fail" /\ UNCHANGED current
    PROVE  RecoveryInv'
<1>1. Active(p)
  BY DEF Active
<1>2. PICK key \in Keys : key = req[p].key
  BY <1>1, LiveTargetsAreBusy
<1>3. PICK t0 \in Targets : t0 = req[p].target
  BY <1>1, LiveTargetsAreBusy
<1>4. /\ req[p] \in Requests /\ req[p] # NoRequest
      /\ status[key] = "running" /\ owner[key] = req[p]
      /\ stored[key] = NoResult
  BY <1>1, <1>2, LiveTargetsAreBusy, RequestTypes DEF RecoveryInv
<1>5. /\ status' = [status EXCEPT ![key] = final] /\ owner' = owner
      /\ stored' = [stored EXCEPT ![key] = result[p]]
  BY <1>2 DEF Persist
<1>6. /\ status \in [Keys -> Statuses] /\ stored \in [Keys -> Results]
      /\ current \in [Targets -> Releases \cup {NoRelease}]
  BY DEF OwnershipInv, TypeOK
<1>7. \A t \in Targets : t # t0 => current'[t] = current[t]
  BY <1>3, <1>6 DEF AdvanceCurrent
<1>8. NoResult.code # "ROLLBACK_FAILED"
  BY DEF NoResult, Result
<1>9. \A t \in Targets : Clean(t)' => Clean(t)
  BY <1>4, <1>5, <1>6, <1>8 DEF Clean
<1>10. \A t \in Targets : t # t0 /\ TargetBusy(t) => TargetBusy(t)'
  BY <1>3, <1>4, <1>5, <1>6 DEF TargetBusy
<1>11. \A t \in Targets : t # t0 /\ Settled(t) => Settled(t)'
  BY <1>7, <1>9 DEF Settled
<1>12. ASSUME Policy[t0] = "production" PROVE Settled(t0)'
  <2>1. ProductionJob(p, t0)
    BY <1>1, <1>3, <1>12 DEF RecoveryInv, JobInv, Active
  <2>2. Clean(t0)' => result[p].code # "ROLLBACK_FAILED"
    BY <1>3, <1>4, <1>5, <1>6 DEF Clean
  <2>3. CASE pc[p] = "succeed" /\ AdvanceCurrent(p)
    BY <1>3, <1>6, <2>1, <2>3 DEF ProductionJob, AdvanceCurrent, Settled
  <2>4. CASE pc[p] = "fail" /\ UNCHANGED current
    BY <1>9, <2>1, <2>2, <2>4 DEF ProductionJob, Settled
  <2> QED BY <2>3, <2>4
<1>13. PICK T \in SUBSET Targets : T = {t0}
  OBVIOUS
<1>14. \A t \in T : RestInv(t)'
  BY <1>12, <1>13 DEF RestInv
<1>15. \A q \in Execs : q # p =>
          /\ pc'[q] = pc[q] /\ req'[q] = req[q]
          /\ result'[q] = result[q] /\ saved'[q] = saved[q]
          /\ Active(q) => req[q].target \notin T
  BY <1>1, <1>3, <1>13, OthersElsewhere DEF Persist, Return, OwnershipInv, TypeOK
<1>16. JobInv(p)'
  BY DEF JobInv, Persist, Return, OwnershipInv, TypeOK
<1>17. \A k \in Keys : status'[k] = "running" => stored'[k] = NoResult
  BY <1>5, <1>6 DEF RecoveryInv
<1> QED
  BY <1>7, <1>9, <1>10, <1>11, <1>13, <1>14, <1>15, <1>16, <1>17, OtherTargetsStay

(* What a failed step of a production job needs: it has a backup, and the  *)
(* recovery that the contract requires of production.                      *)
LEMMA ProductionRecovers ==
    ASSUME OwnershipInv, RecoveryInv, NEW p \in Execs, pc[p] \in Secured,
           NEW t \in Targets, t = req[p].target, Policy[t] = "production",
           NEW code \in Codes, RecoverOrFail(p, code)
    PROVE  /\ pc'[p] = "recover"
           /\ "backup" \in result'[p].evidence
           /\ req[p].env = "production"
           /\ Clean(t) => saved[p] = current[t]
<1>1. ProductionJob(p, t) /\ Validate(req[p])
  BY DEF RecoveryInv, JobInv, Secured
<1>2. req[p].env = "production" /\ "backup" \in result[p].evidence
  BY <1>1 DEF ProductionJob
<1>3. pc'[p] = "recover"
  BY <1>1, <1>2 DEF RecoverOrFail, Goto, Validate, OwnershipInv, TypeOK
<1>4. result'[p] = Result(code, result[p].evidence)
  BY DEF RecoverOrFail, SetCode, OwnershipInv, TypeOK
<1>5. Result(code, result[p].evidence).evidence = result[p].evidence
  BY DEF Result
<1> QED
  BY <1>1, <1>2, <1>3, <1>4, <1>5 DEF ProductionJob

(* The steps of a job, each for a production target. *)
LEMMA WorkKeepsProductionJob ==
    ASSUME OwnershipInv, RecoveryInv, NEW p \in Execs, Work(p),
           ~CompleteSuccess(p), ~CompleteFailure(p),
           NEW t \in Targets, t = req[p].target, Policy[t] = "production"
    PROVE  ProductionJob(p, t)'
<1> USE DEF Secured, BeforeUp
<1>1. pc[p] # "idle"
  BY DEF Work, CompareCurrent, Preflight, CreateAndVerifyBackup, ApplyMigration,
         ApplyUp, HealthAttempt, RestoreBackup
<1>2. ProductionJob(p, t) /\ Validate(req[p])
  BY <1>1 DEF RecoveryInv, JobInv
<1>3. UNCHANGED <<table, current, req>>
  BY DEF Work, CompareCurrent, Preflight, CreateAndVerifyBackup, ApplyMigration,
         ApplyUp, HealthAttempt, RestoreBackup, frame
<1>4. Clean(t)' <=> Clean(t)
  BY <1>3 DEF Clean, table
<1>5. /\ pc \in [Execs -> Steps] /\ result \in [Execs -> Results]
      /\ saved \in [Execs -> Runtimes] /\ deployed \in [Targets -> Runtimes]
      /\ req[p].env \in Environments
  BY <1>1, RequestsAssumption DEF OwnershipInv, TypeOK, RequestType
<1>6. CASE CompareCurrent(p)
  BY <1>2, <1>3, <1>4, <1>5, <1>6
     DEF CompareCurrent, FailWith, Goto, ProductionJob, Settled, world
<1>7. CASE Preflight(p)
  <2>1. Settled(t) /\ (Settled(t) => Settled(t)')
    BY <1>2, <1>3, <1>4, <1>7 DEF Preflight, ProductionJob, Settled, world
  <2>2. CASE FailWith(p, "PREFLIGHT_FAILED")
    BY <1>5, <2>1, <2>2 DEF FailWith, Goto, ProductionJob
  <2>3. CASE Resolves(req[p]) /\ Goto(p, IF req[p].backup THEN "backup" ELSE "migrate")
    <3>1. req[p].env = "production" /\ req[p].backup
      BY <1>2, <2>3 DEF Resolves, Validate
    <3>2. pc'[p] = "backup"
      BY <1>5, <2>3, <3>1 DEF Goto
    <3> QED BY <1>3, <2>1, <3>1, <3>2 DEF ProductionJob
  <2> QED BY <1>7, <2>2, <2>3 DEF Preflight
<1>8. CASE CreateAndVerifyBackup(p)
  <2>1. /\ Settled(t) /\ (Settled(t) => Settled(t)') /\ req[p].env = "production"
        /\ deployed' = deployed
    BY <1>2, <1>3, <1>4, <1>8 DEF CreateAndVerifyBackup, ProductionJob, Settled, world
  <2>2. CASE pc'[p] = "fail"
    BY <2>1, <2>2 DEF ProductionJob
  <2>3. CASE /\ pc'[p] = "migrate" /\ saved'[p] = deployed[t]
             /\ result'[p] = Result("none", {"backup"})
    <3>1. "backup" \in Result("none", {"backup"}).evidence
      BY DEF Result
    <3> QED BY <1>3, <1>4, <2>1, <2>3, <3>1 DEF ProductionJob, Settled
  <2> QED BY <1>5, <1>8, <2>2, <2>3 DEF CreateAndVerifyBackup, Goto
<1>9. CASE ApplyMigration(p)
  <2>1. saved' = saved /\ deployed' = deployed
    BY <1>9 DEF ApplyMigration, frame, world
  <2>2. CASE RecoverOrFail(p, "APPLY_FAILED")
    BY <1>3, <1>4, <1>9, <2>1, <2>2, ProductionRecovers
       DEF ApplyMigration, Codes, ProductionJob
  <2>3. CASE Goto(p, "up") /\ UNCHANGED result
    BY <1>2, <1>3, <1>4, <1>5, <1>9, <2>1, <2>3
       DEF ApplyMigration, Goto, ProductionJob, Settled
  <2> QED BY <1>9, <2>2, <2>3 DEF ApplyMigration
<1>10. CASE ApplyUp(p)
  <2>1. saved' = saved
    BY <1>10 DEF ApplyUp
  <2>2. CASE RecoverOrFail(p, "APPLY_FAILED")
    BY <1>3, <1>4, <1>10, <2>1, <2>2, ProductionRecovers DEF ApplyUp, Codes, ProductionJob
  <2>3. CASE SetDeployed(t, req[p].release) /\ Goto(p, "health") /\ UNCHANGED result
    BY <1>2, <1>3, <1>4, <1>5, <1>10, <2>1, <2>3
       DEF ApplyUp, Goto, SetDeployed, ProductionJob
  <2> QED BY <1>10, <2>2, <2>3 DEF ApplyUp
<1>11. CASE HealthAttempt(p)
  <2>1. saved' = saved /\ deployed' = deployed
    BY <1>11 DEF HealthAttempt, world
  <2>2. CASE RecoverOrFail(p, "HEALTH_FAILED")
    BY <1>3, <1>4, <1>11, <2>1, <2>2, ProductionRecovers
       DEF HealthAttempt, Codes, ProductionJob
  <2>3. CASE pc'[p] \in {"health", "succeed"} /\ UNCHANGED result
    BY <1>2, <1>3, <1>4, <1>11, <2>1, <2>3 DEF HealthAttempt, ProductionJob
  <2> QED BY <1>5, <1>11, <2>2, <2>3 DEF HealthAttempt, Goto
<1>12. CASE RestoreBackup(p)
  <2>1. pc'[p] = "fail" /\ (Clean(t) => saved[p] = current[t])
    BY <1>2, <1>5, <1>12 DEF RestoreBackup, Goto, ProductionJob
  <2>2. CASE result'[p] = Result("ROLLBACK_FAILED", Evidence)
    <3>1. Result("ROLLBACK_FAILED", Evidence).code = "ROLLBACK_FAILED"
      BY DEF Result
    <3> QED BY <2>1, <2>2, <3>1 DEF ProductionJob
  <2>3. CASE SetDeployed(t, saved[p])
    BY <1>3, <1>4, <1>5, <2>1, <2>3 DEF SetDeployed, ProductionJob, Settled
  <2> QED BY <1>5, <1>12, <2>2, <2>3 DEF RestoreBackup
<1> QED
  BY <1>6, <1>7, <1>8, <1>9, <1>10, <1>11, <1>12 DEF Work

LEMMA RecoveryStep == OwnershipInv /\ RecoveryInv /\ [Next]_vars => RecoveryInv'
<1> SUFFICES ASSUME OwnershipInv, RecoveryInv, [Next]_vars PROVE RecoveryInv'
  OBVIOUS
<1> USE DEF world
<1>1. ASSUME NEW p \in Execs, NEW r \in Requests, Reserve(p, r)
      PROVE  RecoveryInv'
  BY <1>1, ReturnKeepsRecovery, BeginKeepsRecovery
     DEF Reserve, Refuse, ReserveKnownKey, ReserveRefused
<1>2. ASSUME NEW p \in Execs, CompleteSuccess(p) \/ CompleteFailure(p)
      PROVE  RecoveryInv'
  BY <1>2, ReturnKeepsRecovery, PersistKeepsRecovery
     DEF CompleteSuccess, CompleteFailure, Unrecorded
<1>3. ASSUME NEW p \in Execs, Work(p), ~CompleteSuccess(p), ~CompleteFailure(p)
      PROVE  RecoveryInv'
  <2>1. Active(p) /\ UNCHANGED <<table, current, req>>
    BY <1>3 DEF Work, CompareCurrent, Preflight, CreateAndVerifyBackup,
                ApplyMigration, ApplyUp, HealthAttempt, RestoreBackup, frame, Active
  <2>2. \A t \in Targets : t # req[p].target => deployed'[t] = deployed[t]
    BY <1>3 DEF Work, CompareCurrent, Preflight, CreateAndVerifyBackup,
                ApplyMigration, ApplyUp, HealthAttempt, RestoreBackup, SetDeployed,
                OwnershipInv, TypeOK
  <2>3. \A q \in Execs : q # p =>
            pc'[q] = pc[q] /\ result'[q] = result[q] /\ saved'[q] = saved[q]
    BY <1>3 DEF Work, CompareCurrent, Preflight, CreateAndVerifyBackup,
                ApplyMigration, ApplyUp, HealthAttempt, RestoreBackup, FailWith,
                RecoverOrFail, Goto, SetCode, frame, OwnershipInv, TypeOK
  <2> QED
    BY <1>3, <2>1, <2>2, <2>3, WorkKeepsProductionJob, WorkKeepsRecovery
<1>4. ASSUME NEW p \in Execs, Expire(p) PROVE RecoveryInv'
  BY <1>4 DEF Expire, table, RecoveryInv, JobInv, Validate, ProductionJob, RestInv,
              Settled, Clean, TargetBusy
<1>5. ASSUME NEW p \in Execs, Crash(p) PROVE RecoveryInv'
  BY <1>5, ReturnKeepsRecovery DEF Crash, Active, SetDeployed, OwnershipInv, TypeOK
<1>6. CASE UNCHANGED vars
  BY <1>6 DEF vars, table, frame, RecoveryInv, JobInv, Validate, ProductionJob,
              RestInv, Settled, Clean, TargetBusy
<1> QED
  BY <1>1, <1>2, <1>3, <1>4, <1>5, <1>6 DEF Next

(* A production target at rest, none of whose jobs reported a failed       *)
(* rollback, runs the release that is recorded as current.                 *)
THEOREM ProductionIsAsRecorded == Spec => []ProductionRunsRecordedRelease
<1>1. Init => RecoveryInv
  BY DEF Init, RecoveryInv, JobInv, RestInv, Settled
<1>2. RecoveryInv => ProductionRunsRecordedRelease
  BY DEF RecoveryInv, RestInv, Settled, Clean, ProductionRunsRecordedRelease
<1> QED
  BY <1>1, <1>2, RecoveryStep, Ownership, PTL DEF Spec
=============================================================================
