------------------------------ MODULE Watchers ------------------------------
(* What watches a host and what is shown of it: the uptime monitor with its *)
(* alerts, the scheduled security check with its notifications, the         *)
(* snapshot that is exported of both, the agent that serves it and the      *)
(* overview of the central dashboard.                                       *)
(*                                                                          *)
(* Observations go through four files and a cache, each written and read    *)
(* by another process, so they carry the time they were made.  Here they    *)
(* carry their age in ticks, capped where older makes no difference.  Every *)
(* process may stop and every write and message may fail.                   *)
EXTENDS Naturals, Sequences, FiniteSets, SequencesExt, FiniteSetsExt

CONSTANTS
    Targets,      \* what the monitor probes
    Providers,    \* the notification channels, in order
    Setups,       \* the parts in use on a host: monitor, security, fleet, providers
    Threshold,    \* consecutive failures before an alert
    Timeout,      \* ticks that a probe takes at most
    StaleAfter,   \* ticks after which a check says nothing (3 intervals + timeout)
    MaxAge,       \* ticks after which a snapshot says nothing (3 minutes)
    SecurityAge,  \* ticks after which a security report says nothing (26 hours)
    TTL,          \* ticks for which the overview keeps an answer (30 seconds)
    MaxFaults     \* bound: failing writes, tools and channels, and kills

ASSUME LimitsAssumption ==
    /\ Threshold \in Nat \ {0} /\ Timeout \in Nat /\ StaleAfter \in Nat /\ Timeout <= StaleAfter
    /\ MaxAge \in Nat /\ SecurityAge \in Nat /\ TTL \in Nat \ {0} /\ MaxFaults \in Nat
ASSUME ProvidersAssumption == Providers \in Seq(ToSet(Providers))

VARIABLES
    using,    \* the parts in use
    results,  \* monitor: the last result of each target
    states,   \* monitor: AlertManager.states
    recent,   \* the results since the monitor started, as many as count
    good,     \* the age of the last healthy check of each target
    mfile,    \* the state file of the monitor
    flaws,    \* what a security check should find
    check,    \* the security check at work
    sfile,    \* the state file of the security check
    heard,    \* what each channel was last told of security
    repeated, \* a channel was told the same twice
    cut,      \* a security check ended between its notifications and its file
    snap,     \* the exported snapshot
    cache,    \* Client: the last answer of the node
    okAge,    \* the age of the last moment at which the security file said ok
    faults

mvars == <<results, states, recent, good, mfile>>
svars == <<flaws, check, sfile, heard, repeated, cut>>
fvars == <<snap, cache>>
vars == <<using, mvars, svars, fvars, okAge, faults>>

None == "none"
Older(age, limit) == IF age > limit THEN limit + 1 ELSE age + 1   \* past its limit an age is not counted
Spend == faults < MaxFaults /\ faults' = faults + 1

-----------------------------------------------------------------------------
(* The monitor.  A result is healthy, unhealthy, or blocked by a challenge  *)
(* of the edge, which says nothing of the application.                      *)
HealthStatus == {"healthy", "unhealthy", "blocked"}
NoResult == [status |-> None, age |-> StaleAfter + 1]
NewState == [fails |-> 0, stable |-> 0, pending |-> None, alerted |-> None]

(* AlertManager.Process: mixed failures alert too; an open incident changes *)
(* its diagnosis only when the new one is stable.                           *)
Bump(n) == IF n < Threshold THEN n + 1 ELSE n
ProcessSteady(s, status) ==   \* only an incident with one diagnosis throughout
    IF status = "healthy" THEN NewState
    ELSE LET fails == Bump(s.fails)
             stable == Bump(IF s.pending = status THEN s.stable ELSE 0)
             due == stable >= Threshold
         IN [fails |-> fails, stable |-> stable, pending |-> status,
             alerted |-> IF due THEN status ELSE s.alerted]
Process(s, status) ==
    IF status = "healthy" THEN NewState
    ELSE LET fails == Bump(s.fails)
             stable == Bump(IF s.pending = status THEN s.stable ELSE 0)
             due == fails >= Threshold /\ (s.alerted = None \/ stable >= Threshold)
         IN [fails |-> fails, stable |-> stable, pending |-> status,
             alerted |-> IF due THEN status ELSE s.alerted]

(* CheckOnce takes its time before the request, so a result may be old when *)
(* it is recorded.                                                          *)
CheckOnce == [status : HealthStatus, age : IF "fleet" \in using THEN 0..Timeout ELSE {0}]
LastOf(s) == SubSeq(s, IF Len(s) > Threshold THEN Len(s) - Threshold + 1 ELSE 1, Len(s))
SaveState(res, t) == mfile' = [res |-> [results EXCEPT ![t] = res], age |-> 0]

(* record: the result, the alerts, the file.  Alerts are sent at best       *)
(* effort, whether a channel accepts them or not.                           *)
record(t, saved) ==
    /\ "monitor" \in using
    /\ \E res \in CheckOnce :
          /\ results' = [results EXCEPT ![t] = res]
          /\ good' = IF res.status = "healthy" THEN [good EXCEPT ![t] = res.age] ELSE good
          /\ IF "providers" \in using
             THEN /\ states' = [states EXCEPT ![t] = Process(@, res.status)]
                  /\ recent' = [recent EXCEPT ![t] = LastOf(Append(@, res.status))]
             ELSE UNCHANGED <<states, recent>>
          /\ IF saved THEN SaveState(res, t) ELSE UNCHANGED mfile
    /\ UNCHANGED <<using, svars, fvars>>
Recorded(t) == record(t, TRUE) /\ UNCHANGED faults
NotSaved(t) == Spend /\ record(t, FALSE)

(* The monitor is stopped and started again: it reads the file, and takes   *)
(* nothing from it.                                                         *)
monitorStart ==
    /\ "monitor" \in using /\ Spend
    /\ results' = [t \in Targets |-> NoResult] /\ states' = [t \in Targets |-> NewState]
    /\ recent' = [t \in Targets |-> <<>>]
    /\ UNCHANGED <<using, good, mfile, svars, fvars>>

-----------------------------------------------------------------------------
(* The security check: `security check`, run by a timer under a lock.       *)
Subjects == {"release", "host", "docker", "image"}

(* Checker.Run: each part finds what is there, or is unknown when its tool  *)
(* fails; without an inventory no image is scanned.                         *)
Compared(part, failing) ==   \* with the newest packages, release or commit of the branch
    IF part \in failing THEN "unknown" ELSE IF part \in flaws THEN "update_available" ELSE "up_to_date"
release(failing) == Compared("release", failing)
host(failing) == Compared("host", failing)
scan(failing) == IF "image" \in failing THEN "unknown"
                 ELSE IF "image" \in flaws THEN "finding" ELSE "checked"
Run(failing) ==
    [release |-> release(failing), host |-> host(failing),
     inventory |-> IF "docker" \in failing THEN "unknown" ELSE "checked",
     image |-> IF "docker" \in failing THEN None ELSE scan(failing)]
Counts(r) == [found |-> Cardinality({k \in DOMAIN r : r[k] \in {"update_available", "finding"}}),
              unknown |-> Cardinality({k \in DOMAIN r : r[k] = "unknown"})]
Calls(r) == Counts(r).found + Counts(r).unknown > 0

NoReport == [release |-> None, host |-> None, inventory |-> None, image |-> None]
NoDelivery == [digest |-> NoReport, alerted |-> FALSE]
Resting == [phase |-> "idle", report |-> NoReport, age |-> 0, del |-> <<>>, todo |-> <<>>]

(* securityCheckCmd takes the lock, loads the old state, which nobody else  *)
(* writes under the lock, and examines the host.                            *)
Examine(failing) ==
    /\ "security" \in using /\ check.phase = "idle"
    /\ IF failing = {} THEN UNCHANGED faults ELSE Spend
    /\ check' = [phase |-> "notify", report |-> Run(failing), age |-> 0, del |-> sfile.del,
                 todo |-> IF "providers" \in using THEN Providers ELSE <<>>]
    /\ UNCHANGED <<using, mvars, flaws, sfile, heard, repeated, cut, fvars>>

(* Notify, one channel at a time: only changes, and only to a channel that  *)
(* has something to hear; what it accepted is remembered.                   *)
Due(c) == check.del[c].digest # check.report /\ (Calls(check.report) \/ check.del[c].alerted)
Advanced(c) == [check EXCEPT !.todo = Tail(@),
    !.del = [@ EXCEPT ![c] = [digest |-> check.report, alerted |-> Calls(check.report)]]]
NotifyPasses(c) ==
    /\ ~Due(c) /\ check' = Advanced(c)
    /\ UNCHANGED <<heard, repeated, faults>>
NotifyAccepted(c) ==
    /\ Due(c) /\ check' = Advanced(c)
    /\ heard' = [heard EXCEPT ![c] = check.report]
    /\ repeated' = (repeated \/ heard[c] = check.report)
    /\ UNCHANGED faults
NotifyRefusedAdvances(c) ==
    /\ Due(c) /\ Spend /\ check' = Advanced(c) /\ UNCHANGED <<heard, repeated>>
NotifyRefused(c) ==
    /\ Due(c) /\ Spend /\ check' = [check EXCEPT !.todo = Tail(@)]
    /\ UNCHANGED <<heard, repeated>>
Notify ==
    /\ check.phase = "notify" /\ check.todo # <<>>
    /\ LET c == Head(check.todo) IN NotifyPasses(c) \/ NotifyAccepted(c) \/ NotifyRefused(c)
    /\ UNCHANGED <<using, mvars, flaws, sfile, cut, fvars>>

Save ==
    /\ check.phase = "notify" /\ check.todo = <<>>
    /\ sfile' = [report |-> check.report, age |-> check.age, del |-> check.del]
    /\ check' = Resting
    /\ UNCHANGED <<using, mvars, flaws, heard, repeated, cut, fvars, faults>>
(* The check is killed, or its file cannot be written.                      *)
Lost ==
    /\ check.phase # "idle" /\ Spend
    /\ cut' = (cut \/ check.del # sfile.del) /\ check' = Resting
    /\ UNCHANGED <<using, mvars, flaws, sfile, heard, repeated, fvars>>

(* Updates, findings and repairs come and go.  Bound: one at a time.        *)
Change ==
    /\ "security" \in using /\ flaws' \in {{}, {"release"}, {"image"}} \ {flaws}
    /\ UNCHANGED <<using, mvars, check, sfile, heard, repeated, cut, fvars, faults>>

-----------------------------------------------------------------------------
(* monitor.Summarize and fleetexport.Export: an old check says nothing, a   *)
(* failure calls for attention, and an old file says nothing either.        *)
Summarize == [t \in Targets |-> IF mfile.res[t].age > StaleAfter THEN "stale" ELSE mfile.res[t].status]
Monitoring ==
    LET shown == {Summarize[t] : t \in Targets} IN
    CASE mfile.age > MaxAge -> "unknown"
      [] "unhealthy" \in shown -> "attention"
      [] shown # {"healthy"} -> "unknown"
      [] OTHER -> "ok"
Security ==
    LET n == Counts(sfile.report) IN
    CASE sfile.age > SecurityAge -> "unknown"
      [] n.found > 0 -> "attention"
      [] n.unknown > 0 -> "unknown"
      [] OTHER -> "ok"
Nothing == [gen |-> MaxAge + 1, mon |-> "unknown", monAge |-> MaxAge + 1, sec |-> "unknown",
            secAge |-> SecurityAge + 1]
Export == [gen |-> 0, mon |-> Monitoring, monAge |-> mfile.age, sec |-> Security, secAge |-> sfile.age]

(* Snapshot.Validate.                                                       *)
Validate(s) == /\ s.gen <= MaxAge
               /\ s.mon # "unknown" => s.monAge <= MaxAge
               /\ s.sec # "unknown" => s.secAge <= SecurityAge

(* fleet snapshot, by a timer; the file is replaced or stays.               *)
WriteSnapshot(s) == snap' = s
fleetSnapshot ==
    /\ "fleet" \in using /\ Validate(Export) /\ WriteSnapshot(Export)
    /\ UNCHANGED <<using, mvars, svars, cache, faults>>

(* The agent serves the file while it is valid.  Client.Fetch keeps the     *)
(* answer of the node, or that there was none, for a while.                 *)
Agent == IF Validate(snap) THEN {snap} ELSE {}
Fetch == IF cache.last < TTL THEN {cache}
         ELSE {[s |-> a, last |-> 0] : a \in Agent \cup {Nothing}}

(* fetchFleet validates the answer again, which may come from the cache.    *)
fetchFleetTrusts(s) == [mon |-> s.mon, sec |-> s.sec]
fetchFleet(s) == IF Validate(s) THEN [mon |-> s.mon, sec |-> s.sec]
                 ELSE [mon |-> "unknown", sec |-> "unknown"]

(* What the overview shows: after a request and until the answer expires.   *)
row == fetchFleet(IF cache.last < TTL THEN cache.s ELSE Nothing)
handleFleet ==
    /\ "fleet" \in using
    /\ cache' \in Fetch
    /\ UNCHANGED <<using, mvars, svars, snap, faults>>

(* Time passes, which only the overview looks at.                           *)
Aged(s) == [s EXCEPT !.gen = Older(@, MaxAge), !.monAge = Older(@, MaxAge), !.secAge = Older(@, SecurityAge)]
AgedResults(res) == [t \in Targets |-> [res[t] EXCEPT !.age = Older(@, StaleAfter)]]
Tick ==
    /\ "fleet" \in using
    /\ results' = AgedResults(results)
    /\ good' = [t \in Targets |-> Older(good[t], StaleAfter + MaxAge)]
    /\ mfile' = [res |-> AgedResults(mfile.res), age |-> Older(mfile.age, MaxAge)]
    /\ sfile' = [sfile EXCEPT !.age = Older(@, SecurityAge)]
    /\ check' = [check EXCEPT !.age = IF check.phase = "notify" THEN Older(@, SecurityAge) ELSE @]
    /\ snap' = Aged(snap) /\ cache' = [s |-> Aged(cache.s), last |-> Older(cache.last, TTL)]
    /\ UNCHANGED <<using, states, recent, flaws, heard, repeated, cut, faults>>

Init ==
    /\ using \in Setups
    /\ results = [t \in Targets |-> NoResult] /\ states = [t \in Targets |-> NewState]
    /\ recent = [t \in Targets |-> <<>>] /\ good = [t \in Targets |-> StaleAfter + MaxAge + 1]
    /\ mfile = [res |-> results, age |-> MaxAge + 1]
    /\ flaws = {} /\ check = Resting /\ repeated = FALSE /\ cut = FALSE
    /\ sfile = [report |-> NoReport, age |-> SecurityAge + 1, del |-> [c \in ToSet(Providers) |-> NoDelivery]]
    /\ heard = [c \in ToSet(Providers) |-> NoReport]
    /\ snap = Nothing /\ cache = [s |-> Nothing, last |-> TTL + 1]
    /\ okAge = MaxAge + 1 /\ faults = 0

(* When the security file last said ok, for the properties.                 *)
Seen(ticks) == LET a == IF Security = "ok" THEN 0 ELSE okAge IN
               okAge' = IF ticks THEN Older(a, MaxAge) ELSE a
Next ==
    \/ /\ \/ \E t \in Targets : Recorded(t) \/ NotSaved(t)
          \/ monitorStart
          \/ Notify \/ Save \/ Lost \/ Change
          \/ Examine({}) \/ \E x \in Subjects : Examine({x})
          \/ fleetSnapshot \/ handleFleet
       /\ Seen(FALSE)
    \/ Tick /\ Seen(TRUE)

Spec == Init /\ [][Next]_vars

-----------------------------------------------------------------------------
TypeOK ==
    /\ \A t \in Targets : results[t].age \in Nat /\ states[t].alerted \in HealthStatus \cup {None}
    /\ row \in [{"mon", "sec"} -> {"ok", "attention", "unknown"}]
    /\ \A t \in Targets : Len(recent[t]) <= Threshold

(* The alert that is open is what the last checks say: after as many checks *)
(* as the threshold with one diagnosis it is that diagnosis, after that     *)
(* many failures of any kind some alert is open, and before it none is      *)
(* that was not; a healthy check closes it.                                 *)
Last1(t) == recent[t][Len(recent[t])]
AlertFollowsChecks ==
    /\ TypeOK
    /\ \A t \in Targets : recent[t] # <<>> =>
          /\ Last1(t) = "healthy" => states[t].alerted = None
          /\ Len(recent[t]) = Threshold /\ "healthy" \notin ToSet(recent[t]) =>
                /\ states[t].alerted # None
                /\ Cardinality(ToSet(recent[t])) = 1 => states[t].alerted = Last1(t)
          /\ states[t].alerted # None => "healthy" \notin ToSet(recent[t]) /\ Len(recent[t]) = Threshold

(* The overview shows ok only for what was ok a short while ago: every      *)
(* target had a healthy check no older than a check and a snapshot may be   *)
(* together, and the security file said ok within the age of a snapshot,    *)
(* whatever stopped, failed or was answered from the cache since.           *)
OverviewIsRecent ==
    /\ row.mon = "ok" => \A t \in Targets : good[t] <= StaleAfter + MaxAge
    /\ row.sec = "ok" => Security = "ok" \/ okAge <= MaxAge

(* A channel is told of every change in what calls for attention, once, and *)
(* told when it is over; a channel that failed hears of it at the next run. *)
(* A check that is killed between telling and writing is excepted.          *)
ChannelsHearChanges ==
    cut \/ /\ ~repeated
           /\ \A c \in ToSet(Providers) : LET d == sfile.del[c] IN
                 check.phase = "idle" =>
                    /\ d.digest # NoReport /\ Calls(d.digest) => heard[c] = d.digest
                    /\ ~Calls(d.digest) => ~Calls(heard[c])
=============================================================================
