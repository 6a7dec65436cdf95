--------------------------- MODULE DeployStrategy ---------------------------
(***************************************************************************)
(* A local `fleetdeck deploy`: under the project's file lock, one of the   *)
(* strategies of internal/deploy replaces the containers of a project by   *)
(* those of the newest published images: basic at once, rolling service by *)
(* service, bluegreen through a parallel Compose project <name>-new.       *)
(* Commands fail, the deadline of the deploy expires, the process is       *)
(* killed, and images are published while it runs.                         *)
(*                                                                         *)
(* A container is the version of its image; Down (0) is no container.      *)
(***************************************************************************)
EXTENDS Integers, FiniteSets

CONSTANTS
    Services,
    Front,        \* the service that answers the domain
    Deployers,    \* deploy processes
    NoDeployer,
    MaxVersion,   \* bound: images published
    MaxDeploys    \* bound: deploys begun

Down == 0
Versions == 0 .. MaxVersion
Strategies == {"basic", "rolling", "bluegreen"}
AllDown == [s \in Services |-> Down]

ASSUME FrontAssumption == Front \in Services
ASSUME NoDeployerAssumption == NoDeployer \notin Deployers
ASSUME BoundsAssumption == MaxVersion \in Nat \ {0} /\ MaxDeploys \in Nat

VARIABLES
    published,   \* the newest version in the registry
    pulled,      \* the newest version on this host
    orig,        \* [Services -> version]: containers of the project
    parallel,    \* [Services -> version]: containers of <name>-new
    lock,        \* who holds .fleetdeck.lock
    deploys,     \* deploys begun
    pc,          \* [Deployers -> where it is]
    strategy,    \* [Deployers -> its --strategy]
    todo,        \* [Deployers -> services the rolling update has left]
    expired,     \* deployers whose context has passed its deadline
    result,      \* [Deployers -> what Deploy returned]
    target,      \* history: [Deployers -> published when it began]
    was,         \* history: [Deployers -> orig when it began]
    dirty        \* history: a start, a removal or a process broke off

process == <<deploys, strategy, target, was>>
vars == <<published, pulled, orig, parallel, lock, process, pc, todo, expired, result, dirty>>

Steps == {"prepare", "up", "pull", "roll", "startNew", "health", "cleanup", "stopOld", "removeNew",
          "startOriginal", "post"}

Init ==
    /\ published = 1 /\ pulled = 1
    /\ orig \in {AllDown, [s \in Services |-> 1]}
    /\ parallel = AllDown
    /\ lock = NoDeployer
    /\ deploys = 0
    /\ pc = [p \in Deployers |-> "idle"]
    /\ strategy = [p \in Deployers |-> "basic"]
    /\ todo = [p \in Deployers |-> {}]
    /\ expired = {}
    /\ result = [p \in Deployers |-> "none"]
    /\ target = [p \in Deployers |-> 1]
    /\ was = [p \in Deployers |-> AllDown]
    /\ dirty = FALSE

-----------------------------------------------------------------------------

Publish ==
    /\ published < MaxVersion
    /\ published' = published + 1
    /\ UNCHANGED <<pulled, orig, parallel, lock, process, pc, todo, expired, result, dirty>>

LockIsFreeAnyway == TRUE
(* AcquireLock does not wait: a held lock refuses the deploy. *)
LockIsFree == lock = NoDeployer

(* deployLocal: the lock, and the strategy with a deadline. *)
Begin(p, st) ==
    /\ pc[p] = "idle" /\ LockIsFree /\ deploys < MaxDeploys
    /\ lock' = p
    /\ deploys' = deploys + 1
    /\ pc' = [pc EXCEPT ![p] = "prepare"]
    /\ strategy' = [strategy EXCEPT ![p] = st]
    /\ target' = [target EXCEPT ![p] = published]
    /\ was' = [was EXCEPT ![p] = orig]
    /\ result' = [result EXCEPT ![p] = "none"]
    /\ UNCHANGED <<published, pulled, orig, parallel, todo, expired, dirty>>

Goto(p, step) ==
    /\ pc' = [pc EXCEPT ![p] = step]
    /\ UNCHANGED <<lock, expired, result>>

(* Deploy returns and the deferred Release frees the lock. *)
Return(p, r) ==
    /\ pc' = [pc EXCEPT ![p] = "idle"]
    /\ lock' = IF lock = p THEN NoDeployer ELSE lock
    /\ expired' = expired \ {p}
    /\ result' = [result EXCEPT ![p] = r]

First(p) ==
    CASE strategy[p] = "basic" -> "up"
      [] strategy[p] = "rolling" -> "pull"
      [] OTHER -> "startNew"

(* edge.Prepare, a build without cache, the pre-deploy hook. *)
Prepare(p) ==
    /\ pc[p] = "prepare"
    /\ \/ p \notin expired /\ Goto(p, First(p))
       \/ Return(p, "failed")
    /\ UNCHANGED <<published, pulled, orig, parallel, process, todo, dirty>>

(* What a failed or cancelled `compose up` of version v leaves of the      *)
(* containers c: each one old, new, or removed and not started.            *)
Partly(c, v) == {d \in [Services -> Versions] : \A s \in Services : d[s] \in {c[s], v, Down}}

All(v) == [s \in Services |-> v]

(* compose up -d --pull always *)
BasicUp(p) ==
    /\ pc[p] = "up"
    /\ pulled' = published
    /\ \/ p \notin expired /\ orig' = All(published) /\ Goto(p, "post")
       \/ orig' \in Partly(orig, published) /\ Return(p, "failed")
    /\ UNCHANGED <<published, parallel, process, todo, dirty>>

ServicesOfOne == {Front}
(* compose config --services *)
ListedServices == Services

(* compose pull, then the list of services. *)
RollingPull(p) ==
    /\ pc[p] = "pull"
    /\ \/ /\ p \notin expired
          /\ pulled' = published
          /\ todo' = [todo EXCEPT ![p] = ListedServices]
          /\ Goto(p, "roll")
       \/ pulled' \in {pulled, published} /\ Return(p, "failed") /\ UNCHANGED todo
    /\ UNCHANGED <<published, orig, parallel, process, dirty>>

(* compose up -d --no-deps of one service; the first failure ends it. *)
RollingService(p) ==
    /\ pc[p] = "roll"
    /\ \/ /\ todo[p] = {} /\ Goto(p, "post")
          /\ UNCHANGED <<orig, todo>>
       \/ \E s \in todo[p] :
             \/ /\ p \notin expired
                /\ orig' = [orig EXCEPT ![s] = pulled]
                /\ todo' = [todo EXCEPT ![p] = @ \ {s}]
                /\ Goto(p, "roll")
             \/ /\ \E v \in {orig[s], pulled, Down} : orig' = [orig EXCEPT ![s] = v]
                /\ todo' = [todo EXCEPT ![p] = {}]
                /\ Return(p, "failed")
    /\ UNCHANGED <<published, pulled, parallel, process, dirty>>

-----------------------------------------------------------------------------
(* BlueGreenStrategy *)

(* startNew; when it fails nothing removes what it started. *)
StartNew(p) ==
    /\ pc[p] = "startNew"
    /\ pulled' = published
    /\ \/ p \notin expired /\ parallel' = All(published) /\ Goto(p, "health") /\ UNCHANGED dirty
       \/ parallel' \in Partly(parallel, published) /\ dirty' = TRUE /\ Return(p, "failed")
    /\ UNCHANGED <<published, orig, process, todo>>

UnhealthyPollsOn == "health"
UnhealthyStep == "cleanup"

(* waitHealthy polls the domain, which the old set answers too: it may     *)
(* pass whatever the new set does.                                         *)
WaitHealthy(p) ==
    /\ pc[p] = "health"
    /\ \/ p \notin expired /\ Goto(p, "stopOld")
       \/ Goto(p, UnhealthyStep)
    /\ UNCHANGED <<published, pulled, orig, parallel, process, todo, dirty>>

RemoveNothing == UNCHANGED <<parallel, dirty>>
(* removeProject, whose failure is only logged; it has no deadline. *)
RemoveProject ==
    \/ parallel' = AllDown /\ UNCHANGED dirty
    \/ parallel' \in {d \in [Services -> Versions] : \A s \in Services : d[s] \in {parallel[s], Down}}
       /\ dirty' = TRUE

CleanUp(p) ==
    /\ pc[p] = "cleanup"
    /\ RemoveProject
    /\ Return(p, "failed")
    /\ UNCHANGED <<published, pulled, orig, process, todo>>

(* stopOld, whose failure is only logged. *)
StopOld(p) ==
    /\ pc[p] = "stopOld"
    /\ \/ p \notin expired /\ orig' = AllDown
       \/ orig' \in {d \in [Services -> Versions] : \A s \in Services : d[s] \in {orig[s], Down}}
    /\ Goto(p, "removeNew")
    /\ UNCHANGED <<published, pulled, parallel, process, todo, dirty>>

RemoveNew(p) ==
    /\ pc[p] = "removeNew"
    /\ RemoveProject
    /\ Goto(p, "startOriginal")
    /\ UNCHANGED <<published, pulled, orig, process, todo>>

(* up -d --pull always under the original name *)
StartOriginal(p) ==
    /\ pc[p] = "startOriginal"
    /\ pulled' = published
    /\ \/ p \notin expired /\ orig' = All(published) /\ Goto(p, "post")
       \/ orig' \in Partly(orig, published) /\ Return(p, "failed")
    /\ UNCHANGED <<published, parallel, process, todo, dirty>>

(* The post-deploy hook, and the result. *)
PostDeploy(p) ==
    /\ pc[p] = "post"
    /\ \/ Return(p, "success")
       \/ Return(p, "failed")
    /\ UNCHANGED <<published, pulled, orig, parallel, process, todo, dirty>>

-----------------------------------------------------------------------------

(* The deadline of the deploy passes. *)
Expire(p) ==
    /\ pc[p] # "idle" /\ p \notin expired
    /\ expired' = expired \cup {p}
    /\ UNCHANGED <<published, pulled, orig, parallel, lock, process, pc, todo, result, dirty>>

(* The process is killed; the kernel drops its lock. *)
Kill(p) ==
    /\ pc[p] # "idle"
    /\ Return(p, "failed")
    /\ dirty' = (dirty \/ parallel # AllDown)
    /\ todo' = [todo EXCEPT ![p] = {}]
    /\ UNCHANGED <<published, pulled, orig, parallel, process>>

Step(p) ==
    \/ Prepare(p) \/ BasicUp(p) \/ RollingPull(p) \/ RollingService(p)
    \/ StartNew(p) \/ WaitHealthy(p) \/ CleanUp(p) \/ StopOld(p) \/ RemoveNew(p)
    \/ StartOriginal(p) \/ PostDeploy(p)

Next ==
    \/ Publish
    \/ \E p \in Deployers :
          \/ \E st \in Strategies : Begin(p, st)
          \/ Step(p) \/ Expire(p) \/ Kill(p)

Spec == Init /\ [][Next]_vars

(* A command ends or is cancelled at the deadline. *)
FairSpec == Spec /\ \A p \in Deployers : WF_vars(Step(p))

-----------------------------------------------------------------------------
(* Every variable keeps its type. *)
TypeOK ==
    /\ published \in Versions /\ pulled \in Versions
    /\ orig \in [Services -> Versions] /\ parallel \in [Services -> Versions]
    /\ lock \in Deployers \cup {NoDeployer}
    /\ deploys \in 0 .. MaxDeploys
    /\ pc \in [Deployers -> Steps \cup {"idle"}]
    /\ strategy \in [Deployers -> Strategies]
    /\ todo \in [Deployers -> SUBSET Services]
    /\ expired \subseteq Deployers
    /\ result \in [Deployers -> {"none", "success", "failed"}]
    /\ target \in [Deployers -> Versions] /\ was \in [Deployers -> [Services -> Versions]]
    /\ dirty \in BOOLEAN

(* Deploy says success only when every service of the project runs the     *)
(* version that was published when it began, or a newer one, whatever was  *)
(* published or tried by others meanwhile.                                 *)
SuccessIsCurrent ==
    [][\A p \in Deployers :
          result'[p] = "success" /\ result[p] # "success" =>
              \A s \in Services : orig'[s] >= target[p]]_vars

(* Until the new set has passed its health check, and after it has failed  *)
(* it, a blue/green deploy leaves the old containers as they were.         *)
FailedCheckKeepsOld ==
    \A p \in Deployers : pc[p] \in {"startNew", "health", "cleanup"} => orig = was[p]

(* The parallel set is gone when no blue/green deploy is at work, unless a *)
(* start or a removal failed or a process was killed.                      *)
LeftoversAreFaults ==
    parallel # AllDown =>
        \/ dirty
        \/ \E p \in Deployers : pc[p] \in {"health", "cleanup", "stopOld", "removeNew"}

(* A blue/green deploy that does not get through leaves the project as it  *)
(* was: the old set untouched and no second one beside it.                 *)
FailureLeavesOldSet == TypeOK /\ FailedCheckKeepsOld /\ LeftoversAreFaults

(* A deploy ends.                                                          *)
DeploysEnd == \A p \in Deployers : pc[p] # "idle" ~> pc[p] = "idle"

=============================================================================
