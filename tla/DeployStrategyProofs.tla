------------------------ MODULE DeployStrategyProofs ------------------------
(***************************************************************************)
(* Proofs about DeployStrategy for any services and any number of deploy   *)
(* processes, versions and deploys.                                        *)
(*                                                                         *)
(* Whoever is at work holds the lock, so nobody else touches containers or *)
(* pulled images between its steps.  What it has put in place so far is    *)
(* Reached: a rolling update has brought the services it is done with to a *)
(* version at least as new as the one published when it began.             *)
(***************************************************************************)
EXTENDS DeployStrategy, TLAPS

Holder == \A p \in Deployers : pc[p] # "idle" <=> lock = p

Untouched == {"prepare", "startNew", "health", "cleanup"}
KeepsOld == \A p \in Deployers : pc[p] \in Untouched => orig = was[p]

Reached ==
    \A p \in Deployers :
        /\ target[p] <= published
        /\ pc[p] = "roll" =>
              /\ pulled >= target[p]
              /\ \A s \in Services \ todo[p] : orig[s] >= target[p]
        /\ pc[p] = "post" => \A s \in Services : orig[s] >= target[p]

StrategyInv == TypeOK /\ Holder /\ KeepsOld /\ Reached /\ LeftoversAreFaults

USE DEF Versions, Down, Steps, Strategies, AllDown

-----------------------------------------------------------------------------
LEMMA Init0 == Init => StrategyInv
<1> SUFFICES ASSUME Init PROVE StrategyInv
  OBVIOUS
<1>1. TypeOK
  <2>1. 0 \in Versions /\ 1 \in Versions /\ 0 \in 0 .. MaxDeploys
    BY BoundsAssumption
  <2>2. AllDown \in [Services -> Versions] /\ [s \in Services |-> 1] \in [Services -> Versions]
    BY <2>1
  <2>3. orig \in [Services -> Versions] /\ parallel \in [Services -> Versions]
    BY <2>2 DEF Init
  <2>4. was \in [Deployers -> [Services -> Versions]]
    BY <2>2, Zenon DEF Init
  <2>5. /\ published \in Versions /\ pulled \in Versions /\ deploys \in 0 .. MaxDeploys
        /\ target \in [Deployers -> Versions]
    BY <2>1 DEF Init
  <2>6. /\ pc \in [Deployers -> Steps \cup {"idle"}]
        /\ strategy \in [Deployers -> Strategies]
        /\ todo \in [Deployers -> SUBSET Services]
        /\ result \in [Deployers -> {"none", "success", "failed"}]
    BY DEF Init
  <2>7. lock \in Deployers \cup {NoDeployer} /\ expired \subseteq Deployers /\ dirty \in BOOLEAN
    BY DEF Init
  <2> QED
    BY <2>3, <2>4, <2>5, <2>6, <2>7 DEF TypeOK
<1>2. Holder
  BY NoDeployerAssumption DEF Init, Holder
<1>3. KeepsOld
  BY DEF Init, KeepsOld, Untouched
<1>4. Reached
  BY DEF Init, Reached
<1>5. LeftoversAreFaults
  BY DEF Init, LeftoversAreFaults
<1> QED
  BY <1>1, <1>2, <1>3, <1>4, <1>5 DEF StrategyInv

(* What a removal may leave has the type of containers. *)
LEMMA Removal ==
    ASSUME TypeOK, RemoveProject
    PROVE  /\ parallel' \in [Services -> Versions]
           /\ dirty' \in BOOLEAN
           /\ parallel' = AllDown \/ dirty' = TRUE
<1>1. CASE parallel' = AllDown /\ UNCHANGED dirty
  BY <1>1, BoundsAssumption DEF TypeOK
<1>2. CASE /\ parallel' \in {d \in [Services -> Versions] :
                                \A s \in Services : d[s] \in {parallel[s], Down}}
           /\ dirty' = TRUE
  BY <1>2
<1> QED
  BY <1>1, <1>2 DEF RemoveProject

-----------------------------------------------------------------------------
(* Going on and returning keep the types of a process's place and result. *)
LEMMA Places ==
    ASSUME TypeOK, NEW p \in Deployers,
           \/ \E step \in Steps : Goto(p, step)
           \/ \E r \in {"success", "failed"} : Return(p, r)
    PROVE  /\ pc' \in [Deployers -> Steps \cup {"idle"}]
           /\ result' \in [Deployers -> {"none", "success", "failed"}]
           /\ lock' \in Deployers \cup {NoDeployer} /\ expired' \subseteq Deployers
<1>1. CASE \E step \in Steps : Goto(p, step)
  BY <1>1 DEF TypeOK, Goto
<1>2. CASE \E r \in {"success", "failed"} : Return(p, r)
  BY <1>2 DEF TypeOK, Return
<1> QED
  BY <1>1, <1>2

LEMMA TypeStep == TypeOK /\ [Next]_vars => TypeOK'
<1> SUFFICES ASSUME TypeOK, [Next]_vars PROVE TypeOK'
  OBVIOUS
<1>1. CASE UNCHANGED vars
  BY <1>1 DEF TypeOK, vars, process
<1>2. CASE Publish
  BY <1>2, BoundsAssumption DEF TypeOK, Publish, process
<1>3. ASSUME NEW p \in Deployers, NEW st \in Strategies, Begin(p, st)
      PROVE  TypeOK'
  BY <1>3, BoundsAssumption DEF TypeOK, Begin
<1>4. ASSUME NEW p \in Deployers, Step(p)
      PROVE  TypeOK'
  <2> USE DEF process, Goto, Return
  <2>1. CASE Prepare(p)
    <3>1. First(p) \in Steps
      BY DEF TypeOK, First
    <3>2. \/ \E step \in Steps : Goto(p, step)
          \/ \E r \in {"success", "failed"} : Return(p, r)
      <4> HIDE DEF Goto, Return
      <4> QED
        BY <2>1, <3>1 DEF Prepare
    <3> HIDE DEF Goto, Return
    <3> QED
      BY <2>1, <3>2, Places DEF TypeOK, Prepare
  <2>2. CASE BasicUp(p)
    <3>1. orig' \in [Services -> Versions]
      BY <2>2 DEF TypeOK, BasicUp, All, Partly
    <3>2. /\ pc' \in [Deployers -> Steps \cup {"idle"}]
          /\ result' \in [Deployers -> {"none", "success", "failed"}]
          /\ lock' \in Deployers \cup {NoDeployer} /\ expired' \subseteq Deployers
      BY <2>2 DEF TypeOK, BasicUp
    <3> QED
      BY <2>2, <3>1, <3>2 DEF TypeOK, BasicUp
  <2>3. CASE RollingPull(p)
    <3>1. todo' \in [Deployers -> SUBSET Services] /\ pulled' \in Versions
      BY <2>3 DEF TypeOK, RollingPull, ListedServices
    <3>2. /\ pc' \in [Deployers -> Steps \cup {"idle"}]
          /\ result' \in [Deployers -> {"none", "success", "failed"}]
          /\ lock' \in Deployers \cup {NoDeployer} /\ expired' \subseteq Deployers
      BY <2>3 DEF TypeOK, RollingPull
    <3> QED
      BY <2>3, <3>1, <3>2 DEF TypeOK, RollingPull
  <2>4. CASE RollingService(p)
    <3>1. orig' \in [Services -> Versions]
      BY <2>4, BoundsAssumption DEF TypeOK, RollingService
    <3>2. todo' \in [Deployers -> SUBSET Services]
      <4>1. \E T \in SUBSET Services : todo' = todo \/ todo' = [todo EXCEPT ![p] = T]
        <5>1. todo[p] \in SUBSET Services /\ {} \in SUBSET Services
          BY DEF TypeOK
        <5> QED
          BY <2>4, <5>1, Zenon DEF RollingService
      <4> QED
        BY <4>1 DEF TypeOK
    <3>3. \/ \E step \in Steps : Goto(p, step)
          \/ \E r \in {"success", "failed"} : Return(p, r)
      <4> HIDE DEF Goto, Return
      <4> QED
        BY <2>4 DEF RollingService
    <3> HIDE DEF Goto, Return
    <3> QED
      BY <2>4, <3>1, <3>2, <3>3, Places DEF TypeOK, RollingService
  <2>5. CASE StartNew(p)
    BY <2>5, BoundsAssumption DEF TypeOK, StartNew, All, Partly
  <2>6. CASE WaitHealthy(p)
    BY <2>6 DEF TypeOK, WaitHealthy, UnhealthyStep
  <2>7. CASE CleanUp(p)
    BY <2>7, Removal DEF TypeOK, CleanUp
  <2>8. CASE StopOld(p)
    BY <2>8, BoundsAssumption DEF TypeOK, StopOld
  <2>9. CASE RemoveNew(p)
    BY <2>9, Removal DEF TypeOK, RemoveNew
  <2>10. CASE StartOriginal(p)
    BY <2>10, BoundsAssumption DEF TypeOK, StartOriginal, All, Partly
  <2>11. CASE PostDeploy(p)
    BY <2>11 DEF TypeOK, PostDeploy
  <2> QED
    BY <1>4, <2>1, <2>2, <2>3, <2>4, <2>5, <2>6, <2>7, <2>8, <2>9, <2>10, <2>11 DEF Step
<1>5. ASSUME NEW p \in Deployers, Expire(p)
      PROVE  TypeOK'
  BY <1>5 DEF TypeOK, Expire, process
<1>6. ASSUME NEW p \in Deployers, Kill(p)
      PROVE  TypeOK'
  <2>1. dirty' \in BOOLEAN
    BY <1>6, Zenon DEF Kill
  <2> QED
    BY <1>6, <2>1 DEF TypeOK, Kill, Return, process
<1> QED
  BY <1>1, <1>2, <1>3, <1>4, <1>5, <1>6 DEF Next

-----------------------------------------------------------------------------
(* What a step of a process at work does to its place and the lock. *)
Moves(p) ==
    \/ \E step \in Steps : pc' = [pc EXCEPT ![p] = step] /\ lock' = lock
    \/ /\ pc' = [pc EXCEPT ![p] = "idle"]
       /\ lock' = IF lock = p THEN NoDeployer ELSE lock

LEMMA StepMoves ==
    ASSUME TypeOK, NEW p \in Deployers, Step(p) \/ Kill(p) \/ Expire(p)
    PROVE  Moves(p) /\ pc[p] # "idle" /\ UNCHANGED <<target, was>>
<1> USE DEF Goto, Return, Moves, process
<1>1. CASE Prepare(p)
  <2>1. First(p) \in Steps
    BY DEF TypeOK, First
  <2> QED
    BY <1>1, <2>1 DEF Prepare
<1>2. CASE BasicUp(p)
  BY <1>2 DEF BasicUp
<1>3. CASE RollingPull(p)
  BY <1>3 DEF RollingPull
<1>4. CASE RollingService(p)
  BY <1>4 DEF RollingService
<1>5. CASE StartNew(p)
  BY <1>5 DEF StartNew
<1>6. CASE WaitHealthy(p)
  BY <1>6 DEF WaitHealthy, UnhealthyStep
<1>7. CASE CleanUp(p)
  BY <1>7 DEF CleanUp
<1>8. CASE StopOld(p)
  BY <1>8 DEF StopOld
<1>9. CASE RemoveNew(p)
  BY <1>9 DEF RemoveNew
<1>10. CASE StartOriginal(p)
  BY <1>10 DEF StartOriginal
<1>11. CASE PostDeploy(p)
  BY <1>11 DEF PostDeploy
<1>12. CASE Kill(p)
  BY <1>12 DEF Kill
<1>13. CASE Expire(p)
  <2>1. pc' = [pc EXCEPT ![p] = pc[p]] /\ pc[p] \in Steps
    BY <1>13 DEF Expire, TypeOK
  <2> QED
    BY <1>13, <2>1 DEF Expire
<1> QED
  BY <1>1, <1>2, <1>3, <1>4, <1>5, <1>6, <1>7, <1>8, <1>9, <1>10, <1>11, <1>12, <1>13 DEF Step

LEMMA HolderStep == TypeOK /\ Holder /\ [Next]_vars => Holder'
<1> SUFFICES ASSUME TypeOK, Holder, [Next]_vars PROVE Holder'
  OBVIOUS
<1>1. CASE UNCHANGED vars
  BY <1>1 DEF Holder, vars
<1>2. CASE Publish
  BY <1>2 DEF Holder, Publish
<1>3. ASSUME NEW p \in Deployers, NEW st \in Strategies, Begin(p, st)
      PROVE  Holder'
  BY <1>3, NoDeployerAssumption DEF Holder, Begin, TypeOK, LockIsFree
<1>4. ASSUME NEW p \in Deployers, Step(p) \/ Expire(p) \/ Kill(p)
      PROVE  Holder'
  <2>1. Moves(p) /\ lock = p /\ pc[p] # "idle"
    BY <1>4, StepMoves DEF Holder
  <2>2. CASE \E step \in Steps : pc' = [pc EXCEPT ![p] = step] /\ lock' = lock
    BY <2>1, <2>2 DEF Holder, TypeOK
  <2>3. CASE /\ pc' = [pc EXCEPT ![p] = "idle"]
             /\ lock' = IF lock = p THEN NoDeployer ELSE lock
    BY <2>1, <2>3, NoDeployerAssumption DEF Holder, TypeOK
  <2> QED
    BY <2>1, <2>2, <2>3 DEF Moves
<1> QED
  BY <1>1, <1>2, <1>3, <1>4 DEF Next

(* While one process is at work all the others are idle, and stay so. *)
LEMMA OthersIdle ==
    ASSUME TypeOK, Holder, NEW p \in Deployers, Step(p) \/ Kill(p) \/ Expire(p),
           NEW q \in Deployers \ {p}
    PROVE  pc[q] = "idle" /\ pc'[q] = "idle"
<1>1. Moves(p) /\ pc[p] # "idle"
  BY StepMoves
<1> QED
  BY <1>1 DEF Holder, Moves, TypeOK

-----------------------------------------------------------------------------
LEMMA KeepsOldStep == TypeOK /\ Holder /\ KeepsOld /\ [Next]_vars => KeepsOld'
<1> USE DEF Untouched
<1> SUFFICES ASSUME TypeOK, Holder, KeepsOld, [Next]_vars PROVE KeepsOld'
  OBVIOUS
<1>1. CASE UNCHANGED vars
  BY <1>1 DEF KeepsOld, vars, process
<1>2. CASE Publish
  BY <1>2 DEF KeepsOld, Publish, process
<1>3. ASSUME NEW p \in Deployers, NEW st \in Strategies, Begin(p, st)
      PROVE  KeepsOld'
  BY <1>3 DEF KeepsOld, Begin, TypeOK
<1>4. ASSUME NEW p \in Deployers, Step(p) \/ Expire(p) \/ Kill(p)
      PROVE  KeepsOld'
  <2>1. \A q \in Deployers \ {p} : pc'[q] = "idle"
    BY <1>4, OthersIdle
  <2>2. UNCHANGED was
    BY <1>4, StepMoves
  <2>3. pc'[p] \in Untouched => pc[p] \in Untouched /\ orig' = orig
    <3> USE DEF Goto, Return, TypeOK
    <3>1. CASE Prepare(p)
      BY <3>1 DEF Prepare
    <3>2. CASE BasicUp(p)
      BY <3>2 DEF BasicUp
    <3>3. CASE RollingPull(p)
      BY <3>3 DEF RollingPull
    <3>4. CASE RollingService(p)
      BY <3>4 DEF RollingService
    <3>5. CASE StartNew(p)
      BY <3>5 DEF StartNew
    <3>6. CASE WaitHealthy(p)
      BY <3>6 DEF WaitHealthy, UnhealthyStep
    <3>7. CASE CleanUp(p)
      BY <3>7 DEF CleanUp
    <3>8. CASE StopOld(p)
      BY <3>8 DEF StopOld
    <3>9. CASE RemoveNew(p)
      BY <3>9 DEF RemoveNew
    <3>10. CASE StartOriginal(p)
      BY <3>10 DEF StartOriginal
    <3>11. CASE PostDeploy(p)
      BY <3>11 DEF PostDeploy
    <3>12. CASE Kill(p)
      BY <3>12 DEF Kill
    <3>13. CASE Expire(p)
      BY <3>13 DEF Expire
    <3> QED
      BY <1>4, <3>1, <3>2, <3>3, <3>4, <3>5, <3>6, <3>7, <3>8, <3>9, <3>10, <3>11, <3>12,
         <3>13 DEF Step
  <2> QED
    BY <2>1, <2>2, <2>3 DEF KeepsOld
<1> QED
  BY <1>1, <1>2, <1>3, <1>4 DEF Next

-----------------------------------------------------------------------------
LEMMA ReachedStep == TypeOK /\ Holder /\ Reached /\ [Next]_vars => Reached'
<1> SUFFICES ASSUME TypeOK, Holder, Reached, [Next]_vars PROVE Reached'
  OBVIOUS
<1> USE BoundsAssumption
<1>1. CASE UNCHANGED vars
  BY <1>1 DEF Reached, vars, process
<1>2. CASE Publish
  BY <1>2 DEF Reached, Publish, process, TypeOK
<1>3. ASSUME NEW p \in Deployers, NEW st \in Strategies, Begin(p, st)
      PROVE  Reached'
  BY <1>3 DEF Reached, Begin, TypeOK
<1>4. ASSUME NEW p \in Deployers, Step(p) \/ Expire(p) \/ Kill(p)
      PROVE  Reached'
  <2>1. \A q \in Deployers \ {p} : pc'[q] = "idle"
    BY <1>4, OthersIdle
  <2>2. UNCHANGED <<target, published>>
    <3>1. UNCHANGED target
      BY <1>4, StepMoves
    <3>2. UNCHANGED published
      BY <1>4 DEF Step, Prepare, BasicUp, RollingPull, RollingService, StartNew, WaitHealthy,
           CleanUp, StopOld, RemoveNew, StartOriginal, PostDeploy, Kill, Expire
    <3> QED
      BY <3>1, <3>2
  <2>3. /\ pc'[p] = "roll" =>
              /\ pulled' >= target[p]
              /\ \A s \in Services \ todo'[p] : orig'[s] >= target[p]
        /\ pc'[p] = "post" => \A s \in Services : orig'[s] >= target[p]
    <3> USE DEF Goto, Return, TypeOK
    <3>0. target[p] <= published
      BY DEF Reached
    <3>1. CASE Prepare(p)
      BY <3>1 DEF Prepare, First
    <3>2. CASE BasicUp(p)
      BY <3>2, <3>0 DEF BasicUp, All
    <3>3. CASE RollingPull(p)
      BY <3>3, <3>0 DEF RollingPull, ListedServices
    <3>4. CASE RollingService(p)
      BY <3>4, <3>0 DEF RollingService, Reached
    <3>5. CASE StartNew(p)
      BY <3>5 DEF StartNew
    <3>6. CASE WaitHealthy(p)
      BY <3>6 DEF WaitHealthy, UnhealthyStep
    <3>7. CASE CleanUp(p)
      BY <3>7 DEF CleanUp
    <3>8. CASE StopOld(p)
      BY <3>8 DEF StopOld
    <3>9. CASE RemoveNew(p)
      BY <3>9 DEF RemoveNew
    <3>10. CASE StartOriginal(p)
      BY <3>10, <3>0 DEF StartOriginal, All
    <3>11. CASE PostDeploy(p)
      BY <3>11 DEF PostDeploy
    <3>12. CASE Kill(p)
      BY <3>12 DEF Kill
    <3>13. CASE Expire(p)
      BY <3>13 DEF Expire, Reached
    <3> QED
      BY <1>4, <3>1, <3>2, <3>3, <3>4, <3>5, <3>6, <3>7, <3>8, <3>9, <3>10, <3>11, <3>12,
         <3>13 DEF Step
  <2> QED
    BY <2>1, <2>2, <2>3 DEF Reached
<1> QED
  BY <1>1, <1>2, <1>3, <1>4 DEF Next

-----------------------------------------------------------------------------
AtBlueGreen == {"health", "cleanup", "stopOld", "removeNew"}

LEMMA LeftoversStep == TypeOK /\ LeftoversAreFaults /\ [Next]_vars => LeftoversAreFaults'
<1> SUFFICES ASSUME TypeOK, LeftoversAreFaults, [Next]_vars PROVE LeftoversAreFaults'
  OBVIOUS
<1>1. CASE UNCHANGED vars
  BY <1>1 DEF LeftoversAreFaults, vars
<1>2. CASE Publish
  BY <1>2 DEF LeftoversAreFaults, Publish
<1>3. ASSUME NEW p \in Deployers, NEW st \in Strategies, Begin(p, st)
      PROVE  LeftoversAreFaults'
  BY <1>3 DEF LeftoversAreFaults, Begin, TypeOK
<1>4. ASSUME NEW p \in Deployers, Step(p) \/ Expire(p) \/ Kill(p)
      PROVE  LeftoversAreFaults'
  <2>1. \A q \in Deployers \ {p} : pc'[q] = pc[q]
    BY <1>4, StepMoves DEF Moves, TypeOK
  <2>2. \/ parallel' = AllDown
        \/ dirty' = TRUE
        \/ pc'[p] \in AtBlueGreen
        \/ parallel' = parallel /\ dirty' = dirty /\ pc[p] \notin AtBlueGreen
    <3> USE DEF Goto, Return, TypeOK, AtBlueGreen
    <3>1. CASE Prepare(p)
      BY <3>1 DEF Prepare
    <3>2. CASE BasicUp(p)
      BY <3>2 DEF BasicUp
    <3>3. CASE RollingPull(p)
      BY <3>3 DEF RollingPull
    <3>4. CASE RollingService(p)
      BY <3>4 DEF RollingService
    <3>5. CASE StartNew(p)
      BY <3>5 DEF StartNew
    <3>6. CASE WaitHealthy(p)
      BY <3>6 DEF WaitHealthy, UnhealthyStep
    <3>7. CASE CleanUp(p)
      BY <3>7, Removal DEF CleanUp
    <3>8. CASE StopOld(p)
      BY <3>8 DEF StopOld
    <3>9. CASE RemoveNew(p)
      BY <3>9, Removal DEF RemoveNew
    <3>10. CASE StartOriginal(p)
      BY <3>10 DEF StartOriginal
    <3>11. CASE PostDeploy(p)
      BY <3>11 DEF PostDeploy
    <3>12. CASE Kill(p)
      <4>1. parallel' = parallel /\ (dirty' = (dirty \/ parallel # AllDown))
        BY <3>12, Zenon DEF Kill
      <4> QED
        BY <4>1
    <3>13. CASE Expire(p)
      BY <3>13 DEF Expire
    <3> QED
      BY <1>4, <3>1, <3>2, <3>3, <3>4, <3>5, <3>6, <3>7, <3>8, <3>9, <3>10, <3>11, <3>12,
         <3>13 DEF Step
  <2> QED
    BY <2>1, <2>2 DEF LeftoversAreFaults, AtBlueGreen
<1> QED
  BY <1>1, <1>2, <1>3, <1>4 DEF Next

LEMMA StrategyAlways == Spec => []StrategyInv
<1>1. StrategyInv /\ [Next]_vars => StrategyInv'
  BY TypeStep, HolderStep, KeepsOldStep, ReachedStep, LeftoversStep DEF StrategyInv
<1> QED
  BY <1>1, Init0, PTL DEF Spec

-----------------------------------------------------------------------------
(* A blue/green deploy that does not get through leaves the old containers *)
(* as they were and no second set beside them, but for named faults.       *)
THEOREM FailedDeploysKeepOldSet == Spec => []FailureLeavesOldSet
<1>1. StrategyInv => FailureLeavesOldSet
  BY DEF StrategyInv, FailureLeavesOldSet, FailedCheckKeepsOld, KeepsOld, Untouched
<1> QED
  BY <1>1, StrategyAlways, PTL

(* Only a deploy at its end turns its result to success. *)
LEMMA WhoSucceeds ==
    ASSUME TypeOK, [Next]_vars, NEW p \in Deployers, result'[p] = "success",
           result[p] # "success"
    PROVE  pc[p] = "post" /\ orig' = orig
<1> USE DEF Goto, Return, TypeOK
<1>1. PICK q \in Deployers : Step(q) \/ Kill(q) \/ \E st \in Strategies : Begin(q, st)
  BY DEF Next, Publish, Expire, vars
<1>2. q = p /\ Step(p)
  BY <1>1 DEF Begin, Kill, Step, Prepare, BasicUp, RollingPull, RollingService, StartNew,
       WaitHealthy, CleanUp, StopOld, RemoveNew, StartOriginal, PostDeploy
<1> QED
  BY <1>2 DEF Step, Prepare, BasicUp, RollingPull, RollingService, StartNew,
       WaitHealthy, CleanUp, StopOld, RemoveNew, StartOriginal, PostDeploy

(* A deploy that says success has every service on the version published   *)
(* when it began, or a newer one.                                          *)
THEOREM SuccessMeansCurrent == Spec => SuccessIsCurrent
<1>1. StrategyInv /\ [Next]_vars =>
        [\A p \in Deployers :
            result'[p] = "success" /\ result[p] # "success" =>
                \A s \in Services : orig'[s] >= target[p]]_vars
  BY WhoSucceeds DEF StrategyInv, Reached
<1> QED
  BY <1>1, StrategyAlways, PTL DEF Spec, SuccessIsCurrent
=============================================================================
