------------------------ MODULE WebhookDeployProofs -------------------------
(***************************************************************************)
(* Proofs about WebhookDeploy for any projects and any number of slots,    *)
(* pushes, jobs and faults.                                                *)
(*                                                                         *)
(* The job at work on a project is the one that holds its mutex            *)
(* (MutexHeld); rows and the project's status follow the mutex, or are     *)
(* left behind by a named fault (Rows); a delivery that started a job is   *)
(* remembered or was forgotten (Remembered); what runs was built, what was *)
(* built was pulled, what was pulled was pushed (Pipeline).                *)
(***************************************************************************)
EXTENDS WebhookDeploy, FiniteSetTheorems, TLAPS

(* Only jobs that were started have a place, a row or a fault. *)
Started ==
    /\ \A j \in Jobs : pc[j] # "none" => j <= jobs
    /\ \A j \in killed : j <= jobs

MutexHeld ==
    /\ \A j \in Jobs : pc[j] \in Active => mutex[proj[j]] = j
    /\ \A p \in Projects :
          mutex[p] # NoJob => pc[mutex[p]] \in Active /\ proj[mutex[p]] = p

Rows ==
    /\ \A j \in Jobs : status[j] = "deploying" => pc[j] \in Active \/ j \in killed
    /\ \A p \in Projects :
          shown[p] = "deploying" => mutex[p] # NoJob \/ \E j \in killed : proj[j] = p

Remembered ==
    /\ \A i \in 1 .. jobs : commit[i] # 0 => <<proj[i], commit[i]>> \in seen \cup forgotten
    /\ NoDuplicateDeployment

Pipeline ==
    \A p \in Projects :
        running[p] <= built[p] /\ built[p] <= tree[p] /\ tree[p] <= head[p]

JobInv == TypeOK /\ Started /\ MutexHeld /\ Rows /\ Remembered /\ Pipeline

Places == HasSlot \cup {"none", "queued", "dropped", "done"}
RowStates == {"none", "deploying", "success", "failed"}
Shown == {"created", "deploying", "running", "error"}

LEMMA JobTypes ==
    /\ Jobs \subseteq Nat /\ Commits \subseteq Nat /\ 0 \in Commits
    /\ 0 \in 0 .. MaxFaults /\ 0 \in 0 .. MaxJobs
BY BoundsAssumption DEF Jobs, Commits

-----------------------------------------------------------------------------
LEMMA JobInit == Init => JobInv
<1> SUFFICES ASSUME Init PROVE JobInv
  OBVIOUS
<1>1. TypeOK
  <2>1. PICK q \in Projects : q = CHOOSE p \in Projects : TRUE
    BY ProjectsAssumption
  <2>2. proj \in [Jobs -> Projects]
    BY <2>1 DEF Init
  <2>3. /\ head \in [Projects -> Commits] /\ tree \in [Projects -> Commits]
        /\ built \in [Projects -> Commits] /\ running \in [Projects -> Commits]
        /\ commit \in [Jobs -> Commits] /\ before \in [Jobs -> Commits]
    BY JobTypes DEF Init
  <2>4. /\ known \subseteq Projects /\ closing \in BOOLEAN
        /\ jobs \in 0 .. MaxJobs /\ faults \in 0 .. MaxFaults /\ killed \subseteq Jobs
        /\ seen \subseteq Projects \X Commits /\ forgotten \subseteq Projects \X Commits
    BY JobTypes DEF Init
  <2>5. /\ pc \in [Jobs -> Places] /\ status \in [Jobs -> RowStates]
        /\ mutex \in [Projects -> Jobs \cup {NoJob}] /\ shown \in [Projects -> Shown]
    BY DEF Init, Places, RowStates, Shown
  <2> QED
    BY <2>2, <2>3, <2>4, <2>5 DEF TypeOK, Places, RowStates, Shown
<1>2. Started /\ MutexHeld /\ Rows
  BY DEF Init, Started, MutexHeld, Rows, Active
<1>3. Remembered
  BY DEF Init, Remembered, NoDuplicateDeployment
<1>4. Pipeline
  BY DEF Init, Pipeline
<1> QED
  BY <1>1, <1>2, <1>3, <1>4 DEF JobInv

-----------------------------------------------------------------------------
(* What a write of job j leaves, whether it succeeds or not: only j's row  *)
(* and its project's status change, and a failed write is remembered.      *)
Writes(j, s, q) ==
    /\ \E r \in RowStates : status' = [status EXCEPT ![j] = r]
    /\ \E t \in Shown : shown' = [shown EXCEPT ![proj[j]] = t]
    /\ killed' = killed \/ killed' = killed \cup {j}
    /\ status'[j] = "deploying" => s = "deploying" \/ j \in killed'
    /\ shown'[proj[j]] = "deploying" => q = "deploying" \/ j \in killed'
    /\ faults' \in 0 .. MaxFaults

LEMMA WriteDoes ==
    ASSUME TypeOK, NEW j \in Jobs, NEW s \in RowStates, NEW q \in Shown, Write(j, s, q)
    PROVE  Writes(j, s, q)
<1> DEFINE row == IF s # "deploying" /\ status[j] = "none" THEN status
                  ELSE [status EXCEPT ![j] = s]
           project == [shown EXCEPT ![proj[j]] = q]
<1>1. /\ status \in [Jobs -> RowStates] /\ shown \in [Projects -> Shown]
      /\ proj[j] \in Projects /\ faults \in 0 .. MaxFaults
  BY DEF TypeOK, RowStates, Shown
<1>2. /\ status' \in {status, row} /\ shown' \in {shown, project}
      /\ \/ status' = row /\ shown' = project /\ UNCHANGED <<faults, killed>>
         \/ /\ faults < MaxFaults /\ faults' = faults + 1
            /\ killed' = killed \cup {j}
  BY DEF Write
<1>3. \E r \in RowStates : status' = [status EXCEPT ![j] = r]
  <2>1. status = [status EXCEPT ![j] = status[j]] /\ status[j] \in RowStates
    BY <1>1
  <2> QED
    BY <1>2, <2>1
<1>4. \E t \in Shown : shown' = [shown EXCEPT ![proj[j]] = t]
  <2>1. shown = [shown EXCEPT ![proj[j]] = shown[proj[j]]] /\ shown[proj[j]] \in Shown
    BY <1>1
  <2> QED
    BY <1>2, <2>1
<1>5. faults' \in 0 .. MaxFaults
  BY <1>1, <1>2, BoundsAssumption
<1>6. CASE status' = row /\ shown' = project /\ UNCHANGED <<faults, killed>>
  <2>1. row[j] = "deploying" => s = "deploying"
    BY <1>1
  <2>2. project[proj[j]] = q
    BY <1>1
  <2> QED
    BY <1>3, <1>4, <1>5, <1>6, <2>1, <2>2 DEF Writes
<1>7. CASE killed' = killed \cup {j}
  BY <1>3, <1>4, <1>5, <1>7 DEF Writes
<1> QED
  BY <1>2, <1>6, <1>7

(* The steps of a job at work: it goes on, or it ends. *)
Goes(j) ==
    /\ \E step \in Active : pc' = [pc EXCEPT ![j] = step]
    /\ UNCHANGED <<status, shown, mutex, faults, killed>>
Ends(j) ==
    /\ pc' = [pc EXCEPT ![j] = "done"]
    /\ mutex' = [mutex EXCEPT ![proj[j]] = NoJob]
    /\ \E s \in {"success", "failed"}, q \in {"running", "error"} : Writes(j, s, q)

Works(j) == Pull(j) \/ Build(j) \/ Up(j) \/ Health(j) \/ Rollback(j)

LEMMA FinishEnds ==
    ASSUME TypeOK, NEW j \in Jobs, NEW s \in {"success", "failed"}, Finish(j, s)
    PROVE  Ends(j)
<1>1. PICK q \in {"running", "error"} : Write(j, s, q)
  BY DEF Finish
<1>2. Writes(j, s, q)
  BY <1>1, WriteDoes DEF RowStates, Shown
<1> QED
  BY <1>2 DEF Finish, Ends

LEMMA GotoGoes ==
    ASSUME NEW j \in Jobs, NEW step \in Active, Goto(j, step)
    PROVE  Goes(j)
BY DEF Goto, Goes

LEMMA WorkDoes ==
    ASSUME TypeOK, NEW j \in Jobs, Works(j)
    PROVE  /\ pc[j] \in Active
           /\ Goes(j) \/ Ends(j)
           /\ UNCHANGED <<head, known, seen, closing, jobs, work, forgotten>>
<1>0. /\ {"pull", "build", "up", "health", "rollback"} \subseteq Active
      /\ "success" \in {"success", "failed"} /\ "failed" \in {"success", "failed"}
  BY DEF Active
<1>1. CASE Pull(j)
  BY <1>0, <1>1, FinishEnds, GotoGoes DEF Pull
<1>2. CASE Build(j)
  BY <1>0, <1>2, FinishEnds, GotoGoes DEF Build
<1>3. CASE Up(j)
  BY <1>0, <1>3, FinishEnds, GotoGoes DEF Up
<1>4. CASE Health(j)
  BY <1>0, <1>4, FinishEnds, GotoGoes DEF Health
<1>5. CASE Rollback(j)
  BY <1>0, <1>5, FinishEnds DEF Rollback
<1> QED
  BY <1>1, <1>2, <1>3, <1>4, <1>5 DEF Works

(* What a job's work does to the checkout, the images and the containers. *)
LEMMA WorkOnDisk ==
    ASSUME TypeOK, NEW j \in Jobs, Works(j)
    PROVE  \/ UNCHANGED disk
           \/ tree' = [tree EXCEPT ![proj[j]] = head[proj[j]]] /\ UNCHANGED <<built, running>>
           \/ built' = [built EXCEPT ![proj[j]] = tree[proj[j]]] /\ UNCHANGED <<tree, running>>
           \/ running' = [running EXCEPT ![proj[j]] = built[proj[j]]] /\ UNCHANGED <<tree, built>>
BY DEF Works, Pull, Build, Up, Health, Rollback, UpImages, Pulled, disk

LEMMA Splits ==
    ASSUME [Next]_vars
    PROVE  \/ UNCHANGED vars
           \/ \E p \in Projects :
                 Push(p) \/ Register(p) \/ Manual(p) \/ \E c \in Commits : Deliver(p, c)
           \/ \E d \in seen : Forget(d)
           \/ \E j \in Jobs : TakeSlot(j) \/ Begin(j) \/ Works(j)
           \/ Shutdown \/ Exit \/ Kill
BY DEF Next, JobStep, Works

-----------------------------------------------------------------------------
LEMMA WritesTypes ==
    ASSUME TypeOK, NEW j \in Jobs, NEW s \in RowStates, NEW q \in Shown, Writes(j, s, q)
    PROVE  /\ status' \in [Jobs -> RowStates] /\ shown' \in [Projects -> Shown]
           /\ killed' \subseteq Jobs /\ faults' \in 0 .. MaxFaults
BY DEF Writes, TypeOK, RowStates, Shown

LEMMA TypeStep == TypeOK /\ [Next]_vars => TypeOK'
<1> SUFFICES ASSUME TypeOK, [Next]_vars PROVE TypeOK'
  OBVIOUS
<1> USE DEF Places, RowStates, Shown
<1>1. CASE UNCHANGED vars
  BY <1>1 DEF TypeOK, vars, work, disk
<1>2. ASSUME NEW p \in Projects, Push(p)
      PROVE  TypeOK'
  <2>1. head' \in [Projects -> Commits]
    BY <1>2, BoundsAssumption DEF Push, TypeOK, Commits
  <2> QED
    BY <1>2, <2>1 DEF TypeOK, Push, work, disk
<1>3. ASSUME NEW p \in Projects, Register(p)
      PROVE  TypeOK'
  BY <1>3 DEF TypeOK, Register, work, disk
<1>4. ASSUME NEW p \in Projects, NEW c \in Commits, Start(p, c)
      PROVE  /\ jobs' \in 0 .. MaxJobs /\ proj' \in [Jobs -> Projects]
             /\ commit' \in [Jobs -> Commits] /\ pc' \in [Jobs -> Places]
             /\ UNCHANGED <<status, before>>
  <2>1. jobs + 1 \in Jobs /\ jobs + 1 \in 0 .. MaxJobs
    BY <1>4, BoundsAssumption DEF Start, TypeOK, Jobs
  <2> QED
    BY <1>4, <2>1 DEF Start, TypeOK
<1>5. ASSUME NEW p \in Projects, Manual(p)
      PROVE  TypeOK'
  BY <1>5, <1>4, JobTypes DEF TypeOK, Manual, work, disk
<1>6. ASSUME NEW p \in Projects, NEW c \in Commits, Deliver(p, c)
      PROVE  TypeOK'
  <2>1. seen' \subseteq Projects \X Commits
    BY <1>6 DEF Deliver, TypeOK
  <2>2. CASE Start(p, c)
    BY <1>6, <1>4, <2>1, <2>2 DEF TypeOK, Deliver, disk
  <2>3. CASE UNCHANGED <<jobs, pc, status, work>>
    BY <1>6, <2>1, <2>3 DEF TypeOK, Deliver, work, disk
  <2> QED
    BY <1>6, <2>2, <2>3 DEF Deliver
<1>7. ASSUME NEW d \in seen, Forget(d)
      PROVE  TypeOK'
  BY <1>7 DEF TypeOK, Forget, work, disk
<1>8. ASSUME NEW j \in Jobs, TakeSlot(j)
      PROVE  TypeOK'
  <2>1. pc' \in [Jobs -> Places]
    BY <1>8 DEF TakeSlot, TypeOK, HasSlot
  <2> QED
    BY <1>8, <2>1 DEF TypeOK, TakeSlot, work, disk
<1>9. ASSUME NEW j \in Jobs, Begin(j)
      PROVE  TypeOK'
  <2>1. Writes(j, "deploying", "deploying")
    BY <1>9, WriteDoes DEF Begin
  <2>2. pc' \in [Jobs -> Places] /\ mutex' \in [Projects -> Jobs \cup {NoJob}]
    BY <1>9 DEF Begin, TypeOK, HasSlot, Active
  <2>3. before' \in [Jobs -> Commits]
    BY <1>9, JobTypes DEF Begin, Captured, TypeOK
  <2>4. /\ status' \in [Jobs -> RowStates] /\ shown' \in [Projects -> Shown]
        /\ killed' \subseteq Jobs /\ faults' \in 0 .. MaxFaults
    BY <2>1, WritesTypes
  <2> QED
    BY <1>9, <2>2, <2>3, <2>4 DEF TypeOK, Begin, disk
<1>10. ASSUME NEW j \in Jobs, Works(j)
       PROVE  TypeOK'
  <2>1. /\ Goes(j) \/ Ends(j)
        /\ UNCHANGED <<head, known, seen, closing, jobs, work, forgotten>>
    BY <1>10, WorkDoes
  <2>2. /\ tree' \in [Projects -> Commits] /\ built' \in [Projects -> Commits]
        /\ running' \in [Projects -> Commits]
    BY <1>10, WorkOnDisk DEF TypeOK, disk
  <2>3. CASE Goes(j)
    <3>1. pc' \in [Jobs -> Places]
      BY <2>3 DEF Goes, TypeOK, HasSlot
    <3> QED
      BY <2>1, <2>2, <2>3, <3>1 DEF Goes, TypeOK, work
  <2>4. CASE Ends(j)
    <3>1. pc' \in [Jobs -> Places] /\ mutex' \in [Projects -> Jobs \cup {NoJob}]
      BY <2>4 DEF Ends, TypeOK
    <3>2. /\ status' \in [Jobs -> RowStates] /\ shown' \in [Projects -> Shown]
          /\ killed' \subseteq Jobs /\ faults' \in 0 .. MaxFaults
      BY <2>4, WritesTypes DEF Ends
    <3> QED
      BY <2>1, <2>2, <3>1, <3>2 DEF TypeOK, work
  <2> QED
    BY <2>1, <2>3, <2>4
<1>11. CASE Shutdown
  BY <1>11, BoundsAssumption DEF TypeOK, Shutdown, work, disk
<1>12. ASSUME Restart, faults' \in 0 .. MaxFaults, killed' \subseteq Jobs
       PROVE  TypeOK'
  <2>1. pc' \in [Jobs -> Places] /\ mutex' \in [Projects -> Jobs \cup {NoJob}]
    BY <1>12 DEF Restart, TypeOK
  <2> QED
    BY <1>12, <2>1 DEF TypeOK, Restart, work, disk
<1>13. CASE Exit
  <2>1. faults' \in 0 .. MaxFaults /\ killed' \subseteq Jobs
    BY <1>13 DEF Exit, TypeOK
  <2> QED
    BY <1>12, <1>13, <2>1 DEF Exit
<1>14. CASE Kill
  <2>1. faults' \in 0 .. MaxFaults /\ killed' \subseteq Jobs
    BY <1>14, BoundsAssumption DEF Kill, TypeOK
  <2> QED
    BY <1>12, <1>14, <2>1 DEF Kill
<1> QED
  BY <1>1, <1>2, <1>3, <1>5, <1>6, <1>7, <1>8, <1>9, <1>10, <1>11, <1>13, <1>14, Splits

-----------------------------------------------------------------------------
(* Starting a job: it was not started before, so nothing speaks of it yet. *)
LEMMA StartDoes ==
    ASSUME TypeOK, Started, NEW p \in Projects, NEW c \in Commits, Start(p, c)
    PROVE  /\ jobs + 1 \in Jobs /\ jobs' = jobs + 1 /\ jobs \in Nat
           /\ pc[jobs + 1] = "none" /\ jobs + 1 \notin killed
           /\ pc' = [pc EXCEPT ![jobs + 1] = "queued"]
           /\ proj' = [proj EXCEPT ![jobs + 1] = p]
           /\ commit' = [commit EXCEPT ![jobs + 1] = c]
           /\ status' = status
<1>1. jobs + 1 \in Jobs /\ jobs \in Nat
  BY BoundsAssumption DEF Start, TypeOK, Jobs
<1> QED
  BY <1>1 DEF Start, Started

LEMMA StartedStep == TypeOK /\ Started /\ [Next]_vars => Started'
<1> SUFFICES ASSUME TypeOK, Started, [Next]_vars PROVE Started'
  OBVIOUS
<1>0. jobs \in Nat /\ Jobs \subseteq Nat /\ pc \in [Jobs -> Places]
  BY JobTypes DEF TypeOK, Places
<1>1. CASE UNCHANGED <<pc, jobs, killed>>
  BY <1>1 DEF Started
<1>2. ASSUME NEW p \in Projects, NEW c \in Commits, Start(p, c), UNCHANGED killed
      PROVE  Started'
  <2>1. /\ jobs' = jobs + 1 /\ jobs + 1 \in Jobs /\ killed' = killed
        /\ pc' = [pc EXCEPT ![jobs + 1] = "queued"]
    BY <1>2, StartDoes
  <2>2. \A j \in killed : j \in Jobs
    BY DEF TypeOK
  <2>3. \A j \in Jobs : pc'[j] # "none" => j <= jobs'
    <3>1. ASSUME NEW j \in Jobs, pc'[j] # "none" PROVE j <= jobs + 1
      <4>1. CASE j = jobs + 1
        BY <1>0, <4>1
      <4>2. CASE j # jobs + 1
        <5>1. pc[j] # "none" /\ j \in Nat
          BY <1>0, <2>1, <3>1, <4>2
        <5> QED
          BY <1>0, <5>1 DEF Started
      <4> QED
        BY <4>1, <4>2
    <3> QED
      BY <2>1, <3>1
  <2>4. \A j \in killed' : j <= jobs'
    <3>1. ASSUME NEW j \in killed PROVE j <= jobs + 1
      <4>1. j \in Nat /\ j <= jobs
        BY <1>0, <2>2 DEF Started
      <4> QED
        BY <1>0, <4>1
    <3> QED
      BY <2>1, <3>1
  <2> QED
    BY <2>3, <2>4 DEF Started
<1>3. ASSUME NEW j \in Jobs, pc[j] # "none", UNCHANGED jobs,
             \E step \in Places : pc' = [pc EXCEPT ![j] = step],
             killed' = killed \/ killed' = killed \cup {j}
      PROVE  Started'
  BY <1>0, <1>3 DEF Started
<1>4. ASSUME Restart, killed' \subseteq killed \cup {j \in Jobs : pc[j] \in Active}
      PROVE  Started'
  <2>1. /\ UNCHANGED jobs
        /\ \A j \in Jobs : pc'[j] # "none" => pc[j] # "none"
    BY <1>4 DEF Restart, Alive, HasSlot, Active
  <2>2. \A j \in killed' : j \in killed \/ (j \in Jobs /\ pc[j] # "none")
    BY <1>4 DEF Active
  <2> QED
    BY <1>0, <2>1, <2>2 DEF Started
<1>5. ASSUME NEW j \in Jobs, TakeSlot(j)
      PROVE  Started'
  BY <1>3, <1>5 DEF TakeSlot, Places, HasSlot
<1>6. ASSUME NEW j \in Jobs, Begin(j)
      PROVE  Started'
  BY <1>3, <1>6, WriteDoes DEF Begin, Writes, Places, HasSlot, Active, RowStates, Shown
<1>7. ASSUME NEW j \in Jobs, Works(j)
      PROVE  Started'
  <2>1. /\ pc[j] # "none" /\ UNCHANGED jobs
        /\ \E step \in Places : pc' = [pc EXCEPT ![j] = step]
        /\ killed' = killed \/ killed' = killed \cup {j}
    BY <1>7, WorkDoes DEF Goes, Ends, Writes, Places, HasSlot, Active
  <2> QED
    BY <1>3, <2>1
<1>8. CASE Exit \/ Kill
  BY <1>4, <1>8 DEF Exit, Kill
<1>9. ASSUME NEW p \in Projects,
             Push(p) \/ Register(p) \/ Manual(p) \/ \E c \in Commits : Deliver(p, c)
      PROVE  Started'
  BY <1>1, <1>2, <1>9, JobTypes DEF Push, Register, Manual, Deliver
<1> QED
  BY <1>1, <1>5, <1>6, <1>7, <1>8, <1>9, Splits DEF vars, Forget, Shutdown

-----------------------------------------------------------------------------
LEMMA MutexHeldStep ==
    TypeOK /\ Started /\ MutexHeld /\ [Next]_vars => MutexHeld'
<1> SUFFICES ASSUME TypeOK, Started, MutexHeld, [Next]_vars PROVE MutexHeld'
  OBVIOUS
<1>0. /\ pc \in [Jobs -> Places] /\ proj \in [Jobs -> Projects]
      /\ mutex \in [Projects -> Jobs \cup {NoJob}] /\ NoJob \notin Jobs
  BY NoJobAssumption DEF TypeOK, Places
<1>1. CASE UNCHANGED <<pc, proj, mutex>>
  BY <1>1 DEF MutexHeld
<1>2. ASSUME NEW p \in Projects, NEW c \in Commits, Start(p, c), UNCHANGED mutex
      PROVE  MutexHeld'
  <2>1. mutex' = mutex /\ pc[jobs + 1] \notin Active /\ "queued" \notin Active
    BY <1>2, StartDoes DEF Active
  <2> QED
    BY <1>0, <1>2, <2>1, StartDoes DEF MutexHeld
<1>3. ASSUME NEW j \in Jobs, TakeSlot(j)
      PROVE  MutexHeld'
  <2>1. pc[j] \notin Active /\ "waiting" \notin Active /\ "dropped" \notin Active
    BY <1>3 DEF TakeSlot, Active
  <2> QED
    BY <1>0, <1>3, <2>1 DEF MutexHeld, TakeSlot, work
<1>4. ASSUME NEW j \in Jobs, Begin(j)
      PROVE  MutexHeld'
  <2>1. /\ pc' = [pc EXCEPT ![j] = "pull"] /\ mutex' = [mutex EXCEPT ![proj[j]] = j]
        /\ mutex[proj[j]] = NoJob /\ proj' = proj /\ "pull" \in Active
    BY <1>4 DEF Begin, MutexFree, Active
  <2> QED
    BY <1>0, <2>1 DEF MutexHeld
<1>5. ASSUME NEW j \in Jobs, Works(j)
      PROVE  MutexHeld'
  <2>1. pc[j] \in Active /\ (Goes(j) \/ Ends(j)) /\ proj' = proj
    BY <1>5, WorkDoes DEF work
  <2>2. CASE Goes(j)
    BY <1>0, <2>1, <2>2 DEF Goes, MutexHeld
  <2>3. CASE Ends(j)
    <3>1. /\ pc' = [pc EXCEPT ![j] = "done"] /\ mutex' = [mutex EXCEPT ![proj[j]] = NoJob]
          /\ "done" \notin Active
      BY <2>3 DEF Ends, Active
    <3> QED
      BY <1>0, <2>1, <3>1 DEF MutexHeld
  <2> QED
    BY <2>1, <2>2, <2>3
<1>6. CASE Restart
  <2>1. \A j \in Jobs : pc'[j] \notin Active
    BY <1>6 DEF Restart, Alive, HasSlot, Active
  <2>2. \A p \in Projects : mutex'[p] = NoJob
    BY <1>6 DEF Restart
  <2> QED
    BY <2>1, <2>2 DEF MutexHeld
<1>7. ASSUME NEW p \in Projects,
             Push(p) \/ Register(p) \/ Manual(p) \/ \E c \in Commits : Deliver(p, c)
      PROVE  MutexHeld'
  BY <1>1, <1>2, <1>7, JobTypes DEF Push, Register, Manual, Deliver, work
<1> QED
  BY <1>1, <1>3, <1>4, <1>5, <1>6, <1>7, Splits DEF vars, work, Forget, Shutdown, Exit, Kill

-----------------------------------------------------------------------------
LEMMA RowsStep ==
    TypeOK /\ Started /\ MutexHeld /\ Rows /\ [Next]_vars => Rows'
<1> SUFFICES ASSUME TypeOK, Started, MutexHeld, Rows, [Next]_vars PROVE Rows'
  OBVIOUS
<1>0. /\ pc \in [Jobs -> Places] /\ proj \in [Jobs -> Projects]
      /\ status \in [Jobs -> RowStates] /\ shown \in [Projects -> Shown]
      /\ mutex \in [Projects -> Jobs \cup {NoJob}] /\ NoJob \notin Jobs /\ killed \subseteq Jobs
  BY NoJobAssumption DEF TypeOK, Places, RowStates, Shown
<1>1. CASE UNCHANGED <<pc, proj, mutex, status, shown, killed>>
  BY <1>1 DEF Rows
<1>2. ASSUME NEW p \in Projects, NEW c \in Commits, Start(p, c),
             UNCHANGED <<mutex, shown, killed>>
      PROVE  Rows'
  <2>1. pc[jobs + 1] \notin Active /\ jobs + 1 \notin killed
    BY <1>2, StartDoes DEF Active
  <2> QED
    BY <1>0, <1>2, <2>1, StartDoes DEF Rows
<1>3. ASSUME NEW j \in Jobs, TakeSlot(j)
      PROVE  Rows'
  <2>1. pc[j] \notin Active
    BY <1>3 DEF TakeSlot, Active
  <2> QED
    BY <1>0, <1>3, <2>1 DEF Rows, TakeSlot, work
<1>4. ASSUME NEW j \in Jobs, Begin(j)
      PROVE  Rows'
  <2>1. /\ pc' = [pc EXCEPT ![j] = "pull"] /\ mutex' = [mutex EXCEPT ![proj[j]] = j]
        /\ proj' = proj /\ "pull" \in Active
    BY <1>4 DEF Begin, Active
  <2>2. Writes(j, "deploying", "deploying")
    BY <1>4, WriteDoes DEF Begin, RowStates, Shown
  <2> QED
    BY <1>0, <2>1, <2>2 DEF Rows, Writes
<1>5. ASSUME NEW j \in Jobs, Works(j)
      PROVE  Rows'
  <2>1. pc[j] \in Active /\ (Goes(j) \/ Ends(j)) /\ proj' = proj
    BY <1>5, WorkDoes DEF work
  <2>2. CASE Goes(j)
    BY <1>0, <2>1, <2>2 DEF Goes, Rows
  <2>3. CASE Ends(j)
    <3>1. PICK s \in {"success", "failed"}, q \in {"running", "error"} : Writes(j, s, q)
      BY <2>3 DEF Ends
    <3>2. pc' = [pc EXCEPT ![j] = "done"] /\ mutex' = [mutex EXCEPT ![proj[j]] = NoJob]
      BY <2>3 DEF Ends
    <3> QED
      BY <1>0, <2>1, <3>1, <3>2 DEF Rows, Writes
  <2> QED
    BY <2>1, <2>2, <2>3
<1>6. ASSUME Restart, killed \subseteq killed',
             \A j \in Jobs : pc[j] \in Active => j \in killed'
      PROVE  Rows'
  <2>1. UNCHANGED <<status, shown, proj>>
    BY <1>6 DEF Restart, work
  <2> QED
    BY <1>0, <1>6, <2>1 DEF Rows, MutexHeld
<1>7. CASE Exit
  <2>1. \A j \in Jobs : pc[j] \notin Active
    BY <1>7 DEF Exit, Drained, Alive, HasSlot
  <2> QED
    BY <1>6, <1>7, <2>1 DEF Exit
<1>8. CASE Kill
  BY <1>6, <1>8 DEF Kill
<1>9. ASSUME NEW p \in Projects,
             Push(p) \/ Register(p) \/ Manual(p) \/ \E c \in Commits : Deliver(p, c)
      PROVE  Rows'
  BY <1>1, <1>2, <1>9, JobTypes DEF Push, Register, Manual, Deliver, work
<1> QED
  BY <1>1, <1>3, <1>4, <1>5, <1>7, <1>8, <1>9, Splits DEF vars, work, Forget, Shutdown

-----------------------------------------------------------------------------
LEMMA RememberedStep == TypeOK /\ Started /\ Remembered /\ [Next]_vars => Remembered'
<1> SUFFICES ASSUME TypeOK, Started, Remembered, [Next]_vars PROVE Remembered'
  OBVIOUS
<1> USE DEF Remembered, NoDuplicateDeployment
<1>0. jobs \in 0 .. MaxJobs /\ proj \in [Jobs -> Projects] /\ commit \in [Jobs -> Commits]
  BY DEF TypeOK
<1>1. ASSUME UNCHANGED <<jobs, proj, commit>>, forgotten \subseteq forgotten',
             seen \cup forgotten \subseteq seen' \cup forgotten'
      PROVE  Remembered'
  BY <1>1
<1>2. ASSUME NEW p \in Projects, Manual(p)
      PROVE  Remembered'
  <2>1. Start(p, 0) /\ UNCHANGED <<seen, forgotten>>
    BY <1>2 DEF Manual
  <2>2. /\ jobs + 1 \in Jobs /\ jobs' = jobs + 1 /\ jobs \in Nat
        /\ proj' = [proj EXCEPT ![jobs + 1] = p]
        /\ commit' = [commit EXCEPT ![jobs + 1] = 0]
    BY <2>1, StartDoes, JobTypes
  <2>3. \A i \in 1 .. jobs : i \in Jobs /\ proj'[i] = proj[i] /\ commit'[i] = commit[i]
    BY <1>0, <2>2, BoundsAssumption DEF Jobs
  <2>4. commit'[jobs + 1] = 0
    BY <1>0, <2>2
  <2>5. \A i \in 1 .. jobs' : i \in 1 .. jobs \/ i = jobs + 1
    BY <2>2
  <2>6. \A i \in 1 .. jobs' :
           commit'[i] # 0 => <<proj'[i], commit'[i]>> \in seen' \cup forgotten'
    BY <2>1, <2>3, <2>4, <2>5
  <2>7. NoDuplicateDeployment'
    BY <2>1, <2>3, <2>4, <2>5
  <2> QED
    BY <2>6, <2>7
<1>3. ASSUME NEW p \in Projects, NEW c \in Commits, Deliver(p, c)
      PROVE  Remembered'
  <2>1. seen' = seen \cup {<<p, c>>} /\ forgotten' = forgotten /\ <<p, c>> \notin seen
    BY <1>3 DEF Deliver, Seen
  <2>2. CASE Start(p, c)
    <3>1. /\ jobs + 1 \in Jobs /\ jobs' = jobs + 1 /\ jobs \in Nat
          /\ proj' = [proj EXCEPT ![jobs + 1] = p]
          /\ commit' = [commit EXCEPT ![jobs + 1] = c]
      BY <2>2, StartDoes
    <3>2. \A i \in 1 .. jobs : i \in Jobs /\ proj'[i] = proj[i] /\ commit'[i] = commit[i]
      BY <1>0, <3>1, BoundsAssumption DEF Jobs
    <3>3. proj'[jobs + 1] = p /\ commit'[jobs + 1] = c
      BY <1>0, <3>1
    <3>4. \A i \in 1 .. jobs' : i \in 1 .. jobs \/ i = jobs + 1
      BY <3>1
    <3>5. \A i \in 1 .. jobs :
             commit[i] # 0 /\ proj[i] = p /\ commit[i] = c => <<p, c>> \in forgotten
      BY <2>1
    <3>6. \A i \in 1 .. jobs' :
             commit'[i] # 0 => <<proj'[i], commit'[i]>> \in seen' \cup forgotten'
      BY <2>1, <3>2, <3>3, <3>4
    <3>7. NoDuplicateDeployment'
      BY <2>1, <3>2, <3>3, <3>4, <3>5
    <3> QED
      BY <3>6, <3>7
  <2>3. CASE UNCHANGED <<jobs, pc, status, work>>
    BY <1>1, <2>1, <2>3 DEF work
  <2> QED
    BY <1>3, <2>2, <2>3 DEF Deliver
<1>4. ASSUME NEW d \in seen, Forget(d)
      PROVE  Remembered'
  BY <1>1, <1>4 DEF Forget, work
<1>5. ASSUME NEW j \in Jobs, Works(j)
      PROVE  Remembered'
  BY <1>1, <1>5, WorkDoes DEF work
<1>6. ASSUME NEW j \in Jobs, TakeSlot(j) \/ Begin(j)
      PROVE  Remembered'
  BY <1>1, <1>6 DEF TakeSlot, Begin, work
<1>7. CASE Restart
  BY <1>1, <1>7 DEF Restart, work
<1> QED
  BY <1>1, <1>2, <1>3, <1>4, <1>5, <1>6, <1>7, Splits
     DEF vars, work, Push, Register, Shutdown, Exit, Kill

-----------------------------------------------------------------------------
LEMMA PipelineStep ==
    TypeOK /\ Pipeline /\ [Next]_vars =>
        Pipeline' /\ \A p \in Projects : running'[p] >= running[p]
<1> SUFFICES ASSUME TypeOK, Pipeline, [Next]_vars
             PROVE  Pipeline' /\ \A p \in Projects : running'[p] >= running[p]
  OBVIOUS
<1>0. /\ head \in [Projects -> Nat] /\ tree \in [Projects -> Nat]
      /\ built \in [Projects -> Nat] /\ running \in [Projects -> Nat]
      /\ proj \in [Jobs -> Projects]
  BY JobTypes DEF TypeOK
<1>1. CASE UNCHANGED <<head, disk>>
  BY <1>0, <1>1 DEF Pipeline, disk
<1>2. ASSUME NEW p \in Projects, Push(p)
      PROVE  Pipeline' /\ \A q \in Projects : running'[q] >= running[q]
  BY <1>0, <1>2 DEF Pipeline, Push, disk
<1>3. ASSUME NEW j \in Jobs, Works(j)
      PROVE  Pipeline' /\ \A q \in Projects : running'[q] >= running[q]
  <2>1. head' = head
    BY <1>3, WorkDoes
  <2> QED
    BY <1>0, <1>3, <2>1, WorkOnDisk DEF Pipeline, disk
<1> QED
  BY <1>1, <1>2, <1>3, Splits
     DEF vars, Register, Manual, Deliver, Forget, TakeSlot, Begin, Shutdown, Exit, Kill, Restart

LEMMA JobAlways == Spec => []JobInv
<1>1. JobInv /\ [Next]_vars => JobInv'
  BY TypeStep, StartedStep, MutexHeldStep, RowsStep, RememberedStep, PipelineStep DEF JobInv
<1> QED
  BY <1>1, JobInit, PTL DEF Spec

-----------------------------------------------------------------------------
(* A delivery repeated by GitHub starts one job only, unless the dedup     *)
(* window forgot it.                                                       *)
THEOREM DeliveriesStartOneJob == Spec => []NoDuplicateDeployment
<1>1. JobInv => NoDuplicateDeployment
  BY DEF JobInv, Remembered
<1> QED
  BY <1>1, JobAlways, PTL

(* Whatever ends, fails or is killed: no row and no project is left saying *)
(* deploying, but by a kill or a failed write.                             *)
THEOREM RowsAlwaysSettle == Spec => []RowsSettle
<1>1. JobInv => RowsSettle
  BY DEF JobInv, Rows, RowsSettle
<1> QED
  BY <1>1, JobAlways, PTL

(* The semaphore and the mutexes never block all jobs: with no job at work *)
(* no mutex is held, and with no job waiting either, every slot is free.   *)
THEOREM JobsNeverDeadlock == Spec => []SomeJobCanMove
<1>1. JobInv => SomeJobCanMove
  <2> SUFFICES ASSUME JobInv, NEW i \in Alive, \A j \in Jobs : pc[j] \notin Active,
                      \A j \in Jobs : ~(pc[j] = "waiting" /\ mutex[proj[j]] = NoJob)
               PROVE  pc[i] = "queued" /\ Cardinality(InSlot) < Slots
    BY DEF SomeJobCanMove, Alive, HasSlot, Active
  <2>1. TypeOK /\ MutexHeld
    BY DEF JobInv
  <2>2. \A p \in Projects : mutex[p] = NoJob
    BY <2>1 DEF TypeOK, MutexHeld
  <2>3. \A j \in Jobs : pc[j] \notin HasSlot
    BY <2>1, <2>2 DEF TypeOK, HasSlot
  <2>4. InSlot = {}
    BY <2>3 DEF InSlot
  <2>5. Cardinality(InSlot) = 0
    BY <2>4, FS_EmptySet
  <2> QED
    BY <2>3, <2>5, BoundsAssumption DEF Alive
<1> QED
  BY <1>1, JobAlways, PTL

(* No deployment, rollback or race of them brings older code back.         *)
THEOREM CodeNeverGetsOlder == Spec => NeverOlder
<1>1. JobInv /\ [Next]_vars => [\A p \in Projects : running'[p] >= running[p]]_vars
  BY PipelineStep DEF JobInv
<1> QED
  BY <1>1, JobAlways, PTL DEF Spec, NeverOlder
=============================================================================
