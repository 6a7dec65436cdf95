----------------------- MODULE ProjectLifecycleProofs -----------------------
(***************************************************************************)
(* Proofs about the commands and handlers that make, change and remove a   *)
(* project, for any number of processes, commands and faults.              *)
(***************************************************************************)
EXTENDS ProjectLifecycle, TLAPS

-----------------------------------------------------------------------------
(* The steps, by the kind of command that takes them. *)

Nothing == {None}
WriterStep ==
    [do : {"find", "source", "fresh", "sdir", "scompose", "sdotenv", "smeta",
           "from", "pdir", "fromMeta", "pcompose", "pmeta"}, on : {"stop"}, undo : Nothing]
EnvRemovalStep == [do : {"find", "envdown", "s-", "p-"}, on : {"stop", "go"}, undo : Nothing]
RemovalStep ==
    [do : {"find", "lock", "row-"}, on : {"stop", "go"}, undo : Nothing]
        \cup [do : {"down", "repo-", "dir-", "user-"}, on : {"go"}, undo : Nothing]
CleanStep == [do : {"user-", "dir-", "repo-"}, on : {"go"}, undo : Nothing]
CreateStep ==
    [do : {"user+"}, on : {"stop"}, undo : {"user-"}]
        \cup [do : {"scaffold"}, on : {"stop"}, undo : {"dir-"}]
        \cup [do : {"repo+"}, on : {"stop"}, undo : {"repo-"}]
        \cup [do : {"dotenv", "chown", "push", "row+"}, on : {"stop", "go"}, undo : Nothing]
        \cup [do : {"openDB"}, on : {"exit"}, undo : Nothing]
        \cup CleanStep
ApiCreateStep ==
    [do : {"absent", "scaffold"}, on : {"stop"}, undo : Nothing]
        \cup [do : {"row+"}, on : {"clean"}, undo : Nothing]
        \cup [do : {"dir-"}, on : {"go"}, undo : Nothing]
RegisterStep ==
    [do : {"stat"}, on : {"stop"}, undo : Nothing]
        \cup [do : {"row+", "count", "settle", "unmanaged", "scan", "row+scanned"},
              on : {"stop", "go", "blind"}, undo : Nothing]
PlainStep ==
    [do : {"find", "lock", "edge", "up", "healthy", "running", "restart", "down", "stopped",
           "orphan", "count", "reconcile", "rewrite", "write", "error"},
     on : {"stop", "go", "mark"}, undo : Nothing]

StepsOf(c) ==
    CASE c \in EnvWriters -> WriterStep
      [] c \in EnvRemovals -> EnvRemovalStep
      [] c \in Removals -> RemovalStep
      [] c \in Locals -> CreateStep
      [] c = "apiCreate" -> ApiCreateStep
      [] c \in Imports -> RegisterStep
      [] OTHER -> PlainStep
UndosOf(c) == IF c \in Locals THEN Seq(CleanStep) ELSE {<<>>}

Row == [status : Statuses \cup {None}, repo : BOOLEAN, domain : {0, 1}]
JobType(c) ==
    [cmd : {c}, todo : Seq(StepsOf(c)), undo : UndosOf(c), seen : Row, count : BOOLEAN,
     alone : BOOLEAN, ok : BOOLEAN, clean : BOOLEAN, before : SUBSET Things, half : SUBSET Things]

HostTypes ==
    /\ have \subseteq Things /\ mutex \in Processes \cup {None} /\ row \in Row
    /\ started \in 0..MaxCommands /\ faults \in 0..MaxFaults
    /\ tainted \in BOOLEAN /\ broken \in BOOLEAN /\ crossed \in BOOLEAN
JobTypes ==
    /\ job = [p \in Processes |-> job[p]]
    /\ \A p \in Processes :
          /\ job[p].cmd \in Commands \cup {None} /\ job[p] \in JobType(job[p].cmd)
          /\ job[p].cmd = None => job[p].todo = <<>> /\ job[p].undo = <<>>
TypeInv == HostTypes /\ JobTypes

-----------------------------------------------------------------------------
(* Plans as sequences. *)

(* Every step that does something in A comes after one that does something *)
(* in B.                                                                   *)
Precede(q, A, B) == \A i \in DOMAIN q : q[i].do \in A => \E j \in 1..(i - 1) : q[j].do \in B

LEMMA TailIs ==
    ASSUME NEW T, NEW q \in Seq(T), q # <<>>
    PROVE  /\ Head(q) = q[1] /\ q[1] \in T /\ Tail(q) \in Seq(T)
           /\ Len(q) \in Nat /\ Len(q) > 0 /\ DOMAIN q = 1..Len(q)
           /\ Len(Tail(q)) = Len(q) - 1 /\ DOMAIN Tail(q) = 1..(Len(q) - 1)
           /\ \A i \in 1..(Len(q) - 1) : Tail(q)[i] = q[i + 1]
OBVIOUS

LEMMA JoinIs ==
    ASSUME NEW T, NEW q \in Seq(T), NEW r \in Seq(T)
    PROVE  /\ q \o r \in Seq(T) /\ Len(q) \in Nat /\ Len(r) \in Nat
           /\ DOMAIN (q \o r) = 1..(Len(q) + Len(r)) /\ DOMAIN q = 1..Len(q) /\ DOMAIN r = 1..Len(r)
           /\ \A i \in 1..Len(q) : (q \o r)[i] = q[i]
           /\ \A i \in 1..Len(r) : (q \o r)[Len(q) + i] = r[i]
OBVIOUS

LEMMA WiderSeq ==
    ASSUME NEW T, NEW W, T \subseteq W, NEW q \in Seq(T)
    PROVE  q \in Seq(W)
OBVIOUS

LEMMA PrecedeTail ==
    ASSUME NEW T, NEW q \in Seq(T), q # <<>>, NEW A, NEW B, Precede(q, A, B)
    PROVE  /\ Head(q).do \notin A
           /\ Head(q).do \in B \/ Precede(Tail(q), A, B)
<1>1. /\ Head(q) = q[1] /\ DOMAIN q = 1..Len(q) /\ Len(q) \in Nat /\ Len(q) > 0
      /\ DOMAIN Tail(q) = 1..(Len(q) - 1)
      /\ \A i \in 1..(Len(q) - 1) : Tail(q)[i] = q[i + 1]
  BY TailIs
<1>2. Head(q).do \notin A
  BY <1>1 DEF Precede
<1>3. ASSUME Head(q).do \notin B, NEW i \in 1..(Len(q) - 1), Tail(q)[i].do \in A
      PROVE  \E j \in 1..(i - 1) : Tail(q)[j].do \in B
  <2>1. i + 1 \in DOMAIN q /\ q[i + 1].do \in A
    BY <1>1, <1>3
  <2>2. PICK j \in 1..i : q[j].do \in B
    BY <2>1 DEF Precede
  <2>3. j # 1 /\ j - 1 \in 1..(i - 1) /\ Tail(q)[j - 1] = q[j]
    BY <1>1, <1>3, <2>2
  <2> QED
    BY <2>2, <2>3
<1> QED
  BY <1>1, <1>2, <1>3 DEF Precede

LEMMA PrecedeJoin ==
    ASSUME NEW T, NEW q \in Seq(T), NEW r \in Seq(T), NEW A, NEW B, Precede(q, A, B),
           Precede(r, A, B) \/ \E i \in DOMAIN q : q[i].do \in B
    PROVE  Precede(q \o r, A, B)
<1>1. /\ Len(q) \in Nat /\ Len(r) \in Nat
      /\ DOMAIN (q \o r) = 1..(Len(q) + Len(r)) /\ DOMAIN q = 1..Len(q) /\ DOMAIN r = 1..Len(r)
      /\ \A i \in 1..Len(q) : (q \o r)[i] = q[i]
      /\ \A i \in 1..Len(r) : (q \o r)[Len(q) + i] = r[i]
  BY JoinIs
<1> DEFINE both == q \o r
<1>2. ASSUME NEW i \in 1..Len(q), both[i].do \in A
      PROVE  \E j \in 1..(i - 1) : both[j].do \in B
  <2>1. PICK j \in 1..(i - 1) : q[j].do \in B
    BY <1>1, <1>2 DEF Precede
  <2> QED
    BY <1>1, <2>1
<1>3. ASSUME NEW k \in 1..Len(r), both[Len(q) + k].do \in A
      PROVE  \E j \in 1..(Len(q) + k - 1) : both[j].do \in B
  <2>1. CASE \E j \in DOMAIN q : q[j].do \in B
    BY <1>1, <2>1
  <2>2. CASE Precede(r, A, B)
    <3>1. PICK j \in 1..(k - 1) : r[j].do \in B
      BY <1>1, <1>3, <2>2 DEF Precede
    <3>2. Len(q) + j \in 1..(Len(q) + k - 1) /\ both[Len(q) + j] = r[j]
      BY <1>1, <3>1
    <3> QED
      BY <3>1, <3>2
  <2> QED
    BY <2>1, <2>2
<1>4. ASSUME NEW i \in 1..(Len(q) + Len(r)), both[i].do \in A
      PROVE  \E j \in 1..(i - 1) : both[j].do \in B
  <2>1. CASE i \in 1..Len(q)
    BY <1>2, <1>4, <2>1
  <2>2. CASE i \notin 1..Len(q)
    <3>1. i - Len(q) \in 1..Len(r) /\ i = Len(q) + (i - Len(q))
      BY <1>1, <2>2
    <3>2. PICK k \in 1..Len(r) : i = Len(q) + k
      BY <3>1
    <3> QED
      BY <1>3, <1>4, <3>2
  <2> QED
    BY <2>1, <2>2
<1> QED
  BY <1>1, <1>4 DEF Precede

-----------------------------------------------------------------------------
(* The plan of every command is made of the steps of its kind. *)

LEMMA StepIs ==
    ASSUME NEW do, NEW on, NEW undo
    PROVE  /\ S(do, on) = [do |-> do, on |-> on, undo |-> None]
           /\ S(do, on).do = do /\ S(do, on).on = on /\ S(do, on).undo = None
           /\ U(do, undo) = [do |-> do, on |-> "stop", undo |-> undo]
           /\ U(do, undo).do = do /\ U(do, undo).on = "stop" /\ U(do, undo).undo = undo
BY DEF S, U

LEMMA NoSteps == ASSUME NEW T PROVE <<>> \in Seq(T)
OBVIOUS

LEMMA CreatePlans ==
    ASSUME NEW github \in BOOLEAN
    PROVE  createCmd(github) \in Seq(CreateStep)
<1>1. <<U("user+", "user-"), U("scaffold", "dir-"), S("dotenv", "stop"), S("chown", "stop")>>
        \in Seq(CreateStep)
  BY StepIs DEF CreateStep, Nothing
<1>2. <<U("repo+", "repo-"), S("push", "go")>> \in Seq(CreateStep)
  BY StepIs DEF CreateStep, Nothing
<1>3. <<S("openDB", "exit"), S("row+", "stop")>> \in Seq(CreateStep)
  BY StepIs DEF CreateStep, Nothing
<1> QED
  BY <1>1, <1>2, <1>3, NoSteps, JoinIs DEF createCmd

LEMMA RemovalPlans ==
    ASSUME NEW keep \in BOOLEAN
    PROVE  destroyCmd(keep) \in Seq(RemovalStep) /\ handleDeleteProject(keep) \in Seq(RemovalStep)
<1>a. /\ \A on \in {"stop", "go"} : \A do \in {"find", "lock", "row-"} : S(do, on) \in RemovalStep
      /\ \A do \in {"down", "repo-", "dir-", "user-"} : S(do, "go") \in RemovalStep
  BY StepIs DEF RemovalStep, Nothing
<1>1. /\ <<S("find", "stop"), S("down", "go"), S("repo-", "go")>> \in Seq(RemovalStep)
      /\ <<S("dir-", "go"), S("user-", "go")>> \in Seq(RemovalStep)
      /\ <<S("row-", "go")>> \in Seq(RemovalStep)
  BY <1>a
<1>2. /\ <<S("find", "stop"), S("lock", "stop"), S("down", "go")>> \in Seq(RemovalStep)
      /\ <<S("dir-", "go")>> \in Seq(RemovalStep)
      /\ <<S("row-", "stop")>> \in Seq(RemovalStep)
  BY <1>a
<1>3. destroyCmd(keep) \in Seq(RemovalStep)
  BY <1>1, NoSteps, JoinIs DEF destroyCmd
<1>4. handleDeleteProject(keep) \in Seq(RemovalStep)
  BY <1>2, NoSteps, JoinIs DEF handleDeleteProject
<1> QED
  BY <1>3, <1>4

LEMMA WriterPlans ==
    /\ Create \in Seq(WriterStep) /\ Promote \in Seq(WriterStep)
    /\ <<S("find", "stop")>> \in Seq(WriterStep)
    /\ handleCreateEnvironment \in Seq(WriterStep) /\ handlePromoteEnvironment \in Seq(WriterStep)
<1>1. Create \in Seq(WriterStep)
  BY StepIs DEF Create, WriterStep, Nothing
<1>2. Promote \in Seq(WriterStep)
  BY StepIs DEF Promote, WriterStep, Nothing
<1>3. <<S("find", "stop")>> \in Seq(WriterStep)
  BY StepIs DEF WriterStep, Nothing
<1> QED
  BY <1>1, <1>2, <1>3, JoinIs DEF handleCreateEnvironment, handlePromoteEnvironment

LEMMA EnvRemovalPlans ==
    Delete("staging") \in Seq(EnvRemovalStep) /\ handleDeleteEnvironment("production") \in Seq(EnvRemovalStep)
<1>1. /\ Delete("staging") \in Seq(EnvRemovalStep) /\ Delete("production") \in Seq(EnvRemovalStep)
      /\ <<S("find", "stop")>> \in Seq(EnvRemovalStep)
  BY StepIs DEF Delete, EnvRemovalStep, Nothing
<1> QED
  BY <1>1, JoinIs DEF handleDeleteEnvironment

LEMMA RegisterPlans ==
    /\ importCmd \in Seq(RegisterStep) /\ discoverImportCmd \in Seq(RegisterStep)
    /\ handleDiscoverImport \in Seq(RegisterStep)
<1>1. importCmd \in Seq(RegisterStep) /\ handleDiscoverImport \in Seq(RegisterStep)
  BY StepIs DEF importCmd, handleDiscoverImport, RegisterStep, Nothing
<1>2. DiscoverAll \in Seq(RegisterStep) /\ <<S("row+scanned", "go")>> \in Seq(RegisterStep)
  BY StepIs DEF DiscoverAll, RegisterStep, Nothing
<1> QED
  BY <1>1, <1>2, JoinIs DEF discoverImportCmd

LEMMA PlainPlans ==
    /\ startCmd \in Seq(PlainStep) /\ stopCmd \in Seq(PlainStep) /\ restartCmd \in Seq(PlainStep)
    /\ syncCmd \in Seq(PlainStep) /\ domainSetCmd \in Seq(PlainStep)
    /\ handleStartProject \in Seq(PlainStep) /\ handleStopProject \in Seq(PlainStep)
    /\ handleRestartProject \in Seq(PlainStep) /\ handleUpdateProjectDomain \in Seq(PlainStep)
<1>1. ASSUME NEW on \in {"stop", "go", "mark"},
             NEW do \in {"find", "lock", "edge", "up", "healthy", "running", "restart", "down",
                        "stopped", "orphan", "count", "reconcile", "rewrite", "write", "error"}
      PROVE  S(do, on) \in PlainStep
  BY StepIs DEF PlainStep, Nothing
<1>2. stopCmd \in Seq(PlainStep) /\ restartCmd \in Seq(PlainStep)
  BY <1>1 DEF stopCmd, restartCmd
<1>3. syncCmd \in Seq(PlainStep) /\ domainSetCmd \in Seq(PlainStep)
  BY <1>1 DEF syncCmd, domainSetCmd
<1>4. handleStopProject \in Seq(PlainStep) /\ handleRestartProject \in Seq(PlainStep)
  BY <1>1 DEF handleStopProject, handleRestartProject
<1>5. handleUpdateProjectDomain \in Seq(PlainStep) /\ <<S("find", "stop")>> \in Seq(PlainStep)
  BY <1>1 DEF handleUpdateProjectDomain
<1>6. ComposeUp("mark") \in Seq(PlainStep) /\ ComposeUp("stop") \in Seq(PlainStep)
  BY <1>1 DEF ComposeUp
<1>7. /\ <<S("healthy", "mark"), S("running", "go")>> \in Seq(PlainStep)
      /\ <<S("find", "stop"), S("lock", "stop")>> \in Seq(PlainStep)
      /\ <<S("running", "go")>> \in Seq(PlainStep)
  BY <1>1
<1>8. startCmd \in Seq(PlainStep)
  BY <1>5, <1>6, <1>7, JoinIs DEF startCmd
<1>9. handleStartProject \in Seq(PlainStep)
  BY <1>6, <1>7, JoinIs DEF handleStartProject
<1> QED
  BY <1>2, <1>3, <1>4, <1>5, <1>8, <1>9

LEMMA PlansAre ==
    /\ Plans["create"] = createCmd(TRUE) /\ Plans["createLocal"] = createCmd(FALSE)
    /\ Plans["destroy"] = destroyCmd(FALSE) /\ Plans["destroyKeep"] = destroyCmd(TRUE)
    /\ Plans["start"] = startCmd /\ Plans["stop"] = stopCmd /\ Plans["restart"] = restartCmd
    /\ Plans["import"] = importCmd /\ Plans["discover"] = discoverImportCmd
    /\ Plans["sync"] = syncCmd /\ Plans["domain"] = domainSetCmd
    /\ Plans["apiCreate"] = handleCreateProject
    /\ Plans["apiDelete"] = handleDeleteProject(FALSE)
    /\ Plans["apiDeleteKeep"] = handleDeleteProject(TRUE)
    /\ Plans["apiStart"] = handleStartProject /\ Plans["apiStop"] = handleStopProject
    /\ Plans["apiRestart"] = handleRestartProject /\ Plans["apiDomain"] = handleUpdateProjectDomain
    /\ Plans["apiImport"] = handleDiscoverImport
    /\ Plans["envCreate"] = Create /\ Plans["envPromote"] = Promote
    /\ Plans["envDelete"] = Delete("staging")
    /\ Plans["apiEnvCreate"] = handleCreateEnvironment
    /\ Plans["apiEnvPromote"] = handlePromoteEnvironment
    /\ Plans["apiEnvDelete"] = handleDeleteEnvironment("production")
BY DEF Plans, envCreateCmd

Plain == {"start", "stop", "restart", "sync", "domain", "apiStart", "apiStop", "apiRestart", "apiDomain"}

LEMMA CommandsAre ==
    Commands = EnvWriters \cup EnvRemovals \cup Removals \cup Locals \cup {"apiCreate"} \cup Imports
                  \cup Plain
BY DEF Commands, Plans, EnvWriters, EnvRemovals, Removals, Locals, Imports, Plain

LEMMA KindsAre ==
    /\ \A c \in EnvWriters : StepsOf(c) = WriterStep /\ UndosOf(c) = {<<>>}
    /\ \A c \in EnvRemovals : StepsOf(c) = EnvRemovalStep /\ UndosOf(c) = {<<>>}
    /\ \A c \in Removals : StepsOf(c) = RemovalStep /\ UndosOf(c) = {<<>>}
    /\ \A c \in Locals : StepsOf(c) = CreateStep /\ UndosOf(c) = Seq(CleanStep)
    /\ StepsOf("apiCreate") = ApiCreateStep /\ UndosOf("apiCreate") = {<<>>}
    /\ \A c \in Imports : StepsOf(c) = RegisterStep /\ UndosOf(c) = {<<>>}
    /\ \A c \in Plain : StepsOf(c) = PlainStep /\ UndosOf(c) = {<<>>}
<1>1. \A c \in EnvRemovals : c \notin EnvWriters \cup Locals
  BY DEF EnvWriters, EnvRemovals, Locals
<1>2. \A c \in Removals : c \notin EnvWriters \cup EnvRemovals \cup Locals
  BY DEF EnvWriters, EnvRemovals, Removals, Locals
<1>3. \A c \in Locals : c \notin EnvWriters \cup EnvRemovals \cup Removals
  BY DEF EnvWriters, EnvRemovals, Removals, Locals
<1>4. "apiCreate" \notin EnvWriters \cup EnvRemovals \cup Removals \cup Locals
  BY DEF EnvWriters, EnvRemovals, Removals, Locals
<1>5. \A c \in Imports : c \notin EnvWriters \cup EnvRemovals \cup Removals \cup Locals \cup {"apiCreate"}
  BY DEF EnvWriters, EnvRemovals, Removals, Locals, Imports
<1>6. \A c \in Plain :
        c \notin EnvWriters \cup EnvRemovals \cup Removals \cup Locals \cup {"apiCreate"} \cup Imports
  BY DEF EnvWriters, EnvRemovals, Removals, Locals, Imports, Plain
<1> QED
  BY <1>1, <1>2, <1>3, <1>4, <1>5, <1>6 DEF StepsOf, UndosOf

LEMMA PlansTyped ==
    ASSUME NEW c \in Commands
    PROVE  Plans[c] \in Seq(StepsOf(c))
<1>1. ASSUME c \in EnvWriters PROVE Plans[c] \in Seq(WriterStep)
  BY <1>1, PlansAre, WriterPlans DEF EnvWriters
<1>2. ASSUME c \in EnvRemovals PROVE Plans[c] \in Seq(EnvRemovalStep)
  BY <1>2, PlansAre, EnvRemovalPlans DEF EnvRemovals
<1>3. ASSUME c \in Removals PROVE Plans[c] \in Seq(RemovalStep)
  BY <1>3, PlansAre, RemovalPlans DEF Removals
<1>4. ASSUME c \in Locals PROVE Plans[c] \in Seq(CreateStep)
  BY <1>4, PlansAre, CreatePlans DEF Locals
<1>5. handleCreateProject \in Seq(ApiCreateStep)
  BY StepIs DEF handleCreateProject, ApiCreateStep, Nothing
<1>6. ASSUME c \in Imports PROVE Plans[c] \in Seq(RegisterStep)
  BY <1>6, PlansAre, RegisterPlans DEF Imports
<1>7. ASSUME c \in Plain PROVE Plans[c] \in Seq(PlainStep)
  BY <1>7, PlansAre, PlainPlans DEF Plain
<1> QED
  BY <1>1, <1>2, <1>3, <1>4, <1>5, <1>6, <1>7, CommandsAre, KindsAre, PlansAre

-----------------------------------------------------------------------------
(* Environments. *)

(* While no environment was removed as one was written, a command that      *)
(* writes one has removers of environments, directories and files apart.    *)
EnvsApart ==
    \A p, q \in Processes :
       p # q /\ Active(p) /\ Active(q) => ~Crosses(job[p].cmd, job[q].cmd)

(* The metadata comes after the compose file, or the compose file is there. *)
EnvsReady ==
    \A p \in Processes : job[p].cmd \in EnvWriters =>
       /\ "scompose" \in have \/ Precede(job[p].todo, {"smeta"}, {"scompose"})
       /\ "pcompose" \in have \/ Precede(job[p].todo, {"pmeta"}, {"pcompose"})

EnvInv == (~crossed => EnvsApart /\ EnvsReady) /\ ListedEnvironmentIsWhole

-----------------------------------------------------------------------------
(* Registered projects and their directories. *)

Registering == {"row+", "row+scanned"}
Removing == {"dir-", "user-"}
Takes(q, A) == \E i \in DOMAIN q : q[i].do \in A
LastOnly(q, A) == \A i \in DOMAIN q : q[i].do \in A => i = Len(q)
FirstOnly(q, A) == \A i \in DOMAIN q : q[i].do \in A => i = 1

(* The checks for the name come first, when there is nothing to clean up.   *)
Checks == {"absent", "user+"}
ChecksFirst ==
    \A p \in Processes : job[p].cmd \in Creations =>
       /\ FirstOnly(job[p].todo, Checks)
       /\ job[p].todo # <<>> /\ Head(job[p].todo).do \in Checks => job[p].undo = <<>>

(* A removal that is not done with a registered project ends with its row.  *)
RemovalsEnd ==
    \A p \in Processes : job[p].cmd \in Removals /\ Registered =>
       job[p].todo # <<>> /\ job[p].todo[Len(job[p].todo)].do = "row-"

(* A creation that made the row has nothing left to do, and one that meets  *)
(* a row is not past its check.                                             *)
CreationsEnd == Registered => \A p \in Processes : ~Writing(p)

(* The row comes last, and not in a cleanup; the directory comes before it, *)
(* and is there by the time that the creation is past its check.            *)
RowsFollow ==
    /\ \A p \in Processes : job[p].cmd \in Creations =>
          /\ LastOnly(job[p].todo, Registering)
          /\ Takes(job[p].todo, Registering) => ~Takes(job[p].todo, Removing)
    /\ \A p \in Processes : job[p].cmd \in Creations \cup Imports =>
          (Maker(p) /\ "dir" \in have) \/ Precede(job[p].todo, Registering, {"scaffold", "stat"})

FilesInv ==
    /\ ~broken => ~Overlap /\ ChecksFirst /\ RemovalsEnd /\ CreationsEnd /\ RowsFollow
    /\ RegisteredHasFiles

-----------------------------------------------------------------------------
(* Creations that fail. *)

Alone(p) == Active(p) /\ job[p].alone
LeftAlone == \A p \in Processes : Alone(p) => \A q \in Processes \ {p} : ~Active(q)

(* The cleanups q remove all of the things, on a host that has here.        *)
Cleaning == {"user-", "dir-", "repo-"}
Covers(q, things, here) ==
    /\ "user" \in things => Takes(q, {"user-"})
    /\ "repo" \in things => Takes(q, {"repo-"})
    /\ things \cap Files # {} => Takes(q, {"dir-"}) \/ (Takes(q, {"user-"}) /\ "user" \in here)
    /\ things \cap {"net", "made", "up"} = {}
(* They remove nothing that was there before, except files.                 *)
Spares(q, before) ==
    /\ Takes(q, {"user-"}) => "user" \notin before
    /\ Takes(q, {"repo-"}) => "repo" \notin before

(* As the plan goes on, the cleanups cover all that it added.               *)
PlanKeeps(todo, undo, before, here) ==
    /\ before \subseteq here /\ ~Takes(todo, Cleaning)
    /\ Covers(undo, here \ before, here) /\ Spares(undo, before)
    /\ \/ todo # <<>> /\ Head(todo).do = "user+"
       \/ Takes(undo, {"user-"}) /\ "user" \in here
(* Once a step has failed, they cover all but what that step left half done: *)
(* they are then what is left to do, except of a process that has exited.   *)
CleanupKeeps(todo, before, half, here) ==
    /\ todo \in Seq(CleanStep) /\ before \subseteq here \cup Files
    /\ Covers(todo, (here \ before) \ half, here) /\ Spares(todo, before)

CreationInv ==
    /\ LeftAlone
    /\ \A p \in Processes : Alone(p) /\ job[p].cmd \in Locals =>
          /\ job[p].ok =>
                job[p].half = {} /\ PlanKeeps(job[p].todo, job[p].undo, job[p].before, have)
          /\ ~job[p].ok /\ job[p].clean =>
                (job[p].todo = <<>> /\ job[p].undo # <<>>)
                \/ CleanupKeeps(job[p].todo, job[p].before, job[p].half, have)

-----------------------------------------------------------------------------
(* What the steps do to the jobs. *)

Advance(c, s) ==
    [c EXCEPT !.todo = IF s.do = "orphan" /\ "dir" \notin have THEN <<>> ELSE Tail(@),
              !.undo = IF s.undo = None THEN @ ELSE <<S(s.undo, "go")>> \o @,
              !.seen = IF s.do = "find" THEN row ELSE @,
              !.count = IF s.do \in {"count", "scan"} THEN "up" \in have ELSE @]

LEMMA DoIs ==
    ASSUME TypeInv, NEW p \in Processes, Do(p)
    PROVE  \E c \in JobType(job[p].cmd), s \in StepsOf(job[p].cmd) :
              /\ c = job[p] /\ c.cmd \in Commands /\ c.todo # <<>> /\ s = Head(c.todo)
              /\ Possible(p, s.do) /\ have' = Effect(p, s.do) /\ row' = RowAfter(p, s.do)
              /\ job' = [job EXCEPT ![p] = Advance(c, s)]
              /\ s.do = "lock" => mutex = None
              /\ mutex' = IF s.do = "lock" THEN p ELSE mutex
              /\ broken' = (broken \/ Overlap' \/ (s.do = "user+" /\ Registered))
              /\ UNCHANGED <<started, faults, crossed>>
<1>1. Active(p) /\ job[p].todo # <<>> /\ job[p].cmd \in Commands
  <2>1. Active(p) /\ job[p].todo # <<>>
    BY DEF Do
  <2> QED
    BY <2>1 DEF Active, TypeInv, HostTypes, JobTypes
<1>2. job[p] \in JobType(job[p].cmd)
  BY DEF TypeInv, HostTypes, JobTypes
<1>3. Head(job[p].todo) \in StepsOf(job[p].cmd)
  BY <1>1, <1>2, TailIs DEF JobType
<1>4. PICK c \in JobType(job[p].cmd), s \in StepsOf(job[p].cmd) : c = job[p] /\ s = Head(c.todo)
  BY <1>2, <1>3
<1>5. PICK a, b, d :
        /\ a = IF s.do = "orphan" /\ "dir" \notin have THEN <<>> ELSE Tail(c.todo)
        /\ b = IF s.undo = None THEN c.undo ELSE <<S(s.undo, "go")>> \o c.undo
        /\ d = IF s.do = "find" THEN row ELSE c.seen
  OBVIOUS
<1>6. PICK e : e = IF s.do \in {"count", "scan"} THEN "up" \in have ELSE c.count
  BY Zenon
<1>7. job' = [job EXCEPT ![p].todo = a, ![p].undo = b, ![p].seen = d, ![p].count = e]
  BY <1>4, <1>5, <1>6, Zenon DEF Do
<1>8. Advance(c, s) = [c EXCEPT !.todo = a, !.undo = b, !.seen = d, !.count = e]
  BY <1>5, <1>6, Zenon DEF Advance
<1>9. job' = [job EXCEPT ![p] = [c EXCEPT !.todo = a, !.undo = b, !.seen = d, !.count = e]]
  BY <1>4, <1>7 DEF TypeInv, HostTypes, JobTypes
<1>10. /\ Possible(p, s.do) /\ have' = Effect(p, s.do) /\ row' = RowAfter(p, s.do)
       /\ s.do = "lock" => mutex = None
       /\ mutex' = IF s.do = "lock" THEN p ELSE mutex
       /\ broken' = (broken \/ Overlap' \/ (s.do = "user+" /\ Registered))
       /\ UNCHANGED <<started, faults, crossed>>
  BY <1>4, Zenon DEF Do
<1>11. job' = [job EXCEPT ![p] = Advance(c, s)]
  BY <1>8, <1>9
<1> QED
  BY <1>1, <1>4, <1>10, <1>11, Zenon

LEMMA UndoIs ==
    ASSUME NEW cmd \in Commands, NEW s \in StepsOf(cmd)
    PROVE  /\ cmd \notin Locals => s.undo = None
           /\ cmd \in Locals => s.undo \in {None, "user-", "dir-", "repo-"}
<1>1. \/ cmd \in EnvWriters /\ s \in WriterStep
      \/ cmd \in EnvRemovals /\ s \in EnvRemovalStep
      \/ cmd \in Removals /\ s \in RemovalStep
      \/ cmd \in Locals /\ s \in CreateStep
      \/ cmd = "apiCreate" /\ s \in ApiCreateStep
      \/ cmd \in Imports /\ s \in RegisterStep
      \/ cmd \in Plain /\ s \in PlainStep
  BY CommandsAre, KindsAre
<1>2. s \in CreateStep => s.undo \in {None, "user-", "dir-", "repo-"}
  BY DEF CreateStep, CleanStep, Nothing
<1>3. s \in WriterStep \/ s \in EnvRemovalStep \/ s \in RemovalStep \/ s \in ApiCreateStep
        \/ s \in RegisterStep \/ s \in PlainStep => s.undo = None
  BY DEF WriterStep, EnvRemovalStep, RemovalStep, ApiCreateStep, RegisterStep, PlainStep, Nothing
<1> QED
  BY <1>1, <1>2, <1>3 

LEMMA AdvanceIs ==
    ASSUME TypeInv, NEW cmd \in Commands, NEW c \in JobType(cmd), c.todo # <<>>,
           NEW s, s = Head(c.todo)
    PROVE  /\ Advance(c, s) \in JobType(cmd)
           /\ Advance(c, s).todo = IF s.do = "orphan" /\ "dir" \notin have THEN <<>> ELSE Tail(c.todo)
           /\ Advance(c, s).undo = IF s.undo = None THEN c.undo ELSE <<S(s.undo, "go")>> \o c.undo
           /\ Advance(c, s).seen = IF s.do = "find" THEN row ELSE c.seen
           /\ Advance(c, s).count = IF s.do \in {"count", "scan"} THEN "up" \in have ELSE c.count
           /\ Advance(c, s).alone = c.alone /\ Advance(c, s).ok = c.ok
           /\ Advance(c, s).clean = c.clean /\ Advance(c, s).before = c.before
           /\ Advance(c, s).half = c.half
<1>1. /\ c.todo \in Seq(StepsOf(cmd)) /\ c.undo \in UndosOf(cmd) /\ c.seen \in Row
      /\ c.count \in BOOLEAN
  BY DEF JobType
<1>2. s \in StepsOf(cmd) /\ Tail(c.todo) \in Seq(StepsOf(cmd))
  BY <1>1, TailIs
<1>3. (IF s.undo = None THEN c.undo ELSE <<S(s.undo, "go")>> \o c.undo) \in UndosOf(cmd)
  <2>1. CASE s.undo = None
    BY <1>1, <2>1
  <2>2. CASE s.undo # None
    <3>1. cmd \in Locals /\ s.undo \in {"user-", "dir-", "repo-"}
      BY <1>2, <2>2, UndoIs
    <3>2. UndosOf(cmd) = Seq(CleanStep)
      BY <3>1, KindsAre
    <3>3. S(s.undo, "go") \in CleanStep
      BY <3>1, StepIs DEF CleanStep, Nothing
    <3>4. <<S(s.undo, "go")>> \in Seq(CleanStep)
      BY <3>3
    <3> QED
      BY <1>1, <2>2, <3>2, <3>4, JoinIs
  <2> QED
    BY <2>1, <2>2
<1>4. PICK a \in Seq(StepsOf(cmd)) :
        a = IF s.do = "orphan" /\ "dir" \notin have THEN <<>> ELSE Tail(c.todo)
  BY <1>2, NoSteps
<1>5. PICK b \in UndosOf(cmd) : b = IF s.undo = None THEN c.undo ELSE <<S(s.undo, "go")>> \o c.undo
  BY <1>3
<1>6. PICK d \in Row : d = IF s.do = "find" THEN row ELSE c.seen
  BY <1>1 DEF TypeInv, HostTypes, JobTypes
<1>7. PICK e \in BOOLEAN : e = IF s.do \in {"count", "scan"} THEN "up" \in have ELSE c.count
  <2>1. CASE s.do \in {"count", "scan"}
    <3>1. ("up" \in have) \in BOOLEAN
      OBVIOUS
    <3> QED
      BY <2>1, <3>1, Zenon
  <2>2. CASE s.do \notin {"count", "scan"}
    BY <1>1, <2>2, Zenon
  <2> QED
    BY <2>1, <2>2
<1>8. Advance(c, s) = [c EXCEPT !.todo = a, !.undo = b, !.seen = d, !.count = e]
  BY <1>4, <1>5, <1>6, <1>7, Zenon DEF Advance
<1>9. PICK f : f = Advance(c, s)
  OBVIOUS
<1>10. /\ f \in JobType(cmd) /\ f.todo = a /\ f.undo = b /\ f.seen = d /\ f.count = e
       /\ f.alone = c.alone /\ f.ok = c.ok /\ f.clean = c.clean /\ f.before = c.before
       /\ f.half = c.half
  BY <1>8, <1>9 DEF JobType
<1> QED
  BY <1>4, <1>5, <1>6, <1>7, <1>9, <1>10, Zenon

LEMMA OnIs ==
    ASSUME NEW cmd \in Commands, NEW s \in StepsOf(cmd)
    PROVE  /\ s.on \in {"stop", "go", "mark", "clean", "blind", "exit"}
           /\ s.on = "mark" => cmd \in Plain
           /\ s.on = "exit" => cmd \in Locals /\ s.do = "openDB"
           /\ s.on = "clean" => cmd = "apiCreate" /\ s.do = "row+"
<1>1. \/ cmd \in EnvWriters /\ s \in WriterStep
      \/ cmd \in EnvRemovals /\ s \in EnvRemovalStep
      \/ cmd \in Removals /\ s \in RemovalStep
      \/ cmd \in Locals /\ s \in CreateStep
      \/ cmd = "apiCreate" /\ s \in ApiCreateStep
      \/ cmd \in Imports /\ s \in RegisterStep
      \/ cmd \in Plain /\ s \in PlainStep
  BY CommandsAre, KindsAre
<1>2. s \in CreateStep => s.on \in {"stop", "go"} \/ (s.on = "exit" /\ s.do = "openDB")
  BY DEF CreateStep, CleanStep
<1>3. s \in WriterStep \/ s \in EnvRemovalStep \/ s \in RemovalStep => s.on \in {"stop", "go"}
  BY DEF WriterStep, EnvRemovalStep, RemovalStep
<1>4. s \in ApiCreateStep => s.on \in {"stop", "go"} \/ (s.on = "clean" /\ s.do = "row+")
  BY DEF ApiCreateStep
<1>5. s \in RegisterStep => s.on \in {"stop", "go", "blind"}
  BY DEF RegisterStep
<1>6. s \in PlainStep => s.on \in {"stop", "go", "mark"}
  BY DEF PlainStep
<1> QED
  BY <1>1, <1>2, <1>3, <1>4, <1>5, <1>6

Single(do) == <<S(do, "go")>>

(* A job whose step failed, h being what the step left.                    *)
Fallen(p, c, s, h) ==
    [c EXCEPT !.todo = After(p, s), !.undo = IF s.on = "stop" THEN <<>> ELSE @,
              !.ok = s.on \in {"go", "blind"} /\ @,
              !.clean = @ /\ (s.do \in {"user-", "dir-", "repo-"} => s.on # "go"),
              !.half = IF s.on = "stop" THEN h ELSE @]

LEMMA FallenIs ==
    ASSUME TypeInv, NEW p \in Processes, NEW cmd \in Commands, NEW c \in JobType(cmd), c = job[p],
           c.todo # <<>>, NEW s \in StepsOf(cmd), s = Head(c.todo), NEW h \in SUBSET Things
    PROVE  /\ Fallen(p, c, s, h) \in JobType(cmd)
           /\ s.on \in {"go", "blind"} => Fallen(p, c, s, h).todo = Tail(c.todo)
           /\ s.on = "mark" => Fallen(p, c, s, h).todo = Single("error")
           /\ s.on = "clean" => Fallen(p, c, s, h).todo = Single("dir-")
           /\ s.on = "stop" => Fallen(p, c, s, h).todo = c.undo
           /\ s.on = "exit" => Fallen(p, c, s, h).todo = <<>>
           /\ Fallen(p, c, s, h).undo = IF s.on = "stop" THEN <<>> ELSE c.undo
           /\ Fallen(p, c, s, h).ok <=> s.on \in {"go", "blind"} /\ c.ok
           /\ Fallen(p, c, s, h).clean
                 <=> c.clean /\ (s.do \in {"user-", "dir-", "repo-"} => s.on # "go")
           /\ Fallen(p, c, s, h).half = IF s.on = "stop" THEN h ELSE c.half
           /\ Fallen(p, c, s, h).seen = c.seen /\ Fallen(p, c, s, h).count = c.count
           /\ Fallen(p, c, s, h).alone = c.alone /\ Fallen(p, c, s, h).before = c.before
<1>1. /\ c.todo \in Seq(StepsOf(cmd)) /\ c.undo \in UndosOf(cmd) /\ c.ok \in BOOLEAN
      /\ c.clean \in BOOLEAN /\ c.half \subseteq Things
  BY DEF JobType
<1>2. s \in StepsOf(cmd) /\ Tail(c.todo) \in Seq(StepsOf(cmd))
  BY <1>1, TailIs
<1>3. <<>> \in UndosOf(cmd) /\ c.undo \in Seq(StepsOf(cmd))
  <2>1. CASE cmd \in Locals
    <3>1. UndosOf(cmd) = Seq(CleanStep) /\ StepsOf(cmd) = CreateStep
      BY <2>1, KindsAre
    <3>2. CleanStep \subseteq CreateStep
      BY DEF CreateStep
    <3> QED
      BY <1>1, <3>1, <3>2, WiderSeq, NoSteps
  <2>2. CASE cmd \notin Locals
    BY <1>1, <2>2, NoSteps DEF UndosOf
  <2> QED
    BY <2>1, <2>2
<1>4. s.on = "mark" => <<S("error", "go")>> \in Seq(StepsOf(cmd))
  <2>1. S("error", "go") \in PlainStep
    BY StepIs DEF PlainStep, Nothing
  <2> QED
    BY <1>2, <2>1, OnIs, KindsAre
<1>5. s.on = "clean" => <<S("dir-", "go")>> \in Seq(StepsOf(cmd))
  <2>1. S("dir-", "go") \in ApiCreateStep
    BY StepIs DEF ApiCreateStep, Nothing
  <2> QED
    BY <1>2, <2>1, OnIs, KindsAre
<1> DEFINE todo == CASE s.on \in {"go", "blind"} -> Tail(c.todo)
                     [] s.on = "mark" -> <<S("error", "go")>>
                     [] s.on = "clean" -> <<S("dir-", "go")>>
                     [] s.on = "exit" -> <<>>
                     [] OTHER -> c.undo
<1>6. todo \in Seq(StepsOf(cmd)) /\ todo = After(p, s)
  BY <1>2, <1>3, <1>4, <1>5, NoSteps DEF After
<1>7. PICK a \in Seq(StepsOf(cmd)) : a = todo
  BY <1>6
<1>7a. /\ s.on \in {"go", "blind"} => a = Tail(c.todo)
       /\ s.on = "mark" => a = Single("error")
       /\ s.on = "clean" => a = Single("dir-")
       /\ s.on = "stop" => a = c.undo
       /\ s.on = "exit" => a = <<>>
  BY <1>7 DEF Single
<1>8. PICK b \in UndosOf(cmd) : b = IF s.on = "stop" THEN <<>> ELSE c.undo
  BY <1>1, <1>3
<1>9. PICK ok \in BOOLEAN, clean \in BOOLEAN :
        /\ ok = (s.on \in {"go", "blind"} /\ c.ok)
        /\ clean = (c.clean /\ (s.do \in {"user-", "dir-", "repo-"} => s.on # "go"))
  OBVIOUS
<1>10. PICK k \in SUBSET Things : k = IF s.on = "stop" THEN h ELSE c.half
  BY <1>1
<1>11. Fallen(p, c, s, h) = [c EXCEPT !.todo = a, !.undo = b, !.ok = ok, !.clean = clean, !.half = k]
  <2> HIDE DEF todo
  <2> QED
    BY <1>6, <1>7, <1>8, <1>9, <1>10, Zenon DEF Fallen
<1>12. PICK f : f = Fallen(p, c, s, h)
  OBVIOUS
<1>13. /\ f \in JobType(cmd) /\ f.todo = a /\ f.undo = b /\ f.ok = ok /\ f.clean = clean
       /\ f.half = k /\ f.seen = c.seen /\ f.count = c.count
       /\ f.alone = c.alone /\ f.before = c.before
  BY <1>11, <1>12, ZenonT(60) DEF JobType
<1> QED
  BY <1>7a, <1>8, <1>9, <1>10, <1>12, <1>13

LEMMA FailedIs ==
    ASSUME TypeInv, NEW p \in Processes, NEW c \in JobType(job[p].cmd), NEW s, NEW h,
           c = job[p], Failed(p, s), h = have' \ have
    PROVE  job' = [job EXCEPT ![p] = Fallen(p, c, s, h)]
<1>1. PICK a, b, k :
        /\ a = After(p, s) /\ b = IF s.on = "stop" THEN <<>> ELSE c.undo
        /\ k = IF s.on = "stop" THEN h ELSE c.half
  OBVIOUS
<1>2. PICK ok, clean :
        /\ ok = (s.on \in {"go", "blind"} /\ c.ok)
        /\ clean = (c.clean /\ (s.do \in {"user-", "dir-", "repo-"} => s.on # "go"))
  OBVIOUS
<1>3. job' = [job EXCEPT ![p].todo = a, ![p].undo = b, ![p].ok = ok, ![p].clean = clean, ![p].half = k]
  BY <1>1, <1>2, Zenon DEF Failed
<1>4. Fallen(p, c, s, h) = [c EXCEPT !.todo = a, !.undo = b, !.ok = ok, !.clean = clean, !.half = k]
  BY <1>1, <1>2, Zenon DEF Fallen
<1>5. job' = [job EXCEPT ![p] = [c EXCEPT !.todo = a, !.undo = b, !.ok = ok, !.clean = clean, !.half = k]]
  BY <1>3 DEF TypeInv, HostTypes, JobTypes
<1> QED
  BY <1>4, <1>5

LEMMA HeadIs ==
    ASSUME TypeInv, NEW p \in Processes, Active(p), job[p].todo # <<>>
    PROVE  /\ job[p].cmd \in Commands /\ job[p] \in JobType(job[p].cmd)
           /\ Head(job[p].todo) \in StepsOf(job[p].cmd)
<1>1. job[p].cmd \in Commands /\ job[p] \in JobType(job[p].cmd)
  BY DEF Active, TypeInv, HostTypes, JobTypes
<1>2. job[p].todo \in Seq(StepsOf(job[p].cmd))
  BY <1>1 DEF JobType
<1> QED
  BY <1>1, <1>2, TailIs

LEMMA RefuseIs ==
    ASSUME TypeInv, NEW p \in Processes, Refuse(p)
    PROVE  \E c \in JobType(job[p].cmd), s \in StepsOf(job[p].cmd) :
              /\ c = job[p] /\ c.cmd \in Commands /\ c.todo # <<>> /\ s = Head(c.todo)
              /\ ~Possible(p, s.do)
              /\ job' = [job EXCEPT ![p] = Fallen(p, c, s, {})]
              /\ tainted' \in BOOLEAN
              /\ tainted' <=> tainted \/ (s.do = "count" /\ job[p].cmd = "import")
              /\ UNCHANGED <<have, row, mutex, started, faults, broken, crossed>>
<1>1. Active(p) /\ job[p].todo # <<>>
  BY DEF Refuse
<1>2. PICK c \in JobType(job[p].cmd), s \in StepsOf(job[p].cmd) : c = job[p] /\ s = Head(c.todo)
  BY <1>1, HeadIs
<1>3. /\ ~Possible(p, s.do) /\ Failed(p, s)
      /\ tainted' = (tainted \/ (s.do = "count" /\ job[p].cmd = "import"))
      /\ UNCHANGED <<have, row, mutex, started, faults, broken, crossed>>
  BY <1>2 DEF Refuse
<1>3a. /\ tainted' \in BOOLEAN
       /\ tainted' <=> tainted \/ (s.do = "count" /\ job[p].cmd = "import")
  BY <1>3, Zenon
<1>4. job' = [job EXCEPT ![p] = Fallen(p, c, s, {})]
  BY <1>2, <1>3, FailedIs
<1>5. c.cmd \in Commands /\ c.todo # <<>>
  BY <1>1, <1>2, HeadIs
<1> QED
  BY <1>2, <1>3, <1>3a, <1>4, <1>5

LEMMA FailIs ==
    ASSUME TypeInv, NEW p \in Processes, Fail(p)
    PROVE  \E c \in JobType(job[p].cmd), s \in StepsOf(job[p].cmd) :
              /\ c = job[p] /\ c.cmd \in Commands /\ c.todo # <<>> /\ s = Head(c.todo)
              /\ s.do \notin Reads /\ Possible(p, s.do)
              /\ have' \in {have, Effect(p, s.do), have \cup (Adds(s.do) \cap {"dir", "sdir", "pdir"})}
              /\ job' = [job EXCEPT ![p] = Fallen(p, c, s, have' \ have)]
              /\ faults < MaxFaults /\ faults' = faults + 1 /\ tainted' = TRUE
              /\ broken' \in BOOLEAN /\ (broken' <=> broken \/ job[p].cmd \in Removals)
              /\ UNCHANGED <<row, mutex, started, crossed>>
<1>1. Active(p) /\ job[p].todo # <<>>
  BY DEF Fail
<1>2. PICK c \in JobType(job[p].cmd), s \in StepsOf(job[p].cmd) : c = job[p] /\ s = Head(c.todo)
  BY <1>1, HeadIs
<1>3. /\ s.do \notin Reads /\ Possible(p, s.do) /\ Failed(p, s)
      /\ have' \in {have, Effect(p, s.do), have \cup (Adds(s.do) \cap {"dir", "sdir", "pdir"})}
      /\ faults < MaxFaults /\ faults' = faults + 1 /\ tainted' = TRUE
      /\ broken' \in BOOLEAN /\ (broken' <=> broken \/ job[p].cmd \in Removals)
      /\ UNCHANGED <<row, mutex, started, crossed>>
  BY <1>2 DEF Fail
<1>4. job' = [job EXCEPT ![p] = Fallen(p, c, s, have' \ have)]
  BY <1>2, <1>3, FailedIs
<1>5. c.cmd \in Commands /\ c.todo # <<>>
  BY <1>1, <1>2, HeadIs
<1> QED
  BY <1>2, <1>3, <1>4, <1>5

-----------------------------------------------------------------------------
(* What the steps do to the host. *)

Dropped(do) == IF do = "user-" THEN {"user"} \cup Files ELSE Drops(do)
Added(do) == IF do = "sdotenv" THEN {"sdotenv"} ELSE Adds(do)

LEMMA AddsAreThings == ASSUME NEW do PROVE Added(do) \subseteq Things /\ Adds(do) \subseteq Added(do)
BY DEF Added, Adds, Things, Files, Staging, Production

LEMMA EffectIs ==
    ASSUME TypeInv, NEW p \in Processes, NEW do
    PROVE  /\ Effect(p, do) \subseteq have \cup Added(do) /\ Effect(p, do) \subseteq Things
           /\ have \ Dropped(do) \subseteq Effect(p, do)
           /\ do \in {"dir-", "s-", "p-"} => Effect(p, do) = have \ Drops(do)
           /\ do = "user-" => Effect(p, do) \in {have, have \ Dropped(do)}
           /\ do = "user-" /\ "user" \in have => Effect(p, do) = have \ Dropped(do)
<1>1. have \subseteq Things
  BY DEF TypeInv, HostTypes, JobTypes
<1>2. do \in {"dir-", "s-", "p-", "repo-", "down", "user-"} => Adds(do) = {}
  BY DEF Adds
<1>3. Effect(p, do) \subseteq have \cup Added(do) /\ have \ Dropped(do) \subseteq Effect(p, do)
  BY <1>2 DEF Effect, Added, Dropped
<1>4. do \in {"dir-", "s-", "p-"} => Effect(p, do) = have \ Drops(do)
  BY <1>2 DEF Effect
<1>5. do = "user-" => Effect(p, do) \in {have, have \ Dropped(do)}
  BY DEF Effect, Dropped
<1>6. do = "user-" /\ "user" \in have => Effect(p, do) = have \ Dropped(do)
  BY DEF Effect, Dropped
<1> QED
  BY <1>1, <1>3, <1>4, <1>5, <1>6, AddsAreThings

-----------------------------------------------------------------------------
(* The types. *)

LEMMA JobStays ==
    ASSUME TypeInv, NEW p \in Processes, job[p].cmd \in Commands, NEW d \in JobType(job[p].cmd),
           job' = [job EXCEPT ![p] = d]
    PROVE  /\ JobTypes' /\ job'[p] = d /\ job'[p].cmd = job[p].cmd
           /\ \A q \in Processes \ {p} : job'[q] = job[q]
           /\ \A q \in Processes : job'[q].cmd = job[q].cmd
<1>1. job'[p] = d /\ \A q \in Processes \ {p} : job'[q] = job[q]
  BY DEF TypeInv, JobTypes
<1>2. d.cmd = job[p].cmd
  BY DEF JobType
<1>3. job' = [q \in Processes |-> job'[q]]
  BY DEF TypeInv, JobTypes
<1>4. None \notin Commands
  BY CommandsAre DEF None, EnvWriters, EnvRemovals, Removals, Locals, Imports, Plain
<1> QED
  BY <1>1, <1>2, <1>3, <1>4 DEF TypeInv, JobTypes

LEMMA RowIs ==
    ASSUME TypeInv, NEW p \in Processes, job[p].cmd \in Commands, NEW do
    PROVE  RowAfter(p, do) \in Row
<1>1. /\ row \in Row /\ job[p].seen \in Row /\ job[p].count \in BOOLEAN
      /\ row.status \in Statuses \cup {None} /\ row.repo \in BOOLEAN /\ row.domain \in {0, 1}
      /\ job[p].seen.domain \in {0, 1}
  BY DEF TypeInv, HostTypes, JobTypes, JobType, Row
<1>2. \A st \in Statuses : [row EXCEPT !.status = st] \in Row
  BY <1>1 DEF Row
<1>3. [job[p].seen EXCEPT !.domain = 1 - @] \in Row
  <2>1. 1 - job[p].seen.domain \in {0, 1}
    BY <1>1
  <2> QED
    BY <1>1, <2>1 DEF Row
<1>4. NoRow \in Row
  BY DEF NoRow, Row, None
<1>5. {"running", "stopped", "error", "created"} = Statuses /\ \A b \in BOOLEAN : Says(b) \in Statuses
  BY DEF Statuses, Says
<1>6. CASE do \in {"running", "stopped", "error", "settle", "reconcile", "orphan", "write", "row-"}
  BY <1>1, <1>2, <1>3, <1>4, <1>5, <1>6 DEF RowAfter
<1>7. CASE do \in {"row+", "row+scanned"}
  <2>1. RowAfter(p, "row+scanned") \in Row
    BY <1>1, <1>5 DEF RowAfter, Row
  <2>2. RowAfter(p, "row+") \in Row
    BY <1>1, <1>5 DEF RowAfter, Row
  <2> QED
    BY <1>7, <2>1, <2>2
<1>8. CASE do \notin {"running", "stopped", "error", "settle", "reconcile", "orphan", "write", "row-",
                      "row+", "row+scanned"}
  BY <1>1, <1>8 DEF RowAfter
<1> QED
  BY <1>6, <1>7, <1>8

LEMMA StartIs ==
    ASSUME TypeInv, NEW p \in Processes, NEW c \in Commands, Start(p, c)
    PROVE  /\ job[p].cmd = None /\ job'[p].cmd = c /\ job'[p].todo = Plans[c] /\ job'[p].undo = <<>>
           /\ job'[p].seen = NoRow /\ job'[p].count = FALSE
           /\ job'[p].alone = (Others(p) = {}) /\ job'[p].ok = TRUE /\ job'[p].clean = TRUE
           /\ job'[p].before = (IF c \in Creations THEN have ELSE {}) /\ job'[p].half = {}
           /\ \A q \in Processes \ {p} :
                 /\ job'[q] = [job[q] EXCEPT !.alone = @ /\ ~Active(q)]
                 /\ job'[q].cmd = job[q].cmd /\ job'[q].todo = job[q].todo
                 /\ job'[q].undo = job[q].undo /\ job'[q].seen = job[q].seen
                 /\ job'[q].count = job[q].count
                 /\ job'[q].alone = (job[q].alone /\ ~Active(q))
                 /\ job'[q].ok = job[q].ok /\ job'[q].clean = job[q].clean
                 /\ job'[q].before = job[q].before /\ job'[q].half = job[q].half
           /\ JobTypes'
<1>1. job' = [q \in Processes |->
          IF q = p THEN [Idle EXCEPT !.cmd = c, !.todo = Plans[c], !.alone = Others(p) = {},
                                     !.before = IF c \in Creations THEN have ELSE {}]
          ELSE [job[q] EXCEPT !.alone = @ /\ ~Active(q)]]
  BY Zenon DEF Start
<1>0. job[p].cmd = None
  <2>1. ~Active(p)
    BY DEF Start
  <2> QED
    BY <2>1 DEF Active
<1>2. PICK d : d = [Idle EXCEPT !.cmd = c, !.todo = Plans[c], !.alone = (Others(p) = {}),
                                !.before = IF c \in Creations THEN have ELSE {}]
  BY Zenon
<1>3. job'[p] = d /\ \A q \in Processes \ {p} : job'[q] = [job[q] EXCEPT !.alone = @ /\ ~Active(q)]
  BY <1>1, <1>2, Zenon
<1>4. PICK b \in SUBSET Things, a \in BOOLEAN :
        b = (IF c \in Creations THEN have ELSE {}) /\ a = (Others(p) = {})
  BY DEF TypeInv, HostTypes
<1>5. Plans[c] \in Seq(StepsOf(c)) /\ <<>> \in UndosOf(c) /\ NoRow \in Row
  BY PlansTyped, NoSteps DEF UndosOf, NoRow, Row
<1>6. d = [cmd |-> c, todo |-> Plans[c], undo |-> <<>>, seen |-> NoRow, count |-> FALSE, alone |-> a,
           ok |-> TRUE, clean |-> TRUE, before |-> b, half |-> {}]
  BY <1>2, <1>4 DEF Idle
<1>7. d \in JobType(c) /\ d.cmd = c
  BY <1>5, <1>6 DEF JobType
<1>8. ASSUME NEW q \in Processes \ {p}
      PROVE  /\ job'[q] \in JobType(job[q].cmd)
             /\ job'[q].cmd = job[q].cmd /\ job'[q].todo = job[q].todo
             /\ job'[q].undo = job[q].undo /\ job'[q].seen = job[q].seen
             /\ job'[q].count = job[q].count
             /\ job'[q].alone = (job[q].alone /\ ~Active(q))
             /\ job'[q].ok = job[q].ok /\ job'[q].clean = job[q].clean
             /\ job'[q].before = job[q].before /\ job'[q].half = job[q].half
  <2>1. job[q] \in JobType(job[q].cmd)
    BY DEF TypeInv, JobTypes
  <2>2. PICK e : e = job[q]
    OBVIOUS
  <2>3. PICK a1 \in BOOLEAN : a1 = (e.alone /\ ~Active(q))
    BY <2>1, <2>2 DEF JobType
  <2>4. job'[q] = [e EXCEPT !.alone = a1]
    BY <1>3, <2>2, <2>3, Zenon
  <2> QED
    BY <2>1, <2>2, <2>3, <2>4 DEF JobType
<1>9. JobTypes'
  <2>1. None \notin Commands
    BY CommandsAre DEF None, EnvWriters, EnvRemovals, Removals, Locals, Imports, Plain
  <2>2. job' = [q \in Processes |-> job'[q]]
    BY <1>1, Zenon
  <2> QED
    BY <1>3, <1>7, <1>8, <2>1, <2>2 DEF TypeInv, JobTypes
<1> QED
  BY <1>0, <1>3, <1>4, <1>6, <1>8, <1>9

LEMMA EndIs ==
    ASSUME TypeInv, NEW p \in Processes, End(p)
    PROVE  /\ Active(p) /\ job[p].todo = <<>> /\ job'[p] = Idle /\ JobTypes'
           /\ \A q \in Processes \ {p} : job'[q] = job[q]
           /\ mutex' \in {mutex, None}
           /\ UNCHANGED <<have, row, started, faults, tainted, broken, crossed>>
<1>1. /\ Active(p) /\ job[p].todo = <<>> /\ job' = [job EXCEPT ![p] = Idle]
      /\ mutex' \in {mutex, None}
      /\ UNCHANGED <<have, row, started, faults, tainted, broken, crossed>>
  BY DEF End
<1>2. job'[p] = Idle /\ \A q \in Processes \ {p} : job'[q] = job[q]
  BY <1>1 DEF TypeInv, JobTypes
<1>3. Idle \in JobType(None) /\ Idle.cmd = None /\ Idle.todo = <<>> /\ Idle.undo = <<>>
  BY NoSteps DEF Idle, JobType, UndosOf, NoRow, Row, Locals, None
<1>4. job' = [q \in Processes |-> job'[q]]
  BY <1>1 DEF TypeInv, JobTypes
<1> QED
  BY <1>1, <1>2, <1>3, <1>4 DEF TypeInv, JobTypes

LEMMA DieIs ==
    ASSUME TypeInv, NEW gone, Die(gone)
    PROVE  /\ faults < MaxFaults /\ faults' = faults + 1 /\ tainted' = TRUE
           /\ \A q \in Processes : job'[q] = IF q \in gone THEN Idle ELSE job[q]
           /\ mutex' \in {mutex, None} /\ JobTypes'
           /\ broken' = (broken \/ \E q \in gone : job[q].cmd \in Removals)
           /\ UNCHANGED <<have, row, started, crossed>>
<1>1. /\ job' = [q \in Processes |-> IF q \in gone THEN Idle ELSE job[q]]
      /\ faults < MaxFaults /\ faults' = faults + 1 /\ tainted' = TRUE /\ mutex' \in {mutex, None}
      /\ broken' = (broken \/ \E q \in gone : job[q].cmd \in Removals)
      /\ UNCHANGED <<have, row, started, crossed>>
  BY DEF Die
<1>2. Idle \in JobType(None) /\ Idle.cmd = None /\ Idle.todo = <<>> /\ Idle.undo = <<>>
  BY NoSteps DEF Idle, JobType, UndosOf, NoRow, Row, Locals, None
<1>3. \A q \in Processes : job'[q] = IF q \in gone THEN Idle ELSE job[q]
  BY <1>1
<1>4. job' = [q \in Processes |-> job'[q]]
  BY <1>1
<1>5. JobTypes'
  BY <1>2, <1>3, <1>4 DEF TypeInv, JobTypes
<1> QED
  BY <1>1, <1>3, <1>5

LEMMA CrashIs ==
    ASSUME TypeInv, Crash
    PROVE  /\ faults < MaxFaults /\ faults' = faults + 1 /\ tainted' = TRUE
           /\ have' = have \ {"up"} /\ JobTypes'
           /\ \A q \in Processes :
                 /\ job'[q].cmd = job[q].cmd /\ job'[q].todo = job[q].todo
                 /\ job'[q].undo = job[q].undo
                 /\ Active(q) => ~job'[q].alone
           /\ UNCHANGED <<row, mutex, started, broken, crossed>>
<1>1. job' = [q \in Processes |-> [job[q] EXCEPT !.alone = @ /\ ~Active(q)]]
  BY Zenon DEF Crash
<1>2. ASSUME NEW q \in Processes
      PROVE  /\ job'[q] \in JobType(job[q].cmd)
             /\ job'[q].cmd = job[q].cmd /\ job'[q].todo = job[q].todo
             /\ job'[q].undo = job[q].undo
             /\ Active(q) => ~job'[q].alone
  <2>1. job[q] \in JobType(job[q].cmd)
    BY DEF TypeInv, JobTypes
  <2>2. PICK e : e = job[q]
    OBVIOUS
  <2>3. PICK a \in BOOLEAN : a = (e.alone /\ ~Active(q))
    BY <2>1, <2>2 DEF JobType
  <2>4. job'[q] = [e EXCEPT !.alone = a]
    BY <1>1, <2>2, <2>3, Zenon
  <2>5. /\ job'[q] \in JobType(job[q].cmd) /\ job'[q].cmd = job[q].cmd
        /\ job'[q].todo = job[q].todo /\ job'[q].undo = job[q].undo /\ job'[q].alone = a
    BY <2>1, <2>2, <2>4 DEF JobType
  <2> QED
    BY <2>3, <2>5
<1>3. job' = [q \in Processes |-> job'[q]]
  BY <1>1, Zenon
<1>4. JobTypes'
  BY <1>2, <1>3 DEF TypeInv, JobTypes
<1> QED
  BY <1>2, <1>4 DEF Crash

(* A lookup that fails is one of a creation by the dashboard or of a writer *)
(* of environments, which goes on with the rest of its plan.                *)
LEMMA MisreadIs ==
    ASSUME TypeInv, NEW p \in Processes, Misread(p)
    PROVE  /\ job[p].cmd \in EnvWriters \cup {"apiCreate"} /\ job[p].todo # <<>>
           /\ job[p].cmd = "apiCreate" => broken'
           /\ job[p].cmd \in EnvWriters => broken' = broken
           /\ broken' \in BOOLEAN
           /\ job'[p].todo = Tail(job[p].todo) /\ job'[p].alone = job[p].alone
           /\ Head(job[p].todo).do \in {"absent", "fresh"}
           /\ JobTypes'
           /\ \A q \in Processes \ {p} : job'[q] = job[q]
           /\ \A q \in Processes : job'[q].cmd = job[q].cmd
           /\ faults < MaxFaults /\ faults' = faults + 1 /\ tainted' = TRUE
           /\ UNCHANGED <<have, row, mutex, started, crossed>>
<1>1. Active(p) /\ job[p].todo # <<>>
  BY DEF Misread
<1>2. PICK c \in JobType(job[p].cmd), s \in StepsOf(job[p].cmd) : c = job[p] /\ s = Head(c.todo)
  BY <1>1, HeadIs
<1>3. /\ s.do \in {"absent", "fresh"}
      /\ broken' = (broken \/ s.do = "absent")
      /\ job' = [job EXCEPT ![p].todo = Tail(@)]
      /\ faults < MaxFaults /\ faults' = faults + 1 /\ tainted' = TRUE
      /\ UNCHANGED <<have, row, mutex, started, crossed>>
  BY <1>2 DEF Misread
<1>4. job[p].cmd \in Commands /\ c.todo \in Seq(StepsOf(job[p].cmd)) /\ c.todo # <<>>
  BY <1>1, <1>2, HeadIs DEF JobType
<1>5. PICK d : d = [c EXCEPT !.todo = Tail(c.todo)]
  OBVIOUS
<1>6. Tail(c.todo) \in Seq(StepsOf(job[p].cmd))
  BY <1>4, TailIs
<1>7. d \in JobType(job[p].cmd) /\ d.todo = Tail(c.todo) /\ d.alone = c.alone
  BY <1>5, <1>6 DEF JobType
<1>8. job' = [job EXCEPT ![p] = d]
  BY <1>2, <1>3, <1>5 DEF TypeInv, JobTypes
<1>9. /\ JobTypes' /\ job'[p] = d
      /\ \A q \in Processes \ {p} : job'[q] = job[q]
      /\ \A q \in Processes : job'[q].cmd = job[q].cmd
  BY <1>4, <1>7, <1>8, JobStays
<1>10. /\ s \in CreateStep \/ s \in EnvRemovalStep \/ s \in RemovalStep \/ s \in RegisterStep
            \/ s \in PlainStep => s.do \notin {"absent", "fresh"}
       /\ s \in ApiCreateStep => s.do # "fresh"
       /\ s \in WriterStep => s.do # "absent"
  BY DEF CreateStep, CleanStep, EnvRemovalStep, RemovalStep, RegisterStep, PlainStep, ApiCreateStep, WriterStep
<1>11. \/ job[p].cmd \in EnvWriters /\ s.do = "fresh"
       \/ job[p].cmd = "apiCreate" /\ s.do = "absent"
  BY <1>3, <1>4, <1>10, CommandsAre, KindsAre
<1>12. "apiCreate" \notin EnvWriters
  BY DEF EnvWriters
<1>13. broken \in BOOLEAN
  BY DEF TypeInv, HostTypes
<1> QED
  BY <1>1, <1>2, <1>3, <1>7, <1>9, <1>11, <1>12, <1>13

LEMMA TypeStep ==
    ASSUME TypeInv, Next
    PROVE  TypeInv'
<1>1. /\ have \subseteq Things /\ mutex \in Processes \cup {None} /\ row \in Row
      /\ started \in 0..MaxCommands /\ faults \in 0..MaxFaults
      /\ tainted \in BOOLEAN /\ broken \in BOOLEAN /\ crossed \in BOOLEAN
  BY DEF TypeInv, HostTypes
<1>2. ASSUME NEW p \in Processes, NEW c \in Commands, Start(p, c)
      PROVE  TypeInv'
  <2>1. /\ started < MaxCommands /\ started' = started + 1
        /\ tainted' \in BOOLEAN /\ broken' \in BOOLEAN /\ crossed' \in BOOLEAN
        /\ UNCHANGED <<have, row, mutex, faults>>
    BY <1>2 DEF Start
  <2>2. started' \in 0..MaxCommands
    BY <1>1, <2>1, BoundsAssumption
  <2>3. JobTypes'
    BY <1>2, StartIs
  <2> QED
    BY <1>1, <2>1, <2>2, <2>3 DEF TypeInv, HostTypes
<1>3. ASSUME NEW p \in Processes, Do(p)
      PROVE  TypeInv'
  <2>1. PICK c \in JobType(job[p].cmd), s \in StepsOf(job[p].cmd) :
              /\ c = job[p] /\ c.cmd \in Commands /\ c.todo # <<>> /\ s = Head(c.todo)
              /\ have' = Effect(p, s.do) /\ row' = RowAfter(p, s.do)
              /\ job' = [job EXCEPT ![p] = Advance(c, s)]
              /\ mutex' = IF s.do = "lock" THEN p ELSE mutex
              /\ broken' = (broken \/ Overlap' \/ (s.do = "user+" /\ Registered))
              /\ UNCHANGED <<started, faults, crossed>>
    BY <1>3, DoIs
  <2>2. Advance(c, s) \in JobType(job[p].cmd)
    BY <2>1, AdvanceIs
  <2>3. JobTypes'
    BY <2>1, <2>2, JobStays
  <2>4. have' \subseteq Things /\ row' \in Row
    BY <2>1, EffectIs, RowIs
  <2>5. tainted' \in BOOLEAN
    BY <1>1, <1>3 DEF Do
  <2>6. broken' \in BOOLEAN
    BY <2>1
  <2> QED
    BY <1>1, <2>1, <2>3, <2>4, <2>5, <2>6 DEF TypeInv, HostTypes
<1>4. ASSUME NEW p \in Processes, Refuse(p)
      PROVE  TypeInv'
  <2>1. PICK c \in JobType(job[p].cmd), s \in StepsOf(job[p].cmd) :
              /\ c = job[p] /\ c.cmd \in Commands /\ c.todo # <<>> /\ s = Head(c.todo)
              /\ job' = [job EXCEPT ![p] = Fallen(p, c, s, {})]
              /\ tainted' \in BOOLEAN
              /\ UNCHANGED <<have, row, mutex, started, faults, broken, crossed>>
    BY <1>4, RefuseIs
  <2>2. Fallen(p, c, s, {}) \in JobType(job[p].cmd)
    BY <2>1, FallenIs
  <2>3. JobTypes'
    BY <2>1, <2>2, JobStays
  <2> QED
    BY <1>1, <2>1, <2>3 DEF TypeInv, HostTypes
<1>5. ASSUME NEW p \in Processes, Fail(p)
      PROVE  TypeInv'
  <2>1. PICK c \in JobType(job[p].cmd), s \in StepsOf(job[p].cmd) :
              /\ c = job[p] /\ c.cmd \in Commands /\ c.todo # <<>> /\ s = Head(c.todo)
              /\ have' \in {have, Effect(p, s.do), have \cup (Adds(s.do) \cap {"dir", "sdir", "pdir"})}
              /\ job' = [job EXCEPT ![p] = Fallen(p, c, s, have' \ have)]
              /\ faults < MaxFaults /\ faults' = faults + 1 /\ tainted' = TRUE
              /\ broken' \in BOOLEAN /\ (broken' <=> broken \/ job[p].cmd \in Removals)
              /\ UNCHANGED <<row, mutex, started, crossed>>
    BY <1>5, FailIs
  <2>2. have' \subseteq Things
    BY <1>1, <2>1, EffectIs, AddsAreThings
  <2>3. Fallen(p, c, s, have' \ have) \in JobType(job[p].cmd)
    BY <2>1, <2>2, FallenIs
  <2>4. JobTypes'
    BY <2>1, <2>3, JobStays
  <2>5. faults' \in 0..MaxFaults
    BY <1>1, <2>1, BoundsAssumption
  <2>6. tainted' \in BOOLEAN /\ broken' \in BOOLEAN
    BY <1>1, <2>1
  <2> QED
    BY <1>1, <2>1, <2>2, <2>4, <2>5, <2>6 DEF TypeInv, HostTypes
<1>6. ASSUME NEW p \in Processes, End(p)
      PROVE  TypeInv'
  BY <1>1, <1>6, EndIs DEF TypeInv, HostTypes
<1>7. ASSUME NEW gone, Die(gone)
      PROVE  TypeInv'
  <2>1. /\ faults < MaxFaults /\ faults' = faults + 1 /\ tainted' \in BOOLEAN
        /\ mutex' \in {mutex, None} /\ JobTypes' /\ UNCHANGED <<have, row, started, crossed>>
    BY <1>7, DieIs
  <2>2. broken' = (broken \/ \E q \in gone : job[q].cmd \in Removals)
    BY <1>7, DieIs
  <2>3. faults' \in 0..MaxFaults /\ broken' \in BOOLEAN
    BY <1>1, <2>1, <2>2, BoundsAssumption
  <2> QED
    BY <1>1, <2>1, <2>3 DEF TypeInv, HostTypes
<1>8. CASE Crash
  <2>1. /\ faults < MaxFaults /\ faults' = faults + 1 /\ tainted' \in BOOLEAN
        /\ have' = have \ {"up"} /\ JobTypes' /\ UNCHANGED <<row, mutex, started, broken, crossed>>
    BY <1>8, CrashIs
  <2>2. faults' \in 0..MaxFaults
    BY <1>1, <2>1, BoundsAssumption
  <2> QED
    BY <1>1, <2>1, <2>2 DEF TypeInv, HostTypes
<1>9. ASSUME NEW p \in Processes, Misread(p)
      PROVE  TypeInv'
  <2>1. /\ faults < MaxFaults /\ faults' = faults + 1 /\ tainted' = TRUE /\ broken' \in BOOLEAN
        /\ JobTypes' /\ UNCHANGED <<have, row, mutex, started, crossed>>
    BY <1>9, MisreadIs
  <2>2. faults' \in 0..MaxFaults
    BY <1>1, <2>1, BoundsAssumption
  <2> QED
    BY <1>1, <2>1, <2>2 DEF TypeInv, HostTypes
<1> QED
  BY <1>2, <1>3, <1>4, <1>5, <1>6, <1>7, <1>8, <1>9 DEF Next, Kill, ServerDies

(* A step of a process, done, refused or failed. *)
LEMMA MoveIs ==
    ASSUME TypeInv, NEW p \in Processes, Do(p) \/ Refuse(p) \/ Fail(p)
    PROVE  \E c \in JobType(job[p].cmd), s \in StepsOf(job[p].cmd) :
              /\ c = job[p] /\ c.cmd \in Commands /\ c.todo # <<>> /\ s = Head(c.todo)
              /\ have' \in {have, Effect(p, s.do), have \cup (Adds(s.do) \cap {"dir", "sdir", "pdir"})}
              /\ \/ /\ Do(p) /\ Possible(p, s.do) /\ have' = Effect(p, s.do)
                    /\ job'[p] = Advance(c, s) /\ row' = RowAfter(p, s.do)
                    /\ broken' = (broken \/ Overlap' \/ (s.do = "user+" /\ Registered))
                 \/ /\ Refuse(p) /\ ~Possible(p, s.do) /\ have' = have
                    /\ job'[p] = Fallen(p, c, s, {}) /\ row' = row /\ broken' = broken
                 \/ /\ Fail(p) /\ Possible(p, s.do) /\ s.do \notin Reads
                    /\ job'[p] = Fallen(p, c, s, have' \ have) /\ row' = row
                    /\ (broken' <=> broken \/ job[p].cmd \in Removals)
              /\ \A q \in Processes \ {p} : job'[q] = job[q]
              /\ \A q \in Processes : job'[q].cmd = job[q].cmd
              /\ UNCHANGED <<started, crossed>>
<1>1. CASE Do(p)
  <2>1. PICK c \in JobType(job[p].cmd), s \in StepsOf(job[p].cmd) :
              /\ c = job[p] /\ c.cmd \in Commands /\ c.todo # <<>> /\ s = Head(c.todo)
              /\ Possible(p, s.do) /\ have' = Effect(p, s.do) /\ row' = RowAfter(p, s.do)
              /\ job' = [job EXCEPT ![p] = Advance(c, s)]
              /\ broken' = (broken \/ Overlap' \/ (s.do = "user+" /\ Registered))
              /\ UNCHANGED <<started, crossed>>
    BY <1>1, DoIs
  <2>2. Advance(c, s) \in JobType(job[p].cmd)
    BY <2>1, AdvanceIs
  <2>3. /\ job'[p] = Advance(c, s) /\ \A q \in Processes \ {p} : job'[q] = job[q]
        /\ \A q \in Processes : job'[q].cmd = job[q].cmd
    BY <2>1, <2>2, JobStays
  <2> QED
    BY <1>1, <2>1, <2>3
<1>2. CASE Refuse(p)
  <2>1. PICK c \in JobType(job[p].cmd), s \in StepsOf(job[p].cmd) :
              /\ c = job[p] /\ c.cmd \in Commands /\ c.todo # <<>> /\ s = Head(c.todo)
              /\ ~Possible(p, s.do)
              /\ job' = [job EXCEPT ![p] = Fallen(p, c, s, {})]
              /\ UNCHANGED <<have, row, started, broken, crossed>>
    BY <1>2, RefuseIs
  <2>2. Fallen(p, c, s, {}) \in JobType(job[p].cmd)
    BY <2>1, FallenIs
  <2>3. /\ job'[p] = Fallen(p, c, s, {}) /\ \A q \in Processes \ {p} : job'[q] = job[q]
        /\ \A q \in Processes : job'[q].cmd = job[q].cmd
    BY <2>1, <2>2, JobStays
  <2> QED
    BY <1>2, <2>1, <2>3
<1>3. CASE Fail(p)
  <2>1. PICK c \in JobType(job[p].cmd), s \in StepsOf(job[p].cmd) :
              /\ c = job[p] /\ c.cmd \in Commands /\ c.todo # <<>> /\ s = Head(c.todo)
              /\ s.do \notin Reads /\ Possible(p, s.do)
              /\ have' \in {have, Effect(p, s.do), have \cup (Adds(s.do) \cap {"dir", "sdir", "pdir"})}
              /\ job' = [job EXCEPT ![p] = Fallen(p, c, s, have' \ have)]
              /\ (broken' <=> broken \/ job[p].cmd \in Removals)
              /\ UNCHANGED <<row, started, crossed>>
    BY <1>3, FailIs
  <2>2. have' \subseteq Things
    BY <2>1, EffectIs, AddsAreThings DEF TypeInv, HostTypes
  <2>3. Fallen(p, c, s, have' \ have) \in JobType(job[p].cmd)
    BY <2>1, <2>2, FallenIs
  <2>4. /\ job'[p] = Fallen(p, c, s, have' \ have) /\ \A q \in Processes \ {p} : job'[q] = job[q]
        /\ \A q \in Processes : job'[q].cmd = job[q].cmd
    BY <2>1, <2>3, JobStays
  <2> QED
    BY <1>3, <2>1, <2>4
<1> QED
  BY <1>1, <1>2, <1>3

LEMMA HostMoves ==
    ASSUME TypeInv, NEW p \in Processes, NEW do,
           have' \in {have, Effect(p, do), have \cup (Adds(do) \cap {"dir", "sdir", "pdir"})}
    PROVE  /\ have' \subseteq have \cup Added(do) /\ have \ Dropped(do) \subseteq have'
           /\ do \in {"dir-", "s-", "p-", "user-"} => have' \in {have, have \ Dropped(do)}
<1>1. do \in {"dir-", "s-", "p-", "user-"} => Adds(do) = {}
  BY DEF Adds
<1>2. do \in {"dir-", "s-", "p-"} => Dropped(do) = Drops(do)
  BY DEF Dropped
<1> QED
  BY <1>1, <1>2, EffectIs, AddsAreThings

LEMMA KindIs ==
    ASSUME NEW cmd \in Commands, NEW s \in StepsOf(cmd)
    PROVE  \/ cmd \in EnvWriters /\ s \in WriterStep
           \/ cmd \in EnvRemovals /\ s \in EnvRemovalStep
           \/ cmd \in Removals /\ s \in RemovalStep
           \/ cmd \in Locals /\ s \in CreateStep
           \/ cmd = "apiCreate" /\ s \in ApiCreateStep
           \/ cmd \in Imports /\ s \in RegisterStep
           \/ cmd \in Plain /\ s \in PlainStep
BY CommandsAre, KindsAre

-----------------------------------------------------------------------------
(* Environments that are listed are whole. *)

LEMMA EnvKinds ==
    ASSUME NEW cmd \in Commands, NEW s \in StepsOf(cmd)
    PROVE  /\ s.do \in {"dir-", "user-", "s-", "p-"} => cmd \in EnvRemovals \cup Removals \cup Creations
           /\ s.do \in {"smeta", "pmeta"} => cmd \in EnvWriters
           /\ cmd \in EnvWriters => s.on = "stop" /\ s.do # "orphan" /\ UndosOf(cmd) = {<<>>}
<1>1. s \in WriterStep => s.on = "stop" /\ s.do \notin {"orphan", "dir-", "user-", "s-", "p-"}
  BY DEF WriterStep
<1>2. s \in EnvRemovalStep \/ s \in RemovalStep => s.do \notin {"smeta", "pmeta"}
  BY DEF EnvRemovalStep, RemovalStep
<1>3. s \in CreateStep \/ s \in ApiCreateStep => s.do \notin {"smeta", "pmeta"}
  BY DEF CreateStep, CleanStep, ApiCreateStep
<1>4. s \in RegisterStep \/ s \in PlainStep
        => s.do \notin {"smeta", "pmeta", "dir-", "user-", "s-", "p-"}
  BY DEF RegisterStep, PlainStep
<1>5. Locals \cup {"apiCreate"} = Creations
  BY DEF Locals, Creations
<1>6. cmd \in EnvWriters => s \in WriterStep /\ UndosOf(cmd) = {<<>>}
  BY KindsAre
<1> QED
  BY <1>1, <1>2, <1>3, <1>4, <1>5, <1>6, KindIs

LEMMA EnvPlans ==
    ASSUME NEW c \in EnvWriters
    PROVE  /\ Precede(Plans[c], {"smeta"}, {"scompose"})
           /\ Precede(Plans[c], {"pmeta"}, {"pcompose"})
<1>1. Precede(Create, {"smeta"}, {"scompose"}) /\ Precede(Create, {"pmeta"}, {"pcompose"})
  BY StepIs DEF Create, Precede
<1>2. Precede(Promote, {"smeta"}, {"scompose"}) /\ Precede(Promote, {"pmeta"}, {"pcompose"})
  BY StepIs DEF Promote, Precede
<1>3. /\ Precede(<<S("find", "stop")>>, {"smeta"}, {"scompose"})
      /\ Precede(<<S("find", "stop")>>, {"pmeta"}, {"pcompose"})
  BY StepIs DEF Precede
<1>4. /\ Precede(handleCreateEnvironment, {"smeta"}, {"scompose"})
      /\ Precede(handleCreateEnvironment, {"pmeta"}, {"pcompose"})
  BY <1>1, <1>3, WriterPlans, PrecedeJoin DEF handleCreateEnvironment
<1>5. /\ Precede(handlePromoteEnvironment, {"smeta"}, {"scompose"})
      /\ Precede(handlePromoteEnvironment, {"pmeta"}, {"pcompose"})
  BY <1>2, <1>3, WriterPlans, PrecedeJoin DEF handlePromoteEnvironment
<1> QED
  BY <1>1, <1>2, <1>4, <1>5, PlansAre DEF EnvWriters

LEMMA EnvFilesMove ==
    ASSUME TypeInv, NEW p \in Processes, NEW do,
           have' \in {have, Effect(p, do), have \cup (Adds(do) \cap {"dir", "sdir", "pdir"})}
    PROVE  /\ "scompose" \in have \ have' => do \in {"dir-", "user-", "s-"} /\ "smeta" \notin have'
           /\ "pcompose" \in have \ have' => do \in {"dir-", "user-", "p-"} /\ "pmeta" \notin have'
           /\ "smeta" \in have' \ have => do = "smeta"
           /\ "pmeta" \in have' \ have => do = "pmeta"
<1>1. /\ have' \subseteq have \cup Added(do) /\ have \ Dropped(do) \subseteq have'
      /\ do \in {"dir-", "s-", "p-", "user-"} => have' \in {have, have \ Dropped(do)}
  BY HostMoves
<1>2. /\ "scompose" \in Dropped(do) => do \in {"dir-", "user-", "s-"} /\ "smeta" \in Dropped(do)
      /\ "pcompose" \in Dropped(do) => do \in {"dir-", "user-", "p-"} /\ "pmeta" \in Dropped(do)
  BY DEF Dropped, Drops, Files, Staging, Production
<1>3. ("smeta" \in Added(do) => do = "smeta") /\ ("pmeta" \in Added(do) => do = "pmeta")
  BY DEF Added, Adds
<1> QED
  BY <1>1, <1>2, <1>3

LEMMA WriterMoves ==
    ASSUME TypeInv, EnvsReady, NEW p \in Processes, Do(p) \/ Refuse(p) \/ Fail(p),
           job[p].cmd \in EnvWriters, NEW m, NEW f, m # f, m \in {"smeta", "pmeta"},
           f \in {"scompose", "pcompose"}, f \in have \/ Precede(job[p].todo, {m}, {f})
    PROVE  f \in have' \/ Precede(job'[p].todo, {m}, {f})
<1>1. PICK c \in JobType(job[p].cmd), s \in StepsOf(job[p].cmd) :
              /\ c = job[p] /\ c.cmd \in Commands /\ c.todo # <<>> /\ s = Head(c.todo)
              /\ have' \in {have, Effect(p, s.do), have \cup (Adds(s.do) \cap {"dir", "sdir", "pdir"})}
              /\ \/ /\ Do(p) /\ have' = Effect(p, s.do)
                    /\ job'[p] = Advance(c, s)
                 \/ /\ have' = have
                    /\ job'[p] = Fallen(p, c, s, {})
                 \/ job'[p] = Fallen(p, c, s, have' \ have)
  BY MoveIs, ZenonT(60)
<1>2. /\ s.on = "stop" /\ s.do \notin {"orphan", "dir-", "user-", "s-", "p-"} /\ c.undo = <<>>
      /\ c.todo \in Seq(StepsOf(job[p].cmd))
  <2>1. s.on = "stop" /\ s.do # "orphan" /\ UndosOf(job[p].cmd) = {<<>>}
    BY <1>1, EnvKinds
  <2>2. s \in WriterStep
    BY <1>1, KindsAre
  <2> QED
    BY <1>1, <2>1, <2>2 DEF WriterStep, JobType
<1>3. CASE f \in have
  BY <1>1, <1>2, <1>3, EnvFilesMove
<1>4. CASE f \notin have /\ Do(p) /\ have' = Effect(p, s.do) /\ job'[p] = Advance(c, s)
  <2>1. job'[p].todo = Tail(c.todo)
    <3>1. job[p].cmd \in Commands /\ c.todo # <<>> /\ s = Head(c.todo)
      BY <1>1
    <3>2. Advance(c, s).todo = Tail(c.todo)
      BY <1>2, <3>1, AdvanceIs, ZenonT(60)
    <3> QED
      BY <1>4, <3>2
  <2>2. s.do = f \/ Precede(Tail(c.todo), {m}, {f})
    BY <1>1, <1>2, <1>4, PrecedeTail
  <2>3. f \in Effect(p, f)
    BY DEF Effect, Adds
  <2> QED
    BY <1>4, <2>1, <2>2, <2>3
<1>5. CASE \E h : h \subseteq Things /\ job'[p] = Fallen(p, c, s, h)
  <2>1. job'[p].todo = <<>>
    <3>1. PICK h : h \subseteq Things /\ job'[p] = Fallen(p, c, s, h)
      BY <1>5
    <3>2. c = job[p] /\ job[p].cmd \in Commands /\ c.todo # <<>> /\ s = Head(c.todo)
      BY <1>1
    <3>3. h \in SUBSET Things /\ s.on = "stop"
      BY <1>2, <3>1
    <3>4. Fallen(p, c, s, h).todo = c.undo
      BY <3>2, <3>3, FallenIs
    <3> QED
      BY <1>2, <3>1, <3>4
  <2> QED
    BY <2>1 DEF Precede
<1>6. have' \ have \subseteq Things /\ {} \subseteq Things
  BY <1>1, EffectIs, AddsAreThings
<1> QED
  BY <1>1, <1>3, <1>4, <1>5, <1>6

LEMMA EnvMove ==
    ASSUME TypeInv, EnvInv, NEW p \in Processes, Do(p) \/ Refuse(p) \/ Fail(p)
    PROVE  EnvInv'
<1>1. PICK c \in JobType(job[p].cmd), s \in StepsOf(job[p].cmd) :
              /\ c = job[p] /\ c.cmd \in Commands /\ c.todo # <<>> /\ s = Head(c.todo)
              /\ have' \in {have, Effect(p, s.do), have \cup (Adds(s.do) \cap {"dir", "sdir", "pdir"})}
              /\ \A q \in Processes \ {p} : job'[q] = job[q]
              /\ \A q \in Processes : job'[q].cmd = job[q].cmd
              /\ crossed' = crossed
  BY MoveIs
<1>2. /\ "scompose" \in have \ have' => s.do \in {"dir-", "user-", "s-"} /\ "smeta" \notin have'
      /\ "pcompose" \in have \ have' => s.do \in {"dir-", "user-", "p-"} /\ "pmeta" \notin have'
      /\ "smeta" \in have' \ have => s.do = "smeta"
      /\ "pmeta" \in have' \ have => s.do = "pmeta"
  BY <1>1, EnvFilesMove
<1>3. SUFFICES ASSUME ~crossed PROVE EnvsApart' /\ EnvsReady' /\ ListedEnvironmentIsWhole'
  BY <1>1 DEF EnvInv, ListedEnvironmentIsWhole
<1>4. EnvsApart'
  BY <1>1, <1>3 DEF EnvInv, EnvsApart, Active
<1>5. Active(p)
  BY <1>1, CommandsAre DEF Active, None, EnvWriters, EnvRemovals, Removals, Locals, Imports, Plain
<1>6. ASSUME NEW q \in Processes, job'[q].cmd \in EnvWriters
      PROVE  /\ "scompose" \in have' \/ Precede(job'[q].todo, {"smeta"}, {"scompose"})
             /\ "pcompose" \in have' \/ Precede(job'[q].todo, {"pmeta"}, {"pcompose"})
  <2>1. /\ job[q].cmd \in EnvWriters
        /\ "scompose" \in have \/ Precede(job[q].todo, {"smeta"}, {"scompose"})
        /\ "pcompose" \in have \/ Precede(job[q].todo, {"pmeta"}, {"pcompose"})
    BY <1>1, <1>3, <1>6 DEF EnvInv, EnvsReady
  <2>2. CASE q = p
    BY <1>3, <2>1, <2>2, WriterMoves DEF EnvInv
  <2>3. CASE q # p
    <3>1. Active(q)
      BY <2>1 DEF Active, None, EnvWriters
    <3>2. job[p].cmd \notin EnvRemovals \cup Removals \cup Creations
      BY <1>3, <1>5, <2>1, <2>3, <3>1 DEF EnvInv, EnvsApart, Crosses
    <3>3. s.do \notin {"dir-", "user-", "s-", "p-"}
      BY <1>1, <3>2, EnvKinds
    <3> QED
      BY <1>1, <1>2, <2>1, <2>3, <3>3
  <2> QED
    BY <2>2, <2>3
<1>7. ASSUME "smeta" \in have' PROVE "scompose" \in have'
  <2>1. CASE "smeta" \in have
    BY <1>2, <1>3, <1>7, <2>1 DEF EnvInv, ListedEnvironmentIsWhole, List
  <2>2. CASE "smeta" \notin have
    <3>1. s.do = "smeta" /\ job[p].cmd \in EnvWriters
      BY <1>1, <1>2, <1>7, <2>2, EnvKinds
    <3>2. "scompose" \in have \/ Precede(job[p].todo, {"smeta"}, {"scompose"})
      BY <1>3, <3>1 DEF EnvInv, EnvsReady
    <3>3. "scompose" \in have
      BY <1>1, <3>1, <3>2, PrecedeTail DEF JobType
    <3> QED
      BY <1>2, <3>1, <3>3
  <2> QED
    BY <2>1, <2>2
<1>8. ASSUME "pmeta" \in have' PROVE "pcompose" \in have'
  <2>1. CASE "pmeta" \in have
    BY <1>2, <1>3, <1>8, <2>1 DEF EnvInv, ListedEnvironmentIsWhole, List
  <2>2. CASE "pmeta" \notin have
    <3>1. s.do = "pmeta" /\ job[p].cmd \in EnvWriters
      BY <1>1, <1>2, <1>8, <2>2, EnvKinds
    <3>2. "pcompose" \in have \/ Precede(job[p].todo, {"pmeta"}, {"pcompose"})
      BY <1>3, <3>1 DEF EnvInv, EnvsReady
    <3>3. "pcompose" \in have
      BY <1>1, <3>1, <3>2, PrecedeTail DEF JobType
    <3> QED
      BY <1>2, <3>1, <3>3
  <2> QED
    BY <2>1, <2>2
<1> QED
  BY <1>4, <1>6, <1>7, <1>8 DEF EnvsReady, ListedEnvironmentIsWhole, List

LEMMA IdleIs == Idle.cmd = None /\ None \notin Commands
BY CommandsAre DEF Idle, None, EnvWriters, EnvRemovals, Removals, Locals, Imports, Plain

LEMMA WorkersAreCommands ==
    EnvWriters \cup EnvRemovals \cup Removals \cup Creations \cup Imports \subseteq Commands
BY CommandsAre DEF Creations, Locals

LEMMA EnvStart ==
    ASSUME TypeInv, EnvInv, NEW p \in Processes, NEW c \in Commands, Start(p, c)
    PROVE  EnvInv'
<1>1. /\ crossed' = (crossed \/ \E q \in Others(p) : Crosses(c, job[q].cmd))
      /\ UNCHANGED have
  BY Zenon DEF Start
<1>2. job[p].cmd = None /\ job'[p].cmd = c /\ job'[p].todo = Plans[c]
  BY StartIs
<1>3. \A q \in Processes \ {p} : job'[q].cmd = job[q].cmd /\ job'[q].todo = job[q].todo
  BY StartIs, ZenonT(60)
<1>4. ListedEnvironmentIsWhole'
  BY <1>1 DEF EnvInv, ListedEnvironmentIsWhole, List
<1>5. ASSUME ~crossed' PROVE EnvsApart'
  <2>1. ~crossed /\ \A q \in Others(p) : ~Crosses(c, job[q].cmd)
    BY <1>1, <1>5
  <2>2. \A q \in Processes \ {p} : Active(q)' => q \in Others(p)
    BY <1>3 DEF Active, Others
  <2>3. \A d, e : Crosses(d, e) => Crosses(e, d)
    BY DEF Crosses
  <2>4. \A q \in Processes \ {p} : Active(q)' <=> Active(q)
    BY <1>3 DEF Active
  <2> QED
    BY <1>2, <1>3, <2>1, <2>2, <2>3, <2>4 DEF EnvInv, EnvsApart
<1>6. ASSUME ~crossed' PROVE EnvsReady'
  BY <1>1, <1>2, <1>3, <1>6, EnvPlans DEF EnvInv, EnvsReady
<1> QED
  BY <1>4, <1>5, <1>6 DEF EnvInv

LEMMA EnvStep ==
    ASSUME TypeInv, EnvInv, [Next]_vars
    PROVE  EnvInv'
<1>1. CASE UNCHANGED vars
  BY <1>1 DEF vars, EnvInv, EnvsApart, EnvsReady, ListedEnvironmentIsWhole, List, Active
<1>2. ASSUME NEW p \in Processes, NEW c \in Commands, Start(p, c) PROVE EnvInv'
  BY <1>2, EnvStart
<1>3. ASSUME NEW p \in Processes, Do(p) \/ Refuse(p) \/ Fail(p) PROVE EnvInv'
  BY <1>3, EnvMove
<1>4. ASSUME NEW p \in Processes, End(p) PROVE EnvInv'
  <2>1. /\ job'[p] = Idle /\ \A q \in Processes \ {p} : job'[q] = job[q]
        /\ UNCHANGED <<have, crossed>>
    BY <1>4, EndIs
  <2> QED
    BY <2>1, IdleIs, WorkersAreCommands
    DEF EnvInv, EnvsApart, EnvsReady, ListedEnvironmentIsWhole, List, Active
<1>5. ASSUME NEW gone, Die(gone) PROVE EnvInv'
  <2>1. /\ \A q \in Processes : job'[q] = IF q \in gone THEN Idle ELSE job[q]
        /\ UNCHANGED <<have, crossed>>
    BY <1>5, DieIs
  <2> QED
    BY <2>1, IdleIs, WorkersAreCommands
    DEF EnvInv, EnvsApart, EnvsReady, ListedEnvironmentIsWhole, List, Active
<1>6. CASE Crash
  <2>1. /\ \A q \in Processes : job'[q].cmd = job[q].cmd /\ job'[q].todo = job[q].todo
        /\ have' = have \ {"up"} /\ crossed' = crossed
    BY <1>6, CrashIs
  <2> QED
    BY <2>1 DEF EnvInv, EnvsApart, EnvsReady, ListedEnvironmentIsWhole, List, Active
<1>7. ASSUME NEW p \in Processes, Misread(p) PROVE EnvInv'
  <2>1. /\ job[p].todo # <<>> /\ job'[p].todo = Tail(job[p].todo)
        /\ Head(job[p].todo).do \in {"absent", "fresh"}
        /\ \A q \in Processes \ {p} : job'[q] = job[q]
        /\ \A q \in Processes : job'[q].cmd = job[q].cmd
        /\ UNCHANGED <<have, crossed>>
    BY <1>7, MisreadIs
  <2>2. job[p].todo \in Seq(StepsOf(job[p].cmd))
    BY DEF TypeInv, JobTypes, JobType
  <2>3. /\ Precede(job[p].todo, {"smeta"}, {"scompose"}) => Precede(job'[p].todo, {"smeta"}, {"scompose"})
        /\ Precede(job[p].todo, {"pmeta"}, {"pcompose"}) => Precede(job'[p].todo, {"pmeta"}, {"pcompose"})
    BY <2>1, <2>2, PrecedeTail
  <2>4. ASSUME NEW q \in Processes, EnvsReady, job'[q].cmd \in EnvWriters
        PROVE  /\ "scompose" \in have' \/ Precede(job'[q].todo, {"smeta"}, {"scompose"})
               /\ "pcompose" \in have' \/ Precede(job'[q].todo, {"pmeta"}, {"pcompose"})
    <3>1. CASE q = p
      BY <2>1, <2>3, <2>4, <3>1 DEF EnvsReady
    <3>2. CASE q # p
      BY <2>1, <2>4, <3>2 DEF EnvsReady
    <3> QED
      BY <3>1, <3>2
  <2>5. EnvsReady => EnvsReady'
    BY <2>4 DEF EnvsReady
  <2> QED
    BY <2>1, <2>5 DEF EnvInv, EnvsApart, ListedEnvironmentIsWhole, List, Active
<1> QED
  BY <1>1, <1>2, <1>3, <1>4, <1>5, <1>6, <1>7 DEF Next, Kill, ServerDies

LEMMA HostsAre ==
    ASSUME NEW h \in Hosts
    PROVE  /\ h.have \subseteq {"user", "dir", "compose", "dotenv", "repo", "net", "made", "up"}
           /\ h.row \in Row /\ (h.row.status # None => "dir" \in h.have)
<1>1. /\ h.have \subseteq {"user", "dir", "compose", "dotenv", "repo", "net", "made", "up"}
      /\ "dir" \in h.have \/ h.row = NoRow
      /\ \/ h.row = NoRow
         \/ h.row = [status |-> "running", repo |-> TRUE, domain |-> 0]
         \/ h.row = [status |-> "created", repo |-> FALSE, domain |-> 0]
  <2>1. CASE h = [have |-> {}, row |-> NoRow]
    BY <2>1
  <2>2. PICK hv, rw : /\ hv = {"user", "dir", "compose", "dotenv", "repo", "net", "made", "up"}
                      /\ rw = [status |-> "running", repo |-> TRUE, domain |-> 0]
    OBVIOUS
  <2>3. CASE h = [have |-> hv, row |-> rw]
    BY <2>2, <2>3
  <2>4. PICK kv, sw : /\ kv = {"dir", "compose"}
                      /\ sw = [status |-> "created", repo |-> FALSE, domain |-> 0]
    OBVIOUS
  <2>5. CASE h = [have |-> kv, row |-> sw]
    BY <2>4, <2>5
  <2> QED
    BY <2>1, <2>2, <2>3, <2>4, <2>5 DEF Hosts
<1>2. NoRow \in Row /\ NoRow.status = None
  BY DEF NoRow, Row
<1>3. /\ [status |-> "running", repo |-> TRUE, domain |-> 0] \in Row
      /\ [status |-> "created", repo |-> FALSE, domain |-> 0] \in Row
  BY DEF Row, Statuses
<1> QED
  BY <1>1, <1>2, <1>3

LEMMA TypeInit == Init => TypeInv
<1> SUFFICES ASSUME Init PROVE TypeInv
  OBVIOUS
<1>1. have \subseteq Things /\ row \in Row
  BY HostsAre DEF Init, Things, Files
<1>2. Idle \in JobType(None) /\ Idle.cmd = None /\ Idle.todo = <<>> /\ Idle.undo = <<>>
  BY NoSteps DEF Idle, JobType, UndosOf, NoRow, Row, Locals, None
<1>3. JobTypes
  BY <1>2 DEF Init, JobTypes
<1>4. 0 \in 0..MaxCommands /\ 0 \in 0..MaxFaults
  BY BoundsAssumption
<1>5. /\ mutex = None /\ started = 0 /\ faults = 0
      /\ tainted = FALSE /\ broken = FALSE /\ crossed = FALSE
  BY DEF Init
<1> QED
  BY <1>1, <1>3, <1>4, <1>5 DEF TypeInv, HostTypes

LEMMA TypeAlways == Spec => []TypeInv
<1>1. TypeInv /\ [Next]_vars => TypeInv'
  <2>1. TypeInv /\ UNCHANGED vars => TypeInv'
    BY DEF vars, TypeInv, HostTypes, JobTypes
  <2> QED
    BY <2>1, TypeStep
<1> QED
  BY <1>1, TypeInit, PTL DEF Spec

(* An environment that is listed has its compose file, whatever failed or   *)
(* was killed while it was made or promoted: Create and Promote write the   *)
(* metadata last, and what removes it removes both.                         *)
THEOREM ListedAreWhole == Spec => []ListedEnvironmentIsWhole
<1>1. Init => EnvInv
  <2> SUFFICES ASSUME Init PROVE EnvInv
    OBVIOUS
  <2>1. \A p \in Processes : job[p].cmd = None
    BY IdleIs DEF Init
  <2>2. "smeta" \notin have /\ "pmeta" \notin have
    BY HostsAre DEF Init
  <2>3. None \notin EnvWriters
    BY IdleIs, WorkersAreCommands
  <2> QED
    BY <2>1, <2>2, <2>3 DEF EnvInv, EnvsApart, EnvsReady, ListedEnvironmentIsWhole, List, Active
<1>2. TypeInv /\ EnvInv /\ [Next]_vars => EnvInv'
  BY EnvStep
<1>3. EnvInv => ListedEnvironmentIsWhole
  BY DEF EnvInv
<1> QED
  BY <1>1, <1>2, <1>3, TypeAlways, PTL DEF Spec

-----------------------------------------------------------------------------
(* Registered projects have their files. *)

LEMMA FallenTodo ==
    ASSUME NEW p, NEW cmd, NEW c \in JobType(cmd), NEW s, NEW h
    PROVE  /\ Fallen(p, c, s, h).todo = After(p, s)
           /\ s.on \in {"go", "blind"} => Fallen(p, c, s, h).todo = Tail(job[p].todo)
           /\ s.on = "mark" => Fallen(p, c, s, h).todo = Single("error")
           /\ s.on = "clean" => Fallen(p, c, s, h).todo = Single("dir-")
           /\ s.on = "stop" => Fallen(p, c, s, h).todo = job[p].undo
           /\ s.on = "exit" => Fallen(p, c, s, h).todo = <<>>
<1>1. PICK a, b, k :
        /\ a = After(p, s) /\ b = IF s.on = "stop" THEN <<>> ELSE c.undo
        /\ k = IF s.on = "stop" THEN h ELSE c.half
  OBVIOUS
<1>2. PICK ok, clean :
        /\ ok = (s.on \in {"go", "blind"} /\ c.ok)
        /\ clean = (c.clean /\ (s.do \in {"user-", "dir-", "repo-"} => s.on # "go"))
  OBVIOUS
<1>3. Fallen(p, c, s, h) = [c EXCEPT !.todo = a, !.undo = b, !.ok = ok, !.clean = clean, !.half = k]
  BY <1>1, <1>2, Zenon DEF Fallen
<1>4. Fallen(p, c, s, h).todo = a
  BY <1>3 DEF JobType
<1>5. /\ s.on \in {"go", "blind"} => a = Tail(job[p].todo)
      /\ s.on = "mark" => a = Single("error")
      /\ s.on = "clean" => a = Single("dir-")
      /\ s.on = "stop" => a = job[p].undo
      /\ s.on = "exit" => a = <<>>
  BY <1>1 DEF After, Single
<1> QED
  BY <1>1, <1>4, <1>5

(* What is left to do after a step that was done, refused or failed. *)
LEMMA TodoMoves ==
    ASSUME TypeInv, NEW p \in Processes, Do(p) \/ Refuse(p) \/ Fail(p)
    PROVE  \E s \in StepsOf(job[p].cmd) :
              /\ job[p].cmd \in Commands /\ job[p].todo # <<>> /\ s = Head(job[p].todo)
              /\ job[p].todo \in Seq(StepsOf(job[p].cmd)) /\ job[p].undo \in UndosOf(job[p].cmd)
              /\ have' \in {have, Effect(p, s.do), have \cup (Adds(s.do) \cap {"dir", "sdir", "pdir"})}
              /\ \A q \in Processes \ {p} : job'[q] = job[q]
              /\ \A q \in Processes : job'[q].cmd = job[q].cmd
              /\ \/ /\ Possible(p, s.do) /\ have' = Effect(p, s.do) /\ row' = RowAfter(p, s.do)
                    /\ broken' = (broken \/ Overlap' \/ (s.do = "user+" /\ Registered))
                    /\ s.do # "orphan" => job'[p].todo = Tail(job[p].todo)
                 \/ /\ row' = row
                    /\ ~Possible(p, s.do) => have' = have /\ broken' = broken
                    /\ Possible(p, s.do) => s.do \notin Reads
                    /\ Possible(p, s.do) => (broken' <=> broken \/ job[p].cmd \in Removals)
                    /\ s.on \in {"go", "blind"} => job'[p].todo = Tail(job[p].todo)
                    /\ s.on = "mark" => job'[p].todo = Single("error")
                    /\ s.on = "clean" => job'[p].todo = Single("dir-")
                    /\ s.on = "stop" => job'[p].todo = job[p].undo
                    /\ s.on = "exit" => job'[p].todo = <<>>
<1>1. PICK c \in JobType(job[p].cmd), s \in StepsOf(job[p].cmd) :
              /\ c = job[p] /\ c.cmd \in Commands /\ c.todo # <<>> /\ s = Head(c.todo)
              /\ have' \in {have, Effect(p, s.do), have \cup (Adds(s.do) \cap {"dir", "sdir", "pdir"})}
              /\ \/ /\ Do(p) /\ Possible(p, s.do) /\ have' = Effect(p, s.do)
                    /\ job'[p] = Advance(c, s) /\ row' = RowAfter(p, s.do)
                    /\ broken' = (broken \/ Overlap' \/ (s.do = "user+" /\ Registered))
                 \/ /\ Refuse(p) /\ ~Possible(p, s.do) /\ have' = have
                    /\ job'[p] = Fallen(p, c, s, {}) /\ row' = row /\ broken' = broken
                 \/ /\ Fail(p) /\ Possible(p, s.do) /\ s.do \notin Reads
                    /\ job'[p] = Fallen(p, c, s, have' \ have) /\ row' = row
                    /\ (broken' <=> broken \/ job[p].cmd \in Removals)
              /\ \A q \in Processes \ {p} : job'[q] = job[q]
              /\ \A q \in Processes : job'[q].cmd = job[q].cmd
  BY MoveIs
<1>2. job[p].cmd \in Commands /\ c = job[p] /\ c.todo # <<>> /\ s = Head(c.todo)
  BY <1>1
<1>3. c.todo \in Seq(StepsOf(job[p].cmd)) /\ c.undo \in UndosOf(job[p].cmd)
  BY <1>2 DEF JobType
<1>4. s.do # "orphan" => Advance(c, s).todo = Tail(c.todo)
  BY <1>2, AdvanceIs
<1>5. ASSUME NEW h \in SUBSET Things
      PROVE  /\ s.on \in {"go", "blind"} => Fallen(p, c, s, h).todo = Tail(job[p].todo)
             /\ s.on = "mark" => Fallen(p, c, s, h).todo = Single("error")
             /\ s.on = "clean" => Fallen(p, c, s, h).todo = Single("dir-")
             /\ s.on = "stop" => Fallen(p, c, s, h).todo = job[p].undo
             /\ s.on = "exit" => Fallen(p, c, s, h).todo = <<>>
  BY <1>2, FallenTodo
<1>6. {} \in SUBSET Things /\ have' \ have \in SUBSET Things
  BY <1>1, EffectIs, AddsAreThings
<1>7. CASE /\ Possible(p, s.do) /\ have' = Effect(p, s.do)
           /\ job'[p] = Advance(c, s) /\ row' = RowAfter(p, s.do)
           /\ broken' = (broken \/ Overlap' \/ (s.do = "user+" /\ Registered))
  BY <1>1, <1>2, <1>3, <1>4, <1>7
<1>8. CASE /\ ~Possible(p, s.do) /\ have' = have
           /\ job'[p] = Fallen(p, c, s, {}) /\ row' = row /\ broken' = broken
  BY <1>1, <1>2, <1>3, <1>5, <1>6, <1>8
<1>9. CASE /\ Possible(p, s.do) /\ s.do \notin Reads
           /\ job'[p] = Fallen(p, c, s, have' \ have) /\ row' = row
           /\ (broken' <=> broken \/ job[p].cmd \in Removals)
  <2>1. PICK h \in SUBSET Things : h = have' \ have
    BY <1>6
  <2>2. job'[p] = Fallen(p, c, s, h)
    BY <1>9, <2>1
  <2> QED
    BY <1>1, <1>2, <1>3, <1>5, <1>9, <2>2
<1> QED
  BY <1>1, <1>7, <1>8, <1>9

LEMMA FileKinds ==
    ASSUME NEW cmd \in Commands, NEW s \in StepsOf(cmd)
    PROVE  /\ s.do \in Removing => cmd \in Removals \cup Creations
           /\ s.do \in Registering => cmd \in Creations \cup Imports
           /\ cmd \in Removals =>
                 /\ s.on \in {"stop", "go"} /\ s.do # "orphan"
                 /\ s.on = "stop" => s.do \in {"find", "lock", "row-"}
                 /\ UndosOf(cmd) = {<<>>}
           /\ cmd \in Creations => s.on \in {"stop", "go", "clean", "exit"} /\ s.do # "orphan"
           /\ cmd \in Creations \cup Imports =>
                 /\ s.on \in {"stop", "go", "blind", "clean", "exit"} /\ s.do # "orphan"
                 /\ s.do \in {"scaffold", "stat", "absent", "user+"} => s.on = "stop"
           /\ cmd \in Imports => s.do \notin Removing /\ UndosOf(cmd) = {<<>>}
<1>1. Creations = Locals \cup {"apiCreate"}
  BY DEF Locals, Creations
<1>2. s \in WriterStep \/ s \in EnvRemovalStep => s.do \notin Removing \cup Registering
  BY DEF WriterStep, EnvRemovalStep, Removing, Registering
<1>3. s \in RemovalStep =>
        /\ s.do \notin Registering /\ s.on \in {"stop", "go"} /\ s.do # "orphan"
        /\ s.on = "stop" => s.do \in {"find", "lock", "row-"}
  BY DEF RemovalStep, Registering
<1>4. s \in CreateStep =>
        /\ s.on \in {"stop", "go", "exit"} /\ s.do # "orphan"
        /\ s.do \in {"scaffold", "stat", "absent", "user+"} => s.on = "stop"
  BY DEF CreateStep, CleanStep
<1>5. s \in ApiCreateStep =>
        /\ s.on \in {"stop", "go", "clean"} /\ s.do # "orphan"
        /\ s.do \in {"scaffold", "stat", "absent", "user+"} => s.on = "stop"
  BY DEF ApiCreateStep
<1>6. s \in RegisterStep =>
        /\ s.on \in {"stop", "go", "blind"} /\ s.do # "orphan" /\ s.do \notin Removing
        /\ s.do \in {"scaffold", "stat", "absent", "user+"} => s.on = "stop"
  BY DEF RegisterStep, Removing
<1>7. s \in PlainStep => s.do \notin Removing \cup Registering
  BY DEF PlainStep, Removing, Registering
<1>8. /\ cmd \in Removals => s \in RemovalStep /\ UndosOf(cmd) = {<<>>}
      /\ cmd \in Locals => s \in CreateStep
      /\ cmd = "apiCreate" => s \in ApiCreateStep
      /\ cmd \in Imports => s \in RegisterStep /\ UndosOf(cmd) = {<<>>}
  BY KindsAre
<1> QED
  BY <1>1, <1>2, <1>3, <1>4, <1>5, <1>6, <1>7, <1>8, KindIs

LEMMA DirMoves ==
    ASSUME TypeInv, NEW p \in Processes, NEW do,
           have' \in {have, Effect(p, do), have \cup (Adds(do) \cap {"dir", "sdir", "pdir"})}
    PROVE  /\ "dir" \in have \ have' => do \in Removing
           /\ do = "scaffold" => "dir" \in Effect(p, do)
           /\ do = "stat" /\ Possible(p, do) => "dir" \in have
<1>1. have \ Dropped(do) \subseteq have'
  BY HostMoves
<1>2. "dir" \in Dropped(do) => do \in Removing
  BY DEF Dropped, Drops, Files, Staging, Production, Removing
<1>3. "dir" \in Effect(p, "scaffold")
  BY DEF Effect, Adds
<1>4. Possible(p, "stat") => "dir" \in have
  BY DEF Possible, Needs
<1> QED
  BY <1>1, <1>2, <1>3, <1>4

LEMMA RowMoves ==
    ASSUME NEW p \in Processes, NEW do, Possible(p, do), row' = RowAfter(p, do)
    PROVE  /\ Registered' /\ ~Registered => do \in Registering
           /\ do = "row-" => ~Registered'
<1>1. do \in RowSteps => Registered
  BY DEF Possible
<1>2. do \notin RowSteps \cup Registering \cup {"orphan"} => RowAfter(p, do) = row
  BY DEF RowAfter, RowSteps, Registering
<1>3. ~Registered => RowAfter(p, "orphan") = row
  BY DEF RowAfter
<1>4. do = "row-" => RowAfter(p, do) = NoRow
  BY DEF RowAfter
<1>5. CASE do = "orphan"
  BY <1>3, <1>5 DEF Registered
<1>6. CASE do # "orphan"
  BY <1>1, <1>2, <1>4, <1>6 DEF Registered, NoRow
<1> QED
  BY <1>5, <1>6

LEMMA TailTakes ==
    ASSUME NEW T, NEW q \in Seq(T), q # <<>>, NEW A
    PROVE  /\ Takes(Tail(q), A) => Takes(q, A)
           /\ Head(q).do \in A => Takes(q, A)
           /\ LastOnly(q, A) => LastOnly(Tail(q), A)
           /\ LastOnly(q, A) /\ Head(q).do \in A => Tail(q) = <<>>
           /\ Tail(q) = <<>> => q[Len(q)] = Head(q)
           /\ Tail(q) # <<>> => Tail(q)[Len(Tail(q))] = q[Len(q)]
<1>1. /\ Head(q) = q[1] /\ DOMAIN q = 1..Len(q) /\ Len(q) \in Nat /\ Len(q) > 0
      /\ Tail(q) \in Seq(T) /\ Len(Tail(q)) = Len(q) - 1 /\ DOMAIN Tail(q) = 1..(Len(q) - 1)
      /\ \A i \in 1..(Len(q) - 1) : Tail(q)[i] = q[i + 1]
  BY TailIs
<1>2. Tail(q) = <<>> <=> Len(q) = 1
  BY <1>1, SMTT(30)
<1>3. Tail(q) # <<>> => Tail(q)[Len(q) - 1] = q[Len(q)]
  BY <1>1, <1>2
<1>4. Takes(Tail(q), A) => Takes(q, A)
  <2> SUFFICES ASSUME NEW i \in 1..(Len(q) - 1), Tail(q)[i].do \in A PROVE Takes(q, A)
    BY <1>1 DEF Takes
  <2>1. i + 1 \in DOMAIN q /\ q[i + 1].do \in A
    BY <1>1
  <2> QED
    BY <2>1 DEF Takes
<1>5. Head(q).do \in A => Takes(q, A)
  BY <1>1 DEF Takes
<1>6. LastOnly(q, A) => LastOnly(Tail(q), A)
  <2> SUFFICES ASSUME LastOnly(q, A), NEW i \in 1..(Len(q) - 1), Tail(q)[i].do \in A
               PROVE  i = Len(q) - 1
    BY <1>1 DEF LastOnly
  <2>1. i + 1 \in DOMAIN q /\ q[i + 1].do \in A
    BY <1>1
  <2>2. i + 1 = Len(q)
    BY <2>1 DEF LastOnly
  <2>3. i \in Nat
    BY <1>1
  <2> QED
    BY <2>2, <2>3
<1>7. LastOnly(q, A) /\ Head(q).do \in A => Len(q) = 1
  BY <1>1 DEF LastOnly
<1> QED
  BY <1>1, <1>2, <1>3, <1>4, <1>5, <1>6, <1>7

LEMMA TakesNothing ==
    ASSUME NEW q, NEW A, ~Takes(q, A)
    PROVE  LastOnly(q, A) /\ \A B : Precede(q, A, B)
BY DEF Takes, LastOnly, Precede

LEMMA CommandsApart ==
    /\ Creations = Locals \cup {"apiCreate"} /\ "apiCreate" \notin Locals
    /\ Removals \cap (Creations \cup Imports) = {} /\ Creations \cap Imports = {}
BY DEF Creations, Locals, Removals, Imports

LEMMA OverlapIs ==
    ASSUME ~Overlap, NEW p \in Processes, NEW q \in Processes, p # q, Taker(p), Maker(q)
    PROVE  FALSE
BY DEF Overlap

LEMMA RowPossible ==
    ASSUME NEW p, Registered, NEW do \in {"find", "lock", "row-"}
    PROVE  Possible(p, do)
BY DEF Possible, Needs, Bars, NewRow

LEMMA AbsentIs ==
    ASSUME NEW p
    PROVE  Possible(p, "absent") => ~Registered
BY DEF Possible, NewRow

LEMMA CleanTakes ==
    ASSUME NEW q \in Seq(CleanStep)
    PROVE  ~Takes(q, Registering) /\ ~Takes(q, Checks)
<1>1. \A i \in DOMAIN q : q[i] \in CleanStep
  OBVIOUS
<1>2. \A s \in CleanStep : s.do \notin Registering /\ s.do \notin Checks
  BY DEF CleanStep, Registering, Checks
<1> QED
  BY <1>1, <1>2 DEF Takes

(* Cleanups register nothing, and check nothing. *)
LEMMA UndoRegistersNothing ==
    ASSUME NEW c \in Creations \cup Imports, NEW undo \in UndosOf(c)
    PROVE  ~Takes(undo, Registering) /\ ~Takes(undo, Checks)
<1>1. CASE c \in Locals
  BY <1>1, KindsAre, CleanTakes
<1>2. CASE c \notin Locals
  BY <1>2 DEF UndosOf, Takes
<1> QED
  BY <1>1, <1>2

(* What a creation or an import has left to do is the rest of its plan, or  *)
(* registers nothing.                                                       *)
LEMMA CreationMoves ==
    ASSUME NEW p \in Processes, NEW s, NEW todo,
           job[p].cmd \in Creations \cup Imports, job[p].undo \in UndosOf(job[p].cmd),
           \/ todo = Tail(job[p].todo)
           \/ s.on = "clean" /\ todo = Single("dir-")
           \/ s.on = "stop" /\ todo = job[p].undo
           \/ s.on = "exit" /\ todo = <<>>
    PROVE  todo = Tail(job[p].todo) \/ (~Takes(todo, Registering) /\ ~Takes(todo, Checks))
<1>1. ~Takes(Single("dir-"), Registering) /\ ~Takes(Single("dir-"), Checks)
  BY StepIs DEF Single, Takes, Registering, Checks
<1>2. ~Takes(<<>>, Registering) /\ ~Takes(<<>>, Checks)
  BY DEF Takes
<1> QED
  BY <1>1, <1>2, UndoRegistersNothing

LEMMA RemovalMoves ==
    ASSUME TypeInv, RemovalsEnd, NEW p \in Processes, Do(p) \/ Refuse(p) \/ Fail(p),
           job[p].cmd \in Removals, Registered', ~broken'
    PROVE  job'[p].todo # <<>> /\ job'[p].todo[Len(job'[p].todo)].do = "row-"
<1>1. PICK s \in StepsOf(job[p].cmd) :
              /\ job[p].cmd \in Commands /\ job[p].todo # <<>> /\ s = Head(job[p].todo)
              /\ job[p].todo \in Seq(StepsOf(job[p].cmd))
              /\ \/ /\ Possible(p, s.do) /\ row' = RowAfter(p, s.do)
                    /\ s.do # "orphan" => job'[p].todo = Tail(job[p].todo)
                 \/ /\ row' = row
                    /\ Possible(p, s.do) => (broken' <=> broken \/ job[p].cmd \in Removals)
                    /\ s.on \in {"go", "blind"} => job'[p].todo = Tail(job[p].todo)
  BY TodoMoves
<1>2. /\ s.on \in {"stop", "go"} /\ s.do # "orphan" /\ s.do \notin Registering
      /\ s.on = "stop" => s.do \in {"find", "lock", "row-"}
  BY <1>1, FileKinds, CommandsApart
<1>3. Registered /\ s.do # "row-" /\ job'[p].todo = Tail(job[p].todo)
  <2>1. CASE /\ Possible(p, s.do) /\ row' = RowAfter(p, s.do)
             /\ s.do # "orphan" => job'[p].todo = Tail(job[p].todo)
    BY <1>2, <2>1, RowMoves
  <2>2. CASE /\ row' = row /\ ~Possible(p, s.do)
             /\ s.on \in {"go", "blind"} => job'[p].todo = Tail(job[p].todo)
    <3>1. Registered
      BY <2>2 DEF Registered
    <3>2. s.do \notin {"find", "lock", "row-"}
      BY <2>2, <3>1, RowPossible
    <3> QED
      BY <1>2, <2>2, <3>1, <3>2
  <2> QED
    BY <1>1, <2>1, <2>2
<1>4. job[p].todo[Len(job[p].todo)].do = "row-"
  BY <1>3 DEF RemovalsEnd
<1> QED
  BY <1>1, <1>3, <1>4, TailTakes

(* After its first step a creation checks no more. *)
LEMMA ChecksMove ==
    ASSUME TypeInv, ChecksFirst, NEW p \in Processes, Do(p) \/ Refuse(p) \/ Fail(p),
           job[p].cmd \in Creations
    PROVE  /\ ~Takes(job'[p].todo, Checks)
           /\ job'[p].todo # <<>> => Head(job'[p].todo).do \notin Checks
           /\ Writing(p)' <=> job'[p].todo # <<>>
<1>1. PICK s \in StepsOf(job[p].cmd) :
              /\ job[p].cmd \in Commands /\ job[p].todo # <<>> /\ s = Head(job[p].todo)
              /\ job[p].todo \in Seq(StepsOf(job[p].cmd)) /\ job[p].undo \in UndosOf(job[p].cmd)
              /\ job'[p].cmd = job[p].cmd
              /\ \/ s.do # "orphan" => job'[p].todo = Tail(job[p].todo)
                 \/ /\ s.on \in {"go", "blind"} => job'[p].todo = Tail(job[p].todo)
                    /\ s.on = "clean" => job'[p].todo = Single("dir-")
                    /\ s.on = "stop" => job'[p].todo = job[p].undo
                    /\ s.on = "exit" => job'[p].todo = <<>>
  BY TodoMoves
<1>2. s.on \in {"stop", "go", "clean", "exit"} /\ s.do # "orphan"
  BY <1>1, FileKinds
<1>3. job'[p].todo = Tail(job[p].todo) \/ ~Takes(job'[p].todo, Checks)
  <2>1. \/ job'[p].todo = Tail(job[p].todo)
        \/ s.on = "clean" /\ job'[p].todo = Single("dir-")
        \/ s.on = "stop" /\ job'[p].todo = job[p].undo
        \/ s.on = "exit" /\ job'[p].todo = <<>>
    BY <1>1, <1>2
  <2> QED
    BY <1>1, <2>1, CreationMoves
<1>4. ~Takes(Tail(job[p].todo), Checks)
  <2>1. /\ DOMAIN job[p].todo = 1..Len(job[p].todo) /\ Len(job[p].todo) \in Nat
        /\ DOMAIN Tail(job[p].todo) = 1..(Len(job[p].todo) - 1)
        /\ \A i \in 1..(Len(job[p].todo) - 1) : Tail(job[p].todo)[i] = job[p].todo[i + 1]
    BY <1>1, TailIs
  <2>2. ASSUME NEW i \in 1..(Len(job[p].todo) - 1), Tail(job[p].todo)[i].do \in Checks
        PROVE  FALSE
    <3>1. i + 1 \in DOMAIN job[p].todo /\ job[p].todo[i + 1].do \in Checks /\ i + 1 # 1
      BY <2>1, <2>2
    <3> QED
      BY <3>1 DEF ChecksFirst, FirstOnly
  <2> QED
    BY <2>1, <2>2 DEF Takes
<1>5. ~Takes(job'[p].todo, Checks)
  BY <1>3, <1>4
<1>6. job'[p].todo \in Seq(StepsOf(job[p].cmd))
  <2>1. TypeInv'
    BY TypeStep DEF Next
  <2> QED
    BY <1>1, <2>1 DEF TypeInv, JobTypes, JobType
<1>7. job'[p].todo # <<>> => Head(job'[p].todo).do \notin Checks
  BY <1>5, <1>6, TailTakes
<1> QED
  BY <1>1, <1>5, <1>7 DEF Writing, Checks

(* A creation that fails at its check has nothing left to do. *)
LEMMA CheckFails ==
    ASSUME TypeInv, ChecksFirst, NEW p \in Processes, Refuse(p) \/ Fail(p),
           job[p].cmd \in Creations, ~Writing(p)
    PROVE  job'[p].todo = <<>>
<1>1. PICK c \in JobType(job[p].cmd), s \in StepsOf(job[p].cmd) :
              /\ c = job[p] /\ c.cmd \in Commands /\ c.todo # <<>> /\ s = Head(c.todo)
              /\ \/ job'[p] = Fallen(p, c, s, {})
                 \/ job'[p] = Fallen(p, c, s, have' \ have)
  <2>1. CASE Refuse(p)
    <3>1. PICK c \in JobType(job[p].cmd), s \in StepsOf(job[p].cmd) :
              /\ c = job[p] /\ c.cmd \in Commands /\ c.todo # <<>> /\ s = Head(c.todo)
              /\ job' = [job EXCEPT ![p] = Fallen(p, c, s, {})]
      BY <2>1, RefuseIs
    <3> QED
      BY <3>1 DEF TypeInv, JobTypes
  <2>2. CASE Fail(p)
    <3>1. PICK c \in JobType(job[p].cmd), s \in StepsOf(job[p].cmd) :
              /\ c = job[p] /\ c.cmd \in Commands /\ c.todo # <<>> /\ s = Head(c.todo)
              /\ job' = [job EXCEPT ![p] = Fallen(p, c, s, have' \ have)]
      BY <2>2, FailIs
    <3> QED
      BY <3>1 DEF TypeInv, JobTypes
  <2> QED
    BY <2>1, <2>2
<1>2. s.do \in Checks /\ job[p].undo = <<>>
  BY <1>1 DEF Writing, Checks, ChecksFirst
<1>3. s.on = "stop"
  BY <1>1, <1>2, FileKinds DEF Checks
<1> QED
  BY <1>1, <1>2, <1>3, FallenTodo

LEMMA CreationEnds ==
    ASSUME TypeInv, ChecksFirst, CreationsEnd, RowsFollow, ~broken', NEW p \in Processes,
           Do(p) \/ Refuse(p) \/ Fail(p), job[p].cmd \in Creations, Registered'
    PROVE  job'[p].todo = <<>>
<1>1. PICK s \in StepsOf(job[p].cmd) :
              /\ job[p].cmd \in Commands /\ job[p].todo # <<>> /\ s = Head(job[p].todo)
              /\ job[p].todo \in Seq(StepsOf(job[p].cmd)) /\ job[p].undo \in UndosOf(job[p].cmd)
              /\ \/ /\ Possible(p, s.do) /\ row' = RowAfter(p, s.do)
                    /\ broken' = (broken \/ Overlap' \/ (s.do = "user+" /\ Registered))
                    /\ s.do # "orphan" => job'[p].todo = Tail(job[p].todo)
                 \/ /\ row' = row
                    /\ s.on = "stop" => job'[p].todo = job[p].undo
  BY TodoMoves
<1>2. s.do # "orphan" /\ (s.do \in Checks => s.on = "stop")
  BY <1>1, FileKinds DEF Checks
<1>3. CASE Registered
  <2>1. s.do \in Checks /\ job[p].undo = <<>>
    BY <1>1, <1>3 DEF CreationsEnd, Writing, Checks, ChecksFirst
  <2>2. ~Possible(p, "absent")
    BY <1>3, AbsentIs
  <2>3. job'[p].todo = job[p].undo
    BY <1>1, <1>2, <1>3, <2>1, <2>2 DEF Checks
  <2> QED
    BY <2>1, <2>3
<1>4. CASE ~Registered
  <2>1. Possible(p, s.do) /\ row' = RowAfter(p, s.do) /\ job'[p].todo = Tail(job[p].todo)
    BY <1>1, <1>2, <1>4 DEF Registered
  <2>2. s.do \in Registering
    BY <1>4, <2>1, RowMoves
  <2>3. LastOnly(job[p].todo, Registering)
    BY DEF RowsFollow
  <2> QED
    BY <1>1, <2>1, <2>2, <2>3, TailTakes
<1> QED
  BY <1>3, <1>4

LEMMA FollowMoves ==
    ASSUME TypeInv, ChecksFirst, RowsFollow, NEW p \in Processes, Do(p) \/ Refuse(p) \/ Fail(p),
           job[p].cmd \in Creations \cup Imports
    PROVE  /\ job[p].cmd \in Creations =>
                 /\ LastOnly(job'[p].todo, Registering)
                 /\ Takes(job'[p].todo, Registering) => ~Takes(job'[p].todo, Removing)
           /\ \/ Maker(p)' /\ "dir" \in have'
              \/ Precede(job'[p].todo, Registering, {"scaffold", "stat"})
<1>1. PICK s \in StepsOf(job[p].cmd) :
              /\ job[p].cmd \in Commands /\ job[p].todo # <<>> /\ s = Head(job[p].todo)
              /\ job[p].todo \in Seq(StepsOf(job[p].cmd)) /\ job[p].undo \in UndosOf(job[p].cmd)
              /\ have' \in {have, Effect(p, s.do), have \cup (Adds(s.do) \cap {"dir", "sdir", "pdir"})}
              /\ \/ /\ Possible(p, s.do) /\ have' = Effect(p, s.do)
                    /\ s.do # "orphan" => job'[p].todo = Tail(job[p].todo)
                 \/ /\ s.on \in {"go", "blind"} => job'[p].todo = Tail(job[p].todo)
                    /\ s.on = "clean" => job'[p].todo = Single("dir-")
                    /\ s.on = "stop" => job'[p].todo = job[p].undo
                    /\ s.on = "exit" => job'[p].todo = <<>>
              /\ job'[p].cmd = job[p].cmd
  BY TodoMoves
<1>2. /\ s.on \in {"stop", "go", "blind", "clean", "exit"} /\ s.do # "orphan"
      /\ s.do \in {"scaffold", "stat"} => s.on = "stop"
      /\ job[p].cmd \in Imports => s.do \notin Removing
  BY <1>1, FileKinds
<1>3. \/ job'[p].todo = Tail(job[p].todo)
      \/ s.on = "clean" /\ job'[p].todo = Single("dir-")
      \/ s.on = "stop" /\ job'[p].todo = job[p].undo
      \/ s.on = "exit" /\ job'[p].todo = <<>>
  BY <1>1, <1>2
<1>4. CASE ~Takes(job'[p].todo, Registering)
  BY <1>4, TakesNothing
<1>5. CASE Takes(job'[p].todo, Registering)
  <2>1. job'[p].todo = Tail(job[p].todo)
    BY <1>1, <1>3, <1>5, CreationMoves
  <2>2. Takes(job[p].todo, Registering)
    BY <1>1, <1>5, <2>1, TailTakes
  <2>3. ASSUME job[p].cmd \in Creations
        PROVE  /\ LastOnly(job'[p].todo, Registering) /\ ~Takes(job'[p].todo, Removing)
               /\ s.do \notin Removing
    BY <1>1, <2>1, <2>2, <2>3, TailTakes DEF RowsFollow
  <2>4. s.do \notin Removing
    BY <1>2, <2>3
  <2>8. Maker(p)'
    <3>1. job'[p].todo # <<>>
      BY <1>5 DEF Takes
    <3> QED
      BY <1>1, <3>1, ChecksMove DEF Maker
  <2>5. "dir" \in have \/ Precede(job[p].todo, Registering, {"scaffold", "stat"})
    BY DEF RowsFollow
  <2>6. CASE "dir" \in have
    BY <1>1, <2>3, <2>4, <2>6, <2>8, DirMoves
  <2>7. CASE "dir" \notin have
    <3>1. s.do \in {"scaffold", "stat"} \/ Precede(job'[p].todo, Registering, {"scaffold", "stat"})
      BY <1>1, <2>1, <2>5, <2>7, PrecedeTail
    <3>2. CASE s.do \in {"scaffold", "stat"}
      <4>1. Possible(p, s.do) /\ have' = Effect(p, s.do)
        <5>1. job'[p].todo # job[p].undo
          BY <1>1, <1>5, <2>1, <3>2, UndoRegistersNothing
        <5> QED
          BY <1>1, <1>2, <3>2, <5>1
      <4>2. "dir" \in have'
        BY <1>1, <2>7, <3>2, <4>1, DirMoves
      <4> QED
        BY <2>3, <2>8, <4>2
    <3> QED
      BY <2>3, <3>1, <3>2
  <2> QED
    BY <2>6, <2>7
<1> QED
  BY <1>4, <1>5

LEMMA FilesMove ==
    ASSUME TypeInv, FilesInv, NEW p \in Processes, Do(p) \/ Refuse(p) \/ Fail(p)
    PROVE  FilesInv'
<1> SUFFICES ASSUME ~broken'
             PROVE  /\ ~Overlap' /\ ChecksFirst' /\ RemovalsEnd' /\ CreationsEnd' /\ RowsFollow'
                    /\ RegisteredHasFiles'
  BY DEF FilesInv, RegisteredHasFiles
<1>1. PICK s \in StepsOf(job[p].cmd) :
              /\ job[p].cmd \in Commands /\ job[p].todo # <<>> /\ s = Head(job[p].todo)
              /\ job[p].todo \in Seq(StepsOf(job[p].cmd))
              /\ have' \in {have, Effect(p, s.do), have \cup (Adds(s.do) \cap {"dir", "sdir", "pdir"})}
              /\ \A q \in Processes \ {p} : job'[q] = job[q]
              /\ \A q \in Processes : job'[q].cmd = job[q].cmd
              /\ \/ /\ Possible(p, s.do) /\ row' = RowAfter(p, s.do)
                    /\ broken' = (broken \/ Overlap' \/ (s.do = "user+" /\ Registered))
                 \/ /\ row' = row
                    /\ ~Possible(p, s.do) => have' = have /\ broken' = broken
                    /\ Possible(p, s.do) => (broken' <=> broken \/ job[p].cmd \in Removals)
  BY TodoMoves
<1>2. /\ ~broken /\ ~Overlap /\ ChecksFirst /\ RemovalsEnd /\ CreationsEnd /\ RowsFollow /\ RegisteredHasFiles
  <2>1. broken => broken'
    <3>1. CASE broken' = (broken \/ Overlap' \/ (s.do = "user+" /\ Registered))
      BY <3>1, Zenon
    <3>2. CASE broken' = broken \/ (broken' <=> broken \/ job[p].cmd \in Removals)
      BY <3>2, Zenon
    <3> QED
      BY <1>1, <3>1, <3>2
  <2> QED
    BY <2>1 DEF FilesInv
<1>3. ASSUME Registered', ~Registered
      PROVE  s.do \in Registering /\ job[p].cmd \in Creations \cup Imports
  <2>1. Possible(p, s.do) /\ row' = RowAfter(p, s.do)
    BY <1>1, <1>3 DEF Registered
  <2>2. s.do \in Registering
    BY <1>3, <2>1, RowMoves
  <2> QED
    BY <1>1, <2>2, FileKinds
<1>4. ASSUME "dir" \in have, "dir" \notin have'
      PROVE  s.do \in Removing /\ job[p].cmd \in Removals \cup Creations
  <2>1. s.do \in Removing
    BY <1>1, <1>4, DirMoves
  <2> QED
    BY <1>1, <2>1, FileKinds
<1>5. ASSUME NEW q \in Processes \ {p}
      PROVE  /\ Writing(q)' <=> Writing(q)
             /\ Taker(q)' <=> Taker(q)
             /\ Maker(q)' <=> Maker(q)
  BY <1>1, <1>5 DEF Writing, Taker, Maker
<1>6. /\ s.do \in Registering => s.do \notin Checks
      /\ s.do \in Removing => s.do \notin Checks
      /\ s.do \notin Checks /\ job[p].cmd \in Creations => Writing(p)
  BY <1>1 DEF Writing, Checks, Registering, Removing
<1>7. ~Overlap' /\ ChecksFirst'
  <2>1. ~Overlap'
    <3>1. CASE Do(p)
      BY <3>1, DoIs
    <3>2. CASE Refuse(p) \/ Fail(p)
      <4>1. Writing(p)' => Writing(p)
        <5>1. SUFFICES ASSUME Writing(p)', ~Writing(p) PROVE FALSE
          OBVIOUS
        <5>2. job[p].cmd \in Creations /\ job'[p].todo # <<>>
          BY <1>1, <5>1 DEF Writing
        <5> QED
          BY <1>2, <3>2, <5>1, <5>2, CheckFails
      <4>2. (Taker(p)' => Taker(p)) /\ (Maker(p)' => Maker(p))
        BY <1>1, <4>1 DEF Taker, Maker
      <4> QED
        BY <1>2, <1>5, <4>2 DEF Overlap
    <3> QED
      BY <3>1, <3>2
  <2>2. ASSUME NEW q \in Processes, job'[q].cmd \in Creations
        PROVE  /\ FirstOnly(job'[q].todo, Checks)
               /\ job'[q].todo # <<>> /\ Head(job'[q].todo).do \in Checks => job'[q].undo = <<>>
    <3>1. CASE q = p
      BY <1>1, <1>2, <2>2, <3>1, ChecksMove DEF Takes, FirstOnly
    <3>2. CASE q # p
      BY <1>1, <1>2, <2>2, <3>2 DEF ChecksFirst
    <3> QED
      BY <3>1, <3>2
  <2> QED
    BY <2>1, <2>2 DEF ChecksFirst
<1>8. ASSUME NEW q \in Processes, job[q].cmd \in Removals, Registered'
      PROVE  job'[q].todo # <<>> /\ job'[q].todo[Len(job'[q].todo)].do = "row-"
  <2>1. CASE q = p
    BY <1>2, <1>8, <2>1, RemovalMoves
  <2>2. CASE q # p
    <3>1. Registered
      <4>1. SUFFICES ASSUME ~Registered PROVE FALSE
        OBVIOUS
      <4>2. Maker(p)
        BY <1>3, <1>6, <1>8, <4>1 DEF Maker
      <4>3. Taker(q)
        BY <1>8 DEF Taker
      <4> QED
        BY <1>2, <2>2, <4>2, <4>3, OverlapIs
    <3> QED
      BY <1>1, <1>2, <1>8, <2>2, <3>1 DEF RemovalsEnd
  <2> QED
    BY <2>1, <2>2
<1>9. ASSUME NEW q \in Processes, Registered'
      PROVE  ~Writing(q)'
  <2>1. CASE q = p
    <3>1. SUFFICES ASSUME job[p].cmd \in Creations PROVE ~Writing(p)'
      BY <1>1, <2>1 DEF Writing
    <3>2. job'[p].todo = <<>>
      BY <1>2, <1>9, <3>1, CreationEnds
    <3> QED
      BY <3>2 DEF Writing
  <2>2. CASE q # p
    <3>1. SUFFICES ASSUME Writing(q) PROVE FALSE
      BY <1>5, <2>2
    <3>2. ~Registered
      BY <1>2, <3>1 DEF CreationsEnd
    <3>3. Maker(p) /\ Taker(q)
      BY <1>3, <1>6, <1>9, <3>1, <3>2 DEF Maker, Taker
    <3> QED
      BY <1>2, <2>2, <3>3, OverlapIs
  <2> QED
    BY <2>1, <2>2
<1>10. ASSUME NEW q \in Processes, job[q].cmd \in Creations \cup Imports
       PROVE  /\ job[q].cmd \in Creations =>
                    /\ LastOnly(job'[q].todo, Registering)
                    /\ Takes(job'[q].todo, Registering) => ~Takes(job'[q].todo, Removing)
              /\ \/ Maker(q)' /\ "dir" \in have'
                 \/ Precede(job'[q].todo, Registering, {"scaffold", "stat"})
  <2>1. CASE q = p
    BY <1>2, <1>10, <2>1, FollowMoves
  <2>2. CASE q # p
    <3>1. ASSUME Maker(q), "dir" \in have PROVE "dir" \in have'
      <4>1. SUFFICES ASSUME "dir" \notin have' PROVE FALSE
        OBVIOUS
      <4>2. Taker(p)
        BY <1>4, <1>6, <3>1, <4>1 DEF Taker
      <4> QED
        BY <1>2, <2>2, <3>1, <4>2, OverlapIs
    <3> QED
      BY <1>1, <1>2, <1>5, <1>10, <2>2, <3>1 DEF RowsFollow
  <2> QED
    BY <2>1, <2>2
<1>11. ASSUME Registered', "dir" \notin have'
       PROVE  \E q \in Processes : job'[q].cmd \in Removals
  <2>1. CASE ~Registered
    <3>1. s.do \in Registering /\ job[p].cmd \in Creations \cup Imports
      BY <1>3, <1>11, <2>1
    <3>2. "dir" \in have
      BY <1>1, <1>2, <3>1, PrecedeTail DEF RowsFollow
    <3>3. s.do \in Removing
      BY <1>4, <1>11, <3>2
    <3> QED
      BY <3>1, <3>3 DEF Registering, Removing
  <2>2. CASE Registered /\ "dir" \notin have
    BY <1>1, <1>2, <2>2 DEF RegisteredHasFiles
  <2>3. CASE Registered /\ "dir" \in have
    <3>1. s.do \in Removing /\ job[p].cmd \in Removals \cup Creations
      BY <1>4, <1>11, <2>3
    <3>2. CASE job[p].cmd \in Creations
      BY <1>2, <1>6, <2>3, <3>1, <3>2 DEF CreationsEnd
    <3> QED
      BY <1>1, <3>1, <3>2
  <2> QED
    BY <2>1, <2>2, <2>3
<1>12. RemovalsEnd' /\ CreationsEnd' /\ RowsFollow' /\ RegisteredHasFiles'
  <2>1. RemovalsEnd'
    BY <1>1, <1>8 DEF RemovalsEnd
  <2>2. CreationsEnd'
    BY <1>9 DEF CreationsEnd
  <2>3. RowsFollow'
    BY <1>1, <1>10 DEF RowsFollow
  <2>4. RegisteredHasFiles'
    BY <1>11 DEF RegisteredHasFiles
  <2> QED
    BY <2>1, <2>2, <2>3, <2>4
<1> QED
  BY <1>7, <1>12

LEMMA JoinTakes ==
    ASSUME NEW T, NEW q \in Seq(T), NEW r \in Seq(T), NEW A
    PROVE  /\ ~Takes(q, A) /\ ~Takes(r, A) => ~Takes(q \o r, A)
           /\ ~Takes(q, A) /\ LastOnly(r, A) => LastOnly(q \o r, A)
           /\ r # <<>> => q \o r # <<>> /\ (q \o r)[Len(q \o r)] = r[Len(r)]
<1>1. /\ Len(q) \in Nat /\ Len(r) \in Nat
      /\ DOMAIN (q \o r) = 1..(Len(q) + Len(r)) /\ DOMAIN q = 1..Len(q) /\ DOMAIN r = 1..Len(r)
      /\ \A i \in 1..Len(q) : (q \o r)[i] = q[i]
      /\ \A i \in 1..Len(r) : (q \o r)[Len(q) + i] = r[i]
  BY JoinIs
<1> DEFINE both == q \o r
<1>2. Len(both) = Len(q) + Len(r)
  OBVIOUS
<1>3. ASSUME ~Takes(q, A), NEW i \in 1..(Len(q) + Len(r)), both[i].do \in A
      PROVE  \E k \in 1..Len(r) : i = Len(q) + k /\ r[k].do \in A
  <2>1. i \notin 1..Len(q)
    BY <1>1, <1>3 DEF Takes
  <2>2. i - Len(q) \in 1..Len(r) /\ i = Len(q) + (i - Len(q))
    BY <1>1, <2>1
  <2>3. PICK k \in 1..Len(r) : i = Len(q) + k
    BY <2>2
  <2> QED
    BY <1>1, <1>3, <2>3
<1>4. ~Takes(q, A) /\ ~Takes(r, A) => ~Takes(both, A)
  BY <1>1, <1>3 DEF Takes
<1>5. ~Takes(q, A) /\ LastOnly(r, A) => LastOnly(both, A)
  BY <1>1, <1>2, <1>3 DEF LastOnly
<1>6. r # <<>> => both # <<>> /\ both[Len(both)] = r[Len(r)]
  <2> SUFFICES ASSUME r # <<>> PROVE both # <<>> /\ both[Len(both)] = r[Len(r)]
    OBVIOUS
  <2>1. Len(r) \in 1..Len(r) /\ Len(r) > 0
    BY <1>1
  <2>2. both[Len(q) + Len(r)] = r[Len(r)]
    BY <1>1, <2>1
  <2>3. Len(both) # 0
    BY <1>1, <1>2, <2>1
  <2> QED
    BY <1>2, <2>2, <2>3
<1> QED
  BY <1>4, <1>5, <1>6

LEMMA CreateFollows ==
    ASSUME NEW github \in BOOLEAN
    PROVE  /\ LastOnly(createCmd(github), Registering)
           /\ ~Takes(createCmd(github), Removing)
           /\ Precede(createCmd(github), Registering, {"scaffold", "stat"})
           /\ createCmd(github) # <<>> /\ Head(createCmd(github)).do = "user+"
           /\ FirstOnly(createCmd(github), Checks)
<1> DEFINE first == <<U("user+", "user-"), U("scaffold", "dir-"), S("dotenv", "stop"), S("chown", "stop")>>
           hub == IF github THEN <<U("repo+", "repo-"), S("push", "go")>> ELSE <<>>
           last == <<S("openDB", "exit"), S("row+", "stop")>>
<1>1. first \in Seq(CreateStep)
  BY StepIs DEF CreateStep, Nothing
<1>2. <<U("repo+", "repo-"), S("push", "go")>> \in Seq(CreateStep)
  BY StepIs DEF CreateStep, Nothing
<1>3. hub \in Seq(CreateStep)
  BY <1>2, NoSteps
<1>4. last \in Seq(CreateStep)
  BY StepIs DEF CreateStep, Nothing
<1>5. \A A \in {Registering, Removing} : ~Takes(first, A)
  BY StepIs DEF Takes, Registering, Removing
<1>6. \E i \in DOMAIN first : first[i].do \in {"scaffold", "stat"}
  <2>1. 2 \in DOMAIN first /\ first[2].do = "scaffold"
    BY StepIs
  <2> QED
    BY <2>1
<1>7. \A A \in {Registering, Removing} : ~Takes(hub, A)
  BY StepIs DEF Takes, Registering, Removing
<1>8. LastOnly(last, Registering) /\ ~Takes(last, Removing) /\ last # <<>>
  BY StepIs DEF LastOnly, Takes, Registering, Removing
<1>15. /\ ~Takes(hub, Checks) /\ ~Takes(last, Checks)
       /\ FirstOnly(first, Checks) /\ first # <<>> /\ Len(first) = 4 /\ first[1].do = "user+"
  <2>1. (\A do, on : S(do, on).do = do) /\ (\A do, undo : U(do, undo).do = do)
    BY StepIs
  <2>2. ~Takes(hub, Checks)
    <3>1. ~Takes(<<U("repo+", "repo-"), S("push", "go")>>, Checks)
      BY <2>1 DEF Takes, Checks
    <3>2. ~Takes(<<>>, Checks)
      BY DEF Takes
    <3> QED
      BY <3>1, <3>2
  <2>3. ~Takes(last, Checks)
    BY <2>1 DEF Takes, Checks
  <2>4. FirstOnly(first, Checks)
    BY <2>1 DEF FirstOnly, Checks
  <2>5. first # <<>> /\ Len(first) = 4 /\ first[1].do = "user+"
    BY <2>1
  <2> QED
    BY <2>2, <2>3, <2>4, <2>5
<1>9. createCmd(github) = (first \o hub) \o last
  BY DEF createCmd
<1> HIDE DEF first, hub, last
<1>10. first \o hub \in Seq(CreateStep) /\ \A A \in {Registering, Removing} : ~Takes(first \o hub, A)
  BY <1>1, <1>3, <1>5, <1>7, JoinIs, JoinTakes
<1>11. PICK f \in Seq(CreateStep) : f = first \o hub
  BY <1>10
<1>12. \E i \in DOMAIN f : f[i].do \in {"scaffold", "stat"}
  BY <1>1, <1>3, <1>6, <1>11, JoinIs
<1>13. LastOnly(f \o last, Registering) /\ ~Takes(f \o last, Removing)
  BY <1>4, <1>8, <1>10, <1>11, JoinTakes
<1>14. Precede(f \o last, Registering, {"scaffold", "stat"})
  BY <1>4, <1>10, <1>11, <1>12, TakesNothing, PrecedeJoin
<1>16. ~Takes(hub \o last, Checks) /\ hub \o last \in Seq(CreateStep)
  BY <1>3, <1>4, <1>15, JoinIs, JoinTakes
<1>17. PICK l \in Seq(CreateStep) : l = hub \o last
  BY <1>16
<1>18. f \o last = first \o l
  BY <1>1, <1>3, <1>4, <1>11, <1>17
<1>19. /\ Len(l) \in Nat /\ DOMAIN (first \o l) = 1..(4 + Len(l)) /\ DOMAIN l = 1..Len(l)
       /\ DOMAIN first = 1..4
       /\ \A i \in 1..4 : (first \o l)[i] = first[i]
       /\ \A i \in 1..Len(l) : (first \o l)[4 + i] = l[i]
  <2>1. PICK n : n = Len(first)
    OBVIOUS
  <2>2. /\ Len(l) \in Nat /\ DOMAIN (first \o l) = 1..(n + Len(l)) /\ DOMAIN l = 1..Len(l)
        /\ DOMAIN first = 1..n
        /\ \A i \in 1..n : (first \o l)[i] = first[i]
        /\ \A i \in 1..Len(l) : (first \o l)[n + i] = l[i]
    BY <1>1, <1>17, <2>1, JoinIs
  <2> QED
    BY <1>15, <2>1, <2>2
<1>20. FirstOnly(first \o l, Checks)
  <2> SUFFICES ASSUME NEW i \in 1..(4 + Len(l)), (first \o l)[i].do \in Checks PROVE i = 1
    BY <1>19 DEF FirstOnly
  <2>1. CASE i \in 1..4
    BY <1>15, <1>19, <2>1 DEF FirstOnly
  <2>2. CASE i \notin 1..4
    <3>1. i - 4 \in 1..Len(l) /\ i = 4 + (i - 4)
      BY <1>19, <2>2
    <3>2. PICK k \in 1..Len(l) : i = 4 + k
      BY <3>1
    <3> QED
      BY <1>15, <1>16, <1>17, <1>19, <3>2 DEF Takes
  <2> QED
    BY <2>1, <2>2
<1>21. first \o l # <<>> /\ Head(first \o l).do = "user+"
  <2>1. first \o l \in Seq(CreateStep) /\ first \o l # <<>>
    BY <1>1, <1>15, JoinIs
  <2>2. Head(first \o l) = (first \o l)[1]
    BY <2>1, TailIs
  <2> QED
    BY <1>15, <1>19, <2>1, <2>2
<1> QED
  BY <1>9, <1>11, <1>13, <1>14, <1>18, <1>20, <1>21

LEMMA FilePlans ==
    /\ \A c \in Creations : /\ LastOnly(Plans[c], Registering) /\ ~Takes(Plans[c], Removing)
                            /\ Precede(Plans[c], Registering, {"scaffold", "stat"})
                            /\ Plans[c] # <<>> /\ Head(Plans[c]).do \in Checks
                            /\ FirstOnly(Plans[c], Checks)
    /\ Precede(Plans["import"], Registering, {"scaffold", "stat"})
    /\ \A c \in Removals : Plans[c] # <<>> /\ Plans[c][Len(Plans[c])].do = "row-"
<1>1. /\ LastOnly(handleCreateProject, Registering) /\ ~Takes(handleCreateProject, Removing)
      /\ handleCreateProject # <<>> /\ Head(handleCreateProject).do = "absent"
      /\ FirstOnly(handleCreateProject, Checks)
  BY StepIs DEF handleCreateProject, LastOnly, FirstOnly, Takes, Registering, Removing, Checks
<1>2. Precede(handleCreateProject, Registering, {"scaffold", "stat"})
  BY StepIs DEF handleCreateProject, Precede, Registering
<1>3. Precede(importCmd, Registering, {"scaffold", "stat"})
  BY StepIs DEF importCmd, Precede, Registering
<1>4. ASSUME NEW keep \in BOOLEAN
      PROVE  /\ destroyCmd(keep) # <<>> /\ destroyCmd(keep)[Len(destroyCmd(keep))].do = "row-"
             /\ handleDeleteProject(keep) # <<>>
             /\ handleDeleteProject(keep)[Len(handleDeleteProject(keep))].do = "row-"
  <2>a. /\ \A on \in {"stop", "go"} : \A do \in {"find", "lock", "row-"} : S(do, on) \in RemovalStep
        /\ \A do \in {"down", "repo-", "dir-", "user-"} : S(do, "go") \in RemovalStep
    BY StepIs DEF RemovalStep, Nothing
  <2>1. PICK f \in Seq(RemovalStep), l \in Seq(RemovalStep) :
          /\ l # <<>> /\ l[Len(l)].do = "row-" /\ destroyCmd(keep) = f \o l
    <3>1. /\ <<S("find", "stop"), S("down", "go"), S("repo-", "go")>> \in Seq(RemovalStep)
          /\ <<S("dir-", "go"), S("user-", "go")>> \in Seq(RemovalStep)
          /\ <<S("row-", "go")>> \in Seq(RemovalStep)
      BY <2>a
    <3>2. PICK l \in Seq(RemovalStep) : l = <<S("row-", "go")>>
      BY <3>1
    <3>3. l # <<>> /\ l[Len(l)].do = "row-"
      BY <3>2, StepIs
    <3> QED
      BY <3>1, <3>2, <3>3, NoSteps, JoinIs DEF destroyCmd
  <2>2. PICK f2 \in Seq(RemovalStep), l2 \in Seq(RemovalStep) :
          /\ l2 # <<>> /\ l2[Len(l2)].do = "row-" /\ handleDeleteProject(keep) = f2 \o l2
    <3>1. /\ <<S("find", "stop"), S("lock", "stop"), S("down", "go")>> \in Seq(RemovalStep)
          /\ <<S("dir-", "go")>> \in Seq(RemovalStep)
          /\ <<S("row-", "stop")>> \in Seq(RemovalStep)
      BY <2>a
    <3>2. PICK l2 \in Seq(RemovalStep) : l2 = <<S("row-", "stop")>>
      BY <3>1
    <3>3. l2 # <<>> /\ l2[Len(l2)].do = "row-"
      BY <3>2, StepIs
    <3> QED
      BY <3>1, <3>2, <3>3, NoSteps, JoinIs DEF handleDeleteProject
  <2> QED
    BY <2>1, <2>2, JoinTakes
<1>5. \A c \in Removals : Plans[c] # <<>> /\ Plans[c][Len(Plans[c])].do = "row-"
  BY <1>4, PlansAre DEF Removals
<1>6. \A c \in Creations : /\ LastOnly(Plans[c], Registering) /\ ~Takes(Plans[c], Removing)
                           /\ Precede(Plans[c], Registering, {"scaffold", "stat"})
                           /\ Plans[c] # <<>> /\ Head(Plans[c]).do \in Checks
                           /\ FirstOnly(Plans[c], Checks)
  BY <1>1, <1>2, CreateFollows, PlansAre DEF Creations, Checks
<1> QED
  BY <1>1, <1>3, <1>5, <1>6, PlansAre

LEMMA FilesStart ==
    ASSUME TypeInv, FilesInv, NEW p \in Processes, NEW c \in Commands, Start(p, c)
    PROVE  FilesInv'
<1>1. /\ broken' = (broken \/ Overlap' \/ (c \in {"apiImport", "discover"} /\ "dir" \notin have))
      /\ UNCHANGED <<have, row>>
  BY Zenon DEF Start
<1>2. job[p].cmd = None /\ job'[p].cmd = c /\ job'[p].todo = Plans[c] /\ job'[p].undo = <<>>
  BY StartIs
<1>3. \A q \in Processes \ {p} : /\ job'[q].cmd = job[q].cmd /\ job'[q].todo = job[q].todo
                                 /\ job'[q].undo = job[q].undo
  BY StartIs, ZenonT(60)
<1>4. Registered' = Registered
  BY <1>1 DEF Registered
<1>5. None \notin Removals \cup Creations \cup Imports
  BY IdleIs, WorkersAreCommands
<1>6. SUFFICES ASSUME ~broken'
               PROVE  ~Overlap' /\ ChecksFirst' /\ RemovalsEnd' /\ CreationsEnd' /\ RowsFollow'
  <2>1. RegisteredHasFiles'
    <3> SUFFICES ASSUME Registered, ~broken', "dir" \notin have
                 PROVE  \E q \in Processes : job'[q].cmd \in Removals
      BY <1>1, <1>4 DEF RegisteredHasFiles
    <3>1. PICK q \in Processes : job[q].cmd \in Removals
      BY <1>1 DEF FilesInv, RegisteredHasFiles
    <3> QED
      BY <1>2, <1>3, <1>5, <3>1
  <2> QED
    BY <2>1 DEF FilesInv
<1>7. ~broken /\ ~Overlap' /\ (c \in {"apiImport", "discover"} => "dir" \in have)
  BY <1>1, <1>6
<1>8. ChecksFirst /\ RemovalsEnd /\ CreationsEnd /\ RowsFollow
  BY <1>7 DEF FilesInv
<1>9. /\ ~Writing(p)'
      /\ c \in Imports => Maker(p)'
      /\ \A q \in Processes \ {p} : /\ Writing(q)' <=> Writing(q)
                                    /\ Maker(q)' <=> Maker(q)
  <2>1. ~Writing(p)'
    BY <1>2, FilePlans DEF Writing, Checks
  <2>2. \A q \in Processes \ {p} : Writing(q)' <=> Writing(q)
    BY <1>3 DEF Writing
  <2> QED
    BY <1>2, <1>3, <2>1, <2>2 DEF Maker
<1>13. ChecksFirst'
  BY <1>2, <1>3, <1>8, FilePlans DEF ChecksFirst
<1>10. RemovalsEnd'
  BY <1>2, <1>3, <1>4, <1>8, FilePlans DEF RemovalsEnd
<1>11. CreationsEnd'
  BY <1>4, <1>8, <1>9 DEF CreationsEnd
<1>12. RowsFollow'
  <2>1. c \in Creations \cup Imports =>
          (Maker(p)' /\ "dir" \in have) \/ Precede(Plans[c], Registering, {"scaffold", "stat"})
    BY <1>7, <1>9, FilePlans DEF Imports
  <2> QED
    BY <1>1, <1>2, <1>3, <1>8, <1>9, <2>1, FilePlans DEF RowsFollow
<1> QED
  BY <1>7, <1>10, <1>11, <1>12, <1>13

LEMMA FilesStep ==
    ASSUME TypeInv, FilesInv, [Next]_vars
    PROVE  FilesInv'
<1>0. None \notin Removals \cup Creations \cup Imports
  BY IdleIs, WorkersAreCommands
<1>1. CASE UNCHANGED vars
  BY <1>1 DEF vars, FilesInv, Overlap, Taker, Maker, Writing, ChecksFirst, RemovalsEnd, CreationsEnd, RowsFollow, RegisteredHasFiles,
              Registered, Active
<1>2. ASSUME NEW p \in Processes, NEW c \in Commands, Start(p, c) PROVE FilesInv'
  BY <1>2, FilesStart
<1>3. ASSUME NEW p \in Processes, Do(p) \/ Refuse(p) \/ Fail(p) PROVE FilesInv'
  BY <1>3, FilesMove
<1>4. ASSUME NEW p \in Processes, End(p) PROVE FilesInv'
  <2>1. /\ job[p].todo = <<>> /\ job'[p] = Idle /\ \A q \in Processes \ {p} : job'[q] = job[q]
        /\ UNCHANGED <<have, row, broken>>
    BY <1>4, EndIs
  <2>2. Registered' = Registered
    BY <2>1 DEF Registered
  <2>3. ASSUME ~broken, Registered, "dir" \notin have
        PROVE  \E q \in Processes : job'[q].cmd \in Removals
    <3>1. PICK q \in Processes : job[q].cmd \in Removals
      BY <2>3 DEF FilesInv, RegisteredHasFiles
    <3>2. q # p
      BY <2>1, <2>3, <3>1 DEF FilesInv, RemovalsEnd
    <3> QED
      BY <2>1, <3>1, <3>2
  <2>4. RegisteredHasFiles'
    BY <2>1, <2>2, <2>3 DEF RegisteredHasFiles
  <2>5. ~broken => ~Overlap' /\ ChecksFirst' /\ RemovalsEnd' /\ CreationsEnd' /\ RowsFollow'
    BY <1>0, <2>1, <2>2, IdleIs, CommandsApart
    DEF FilesInv, Overlap, Taker, Maker, Writing, ChecksFirst, RemovalsEnd, CreationsEnd, RowsFollow, Active
  <2> QED
    BY <2>1, <2>4, <2>5 DEF FilesInv
<1>5. ASSUME NEW gone, Die(gone) PROVE FilesInv'
  <2>1. /\ \A q \in Processes : job'[q] = IF q \in gone THEN Idle ELSE job[q]
        /\ UNCHANGED <<have, row>>
    BY <1>5, DieIs
  <2>2. ~broken' => ~broken /\ \A q \in gone : job[q].cmd \notin Removals
    BY <1>5, DieIs
  <2>3. Registered' = Registered
    BY <2>1 DEF Registered
  <2>4. RegisteredHasFiles'
    BY <2>1, <2>2, <2>3 DEF FilesInv, RegisteredHasFiles
  <2>5. ~broken' => ~Overlap' /\ ChecksFirst' /\ RemovalsEnd' /\ CreationsEnd' /\ RowsFollow'
    BY <1>0, <2>1, <2>2, <2>3, IdleIs, CommandsApart
    DEF FilesInv, Overlap, Taker, Maker, Writing, ChecksFirst, RemovalsEnd, CreationsEnd, RowsFollow, Active
  <2> QED
    BY <2>4, <2>5 DEF FilesInv
<1>6. CASE Crash
  <2>1. /\ \A q \in Processes : job'[q].cmd = job[q].cmd /\ job'[q].todo = job[q].todo
        /\ have' = have \ {"up"} /\ UNCHANGED <<row, broken>>
    BY <1>6, CrashIs
  <2>2. (Registered' <=> Registered) /\ ("dir" \in have' <=> "dir" \in have) /\ (broken' <=> broken)
    BY <2>1 DEF Registered
  <2>3. \A q \in Processes : (Writing(q)' <=> Writing(q)) /\ (Taker(q)' <=> Taker(q)) /\ (Maker(q)' <=> Maker(q))
    BY <2>1 DEF Writing, Taker, Maker
  <2>4. \A q \in Processes : job'[q].undo = job[q].undo
    BY <1>6, CrashIs
  <2>5. (Overlap' <=> Overlap) /\ (RegisteredHasFiles' <=> RegisteredHasFiles)
    BY <2>1, <2>2, <2>3 DEF Overlap, RegisteredHasFiles
  <2>6. (ChecksFirst' <=> ChecksFirst) /\ (RemovalsEnd' <=> RemovalsEnd)
        /\ (CreationsEnd' <=> CreationsEnd) /\ (RowsFollow' <=> RowsFollow)
    BY <2>1, <2>2, <2>3, <2>4 DEF ChecksFirst, RemovalsEnd, CreationsEnd, RowsFollow
  <2> QED
    BY <2>2, <2>5, <2>6 DEF FilesInv
<1>7. ASSUME NEW p \in Processes, Misread(p) PROVE FilesInv'
  <2>1. /\ job[p].cmd \in EnvWriters \cup {"apiCreate"}
        /\ job[p].cmd = "apiCreate" => broken'
        /\ job[p].cmd \in EnvWriters => broken' = broken
        /\ broken => broken'
        /\ \A q \in Processes \ {p} : job'[q] = job[q]
        /\ \A q \in Processes : job'[q].cmd = job[q].cmd
        /\ UNCHANGED <<have, row>>
    BY <1>7, MisreadIs DEF Misread
  <2>2. Registered' = Registered
    BY <2>1 DEF Registered
  <2>3. RegisteredHasFiles'
    BY <2>1, <2>2 DEF FilesInv, RegisteredHasFiles
  <2>4. EnvWriters \cap (Removals \cup Creations \cup Imports) = {}
    BY DEF EnvWriters, Removals, Creations, Imports
  <2>5. ASSUME ~broken' PROVE ~Overlap' /\ ChecksFirst' /\ RemovalsEnd' /\ CreationsEnd' /\ RowsFollow'
    <3>1. /\ ~broken /\ job[p].cmd \notin Removals \cup Creations \cup Imports
      BY <2>1, <2>4, <2>5
    <3>2. \A q \in Processes : /\ Writing(q)' <=> Writing(q)
                               /\ Taker(q)' <=> Taker(q)
                               /\ Maker(q)' <=> Maker(q)
      BY <2>1, <3>1 DEF Writing, Taker, Maker
    <3> QED
      BY <2>1, <2>2, <3>1, <3>2
      DEF FilesInv, Overlap, ChecksFirst, RemovalsEnd, CreationsEnd, RowsFollow
  <2> QED
    BY <2>3, <2>5 DEF FilesInv
<1> QED
  BY <1>1, <1>2, <1>3, <1>4, <1>5, <1>6, <1>7 DEF Next, Kill, ServerDies

(* A registered project keeps its directory unless it is being removed: a   *)
(* creation that fails removes the directory before there is a row, or      *)
(* without one, as long as no taker of the directory is at work beside a    *)
(* maker of the row, no creation gets past its check over a project that is *)
(* there, and no removal is cut short.                                      *)
THEOREM RegisteredKeepFiles == Spec => []RegisteredHasFiles
<1>1. Init => FilesInv
  <2> SUFFICES ASSUME Init PROVE FilesInv
    OBVIOUS
  <2>1. \A p \in Processes : job[p].cmd = None
    BY IdleIs DEF Init
  <2>2. Registered => "dir" \in have
    BY HostsAre DEF Init, Registered
  <2>3. None \notin Removals \cup Creations \cup Imports
    BY IdleIs, WorkersAreCommands
  <2> QED
    BY <2>1, <2>2, <2>3, CommandsApart
    DEF FilesInv, Overlap, Taker, Maker, Writing, ChecksFirst, RemovalsEnd, CreationsEnd, RowsFollow, RegisteredHasFiles, Active
<1>2. TypeInv /\ FilesInv /\ [Next]_vars => FilesInv'
  BY FilesStep
<1>3. FilesInv => RegisteredHasFiles
  BY DEF FilesInv
<1> QED
  BY <1>1, <1>2, <1>3, TypeAlways, PTL DEF Spec

-----------------------------------------------------------------------------
(* A creation that fails leaves nothing. *)

LEMMA PushTakes ==
    ASSUME NEW T, NEW x \in T, NEW q \in Seq(T), NEW A
    PROVE  Takes(<<x>> \o q, A) <=> x.do \in A \/ Takes(q, A)
<1>1. /\ Len(q) \in Nat /\ DOMAIN (<<x>> \o q) = 1..(1 + Len(q)) /\ DOMAIN q = 1..Len(q)
      /\ (<<x>> \o q)[1] = x /\ \A i \in 1..Len(q) : (<<x>> \o q)[1 + i] = q[i]
  <2>0. <<x>> \in Seq(T) /\ Len(<<x>>) = 1 /\ <<x>>[1] = x
    OBVIOUS
  <2>1. PICK o \in Seq(T) : o = <<x>> /\ Len(o) = 1 /\ o[1] = x
    BY <2>0
  <2>2. /\ Len(q) \in Nat /\ DOMAIN (o \o q) = 1..(1 + Len(q)) /\ DOMAIN q = 1..Len(q)
        /\ \A i \in 1..1 : (o \o q)[i] = o[i]
        /\ \A i \in 1..Len(q) : (o \o q)[1 + i] = q[i]
    BY <2>1, JoinIs
  <2> QED
    BY <2>1, <2>2
<1> DEFINE more == <<x>> \o q
<1> HIDE DEF more
<1>2. ASSUME Takes(more, A) PROVE x.do \in A \/ Takes(q, A)
  <2>1. PICK i \in 1..(1 + Len(q)) : more[i].do \in A
    BY <1>1, <1>2 DEF Takes, more
  <2>2. CASE i = 1
    BY <1>1, <2>1, <2>2 DEF more
  <2>3. CASE i # 1
    <3>1. PICK k \in 1..Len(q) : i = 1 + k
      <4>1. i - 1 \in 1..Len(q) /\ i = 1 + (i - 1)
        BY <1>1, <2>3
      <4> QED
        BY <4>1
    <3> QED
      BY <1>1, <2>1, <3>1 DEF Takes, more
  <2> QED
    BY <2>2, <2>3
<1>3. ASSUME x.do \in A PROVE Takes(more, A)
  <2>1. 1 \in DOMAIN more /\ more[1] = x
    BY <1>1 DEF more
  <2> QED
    BY <1>3, <2>1 DEF Takes
<1>4. ASSUME Takes(q, A) PROVE Takes(more, A)
  <2>1. PICK k \in 1..Len(q) : q[k].do \in A
    BY <1>1, <1>4 DEF Takes
  <2>2. 1 + k \in DOMAIN more /\ more[1 + k] = q[k]
    BY <1>1 DEF more
  <2> QED
    BY <2>1, <2>2 DEF Takes
<1> QED
  BY <1>2, <1>3, <1>4 DEF more

LEMMA TailKeeps ==
    ASSUME NEW T, NEW q \in Seq(T), q # <<>>, NEW A, Takes(q, A), Head(q).do \notin A
    PROVE  Takes(Tail(q), A)
<1>1. /\ Head(q) = q[1] /\ DOMAIN q = 1..Len(q) /\ Len(q) \in Nat /\ Len(q) > 0
      /\ DOMAIN Tail(q) = 1..(Len(q) - 1)
      /\ \A i \in 1..(Len(q) - 1) : Tail(q)[i] = q[i + 1]
  BY TailIs
<1>2. PICK i \in 1..Len(q) : q[i].do \in A
  BY <1>1 DEF Takes
<1>3. i # 1 /\ i - 1 \in 1..(Len(q) - 1) /\ Tail(q)[i - 1] = q[i]
  BY <1>1, <1>2
<1> QED
  BY <1>1, <1>2, <1>3 DEF Takes

LEMMA CreateSteps ==
    ASSUME NEW s \in CreateStep, s.do \notin Cleaning
    PROVE  /\ s.on = "exit" => s.do = "openDB"
           /\ s.do \in {"user+", "scaffold", "repo+", "dotenv", "chown", "push", "openDB", "row+"}
           /\ s.do \in {"user+", "scaffold", "repo+"} => s.on = "stop"
           /\ s.do = "user+" => s.undo = "user-" /\ Adds(s.do) = {"user", "dir"}
           /\ s.do = "scaffold" => s.undo = "dir-" /\ Adds(s.do) = {"dir", "compose"}
           /\ s.do = "repo+" => s.undo = "repo-" /\ Adds(s.do) = {"repo"}
           /\ s.do \notin {"user+", "scaffold", "repo+"} => s.undo = None /\ Adds(s.do) \subseteq Files
<1>1. /\ s.on = "exit" => s.do = "openDB"
      /\ s.do \in {"user+", "scaffold", "repo+", "dotenv", "chown", "push", "openDB", "row+"}
      /\ s.do \in {"user+", "scaffold", "repo+"} => s.on = "stop"
      /\ s.do = "user+" => s.undo = "user-"
      /\ s.do = "scaffold" => s.undo = "dir-"
      /\ s.do = "repo+" => s.undo = "repo-"
      /\ s.do \notin {"user+", "scaffold", "repo+"} => s.undo = None
  BY DEF CreateStep, CleanStep, Cleaning, Nothing
<1>2. /\ Adds("user+") = {"user", "dir"} /\ Adds("scaffold") = {"dir", "compose"}
      /\ Adds("repo+") = {"repo"} /\ Adds("dotenv") = {"dotenv"} /\ Adds("chown") = {}
      /\ Adds("push") = {} /\ Adds("openDB") = {} /\ Adds("row+") = {}
  BY DEF Adds
<1>3. "dotenv" \in Files
  BY DEF Files
<1> QED
  BY <1>1, <1>2, <1>3

(* A step of a plan that succeeds. *)
LEMMA PlanDone ==
    ASSUME NEW todo \in Seq(CreateStep), todo # <<>>, NEW undo \in Seq(CleanStep),
           NEW s \in CreateStep, s = Head(todo), NEW before, NEW here, NEW then,
           PlanKeeps(todo, undo, before, here), then = here \cup Adds(s.do),
           s.do = "user+" => "user" \notin here, s.do = "repo+" => "repo" \notin here,
           NEW rest, rest = IF s.undo = None THEN undo ELSE <<S(s.undo, "go")>> \o undo
    PROVE  PlanKeeps(Tail(todo), rest, before, then)
<1>1. /\ before \subseteq here /\ ~Takes(todo, Cleaning)
      /\ Covers(undo, here \ before, here) /\ Spares(undo, before)
      /\ s.do = "user+" \/ (Takes(undo, {"user-"}) /\ "user" \in here)
  BY DEF PlanKeeps
<1>2. ~Takes(Tail(todo), Cleaning) /\ s.do \notin Cleaning
  BY <1>1, TailTakes
<1>3. /\ s.do \in {"user+", "scaffold", "repo+", "dotenv", "chown", "push", "openDB", "row+"}
      /\ s.do = "user+" => s.undo = "user-" /\ Adds(s.do) = {"user", "dir"}
      /\ s.do = "scaffold" => s.undo = "dir-" /\ Adds(s.do) = {"dir", "compose"}
      /\ s.do = "repo+" => s.undo = "repo-" /\ Adds(s.do) = {"repo"}
      /\ s.do \notin {"user+", "scaffold", "repo+"} => s.undo = None /\ Adds(s.do) \subseteq Files
  BY <1>2, CreateSteps
<1>4. {"user", "repo", "net", "made", "up"} \cap Files = {} /\ {"dir", "compose"} \subseteq Files
  BY DEF Files, Staging, Production
<1>5. ASSUME s.do \in {"user+", "scaffold", "repo+"}, NEW A
      PROVE  Takes(rest, A) <=> s.undo \in A \/ Takes(undo, A)
  <2>1. s.undo \in Cleaning /\ s.undo # None
    BY <1>3, <1>5 DEF Cleaning, None
  <2>2. PICK x : x = S(s.undo, "go")
    OBVIOUS
  <2>3. x = [do |-> s.undo, on |-> "go", undo |-> None]
    BY <2>2, StepIs
  <2>4. x \in CleanStep /\ x.do = s.undo
    BY <2>1, <2>3 DEF CleanStep, Nothing, Cleaning
  <2>5. rest = <<x>> \o undo
    BY <2>1, <2>2
  <2>6. Takes(<<x>> \o undo, A) <=> x.do \in A \/ Takes(undo, A)
    BY <2>4, PushTakes
  <2> QED
    BY <2>4, <2>5, <2>6
<1>6. CASE s.do = "user+"
  <2>1. "user" \notin before /\ then = here \cup {"user", "dir"} /\ Takes(rest, {"user-"})
        /\ (Takes(rest, {"repo-"}) <=> Takes(undo, {"repo-"}))
    BY <1>1, <1>3, <1>5, <1>6
  <2>2. Covers(rest, then \ before, then)
    BY <1>1, <1>4, <2>1 DEF Covers
  <2>3. Spares(rest, before)
    BY <1>1, <2>1 DEF Spares
  <2> QED
    BY <1>1, <1>2, <2>1, <2>2, <2>3 DEF PlanKeeps
<1>7. CASE s.do # "user+"
  <2>1. Takes(undo, {"user-"}) /\ "user" \in here /\ then \subseteq here \cup Files \cup {"repo"}
    BY <1>1, <1>3, <1>4, <1>7
  <2>2. /\ Takes(rest, {"user-"})
        /\ Takes(undo, {"repo-"}) => Takes(rest, {"repo-"})
        /\ s.do = "repo+" => Takes(rest, {"repo-"}) /\ "repo" \notin before
        /\ s.do # "repo+" => (Takes(rest, {"repo-"}) => Takes(undo, {"repo-"}))
                             /\ ("repo" \in then => "repo" \in here)
    <3>1. CASE s.do = "scaffold"
      BY <1>1, <1>3, <1>4, <1>5, <2>1, <3>1
    <3>2. CASE s.do = "repo+"
      BY <1>1, <1>3, <1>5, <2>1, <3>2
    <3>3. CASE s.do \notin {"scaffold", "repo+"}
      BY <1>1, <1>3, <1>4, <1>7, <2>1, <3>3
    <3> QED
      BY <3>1, <3>2, <3>3
  <2>3. Covers(rest, then \ before, then)
    BY <1>1, <1>4, <2>1, <2>2 DEF Covers
  <2>4. Spares(rest, before)
    BY <1>1, <2>1, <2>2 DEF Spares
  <2> QED
    BY <1>1, <1>2, <2>1, <2>2, <2>3, <2>4 DEF PlanKeeps
<1> QED
  BY <1>6, <1>7

(* A step that fails but lets the plan go on.                               *)
LEMMA PlanGoesOn ==
    ASSUME NEW todo \in Seq(CreateStep), todo # <<>>, NEW undo, NEW s \in CreateStep,
           s = Head(todo), s.on # "stop", NEW before, NEW here, NEW then,
           PlanKeeps(todo, undo, before, here), here \subseteq then,
           then \subseteq here \cup Adds(s.do)
    PROVE  PlanKeeps(Tail(todo), undo, before, then)
<1>1. /\ before \subseteq here /\ ~Takes(todo, Cleaning)
      /\ Covers(undo, here \ before, here) /\ Spares(undo, before)
      /\ s.do = "user+" \/ (Takes(undo, {"user-"}) /\ "user" \in here)
  BY DEF PlanKeeps
<1>2. ~Takes(Tail(todo), Cleaning) /\ s.do \notin Cleaning
  BY <1>1, TailTakes
<1>3. s.do \notin {"user+", "scaffold", "repo+"} /\ Adds(s.do) \subseteq Files
  BY <1>2, CreateSteps
<1>4. {"user", "repo", "net", "made", "up"} \cap Files = {}
  BY DEF Files, Staging, Production
<1>5. Covers(undo, then \ before, then)
  BY <1>1, <1>3, <1>4 DEF Covers
<1> QED
  BY <1>1, <1>2, <1>3, <1>5 DEF PlanKeeps

(* A step that ends the plan: its cleanups are what is left to do.          *)
LEMMA PlanStops ==
    ASSUME NEW todo, NEW undo \in Seq(CleanStep), NEW before, NEW here, NEW then,
           PlanKeeps(todo, undo, before, here), here \subseteq then
    PROVE  CleanupKeeps(undo, before, then \ here, then)
<1>1. /\ before \subseteq here /\ Covers(undo, here \ before, here) /\ Spares(undo, before)
  BY DEF PlanKeeps
<1>2. (then \ before) \ (then \ here) = here \ before
  BY <1>1
<1>3. Covers(undo, here \ before, then)
  BY <1>1 DEF Covers
<1> QED
  BY <1>1, <1>2, <1>3 DEF CleanupKeeps

(* A cleanup that succeeds.                                                 *)
LEMMA CleanupDone ==
    ASSUME NEW todo \in Seq(CleanStep), todo # <<>>, NEW s \in CleanStep, s = Head(todo),
           NEW before, NEW half, NEW here, NEW then, CleanupKeeps(todo, before, half, here),
           s.do = "user-" => then = IF "user" \in here THEN here \ ({"user"} \cup Files) ELSE here,
           s.do = "dir-" => then = here \ Files,
           s.do = "repo-" => then = here \ {"repo"}
    PROVE  CleanupKeeps(Tail(todo), before, half, then)
<1>1. /\ before \subseteq here \cup Files
      /\ Covers(todo, (here \ before) \ half, here) /\ Spares(todo, before)
  BY DEF CleanupKeeps
<1>2. Tail(todo) \in Seq(CleanStep) /\ \A A : Takes(Tail(todo), A) => Takes(todo, A)
  BY TailIs, TailTakes
<1>3. \A A : Takes(todo, A) /\ s.do \notin A => Takes(Tail(todo), A)
  BY TailKeeps
<1>4. Spares(Tail(todo), before)
  BY <1>1, <1>2 DEF Spares
<1>5. {"user", "repo", "net", "made", "up"} \cap Files = {}
  BY DEF Files, Staging, Production
<1>6. Takes(todo, {s.do})
  BY TailTakes
<1>7. CASE s.do = "user-"
  <2>1. "user" \notin before
    BY <1>1, <1>6, <1>7 DEF Spares
  <2>2. /\ Takes(todo, {"repo-"}) => Takes(Tail(todo), {"repo-"})
        /\ Takes(todo, {"dir-"}) => Takes(Tail(todo), {"dir-"})
    BY <1>3, <1>7
  <2>3. CASE "user" \in here
    <3>1. then = here \ ({"user"} \cup Files)
      BY <1>7, <2>3
    <3>2. Covers(Tail(todo), (then \ before) \ half, then)
      BY <1>1, <1>5, <2>2, <3>1 DEF Covers
    <3>3. before \subseteq then \cup Files
      BY <1>1, <2>1, <3>1
    <3> QED
      BY <1>2, <1>4, <3>2, <3>3 DEF CleanupKeeps
  <2>4. CASE "user" \notin here
    <3>1. then = here
      BY <1>7, <2>4
    <3>2. Covers(Tail(todo), (here \ before) \ half, here)
      BY <1>1, <2>2, <2>4 DEF Covers
    <3> QED
      BY <1>1, <1>2, <1>4, <3>1, <3>2 DEF CleanupKeeps
  <2> QED
    BY <2>3, <2>4
<1>8. CASE s.do = "dir-"
  <2>1. /\ Takes(todo, {"repo-"}) => Takes(Tail(todo), {"repo-"})
        /\ Takes(todo, {"user-"}) => Takes(Tail(todo), {"user-"})
        /\ then = here \ Files
    BY <1>3, <1>8
  <2>2. Covers(Tail(todo), (then \ before) \ half, then)
    BY <1>1, <1>5, <2>1 DEF Covers
  <2>3. before \subseteq then \cup Files
    BY <1>1, <2>1
  <2> QED
    BY <1>2, <1>4, <2>2, <2>3 DEF CleanupKeeps
<1>9. CASE s.do = "repo-"
  <2>1. /\ Takes(todo, {"dir-"}) => Takes(Tail(todo), {"dir-"})
        /\ Takes(todo, {"user-"}) => Takes(Tail(todo), {"user-"})
        /\ then = here \ {"repo"}
    BY <1>3, <1>9
  <2>2. Covers(Tail(todo), (then \ before) \ half, then)
    BY <1>1, <1>5, <2>1 DEF Covers
  <2>3. "repo" \notin before
    BY <1>1, <1>6, <1>9 DEF Spares
  <2>4. before \subseteq then \cup Files
    BY <1>1, <2>1, <2>3
  <2> QED
    BY <1>2, <1>4, <2>2, <2>4 DEF CleanupKeeps
<1> QED
  BY <1>7, <1>8, <1>9 DEF CleanStep

(* What the steps of a creation do to the host. *)
LEMMA CreateEffect ==
    ASSUME NEW p, NEW do \in {"user+", "scaffold", "repo+", "dotenv", "chown", "push", "openDB", "row+"}
    PROVE  Effect(p, do) = have \cup Adds(do)
<1>1. Drops(do) = {}
  BY DEF Drops
<1>2. do \notin {"sdotenv", "user-", "repo-"}
  OBVIOUS
<1> QED
  BY <1>1, <1>2 DEF Effect

LEMMA CleanEffect ==
    ASSUME NEW p, job[p].cmd \in Locals
    PROVE  /\ Effect(p, "user-") = IF "user" \in have THEN have \ ({"user"} \cup Files) ELSE have
           /\ Effect(p, "dir-") = have \ Files
           /\ Effect(p, "repo-") = have \ {"repo"}
<1>1. job[p].cmd \notin Removals
  BY CommandsApart
<1>2. Drops("dir-") = Files /\ Drops("repo-") = {"repo"} /\ Adds("dir-") = {} /\ Adds("repo-") = {}
  BY DEF Drops, Adds
<1> QED
  BY <1>1, <1>2 DEF Effect

LEMMA FallenFields ==
    ASSUME NEW p, NEW cmd, NEW c \in JobType(cmd), NEW s, NEW h
    PROVE  /\ Fallen(p, c, s, h).alone = c.alone /\ Fallen(p, c, s, h).before = c.before
           /\ Fallen(p, c, s, h).undo = (IF s.on = "stop" THEN <<>> ELSE c.undo)
           /\ Fallen(p, c, s, h).half = (IF s.on = "stop" THEN h ELSE c.half)
           /\ Fallen(p, c, s, h).ok <=> s.on \in {"go", "blind"} /\ c.ok
           /\ Fallen(p, c, s, h).clean
                 <=> c.clean /\ (s.do \in {"user-", "dir-", "repo-"} => s.on # "go")
<1>1. PICK a, b, k :
        /\ a = After(p, s) /\ b = IF s.on = "stop" THEN <<>> ELSE c.undo
        /\ k = IF s.on = "stop" THEN h ELSE c.half
  OBVIOUS
<1>2. PICK ok \in BOOLEAN, clean \in BOOLEAN :
        /\ ok = (s.on \in {"go", "blind"} /\ c.ok)
        /\ clean = (c.clean /\ (s.do \in {"user-", "dir-", "repo-"} => s.on # "go"))
  OBVIOUS
<1>3. Fallen(p, c, s, h) = [c EXCEPT !.todo = a, !.undo = b, !.ok = ok, !.clean = clean, !.half = k]
  BY <1>1, <1>2, Zenon DEF Fallen
<1>4. PICK f : f = Fallen(p, c, s, h)
  OBVIOUS
<1>5. f.alone = c.alone /\ f.before = c.before /\ f.undo = b /\ f.half = k /\ f.ok = ok /\ f.clean = clean
  BY <1>3, <1>4 DEF JobType
<1> QED
  BY <1>1, <1>2, <1>4, <1>5

LEMMA AdvanceFields ==
    ASSUME NEW cmd, NEW c \in JobType(cmd), NEW s
    PROVE  /\ s.do # "orphan" => Advance(c, s).todo = Tail(c.todo)
           /\ Advance(c, s).undo = IF s.undo = None THEN c.undo ELSE <<S(s.undo, "go")>> \o c.undo
           /\ Advance(c, s).alone = c.alone /\ Advance(c, s).ok = c.ok
           /\ Advance(c, s).clean = c.clean /\ Advance(c, s).before = c.before
           /\ Advance(c, s).half = c.half
<1>1. PICK a, b, d :
        /\ a = IF s.do = "orphan" /\ "dir" \notin have THEN <<>> ELSE Tail(c.todo)
        /\ b = IF s.undo = None THEN c.undo ELSE <<S(s.undo, "go")>> \o c.undo
        /\ d = IF s.do = "find" THEN row ELSE c.seen
  OBVIOUS
<1>2. PICK e : e = IF s.do \in {"count", "scan"} THEN "up" \in have ELSE c.count
  BY Zenon
<1>3. Advance(c, s) = [c EXCEPT !.todo = a, !.undo = b, !.seen = d, !.count = e]
  BY <1>1, <1>2, Zenon DEF Advance
<1>4. PICK f : f = Advance(c, s)
  OBVIOUS
<1>5. /\ f.todo = a /\ f.undo = b /\ f.alone = c.alone /\ f.ok = c.ok /\ f.clean = c.clean
      /\ f.before = c.before /\ f.half = c.half
  BY <1>3, <1>4 DEF JobType
<1>6. s.do # "orphan" => a = Tail(c.todo)
  BY <1>1
<1> QED
  BY <1>1, <1>4, <1>5, <1>6

(* A creation that works alone takes a step.                                *)
LEMMA AloneDone ==
    ASSUME TypeInv, NEW p \in Processes, job[p].cmd \in Locals, Do(p),
           job[p].ok =>
              job[p].half = {} /\ PlanKeeps(job[p].todo, job[p].undo, job[p].before, have),
           ~job[p].ok /\ job[p].clean =>
              (job[p].todo = <<>> /\ job[p].undo # <<>>)
              \/ CleanupKeeps(job[p].todo, job[p].before, job[p].half, have)
    PROVE  /\ job'[p].ok =>
                job'[p].half = {} /\ PlanKeeps(job'[p].todo, job'[p].undo, job'[p].before, have')
           /\ ~job'[p].ok /\ job'[p].clean =>
                (job'[p].todo = <<>> /\ job'[p].undo # <<>>)
                \/ CleanupKeeps(job'[p].todo, job'[p].before, job'[p].half, have')
<1>1. PICK c \in JobType(job[p].cmd), s \in StepsOf(job[p].cmd) :
              /\ c = job[p] /\ job[p].cmd \in Commands /\ c.todo # <<>> /\ s = Head(c.todo)
              /\ Possible(p, s.do) /\ have' = Effect(p, s.do)
              /\ job' = [job EXCEPT ![p] = Advance(c, s)]
  BY DoIs
<1>2. job'[p] = Advance(c, s)
  BY <1>1 DEF TypeInv, JobTypes
<1>3. /\ c.todo \in Seq(CreateStep) /\ c.undo \in Seq(CleanStep) /\ s \in CreateStep
      /\ c.ok \in BOOLEAN /\ s.do # "orphan"
  <2>1. StepsOf(job[p].cmd) = CreateStep /\ UndosOf(job[p].cmd) = Seq(CleanStep)
    BY KindsAre
  <2>2. s.do # "orphan"
    BY <1>1, CommandsApart, FileKinds
  <2> QED
    BY <2>1, <2>2 DEF JobType
<1>4. Advance(c, s).todo = Tail(c.todo)
  BY <1>3, AdvanceFields
<1>5. Advance(c, s).undo = IF s.undo = None THEN c.undo ELSE <<S(s.undo, "go")>> \o c.undo
  BY AdvanceFields
<1>6. /\ Advance(c, s).ok = c.ok /\ Advance(c, s).clean = c.clean
      /\ Advance(c, s).before = c.before /\ Advance(c, s).half = c.half
  BY AdvanceFields
<1>7. CASE c.ok
  <2>1. c.half = {} /\ PlanKeeps(c.todo, c.undo, c.before, have)
    BY <1>1, <1>7
  <2>2. s.do \notin Cleaning
    BY <1>1, <1>3, <2>1, TailTakes DEF PlanKeeps
  <2>3. have' = have \cup Adds(s.do)
    BY <1>1, <1>3, <2>2, CreateSteps, CreateEffect
  <2>4. /\ s.do = "user+" => "user" \notin have
        /\ s.do = "repo+" => "repo" \notin have
    BY <1>1 DEF Possible, Bars
  <2>5. PICK then, rest : /\ then = have' /\ rest = Advance(c, s).undo
    OBVIOUS
  <2>6. PlanKeeps(Tail(c.todo), rest, c.before, then)
    BY <1>1, <1>3, <1>5, <2>1, <2>3, <2>4, <2>5, PlanDone, ZenonT(60)
  <2> QED
    BY <1>2, <1>4, <1>6, <1>7, <2>1, <2>5, <2>6
<1>8. CASE ~c.ok /\ c.clean
  <2>1. CleanupKeeps(c.todo, c.before, c.half, have)
    BY <1>1, <1>8
  <2>2. c.todo \in Seq(CleanStep) /\ s \in CleanStep
    BY <1>1, <2>1, TailIs DEF CleanupKeeps
  <2>3. PICK then : then = have'
    OBVIOUS
  <2>4. /\ s.do = "user-" => then = IF "user" \in have THEN have \ ({"user"} \cup Files) ELSE have
        /\ s.do = "dir-" => then = have \ Files
        /\ s.do = "repo-" => then = have \ {"repo"}
    BY <1>1, <2>3, CleanEffect
  <2>5. CleanupKeeps(Tail(c.todo), c.before, c.half, then)
    BY <1>1, <2>1, <2>2, <2>4, CleanupDone
  <2> QED
    BY <1>2, <1>4, <1>6, <1>8, <2>3, <2>5
<1>9. CASE ~c.ok /\ ~c.clean
  BY <1>2, <1>6, <1>9
<1> QED
  BY <1>7, <1>8, <1>9

LEMMA AloneFailed ==
    ASSUME TypeInv, NEW p \in Processes, job[p].cmd \in Locals, Refuse(p) \/ Fail(p),
           job[p].ok =>
              job[p].half = {} /\ PlanKeeps(job[p].todo, job[p].undo, job[p].before, have),
           ~job[p].ok /\ job[p].clean =>
              (job[p].todo = <<>> /\ job[p].undo # <<>>)
              \/ CleanupKeeps(job[p].todo, job[p].before, job[p].half, have)
    PROVE  /\ job'[p].ok =>
                job'[p].half = {} /\ PlanKeeps(job'[p].todo, job'[p].undo, job'[p].before, have')
           /\ ~job'[p].ok /\ job'[p].clean =>
                (job'[p].todo = <<>> /\ job'[p].undo # <<>>)
                \/ CleanupKeeps(job'[p].todo, job'[p].before, job'[p].half, have')
<1>1. PICK c \in JobType(job[p].cmd), s \in StepsOf(job[p].cmd) :
              /\ c = job[p] /\ job[p].cmd \in Commands /\ c.todo # <<>> /\ s = Head(c.todo)
              /\ have' \in {have, Effect(p, s.do), have \cup (Adds(s.do) \cap {"dir", "sdir", "pdir"})}
              /\ job' = [job EXCEPT ![p] = Fallen(p, c, s, have' \ have)]
  <2>1. CASE Refuse(p)
    <3>1. PICK c \in JobType(job[p].cmd), s \in StepsOf(job[p].cmd) :
              /\ c = job[p] /\ c.cmd \in Commands /\ c.todo # <<>> /\ s = Head(c.todo)
              /\ job' = [job EXCEPT ![p] = Fallen(p, c, s, {})] /\ have' = have
      BY <2>1, RefuseIs
    <3>2. have' \ have = {}
      BY <3>1
    <3> QED
      BY <3>1, <3>2
  <2>2. CASE Fail(p)
    BY <2>2, FailIs
  <2> QED
    BY <2>1, <2>2
<1>2. PICK then, h : then = have' /\ h = then \ have
  OBVIOUS
<1>3. job'[p] = Fallen(p, c, s, h)
  BY <1>1, <1>2 DEF TypeInv, JobTypes
<1>4. /\ c.todo \in Seq(CreateStep) /\ c.undo \in Seq(CleanStep) /\ s \in CreateStep
      /\ c.ok \in BOOLEAN /\ s.on \in {"stop", "go", "exit"}
  <2>1. StepsOf(job[p].cmd) = CreateStep /\ UndosOf(job[p].cmd) = Seq(CleanStep)
    BY KindsAre
  <2>2. s.on \in {"stop", "go", "exit"}
    BY <2>1 DEF CreateStep, CleanStep
  <2> QED
    BY <2>1, <2>2 DEF JobType
<1>5. /\ s.on = "go" => job'[p].todo = Tail(c.todo)
      /\ s.on = "stop" => job'[p].todo = c.undo
      /\ s.on = "exit" => job'[p].todo = <<>>
  <2>1. /\ s.on \in {"go", "blind"} => Fallen(p, c, s, h).todo = Tail(job[p].todo)
        /\ s.on = "stop" => Fallen(p, c, s, h).todo = job[p].undo
        /\ s.on = "exit" => Fallen(p, c, s, h).todo = <<>>
    BY FallenTodo
  <2> QED
    BY <1>1, <1>3, <2>1
<1>6. /\ job'[p].before = c.before
      /\ job'[p].undo = (IF s.on = "stop" THEN <<>> ELSE c.undo)
      /\ job'[p].half = (IF s.on = "stop" THEN h ELSE c.half)
      /\ job'[p].ok <=> s.on \in {"go", "blind"} /\ c.ok
      /\ job'[p].clean <=> c.clean /\ (s.do \in {"user-", "dir-", "repo-"} => s.on # "go")
  BY <1>3, FallenFields
<1>7. CASE c.ok
  <2>1. c.half = {} /\ PlanKeeps(c.todo, c.undo, c.before, have)
    BY <1>1, <1>7
  <2>2. s.do \notin Cleaning
    BY <1>1, <1>4, <2>1, TailTakes DEF PlanKeeps
  <2>3. have \subseteq then /\ then \subseteq have \cup Adds(s.do)
    BY <1>1, <1>2, <1>4, <2>2, CreateSteps, CreateEffect
  <2>4. CASE s.on = "go"
    <3>1. PlanKeeps(Tail(c.todo), c.undo, c.before, then)
      BY <1>1, <1>4, <2>1, <2>3, <2>4, PlanGoesOn
    <3> QED
      BY <1>2, <1>5, <1>6, <1>7, <2>1, <2>4, <3>1
  <2>5. CASE s.on = "stop"
    <3>1. CleanupKeeps(c.undo, c.before, h, then)
      BY <1>2, <1>4, <2>1, <2>3, PlanStops
    <3> QED
      BY <1>2, <1>5, <1>6, <2>5, <3>1
  <2>6. CASE s.on = "exit"
    <3>1. s.do # "user+"
      BY <1>4, <2>2, <2>6, CreateSteps
    <3>2. Takes(c.undo, {"user-"})
      BY <1>1, <2>1, <3>1 DEF PlanKeeps
    <3>3. c.undo # <<>>
      BY <3>2 DEF Takes
    <3> QED
      BY <1>5, <1>6, <2>6, <3>3
  <2> QED
    BY <1>4, <2>4, <2>5, <2>6
<1>8. CASE ~c.ok
  <2>1. c.clean => CleanupKeeps(c.todo, c.before, c.half, have)
    BY <1>1, <1>8
  <2>2. c.clean => s \in CleanStep
    BY <1>1, <2>1, TailIs DEF CleanupKeeps
  <2>3. c.clean => s.do \in {"user-", "dir-", "repo-"} /\ s.on = "go"
    BY <2>2 DEF CleanStep
  <2> QED
    BY <1>6, <1>8, <2>3
<1> QED
  BY <1>7, <1>8

LEMMA CreateBegins ==
    ASSUME NEW github \in BOOLEAN
    PROVE  /\ ~Takes(createCmd(github), Cleaning)
           /\ createCmd(github) # <<>> /\ Head(createCmd(github)).do = "user+"
<1> DEFINE first == <<U("user+", "user-"), U("scaffold", "dir-"), S("dotenv", "stop"), S("chown", "stop")>>
           hub == IF github THEN <<U("repo+", "repo-"), S("push", "go")>> ELSE <<>>
           last == <<S("openDB", "exit"), S("row+", "stop")>>
<1>1. first \in Seq(CreateStep)
  BY StepIs DEF CreateStep, Nothing
<1>2. <<U("repo+", "repo-"), S("push", "go")>> \in Seq(CreateStep)
  BY StepIs DEF CreateStep, Nothing
<1>3. hub \in Seq(CreateStep)
  BY <1>2, NoSteps
<1>4. last \in Seq(CreateStep)
  BY StepIs DEF CreateStep, Nothing
<1>5. ~Takes(first, Cleaning) /\ ~Takes(hub, Cleaning) /\ ~Takes(last, Cleaning)
  <2>1. (\A do, on : S(do, on).do = do) /\ (\A do, undo : U(do, undo).do = do)
    BY StepIs
  <2>2. ~Takes(first, Cleaning)
    BY <2>1 DEF Takes, Cleaning
  <2>3. ~Takes(last, Cleaning)
    BY <2>1 DEF Takes, Cleaning
  <2>4. ~Takes(hub, Cleaning)
    <3>1. ~Takes(<<U("repo+", "repo-"), S("push", "go")>>, Cleaning)
      BY <2>1 DEF Takes, Cleaning
    <3>2. ~Takes(<<>>, Cleaning)
      BY DEF Takes
    <3> QED
      BY <3>1, <3>2
  <2> QED
    BY <2>2, <2>3, <2>4
<1>6. 1 \in 1..Len(first) /\ first[1].do = "user+"
  BY StepIs
<1>7. createCmd(github) = (first \o hub) \o last
  BY DEF createCmd
<1> HIDE DEF first, hub, last
<1>8. PICK f \in Seq(CreateStep) : f = first \o hub
  BY <1>1, <1>3, JoinIs
<1>9. ~Takes(f, Cleaning) /\ 1 \in 1..Len(f) /\ f[1].do = "user+"
  BY <1>1, <1>3, <1>5, <1>6, <1>8, JoinIs, JoinTakes
<1>10. PICK g \in Seq(CreateStep) : g = f \o last
  BY <1>4, JoinIs
<1>11. ~Takes(g, Cleaning) /\ 1 \in DOMAIN g /\ g[1].do = "user+"
  BY <1>4, <1>5, <1>9, <1>10, JoinIs, JoinTakes
<1>12. g # <<>>
  BY <1>11
<1>13. Head(g) = g[1]
  BY <1>12, TailIs
<1> QED
  BY <1>7, <1>8, <1>10, <1>11, <1>12, <1>13

LEMMA CreationMove ==
    ASSUME TypeInv, CreationInv, NEW p \in Processes, Do(p) \/ Refuse(p) \/ Fail(p)
    PROVE  CreationInv'
<1>1. PICK c \in JobType(job[p].cmd), s \in StepsOf(job[p].cmd) :
              /\ c = job[p] /\ c.cmd \in Commands
              /\ \E h : job'[p] = Advance(c, s) \/ job'[p] = Fallen(p, c, s, h)
              /\ \A q \in Processes \ {p} : job'[q] = job[q]
              /\ \A q \in Processes : job'[q].cmd = job[q].cmd
  BY MoveIs
<1>2. job'[p].alone = job[p].alone
  <2>1. PICK h : job'[p] = Advance(c, s) \/ job'[p] = Fallen(p, c, s, h)
    BY <1>1
  <2>2. Advance(c, s).alone = c.alone
    BY AdvanceFields
  <2>3. Fallen(p, c, s, h).alone = c.alone
    BY FallenFields
  <2> QED
    BY <1>1, <2>1, <2>2, <2>3
<1>3. \A q \in Processes : (Alone(q)' <=> Alone(q)) /\ (Active(q)' <=> Active(q))
  BY <1>1, <1>2 DEF Alone, Active
<1>4. LeftAlone'
  BY <1>3 DEF CreationInv, LeftAlone
<1>5. Active(p)
  BY <1>1, IdleIs DEF Active
<1>6. ASSUME NEW q \in Processes, Alone(q), job[q].cmd \in Locals
      PROVE  /\ job'[q].ok =>
                   job'[q].half = {} /\ PlanKeeps(job'[q].todo, job'[q].undo, job'[q].before, have')
             /\ ~job'[q].ok /\ job'[q].clean =>
                   (job'[q].todo = <<>> /\ job'[q].undo # <<>>)
                   \/ CleanupKeeps(job'[q].todo, job'[q].before, job'[q].half, have')
  <2>1. q = p
    BY <1>5, <1>6 DEF CreationInv, LeftAlone
  <2>2. /\ job[p].ok =>
              job[p].half = {} /\ PlanKeeps(job[p].todo, job[p].undo, job[p].before, have)
        /\ ~job[p].ok /\ job[p].clean =>
              (job[p].todo = <<>> /\ job[p].undo # <<>>)
              \/ CleanupKeeps(job[p].todo, job[p].before, job[p].half, have)
    BY <1>6, <2>1 DEF CreationInv
  <2> QED
    BY <1>6, <2>1, <2>2, AloneDone, AloneFailed
<1>7. \A q \in Processes : Alone(q)' /\ job'[q].cmd \in Locals => Alone(q) /\ job[q].cmd \in Locals
  BY <1>1, <1>3
<1> QED
  BY <1>4, <1>6, <1>7 DEF CreationInv

LEMMA CreationStart ==
    ASSUME TypeInv, CreationInv, NEW p \in Processes, NEW c \in Commands, Start(p, c)
    PROVE  CreationInv'
<1>1. have' = have
  BY Zenon DEF Start
<1>2. /\ job'[p].cmd = c /\ job'[p].todo = Plans[c] /\ job'[p].undo = <<>>
      /\ job'[p].before = (IF c \in Creations THEN have ELSE {}) /\ job'[p].half = {}
  BY StartIs
<1>3. job'[p].ok /\ (job'[p].alone <=> Others(p) = {})
  <2>1. job'[p].ok = TRUE /\ job'[p].alone = (Others(p) = {})
    BY StartIs, Zenon
  <2> QED
    BY <2>1, Zenon
<1>4. ASSUME NEW q \in Processes \ {p} PROVE ~Alone(q)' /\ (Active(q)' <=> Active(q))
  <2>1. job'[q].cmd = job[q].cmd
    BY StartIs
  <2>2. job'[q].alone => ~Active(q)
    <3>1. job'[q].alone = (job[q].alone /\ ~Active(q))
      BY StartIs, Zenon
    <3> QED
      BY <3>1, Zenon
  <2> QED
    BY <2>1, <2>2 DEF Alone, Active
<1>5. LeftAlone'
  <2>1. Others(p) = {} => \A q \in Processes \ {p} : ~Active(q)
    BY DEF Others
  <2> QED
    BY <1>3, <1>4, <2>1 DEF LeftAlone, Alone
<1>6. ASSUME c \in Locals PROVE PlanKeeps(job'[p].todo, job'[p].undo, job'[p].before, have')
  <2>1. ~Takes(Plans[c], Cleaning) /\ Plans[c] # <<>> /\ Head(Plans[c]).do = "user+"
    BY <1>6, CreateBegins, PlansAre DEF Locals
  <2>2. \A A : ~Takes(<<>>, A)
    BY DEF Takes
  <2>3. Covers(<<>>, {}, have) /\ Spares(<<>>, have)
    BY <2>2 DEF Covers, Spares
  <2>4. have \ have = {}
    OBVIOUS
  <2>5. PlanKeeps(Plans[c], <<>>, have, have)
    BY <2>1, <2>3, <2>4 DEF PlanKeeps
  <2>6. job'[p].before = have
    BY <1>2, <1>6, CommandsApart
  <2> QED
    BY <1>1, <1>2, <2>5, <2>6
<1> QED
  BY <1>2, <1>3, <1>4, <1>5, <1>6 DEF CreationInv

LEMMA CreationStep ==
    ASSUME TypeInv, CreationInv, [Next]_vars
    PROVE  CreationInv'
<1>1. CASE UNCHANGED vars
  BY <1>1 DEF vars, CreationInv, LeftAlone, Alone, Active
<1>2. ASSUME NEW p \in Processes, NEW c \in Commands, Start(p, c) PROVE CreationInv'
  BY <1>2, CreationStart
<1>3. ASSUME NEW p \in Processes, Do(p) \/ Refuse(p) \/ Fail(p) PROVE CreationInv'
  BY <1>3, CreationMove
<1>4. ASSUME NEW p \in Processes, End(p) PROVE CreationInv'
  <2>1. job'[p] = Idle /\ (\A q \in Processes \ {p} : job'[q] = job[q]) /\ have' = have
    BY <1>4, EndIs
  <2>2. ~Active(p)'
    BY <2>1, IdleIs DEF Active
  <2>3. \A q \in Processes \ {p} : (Alone(q)' <=> Alone(q)) /\ (Active(q)' <=> Active(q))
    BY <2>1 DEF Alone, Active
  <2>4. LeftAlone'
    BY <2>2, <2>3 DEF CreationInv, LeftAlone, Alone
  <2> QED
    BY <2>1, <2>2, <2>3, <2>4 DEF CreationInv, Alone
<1>5. ASSUME NEW gone, Die(gone) PROVE CreationInv'
  <2>1. (\A q \in Processes : job'[q] = IF q \in gone THEN Idle ELSE job[q]) /\ have' = have
    BY <1>5, DieIs
  <2>2. \A q \in Processes : q \in gone => ~Active(q)'
    BY <2>1, IdleIs DEF Active
  <2>3. \A q \in Processes : q \notin gone => (Alone(q)' <=> Alone(q)) /\ (Active(q)' <=> Active(q))
    BY <2>1 DEF Alone, Active
  <2>4. LeftAlone'
    BY <2>2, <2>3 DEF CreationInv, LeftAlone, Alone
  <2> QED
    BY <2>1, <2>2, <2>3, <2>4 DEF CreationInv, Alone
<1>6. CASE Crash
  <2>1. \A q \in Processes : job'[q].cmd = job[q].cmd /\ (Active(q) => ~job'[q].alone)
    BY <1>6, CrashIs
  <2>2. \A q \in Processes : ~Alone(q)'
    BY <2>1 DEF Alone, Active
  <2> QED
    BY <2>2 DEF CreationInv, LeftAlone
<1>7. ASSUME NEW p \in Processes, Misread(p) PROVE CreationInv'
  <2>1. /\ have' = have /\ job[p].cmd \notin Locals
        /\ \A q \in Processes : job'[q].cmd = job[q].cmd /\ job'[q].alone = job[q].alone
        /\ \A q \in Processes \ {p} : job'[q] = job[q]
    BY <1>7, MisreadIs DEF EnvWriters, Locals
  <2>2. \A q \in Processes : (Alone(q)' <=> Alone(q)) /\ (Active(q)' <=> Active(q))
    BY <2>1 DEF Alone, Active
  <2>3. LeftAlone'
    BY <2>2 DEF CreationInv, LeftAlone
  <2> QED
    BY <2>1, <2>2, <2>3 DEF CreationInv
<1> QED
  BY <1>1, <1>2, <1>3, <1>4, <1>5, <1>6, <1>7 DEF Next, Kill, ServerDies

LEMMA CreationAlways == Spec => []CreationInv
<1>1. Init => CreationInv
  <2> SUFFICES ASSUME Init PROVE CreationInv
    OBVIOUS
  <2>1. \A p \in Processes : ~Active(p)
    BY IdleIs DEF Init, Active
  <2> QED
    BY <2>1 DEF CreationInv, LeftAlone, Alone
<1>2. TypeInv /\ CreationInv /\ [Next]_vars => CreationInv'
  BY CreationStep
<1> QED
  BY <1>1, <1>2, TypeAlways, PTL DEF Spec

(* When a creation of the command line fails with nothing else at work and  *)
(* its cleanups succeed, the host is what it was before, but for what the   *)
(* failing step left half done and for files that were there; unless it     *)
(* exits at the database that does not open, with its cleanups not begun.   *)
THEOREM FailedCreationsLeaveNothing == Spec => []FailedCreationLeavesNothing
<1>1. TypeInv /\ CreationInv => FailedCreationLeavesNothing
  <2> SUFFICES ASSUME TypeInv, CreationInv, NEW p \in Processes, CleanedUp(p), ~Exited(p)
               PROVE  /\ have \subseteq job[p].before \cup job[p].half
                      /\ job[p].before \subseteq have \cup Files
    BY DEF FailedCreationLeavesNothing
  <2>1. Alone(p) /\ job[p].cmd \in Locals
    BY IdleIs, CommandsAre DEF Alone, Active, Locals, CleanedUp
  <2>2. CleanupKeeps(<<>>, job[p].before, job[p].half, have)
    BY <2>1 DEF CreationInv, CleanedUp, Exited
  <2>3. \A A : ~Takes(<<>>, A)
    BY DEF Takes
  <2>4. have \subseteq Things /\ Things = Files \cup {"user", "repo", "net", "made", "up"}
    BY DEF TypeInv, HostTypes, Things
  <2> QED
    BY <2>2, <2>3, <2>4 DEF CleanupKeeps, Covers
<1> QED
  BY <1>1, TypeAlways, CreationAlways, PTL
-----------------------------------------------------------------------------
(* The status of a project and its containers. *)

Rising == {"start", "restart", "apiStart", "apiRestart"}
Falling == {"stop", "apiStop"}
RiseStep ==
    [do : {"find", "lock", "edge", "up", "restart"}, on : {"stop", "mark"}, undo : Nothing]
        \cup [do : {"healthy"}, on : {"mark"}, undo : Nothing]
        \cup [do : {"running", "error"}, on : {"go"}, undo : Nothing]
FallStep ==
    [do : {"find", "lock", "down"}, on : {"stop", "mark"}, undo : Nothing]
        \cup [do : {"stopped", "error"}, on : {"go"}, undo : Nothing]
SyncStep ==
    [do : {"find", "count"}, on : {"stop"}, undo : Nothing]
        \cup [do : {"orphan", "reconcile"}, on : {"go"}, undo : Nothing]
DomainStep == [do : {"find", "rewrite", "write"}, on : {"stop"}, undo : Nothing]
ImportStep ==
    [do : {"stat", "row+", "count"}, on : {"stop"}, undo : Nothing]
        \cup [do : {"settle"}, on : {"go"}, undo : Nothing]
DiscoverStep ==
    [do : {"unmanaged"}, on : {"stop"}, undo : Nothing]
        \cup [do : {"scan"}, on : {"blind"}, undo : Nothing]
        \cup [do : {"row+scanned"}, on : {"go"}, undo : Nothing]
AddStep == [do : {"row+"}, on : {"go"}, undo : Nothing]

Narrow == Rising \cup Falling \cup {"sync", "domain", "apiDomain", "import", "discover", "apiImport"}
NarrowStep(c) ==
    CASE c \in Rising -> RiseStep
      [] c \in Falling -> FallStep
      [] c = "sync" -> SyncStep
      [] c = "import" -> ImportStep
      [] c = "discover" -> DiscoverStep
      [] c = "apiImport" -> AddStep
      [] OTHER -> DomainStep

(* The steps that set a status from what was just done, and those that may  *)
(* still come between a change of the containers and that status.           *)
Fixers == {"running", "stopped", "error", "row-", "settle"}
NoReturn == Fixers \cup {"healthy", "repo-", "dir-", "user-", "count"}
Shifts(c) == IF c = "import" THEN {"up", "down", "row+"} ELSE {"up", "down"}
Settles(q) ==
    q # <<>> /\ q[Len(q)].do \in Fixers /\ \A i \in DOMAIN q : q[i].do \in NoReturn
(* After a step of A, only steps towards a status are left, and there is one. *)
Clears(q, A) == \A i, j \in DOMAIN q : q[i].do \in A /\ i < j => q[j].do \in NoReturn
EndsWell(q, A) == Clears(q, A) /\ (Takes(q, A) => q[Len(q)].do \in Fixers)

Owing == Rising \cup Falling \cup Removals \cup {"import"}
Readers == {"domain", "apiDomain", "sync"}
Counters == {"import", "discover", "sync"}

PlansNarrow ==
    \A p \in Processes :
       /\ job[p].cmd \in Narrow => job[p].todo \in Seq(NarrowStep(job[p].cmd))
       /\ job[p].cmd \in Owing => EndsWell(job[p].todo, Shifts(job[p].cmd))
       /\ job[p].cmd \in Readers => LastOnly(job[p].todo, {"reconcile", "write"})

(* What a command knows by the step that uses it: that the containers are   *)
(* up, or down, how many run, the row, and that it holds the lock.          *)
Holds(p) == job[p].cmd \in Serialised => mutex = p
Guarded == {"up", "down", "restart", "running", "stopped", "row-"}
KnowsUp(p) == ("up" \in have /\ Holds(p)) \/ Precede(job[p].todo, {"running"}, {"up", "restart"})
KnowsDown(p) == ("up" \notin have /\ Holds(p)) \/ Precede(job[p].todo, {"stopped"}, {"down"})
KnowsCount(p) ==
    \/ job[p].count <=> "up" \in have
    \/ Precede(job[p].todo, {"settle", "reconcile", "row+scanned"}, {"count", "scan"})
KnowsRow(p) == job[p].seen = row \/ Precede(job[p].todo, {"write", "reconcile"}, {"find"})
KnowsLock(p) == mutex = p \/ Precede(job[p].todo, Guarded, {"lock"})
Knows(p) ==
    /\ job[p].cmd \in Rising => KnowsUp(p)
    /\ job[p].cmd \in Falling => KnowsDown(p)
    /\ job[p].cmd \in Counters => KnowsCount(p)
    /\ job[p].cmd \in Readers => KnowsRow(p)
    /\ job[p].cmd \in Serialised => KnowsLock(p)

(* A sync that works alone knows the row and the containers, whatever       *)
(* happened before it.                                                      *)
SyncKnows == \A p \in Processes : Alone(p) /\ job[p].cmd = "sync" => KnowsCount(p) /\ KnowsRow(p)

MixApart ==
    \A p, q \in Processes : p # q /\ Active(p) /\ Active(q) => ~Mixes(job[p].cmd, job[q].cmd)

StatusOK == row.status \in {"running", "stopped"} => (row.status = "running" <=> "up" \in have)
Owes(p) ==
    job[p].cmd \in Owing /\ Settles(job[p].todo) /\ (job[p].cmd = "import" => row.status = "stopped")

StatusInv ==
    /\ PlansNarrow /\ SyncKnows
    /\ ~tainted => MixApart /\ (StatusOK \/ \E p \in Processes : Owes(p)) /\ \A p \in Processes : Knows(p)

LEMMA EndsTail ==
    ASSUME NEW T, NEW q \in Seq(T), q # <<>>, NEW A, A \cap NoReturn = {}, EndsWell(q, A)
    PROVE  /\ EndsWell(Tail(q), A)
           /\ Head(q).do \in A => Settles(Tail(q))
<1>1. /\ Head(q) = q[1] /\ DOMAIN q = 1..Len(q) /\ Len(q) \in Nat /\ Len(q) > 0
      /\ Tail(q) \in Seq(T) /\ Len(Tail(q)) = Len(q) - 1 /\ DOMAIN Tail(q) = 1..(Len(q) - 1)
      /\ \A i \in 1..(Len(q) - 1) : Tail(q)[i] = q[i + 1]
  BY TailIs
<1>2. Clears(q, A) /\ (Takes(q, A) => q[Len(q)].do \in Fixers)
  BY DEF EndsWell
<1>3. \A i, j \in 1..Len(q) : q[i].do \in A /\ i < j => q[j].do \in NoReturn
  BY <1>1, <1>2 DEF Clears
<1>4. Clears(Tail(q), A)
  <2> SUFFICES ASSUME NEW i \in 1..(Len(q) - 1), NEW j \in 1..(Len(q) - 1),
                      Tail(q)[i].do \in A, i < j
               PROVE  Tail(q)[j].do \in NoReturn
    BY <1>1 DEF Clears
  <2>1. /\ i + 1 \in 1..Len(q) /\ j + 1 \in 1..Len(q) /\ i + 1 < j + 1
        /\ q[i + 1].do \in A /\ Tail(q)[j] = q[j + 1]
    BY <1>1
  <2> QED
    BY <1>3, <2>1
<1>5. Takes(Tail(q), A) => Tail(q)[Len(Tail(q))].do \in Fixers
  <2> SUFFICES ASSUME Takes(Tail(q), A) PROVE Tail(q)[Len(Tail(q))].do \in Fixers
    OBVIOUS
  <2>1. Tail(q) # <<>>
    BY <1>1 DEF Takes
  <2> QED
    BY <1>2, <2>1, TailTakes
<1>6. ASSUME Head(q).do \in A PROVE Settles(Tail(q))
  <2>1. q[Len(q)].do \in Fixers
    BY <1>2, <1>6, TailTakes
  <2>2. Head(q).do \notin Fixers
    BY <1>6 DEF NoReturn
  <2>3. Tail(q) # <<>>
    BY <2>1, <2>2, TailTakes
  <2>4. Tail(q)[Len(Tail(q))].do \in Fixers
    BY <2>1, <2>3, TailTakes
  <2>5. ASSUME NEW i \in 1..(Len(q) - 1) PROVE Tail(q)[i].do \in NoReturn
    <3>1. 1 \in 1..Len(q) /\ i + 1 \in 1..Len(q) /\ 1 < i + 1 /\ Tail(q)[i] = q[i + 1]
      BY <1>1
    <3> QED
      BY <1>1, <1>3, <1>6, <3>1
  <2> QED
    BY <1>1, <2>3, <2>4, <2>5 DEF Settles
<1> QED
  BY <1>4, <1>5, <1>6 DEF EndsWell

LEMMA SettlesTail ==
    ASSUME NEW T, NEW q \in Seq(T), Settles(q)
    PROVE  /\ q # <<>> /\ Head(q).do \in NoReturn
           /\ Tail(q) # <<>> => Settles(Tail(q))
           /\ Tail(q) = <<>> => Head(q).do \in Fixers
<1>1. q # <<>> /\ q[Len(q)].do \in Fixers /\ \A i \in DOMAIN q : q[i].do \in NoReturn
  BY DEF Settles
<1>2. /\ Head(q) = q[1] /\ DOMAIN q = 1..Len(q) /\ Len(q) \in Nat /\ Len(q) > 0
      /\ Tail(q) \in Seq(T) /\ DOMAIN Tail(q) = 1..(Len(q) - 1)
      /\ \A i \in 1..(Len(q) - 1) : Tail(q)[i] = q[i + 1]
  BY <1>1, TailIs
<1>3. Head(q).do \in NoReturn
  BY <1>1, <1>2
<1>4. \A i \in DOMAIN Tail(q) : Tail(q)[i].do \in NoReturn
  <2> SUFFICES ASSUME NEW i \in 1..(Len(q) - 1) PROVE Tail(q)[i].do \in NoReturn
    BY <1>2
  <2>1. i + 1 \in DOMAIN q
    BY <1>2
  <2> QED
    BY <1>1, <1>2, <2>1
<1> QED
  BY <1>1, <1>3, <1>4, TailTakes DEF Settles

(* A plan of two parts. *)
LEMMA ClearsJoin ==
    ASSUME NEW T, NEW q \in Seq(T), NEW r \in Seq(T), NEW A, A \cap NoReturn = {},
           \/ ~Takes(q, A) /\ Clears(r, A)
           \/ Clears(q, A) /\ \A i \in DOMAIN r : r[i].do \in NoReturn
    PROVE  Clears(q \o r, A)
<1>1. /\ Len(q) \in Nat /\ Len(r) \in Nat
      /\ DOMAIN (q \o r) = 1..(Len(q) + Len(r)) /\ DOMAIN q = 1..Len(q) /\ DOMAIN r = 1..Len(r)
      /\ \A i \in 1..Len(q) : (q \o r)[i] = q[i]
      /\ \A i \in 1..Len(r) : (q \o r)[Len(q) + i] = r[i]
  BY JoinIs
<1> DEFINE both == q \o r
<1> HIDE DEF both
<1>2. ASSUME NEW k \in 1..(Len(q) + Len(r))
      PROVE  \/ k \in 1..Len(q) /\ both[k] = q[k]
             \/ \E i \in 1..Len(r) : k = Len(q) + i /\ both[k] = r[i]
  <2>1. CASE k \in 1..Len(q)
    BY <1>1, <2>1 DEF both
  <2>2. CASE k \notin 1..Len(q)
    <3>1. k - Len(q) \in 1..Len(r) /\ k = Len(q) + (k - Len(q))
      BY <1>1, <2>2
    <3>2. PICK i \in 1..Len(r) : k = Len(q) + i
      BY <3>1
    <3> QED
      BY <1>1, <3>2 DEF both
  <2> QED
    BY <2>1, <2>2
<1>3. ASSUME NEW k \in 1..(Len(q) + Len(r)), NEW l \in 1..(Len(q) + Len(r)), both[k].do \in A, k < l
      PROVE  both[l].do \in NoReturn
  <2>1. CASE ~Takes(q, A) /\ Clears(r, A)
    <3>1. k \notin 1..Len(q)
      BY <1>1, <1>3, <2>1 DEF both, Takes
    <3>2. PICK i \in 1..Len(r) : k = Len(q) + i /\ both[k] = r[i]
      BY <1>2, <3>1
    <3>3. l \notin 1..Len(q)
      BY <1>1, <1>3, <3>1
    <3>4. PICK j \in 1..Len(r) : l = Len(q) + j /\ both[l] = r[j]
      BY <1>2, <3>3
    <3>5. i < j
      BY <1>1, <1>3, <3>2, <3>4
    <3> QED
      BY <1>1, <1>3, <2>1, <3>2, <3>4, <3>5 DEF Clears
  <2>2. CASE Clears(q, A) /\ \A i \in DOMAIN r : r[i].do \in NoReturn
    <3>1. CASE \E i \in 1..Len(r) : l = Len(q) + i /\ both[l] = r[i]
      BY <1>1, <2>2, <3>1
    <3>2. CASE l \in 1..Len(q) /\ both[l] = q[l]
      <4>1. k \in 1..Len(q) /\ both[k] = q[k]
        BY <1>1, <1>3, <3>2 DEF both
      <4> QED
        BY <1>1, <1>3, <2>2, <3>2, <4>1 DEF Clears
    <3> QED
      BY <1>2, <3>1, <3>2
  <2> QED
    BY <2>1, <2>2
<1> QED
  BY <1>1, <1>3 DEF both, Clears

LEMMA EndsJoin ==
    ASSUME NEW T, NEW q \in Seq(T), NEW r \in Seq(T), NEW A, Clears(q \o r, A),
           r # <<>>, r[Len(r)].do \in Fixers
    PROVE  EndsWell(q \o r, A)
<1>1. /\ Len(q) \in Nat /\ Len(r) \in Nat /\ DOMAIN (q \o r) = 1..(Len(q) + Len(r))
      /\ q \o r \in Seq(T)
      /\ \A i \in 1..Len(r) : (q \o r)[Len(q) + i] = r[i]
  BY JoinIs
<1>2. PICK both \in Seq(T) : both = q \o r
  BY <1>1
<1>3. Len(both) = Len(q) + Len(r) /\ Len(r) > 0
  BY <1>1, <1>2
<1>4. Len(r) \in 1..Len(r)
  BY <1>1, <1>3
<1>5. both[Len(both)] = r[Len(r)]
  BY <1>1, <1>2, <1>3, <1>4
<1> QED
  BY <1>2, <1>5 DEF EndsWell

(* What is left of an order between steps, when a step is over. *)
LEMMA PrecedeLeft ==
    ASSUME NEW T, NEW q \in Seq(T), q # <<>>, NEW A, NEW B, "error" \notin A, Precede(q, A, B),
           NEW r, r \in {<<>>, Single("error")} \/ (r = Tail(q) /\ Head(q).do \notin B)
    PROVE  Precede(r, A, B)
<1>1. CASE r = <<>>
  BY <1>1 DEF Precede
<1>2. CASE r = Single("error")
  BY <1>2, StepIs DEF Precede, Single
<1>3. CASE r = Tail(q) /\ Head(q).do \notin B
  BY <1>3, PrecedeTail
<1> QED
  BY <1>1, <1>2, <1>3

LEMMA TakesJoin ==
    ASSUME NEW T, NEW q \in Seq(T), NEW r \in Seq(T), NEW A, Takes(q, A) \/ Takes(r, A)
    PROVE  Takes(q \o r, A)
<1>1. /\ Len(q) \in Nat /\ Len(r) \in Nat
      /\ DOMAIN (q \o r) = 1..(Len(q) + Len(r)) /\ DOMAIN q = 1..Len(q) /\ DOMAIN r = 1..Len(r)
      /\ \A i \in 1..Len(q) : (q \o r)[i] = q[i]
      /\ \A i \in 1..Len(r) : (q \o r)[Len(q) + i] = r[i]
  BY JoinIs
<1>2. CASE Takes(q, A)
  BY <1>1, <1>2 DEF Takes
<1>3. CASE Takes(r, A)
  <2>1. PICK i \in 1..Len(r) : r[i].do \in A
    BY <1>1, <1>3 DEF Takes
  <2>2. Len(q) + i \in 1..(Len(q) + Len(r)) /\ (q \o r)[Len(q) + i] = r[i]
    BY <1>1, <2>1
  <2> QED
    BY <1>1, <2>1, <2>2 DEF Takes
<1> QED
  BY <1>2, <1>3

LEMMA NarrowKinds ==
    /\ \A c \in Rising : NarrowStep(c) = RiseStep /\ c \in Plain
    /\ \A c \in Falling : NarrowStep(c) = FallStep /\ c \in Plain
    /\ NarrowStep("sync") = SyncStep /\ NarrowStep("import") = ImportStep
    /\ NarrowStep("discover") = DiscoverStep /\ NarrowStep("apiImport") = AddStep
    /\ NarrowStep("domain") = DomainStep /\ NarrowStep("apiDomain") = DomainStep
    /\ Narrow = Plain \cup Imports
<1>1. /\ \A c \in Falling : c \notin Rising /\ c \notin {"sync", "import", "discover", "apiImport"}
      /\ \A c \in Rising : c \notin Falling /\ c \notin {"sync", "import", "discover", "apiImport"}
  BY DEF Rising, Falling
<1>2. {"sync", "import", "discover", "apiImport", "domain", "apiDomain"} \cap (Rising \cup Falling) = {}
  BY DEF Rising, Falling
<1>3. \A c \in Rising : NarrowStep(c) = RiseStep
  BY <1>1 DEF NarrowStep
<1>4. \A c \in Falling : NarrowStep(c) = FallStep
  BY <1>1 DEF NarrowStep
<1>5. /\ NarrowStep("sync") = SyncStep /\ NarrowStep("import") = ImportStep
      /\ NarrowStep("discover") = DiscoverStep /\ NarrowStep("apiImport") = AddStep
      /\ NarrowStep("domain") = DomainStep /\ NarrowStep("apiDomain") = DomainStep
  BY <1>2 DEF NarrowStep
<1> QED
  BY <1>3, <1>4, <1>5 DEF Rising, Falling, Narrow, Plain, Imports

LEMMA RisePlans ==
    /\ startCmd \in Seq(RiseStep) /\ handleStartProject \in Seq(RiseStep)
    /\ restartCmd \in Seq(RiseStep) /\ handleRestartProject \in Seq(RiseStep)
    /\ EndsWell(startCmd, {"up", "down"}) /\ EndsWell(handleStartProject, {"up", "down"})
    /\ EndsWell(restartCmd, {"up", "down"}) /\ EndsWell(handleRestartProject, {"up", "down"})
    /\ Precede(startCmd, {"running"}, {"up", "restart"})
    /\ Precede(handleStartProject, {"running"}, {"up", "restart"})
    /\ Precede(restartCmd, {"running"}, {"up", "restart"})
    /\ Precede(handleRestartProject, {"running"}, {"up", "restart"})
    /\ Precede(handleStartProject, Guarded, {"lock"})
    /\ Precede(handleRestartProject, Guarded, {"lock"})
<1> DEFINE A == {"up", "down"}
<1>1. A \cap NoReturn = {}
  BY DEF NoReturn, Fixers
<1>2. PICK find, lock, edge, up, healthy, running, edgeM, upM, restart, restartM :
        /\ find = S("find", "stop") /\ lock = S("lock", "stop")
        /\ edge = S("edge", "stop") /\ up = S("up", "stop") /\ restart = S("restart", "stop")
        /\ edgeM = S("edge", "mark") /\ upM = S("up", "mark") /\ restartM = S("restart", "mark")
        /\ healthy = S("healthy", "mark") /\ running = S("running", "go")
  OBVIOUS
<1>3. /\ find.do = "find" /\ lock.do = "lock" /\ edge.do = "edge" /\ up.do = "up"
      /\ restart.do = "restart" /\ edgeM.do = "edge" /\ upM.do = "up" /\ restartM.do = "restart"
      /\ healthy.do = "healthy" /\ running.do = "running"
  BY <1>2, StepIs
<1>4. {find, lock, edge, up, restart, edgeM, upM, restartM, healthy, running} \subseteq RiseStep
  BY <1>2, StepIs DEF RiseStep, Nothing
<1>5. /\ <<find>> \in Seq(RiseStep) /\ <<find, lock>> \in Seq(RiseStep)
      /\ <<edge, up>> \in Seq(RiseStep) /\ <<edgeM, upM>> \in Seq(RiseStep)
      /\ <<healthy, running>> \in Seq(RiseStep) /\ <<running>> \in Seq(RiseStep)
      /\ <<find, restartM, healthy, running>> \in Seq(RiseStep)
      /\ <<find, lock, restart>> \in Seq(RiseStep)
  BY <1>4
<1>6. /\ startCmd = (<<find>> \o <<edgeM, upM>>) \o <<healthy, running>>
      /\ handleStartProject = (<<find, lock>> \o <<edge, up>>) \o <<running>>
      /\ restartCmd = <<find, restartM, healthy, running>>
      /\ handleRestartProject = <<find, lock, restart>>
  BY <1>2 DEF startCmd, handleStartProject, restartCmd, handleRestartProject, ComposeUp
<1>7. /\ EndsWell(restartCmd, A) /\ EndsWell(handleRestartProject, A)
      /\ Precede(restartCmd, {"running"}, {"up", "restart"})
      /\ Precede(handleRestartProject, {"running"}, {"up", "restart"})
      /\ Precede(handleRestartProject, Guarded, {"lock"})
  BY <1>3, <1>6 DEF EndsWell, Clears, Takes, Precede, Guarded
<1>8. PICK pre \in Seq(RiseStep), apre \in Seq(RiseStep) :
        pre = <<find>> \o <<edgeM, upM>> /\ apre = <<find, lock>> \o <<edge, up>>
  BY <1>5, JoinIs
<1>9. /\ Clears(<<edgeM, upM>>, A) /\ Clears(<<edge, up>>, A)
      /\ ~Takes(<<find>>, A) /\ ~Takes(<<find, lock>>, A)
  BY <1>3 DEF Clears, Takes
<1>10. Clears(pre, A) /\ Clears(apre, A)
  BY <1>1, <1>5, <1>8, <1>9, ClearsJoin
<1>11. /\ \A i \in DOMAIN <<healthy, running>> : <<healthy, running>>[i].do \in NoReturn
       /\ \A i \in DOMAIN <<running>> : <<running>>[i].do \in NoReturn
       /\ <<healthy, running>>[Len(<<healthy, running>>)].do \in Fixers
       /\ <<running>>[Len(<<running>>)].do \in Fixers
  BY <1>3 DEF NoReturn, Fixers
<1>11a. <<healthy, running>> # <<>> /\ <<running>> # <<>>
  OBVIOUS
<1>12. EndsWell(startCmd, A)
  <2>1. Clears(pre \o <<healthy, running>>, A)
    BY <1>1, <1>5, <1>10, <1>11, ClearsJoin
  <2>2. EndsWell(pre \o <<healthy, running>>, A)
    BY <1>5, <1>8, <1>11, <1>11a, <2>1, EndsJoin
  <2> QED
    BY <1>6, <1>8, <2>2
<1>13. EndsWell(handleStartProject, A)
  <2>1. Clears(apre \o <<running>>, A)
    BY <1>1, <1>5, <1>10, <1>11, ClearsJoin
  <2>2. EndsWell(apre \o <<running>>, A)
    BY <1>5, <1>8, <1>11, <1>11a, <2>1, EndsJoin
  <2> QED
    BY <1>6, <1>8, <2>2
<1>14. /\ Precede(pre, {"running"}, {"up", "restart"}) /\ \E i \in DOMAIN pre : pre[i].do \in {"up", "restart"}
       /\ Precede(apre, {"running"}, {"up", "restart"}) /\ \E i \in DOMAIN apre : apre[i].do \in {"up", "restart"}
       /\ Precede(apre, Guarded, {"lock"}) /\ \E i \in DOMAIN apre : apre[i].do \in {"lock"}
  <2>1. /\ Takes(<<edgeM, upM>>, {"up", "restart"}) /\ Takes(<<edge, up>>, {"up", "restart"})
        /\ Takes(<<find, lock>>, {"lock"})
    BY <1>3 DEF Takes
  <2>2. Takes(pre, {"up", "restart"}) /\ Takes(apre, {"up", "restart"}) /\ Takes(apre, {"lock"})
    BY <1>5, <1>8, <2>1, TakesJoin
  <2>3. /\ ~Takes(<<find>>, {"running"}) /\ ~Takes(<<edgeM, upM>>, {"running"})
        /\ ~Takes(<<find, lock>>, {"running"}) /\ ~Takes(<<edge, up>>, {"running"})
    BY <1>3 DEF Takes
  <2>4. ~Takes(pre, {"running"}) /\ ~Takes(apre, {"running"})
    BY <1>5, <1>8, <2>3, JoinTakes
  <2>5. Precede(<<find, lock>>, Guarded, {"lock"})
    BY <1>3 DEF Precede, Guarded
  <2>6. Precede(apre, Guarded, {"lock"})
    <3>1. \E i \in DOMAIN <<find, lock>> : <<find, lock>>[i].do \in {"lock"}
      BY <2>1 DEF Takes
    <3> QED
      BY <1>5, <1>8, <2>5, <3>1, PrecedeJoin
  <2> QED
    BY <2>2, <2>4, <2>6, TakesNothing DEF Takes
<1>15. Precede(pre \o <<healthy, running>>, {"running"}, {"up", "restart"})
  BY <1>5, <1>14, PrecedeJoin
<1>16. Precede(apre \o <<running>>, {"running"}, {"up", "restart"})
  BY <1>5, <1>14, PrecedeJoin
<1>17. Precede(apre \o <<running>>, Guarded, {"lock"})
  BY <1>5, <1>14, PrecedeJoin
<1>18. pre \o <<healthy, running>> \in Seq(RiseStep) /\ apre \o <<running>> \in Seq(RiseStep)
  BY <1>5, JoinIs
<1> QED
  BY <1>5, <1>6, <1>7, <1>8, <1>12, <1>13, <1>15, <1>16, <1>17, <1>18

LEMMA FallPlans ==
    /\ stopCmd \in Seq(FallStep) /\ handleStopProject \in Seq(FallStep)
    /\ EndsWell(stopCmd, {"up", "down"}) /\ EndsWell(handleStopProject, {"up", "down"})
    /\ Precede(stopCmd, {"stopped"}, {"down"}) /\ Precede(handleStopProject, {"stopped"}, {"down"})
    /\ Precede(handleStopProject, Guarded, {"lock"})
<1>1. PICK find, lock, down, downM, stopped :
        /\ find = S("find", "stop") /\ lock = S("lock", "stop") /\ down = S("down", "stop")
        /\ downM = S("down", "mark") /\ stopped = S("stopped", "go")
  OBVIOUS
<1>2. /\ find.do = "find" /\ lock.do = "lock" /\ down.do = "down" /\ downM.do = "down"
      /\ stopped.do = "stopped"
  BY <1>1, StepIs
<1>3. {find, lock, down, downM, stopped} \subseteq FallStep
  BY <1>1, StepIs DEF FallStep, Nothing
<1>4. stopCmd = <<find, downM, stopped>> /\ handleStopProject = <<find, lock, down, stopped>>
  BY <1>1 DEF stopCmd, handleStopProject
<1>5. <<find, downM, stopped>> \in Seq(FallStep) /\ <<find, lock, down, stopped>> \in Seq(FallStep)
  BY <1>3
<1>6. EndsWell(stopCmd, {"up", "down"}) /\ EndsWell(handleStopProject, {"up", "down"})
  BY <1>2, <1>4 DEF EndsWell, Clears, Takes, NoReturn, Fixers
<1>7. /\ Precede(stopCmd, {"stopped"}, {"down"}) /\ Precede(handleStopProject, {"stopped"}, {"down"})
      /\ Precede(handleStopProject, Guarded, {"lock"})
  BY <1>2, <1>4 DEF Precede, Guarded
<1> QED
  BY <1>4, <1>5, <1>6, <1>7

LEMMA RemovalEnds ==
    ASSUME NEW keep \in BOOLEAN
    PROVE  /\ EndsWell(destroyCmd(keep), {"up", "down"})
           /\ EndsWell(handleDeleteProject(keep), {"up", "down"})
           /\ Precede(handleDeleteProject(keep), Guarded, {"lock"})
<1> DEFINE A == {"up", "down"}
<1>1. A \cap NoReturn = {}
  BY DEF NoReturn, Fixers
<1>2. PICK find, lock, down, repo, dir, user, row1, row2 :
        /\ find = S("find", "stop") /\ lock = S("lock", "stop") /\ down = S("down", "go")
        /\ repo = S("repo-", "go") /\ dir = S("dir-", "go") /\ user = S("user-", "go")
        /\ row1 = S("row-", "go") /\ row2 = S("row-", "stop")
  OBVIOUS
<1>3. /\ find.do = "find" /\ lock.do = "lock" /\ down.do = "down" /\ repo.do = "repo-"
      /\ dir.do = "dir-" /\ user.do = "user-" /\ row1.do = "row-" /\ row2.do = "row-"
  BY <1>2, StepIs
<1>4. {find, lock, down, repo, dir, user, row1, row2} \subseteq RemovalStep
  BY <1>2, StepIs DEF RemovalStep, Nothing
<1>5. PICK files, filesApi : /\ files = IF keep THEN <<>> ELSE <<dir, user>>
                             /\ filesApi = IF keep THEN <<>> ELSE <<dir>>
  OBVIOUS
<1>6. /\ destroyCmd(keep) = (<<find, down, repo>> \o files) \o <<row1>>
      /\ handleDeleteProject(keep) = (<<find, lock, down>> \o filesApi) \o <<row2>>
  BY <1>2, <1>5 DEF destroyCmd, handleDeleteProject
<1>7. /\ <<find, down, repo>> \in Seq(RemovalStep) /\ <<find, lock, down>> \in Seq(RemovalStep)
      /\ <<row1>> \in Seq(RemovalStep) /\ <<row2>> \in Seq(RemovalStep)
      /\ <<dir, user>> \in Seq(RemovalStep) /\ <<dir>> \in Seq(RemovalStep)
  BY <1>4
<1>8. files \in Seq(RemovalStep) /\ filesApi \in Seq(RemovalStep)
  BY <1>5, <1>7, NoSteps
<1>9. /\ \A i \in DOMAIN <<dir, user>> : <<dir, user>>[i].do \in NoReturn
      /\ \A i \in DOMAIN <<dir>> : <<dir>>[i].do \in NoReturn
      /\ \A i \in DOMAIN <<row1>> : <<row1>>[i].do \in NoReturn
      /\ \A i \in DOMAIN <<row2>> : <<row2>>[i].do \in NoReturn
      /\ <<row1>> # <<>> /\ <<row1>>[Len(<<row1>>)].do \in Fixers
      /\ <<row2>> # <<>> /\ <<row2>>[Len(<<row2>>)].do \in Fixers
  BY <1>3 DEF NoReturn, Fixers
<1>10. /\ \A i \in DOMAIN files : files[i].do \in NoReturn
       /\ \A i \in DOMAIN filesApi : filesApi[i].do \in NoReturn
  <2>1. DOMAIN <<>> = {}
    OBVIOUS
  <2> QED
    BY <1>5, <1>9, <2>1
<1>11. Clears(<<find, down, repo>>, A) /\ Clears(<<find, lock, down>>, A)
  BY <1>3 DEF Clears, NoReturn
<1>12. PICK pre \in Seq(RemovalStep), apre \in Seq(RemovalStep) :
         pre = <<find, down, repo>> \o files /\ apre = <<find, lock, down>> \o filesApi
  BY <1>7, <1>8, JoinIs
<1>13. Clears(pre, A) /\ Clears(apre, A)
  BY <1>1, <1>7, <1>8, <1>10, <1>11, <1>12, ClearsJoin
<1>14. Clears(pre \o <<row1>>, A)
  BY <1>1, <1>7, <1>9, <1>13, ClearsJoin
<1>15. Clears(apre \o <<row2>>, A)
  BY <1>1, <1>7, <1>9, <1>13, ClearsJoin
<1>16. EndsWell(pre \o <<row1>>, A)
  BY <1>7, <1>9, <1>14, EndsJoin
<1>17. EndsWell(apre \o <<row2>>, A)
  BY <1>7, <1>9, <1>15, EndsJoin
<1>18. Precede(<<find, lock, down>>, Guarded, {"lock"}) /\ Takes(<<find, lock, down>>, {"lock"})
  BY <1>3 DEF Precede, Guarded, Takes
<1>19. Precede(apre, Guarded, {"lock"}) /\ Takes(apre, {"lock"})
  <2>1. Takes(apre, {"lock"})
    BY <1>7, <1>8, <1>12, <1>18, TakesJoin
  <2>2. \E i \in DOMAIN <<find, lock, down>> : <<find, lock, down>>[i].do \in {"lock"}
    BY <1>18 DEF Takes
  <2> QED
    BY <1>7, <1>8, <1>12, <1>18, <2>1, <2>2, PrecedeJoin
<1>20. Precede(apre \o <<row2>>, Guarded, {"lock"})
  BY <1>7, <1>19, PrecedeJoin DEF Takes
<1> QED
  BY <1>6, <1>12, <1>16, <1>17, <1>20

LEMMA OtherPlans ==
    /\ syncCmd \in Seq(SyncStep) /\ importCmd \in Seq(ImportStep)
    /\ domainSetCmd \in Seq(DomainStep) /\ handleUpdateProjectDomain \in Seq(DomainStep)
    /\ handleDiscoverImport \in Seq(AddStep) /\ discoverImportCmd \in Seq(DiscoverStep)
    /\ EndsWell(importCmd, {"up", "down", "row+"})
    /\ Precede(importCmd, {"settle", "reconcile", "row+scanned"}, {"count", "scan"})
    /\ Precede(discoverImportCmd, {"settle", "reconcile", "row+scanned"}, {"count", "scan"})
    /\ Precede(syncCmd, {"settle", "reconcile", "row+scanned"}, {"count", "scan"})
    /\ Precede(syncCmd, {"write", "reconcile"}, {"find"})
    /\ Precede(domainSetCmd, {"write", "reconcile"}, {"find"})
    /\ Precede(handleUpdateProjectDomain, {"write", "reconcile"}, {"find"})
    /\ LastOnly(syncCmd, {"reconcile", "write"}) /\ LastOnly(domainSetCmd, {"reconcile", "write"})
    /\ LastOnly(handleUpdateProjectDomain, {"reconcile", "write"})
<1>1. PICK find, orphan, count, rec, rewrite, write, stat, row1, settle, row2, unman, scan, row3 :
        /\ find = S("find", "stop") /\ orphan = S("orphan", "go") /\ count = S("count", "stop")
        /\ rec = S("reconcile", "go") /\ rewrite = S("rewrite", "stop") /\ write = S("write", "stop")
        /\ stat = S("stat", "stop") /\ row1 = S("row+", "stop") /\ settle = S("settle", "go")
        /\ row2 = S("row+", "go") /\ unman = S("unmanaged", "stop") /\ scan = S("scan", "blind")
        /\ row3 = S("row+scanned", "go")
  OBVIOUS
<1>2. /\ find.do = "find" /\ orphan.do = "orphan" /\ count.do = "count" /\ rec.do = "reconcile"
      /\ rewrite.do = "rewrite" /\ write.do = "write" /\ stat.do = "stat" /\ row1.do = "row+"
      /\ settle.do = "settle" /\ row2.do = "row+" /\ unman.do = "unmanaged" /\ scan.do = "scan"
      /\ row3.do = "row+scanned"
  <2>1. \A do, on : S(do, on).do = do
    BY StepIs
  <2> QED
    BY <1>1, <2>1
<1>3. /\ {find, orphan, count, rec} \subseteq SyncStep /\ {stat, row1, count, settle} \subseteq ImportStep
      /\ {find, rewrite, write} \subseteq DomainStep /\ row2 \in AddStep
      /\ {unman, scan, row3} \subseteq DiscoverStep
  <2>1. {find, orphan, count, rec} \subseteq SyncStep
    <3>1. /\ \A do \in {"find", "count"} : S(do, "stop") \in SyncStep
          /\ \A do \in {"orphan", "reconcile"} : S(do, "go") \in SyncStep
      BY StepIs DEF SyncStep, Nothing
    <3> QED
      BY <1>1, <3>1
  <2>2. {stat, row1, count, settle} \subseteq ImportStep
    BY <1>1, StepIs, SMTT(30) DEF ImportStep, Nothing
  <2>3. {find, rewrite, write} \subseteq DomainStep
    BY <1>1, StepIs, SMTT(30) DEF DomainStep, Nothing
  <2>4. row2 \in AddStep /\ {unman, scan, row3} \subseteq DiscoverStep
    <3>1. S("row+", "go") \in AddStep
      BY StepIs DEF AddStep, Nothing
    <3>2. /\ S("unmanaged", "stop") \in DiscoverStep /\ S("scan", "blind") \in DiscoverStep
          /\ S("row+scanned", "go") \in DiscoverStep
      BY StepIs DEF DiscoverStep, Nothing
    <3> QED
      BY <1>1, <3>1, <3>2
  <2> QED
    BY <2>1, <2>2, <2>3, <2>4
<1>4. /\ syncCmd = <<find, orphan, count, rec>> /\ importCmd = <<stat, row1, count, settle>>
      /\ domainSetCmd = <<find, rewrite, write>> /\ handleUpdateProjectDomain = <<find, write>>
      /\ handleDiscoverImport = <<row2>> /\ discoverImportCmd = <<unman, scan>> \o <<row3>>
  BY <1>1 DEF syncCmd, importCmd, domainSetCmd, handleUpdateProjectDomain, handleDiscoverImport,
              discoverImportCmd, DiscoverAll
<1>5. /\ <<find, orphan, count, rec>> \in Seq(SyncStep) /\ <<stat, row1, count, settle>> \in Seq(ImportStep)
      /\ <<find, rewrite, write>> \in Seq(DomainStep) /\ <<find, write>> \in Seq(DomainStep)
      /\ <<row2>> \in Seq(AddStep) /\ <<unman, scan>> \in Seq(DiscoverStep) /\ <<row3>> \in Seq(DiscoverStep)
  BY <1>3
<1>6. EndsWell(importCmd, {"up", "down", "row+"})
  BY <1>2, <1>4 DEF EndsWell, Clears, Takes, NoReturn, Fixers
<1>7. /\ Precede(importCmd, {"settle", "reconcile", "row+scanned"}, {"count", "scan"})
      /\ Precede(syncCmd, {"settle", "reconcile", "row+scanned"}, {"count", "scan"})
      /\ Precede(<<unman, scan>>, {"settle", "reconcile", "row+scanned"}, {"count", "scan"})
      /\ Takes(<<unman, scan>>, {"count", "scan"})
  BY <1>2, <1>4 DEF Precede, Takes
<1>8. Precede(discoverImportCmd, {"settle", "reconcile", "row+scanned"}, {"count", "scan"})
  BY <1>4, <1>5, <1>7, PrecedeJoin DEF Takes
<1>9. /\ Precede(syncCmd, {"write", "reconcile"}, {"find"})
      /\ Precede(domainSetCmd, {"write", "reconcile"}, {"find"})
      /\ Precede(handleUpdateProjectDomain, {"write", "reconcile"}, {"find"})
  BY <1>2, <1>4 DEF Precede
<1>10. /\ LastOnly(syncCmd, {"reconcile", "write"}) /\ LastOnly(domainSetCmd, {"reconcile", "write"})
       /\ LastOnly(handleUpdateProjectDomain, {"reconcile", "write"})
  BY <1>2, <1>4 DEF LastOnly
<1>11. discoverImportCmd \in Seq(DiscoverStep)
  BY <1>4, <1>5, JoinIs
<1> QED
  BY <1>4, <1>5, <1>6, <1>7, <1>8, <1>9, <1>10, <1>11

LEMMA StatusPlans ==
    ASSUME NEW c \in Commands
    PROVE  /\ c \in Narrow => Plans[c] \in Seq(NarrowStep(c))
           /\ c \in Owing => EndsWell(Plans[c], Shifts(c))
           /\ c \in Readers => LastOnly(Plans[c], {"reconcile", "write"})
           /\ c \in Rising => Precede(Plans[c], {"running"}, {"up", "restart"})
           /\ c \in Falling => Precede(Plans[c], {"stopped"}, {"down"})
           /\ c \in Counters => Precede(Plans[c], {"settle", "reconcile", "row+scanned"}, {"count", "scan"})
           /\ c \in Readers => Precede(Plans[c], {"write", "reconcile"}, {"find"})
           /\ c \in Serialised => Precede(Plans[c], Guarded, {"lock"})
<1>1. ASSUME c \in Rising
      PROVE  /\ Plans[c] \in Seq(RiseStep) /\ EndsWell(Plans[c], {"up", "down"})
             /\ Precede(Plans[c], {"running"}, {"up", "restart"})
  BY <1>1, PlansAre, RisePlans DEF Rising
<1>2. ASSUME c \in Falling
      PROVE  /\ Plans[c] \in Seq(FallStep) /\ EndsWell(Plans[c], {"up", "down"})
             /\ Precede(Plans[c], {"stopped"}, {"down"})
  BY <1>2, PlansAre, FallPlans DEF Falling
<1>3. ASSUME c \in Removals PROVE EndsWell(Plans[c], {"up", "down"})
  BY <1>3, PlansAre, RemovalEnds DEF Removals
<1>4. ASSUME c \in Serialised PROVE Precede(Plans[c], Guarded, {"lock"})
  BY <1>4, PlansAre, RisePlans, FallPlans, RemovalEnds DEF Serialised
<1>5. ASSUME c \in {"sync", "domain", "apiDomain", "import", "discover", "apiImport"}
      PROVE  Plans[c] \in Seq(NarrowStep(c))
  BY <1>5, PlansAre, OtherPlans, NarrowKinds
<1>6. ASSUME c \in Narrow PROVE Plans[c] \in Seq(NarrowStep(c))
  BY <1>1, <1>2, <1>5, <1>6, NarrowKinds DEF Narrow
<1>7. ASSUME c \in Owing PROVE EndsWell(Plans[c], Shifts(c))
  <2>1. CASE c = "import"
    BY <2>1, PlansAre, OtherPlans DEF Shifts
  <2>2. CASE c # "import"
    <3>1. Shifts(c) = {"up", "down"}
      BY <2>2 DEF Shifts
    <3> QED
      BY <1>1, <1>2, <1>3, <1>7, <2>2, <3>1 DEF Owing
  <2> QED
    BY <2>1, <2>2
<1>8. ASSUME c \in Readers
      PROVE  /\ LastOnly(Plans[c], {"reconcile", "write"})
             /\ Precede(Plans[c], {"write", "reconcile"}, {"find"})
  BY <1>8, PlansAre, OtherPlans DEF Readers
<1>9. ASSUME c \in Counters
      PROVE  Precede(Plans[c], {"settle", "reconcile", "row+scanned"}, {"count", "scan"})
  BY <1>9, PlansAre, OtherPlans DEF Counters
<1> QED
  BY <1>1, <1>2, <1>4, <1>6, <1>7, <1>8, <1>9

LEMMA AdvanceKnows ==
    ASSUME NEW cmd, NEW c \in JobType(cmd), NEW s
    PROVE  /\ Advance(c, s).todo = IF s.do = "orphan" /\ "dir" \notin have THEN <<>> ELSE Tail(c.todo)
           /\ Advance(c, s).seen = IF s.do = "find" THEN row ELSE c.seen
           /\ s.do \in {"count", "scan"} => (Advance(c, s).count <=> "up" \in have)
           /\ s.do \notin {"count", "scan"} => Advance(c, s).count = c.count
           /\ Advance(c, s).alone = c.alone
<1>1. PICK a, b, d :
        /\ a = IF s.do = "orphan" /\ "dir" \notin have THEN <<>> ELSE Tail(c.todo)
        /\ b = IF s.undo = None THEN c.undo ELSE <<S(s.undo, "go")>> \o c.undo
        /\ d = IF s.do = "find" THEN row ELSE c.seen
  OBVIOUS
<1>2. PICK e : e = IF s.do \in {"count", "scan"} THEN "up" \in have ELSE c.count
  BY Zenon
<1>3. Advance(c, s) = [c EXCEPT !.todo = a, !.undo = b, !.seen = d, !.count = e]
  BY <1>1, <1>2, Zenon DEF Advance
<1>4. PICK f : f = Advance(c, s)
  OBVIOUS
<1>5. f.todo = a /\ f.seen = d /\ f.count = e /\ f.alone = c.alone
  BY <1>3, <1>4 DEF JobType
<1>6. /\ s.do \in {"count", "scan"} => (e <=> "up" \in have)
      /\ s.do \notin {"count", "scan"} => e = c.count
  BY <1>2, Zenon
<1> QED
  BY <1>1, <1>4, <1>5, <1>6, Zenon

(* A step in full: what it leaves to do, what it learns, and the lock. *)
LEMMA WholeMove ==
    ASSUME TypeInv, NEW p \in Processes, Do(p) \/ Refuse(p) \/ Fail(p)
    PROVE  \E s \in StepsOf(job[p].cmd) :
              /\ job[p].cmd \in Commands /\ job[p].todo # <<>> /\ s = Head(job[p].todo)
              /\ job[p].todo \in Seq(StepsOf(job[p].cmd)) /\ job[p].undo \in UndosOf(job[p].cmd)
              /\ \A q \in Processes \ {p} : job'[q] = job[q]
              /\ \A q \in Processes : job'[q].cmd = job[q].cmd
              /\ job'[p].alone = job[p].alone
              /\ \/ /\ Do(p) /\ Possible(p, s.do) /\ have' = Effect(p, s.do) /\ row' = RowAfter(p, s.do)
                    /\ s.do = "lock" => mutex = None /\ mutex' = p
                    /\ s.do # "lock" => mutex' = mutex
                    /\ job'[p].todo = IF s.do = "orphan" /\ "dir" \notin have THEN <<>> ELSE Tail(job[p].todo)
                    /\ job'[p].seen = IF s.do = "find" THEN row ELSE job[p].seen
                    /\ s.do \in {"count", "scan"} => (job'[p].count <=> "up" \in have)
                    /\ s.do \notin {"count", "scan"} => job'[p].count = job[p].count
                 \/ /\ \/ Refuse(p) /\ ~Possible(p, s.do) /\ have' = have
                       \/ /\ Fail(p) /\ tainted' /\ s.do \notin Reads
                          /\ have' \in {have, Effect(p, s.do),
                                        have \cup (Adds(s.do) \cap {"dir", "sdir", "pdir"})}
                    /\ row' = row /\ mutex' = mutex
                    /\ job'[p].seen = job[p].seen /\ job'[p].count = job[p].count
                    /\ s.on \in {"go", "blind"} => job'[p].todo = Tail(job[p].todo)
                    /\ s.on = "mark" => job'[p].todo = Single("error")
                    /\ s.on = "clean" => job'[p].todo = Single("dir-")
                    /\ s.on = "stop" => job'[p].todo = job[p].undo
<1>1. CASE Do(p)
  <2>1. PICK c \in JobType(job[p].cmd), s \in StepsOf(job[p].cmd) :
              /\ c = job[p] /\ c.cmd \in Commands /\ c.todo # <<>> /\ s = Head(c.todo)
              /\ Possible(p, s.do) /\ have' = Effect(p, s.do) /\ row' = RowAfter(p, s.do)
              /\ job' = [job EXCEPT ![p] = Advance(c, s)]
              /\ s.do = "lock" => mutex = None
              /\ mutex' = IF s.do = "lock" THEN p ELSE mutex
    BY <1>1, DoIs
  <2>2. job[p].cmd \in Commands /\ c \in JobType(job[p].cmd) /\ c.todo # <<>> /\ s = Head(c.todo)
    BY <2>1
  <2>3. PICK d \in JobType(job[p].cmd) : d = Advance(c, s)
    BY <2>2, AdvanceIs
  <2>4. /\ d.todo = IF s.do = "orphan" /\ "dir" \notin have THEN <<>> ELSE Tail(c.todo)
        /\ d.seen = IF s.do = "find" THEN row ELSE c.seen
        /\ d.alone = c.alone
    BY <2>2, <2>3, AdvanceKnows, ZenonT(60)
  <2>5. /\ s.do \in {"count", "scan"} => (d.count <=> "up" \in have)
        /\ s.do \notin {"count", "scan"} => d.count = c.count
    BY <2>2, <2>3, AdvanceKnows, Zenon
  <2>6. /\ job'[p] = d /\ \A q \in Processes \ {p} : job'[q] = job[q]
        /\ \A q \in Processes : job'[q].cmd = job[q].cmd
    BY <2>1, <2>2, <2>3, JobStays
  <2>7. c.todo \in Seq(StepsOf(job[p].cmd)) /\ c.undo \in UndosOf(job[p].cmd)
    BY <2>2 DEF JobType
  <2>8. (s.do = "lock" => mutex = None /\ mutex' = p) /\ (s.do # "lock" => mutex' = mutex)
    BY <2>1
  <2>9. /\ job'[p].todo = IF s.do = "orphan" /\ "dir" \notin have THEN <<>> ELSE Tail(job[p].todo)
        /\ job'[p].seen = IF s.do = "find" THEN row ELSE job[p].seen
        /\ job'[p].alone = job[p].alone
    BY <2>1, <2>4, <2>6, Zenon
  <2>10. /\ s.do \in {"count", "scan"} => (job'[p].count <=> "up" \in have)
         /\ s.do \notin {"count", "scan"} => job'[p].count = job[p].count
    BY <2>1, <2>5, <2>6, Zenon
  <2>11. /\ job[p].cmd \in Commands /\ job[p].todo # <<>> /\ s = Head(job[p].todo)
         /\ job[p].todo \in Seq(StepsOf(job[p].cmd)) /\ job[p].undo \in UndosOf(job[p].cmd)
         /\ Possible(p, s.do) /\ have' = Effect(p, s.do) /\ row' = RowAfter(p, s.do)
    BY <2>1, <2>7, Zenon
  <2> QED
    BY <1>1, <2>6, <2>8, <2>9, <2>10, <2>11, Zenon
<1>2. CASE Refuse(p) \/ Fail(p)
  <2>1. PICK c \in JobType(job[p].cmd), s \in StepsOf(job[p].cmd), h \in SUBSET Things :
              /\ c = job[p] /\ c.cmd \in Commands /\ c.todo # <<>> /\ s = Head(c.todo)
              /\ job' = [job EXCEPT ![p] = Fallen(p, c, s, h)]
              /\ \/ Refuse(p) /\ ~Possible(p, s.do) /\ have' = have
                 \/ /\ Fail(p) /\ tainted' /\ s.do \notin Reads
                    /\ have' \in {have, Effect(p, s.do), have \cup (Adds(s.do) \cap {"dir", "sdir", "pdir"})}
              /\ row' = row /\ mutex' = mutex
    <3>1. CASE Refuse(p)
      <4>1. PICK c \in JobType(job[p].cmd), s \in StepsOf(job[p].cmd) :
              /\ c = job[p] /\ c.cmd \in Commands /\ c.todo # <<>> /\ s = Head(c.todo)
              /\ ~Possible(p, s.do)
              /\ job' = [job EXCEPT ![p] = Fallen(p, c, s, {})]
              /\ UNCHANGED <<have, row, mutex>>
        BY <3>1, RefuseIs
      <4>2. {} \in SUBSET Things /\ have' = have /\ row' = row /\ mutex' = mutex
        BY <4>1
      <4> QED
        BY <3>1, <4>1, <4>2, Zenon
    <3>2. CASE Fail(p)
      <4>1. PICK c \in JobType(job[p].cmd), s \in StepsOf(job[p].cmd) :
              /\ c = job[p] /\ c.cmd \in Commands /\ c.todo # <<>> /\ s = Head(c.todo)
              /\ s.do \notin Reads
              /\ have' \in {have, Effect(p, s.do), have \cup (Adds(s.do) \cap {"dir", "sdir", "pdir"})}
              /\ job' = [job EXCEPT ![p] = Fallen(p, c, s, have' \ have)]
              /\ tainted' = TRUE /\ row' = row /\ mutex' = mutex
        BY <3>2, FailIs
      <4>2. have' \ have \in SUBSET Things
        BY <4>1, EffectIs, AddsAreThings DEF TypeInv, HostTypes
      <4> QED
        BY <3>2, <4>1, <4>2
    <3> QED
      BY <1>2, <3>1, <3>2
  <2>2. job[p].cmd \in Commands /\ c = job[p] /\ c.todo # <<>> /\ s = Head(c.todo)
    BY <2>1
  <2>3. PICK d \in JobType(job[p].cmd) : d = Fallen(p, c, s, h)
    BY <2>2, FallenIs
  <2>4. /\ s.on \in {"go", "blind"} => d.todo = Tail(c.todo)
        /\ s.on = "mark" => d.todo = Single("error")
        /\ s.on = "clean" => d.todo = Single("dir-")
        /\ s.on = "stop" => d.todo = c.undo
        /\ d.seen = c.seen /\ d.count = c.count /\ d.alone = c.alone
    BY <2>2, <2>3, FallenIs
  <2>5. /\ job'[p] = d /\ \A q \in Processes \ {p} : job'[q] = job[q]
        /\ \A q \in Processes : job'[q].cmd = job[q].cmd
    BY <2>1, <2>2, <2>3, JobStays
  <2>6. c.todo \in Seq(StepsOf(job[p].cmd)) /\ c.undo \in UndosOf(job[p].cmd)
    BY <2>2 DEF JobType
  <2> QED
    BY <2>1, <2>2, <2>4, <2>5, <2>6
<1> QED
  BY <1>1, <1>2

LEMMA NarrowDoes ==
    ASSUME NEW cmd, NEW s
    PROVE  /\ cmd \in Rising /\ s \in RiseStep =>
                 /\ s.do \in {"find", "lock", "edge", "up", "restart", "healthy", "running", "error"}
                 /\ s.on \in {"stop", "mark", "go"} /\ (s.on = "go" => s.do \in {"running", "error"})
                 /\ s.do = "healthy" => s.on = "mark"
           /\ cmd \in Falling /\ s \in FallStep =>
                 /\ s.do \in {"find", "lock", "down", "stopped", "error"}
                 /\ s.on \in {"stop", "mark", "go"} /\ (s.on = "go" => s.do \in {"stopped", "error"})
           /\ cmd = "sync" /\ s \in SyncStep =>
                 /\ s.do \in {"find", "orphan", "count", "reconcile"}
                 /\ s.on \in {"stop", "go"} /\ (s.on = "go" => s.do \in {"orphan", "reconcile"})
           /\ cmd \in {"domain", "apiDomain"} /\ s \in DomainStep =>
                 s.do \in {"find", "rewrite", "write"} /\ s.on = "stop"
           /\ cmd = "import" /\ s \in ImportStep =>
                 /\ s.do \in {"stat", "row+", "count", "settle"}
                 /\ s.on \in {"stop", "go"} /\ (s.on = "go" => s.do = "settle")
           /\ cmd = "discover" /\ s \in DiscoverStep =>
                 /\ s.do \in {"unmanaged", "scan", "row+scanned"}
                 /\ s.on \in {"stop", "go", "blind"} /\ (s.on = "go" => s.do = "row+scanned")
                 /\ s.on = "blind" => s.do = "scan"
           /\ cmd = "apiImport" /\ s \in AddStep => s.do = "row+" /\ s.on = "go"
<1>1. s \in RiseStep =>
         /\ s.do \in {"find", "lock", "edge", "up", "restart", "healthy", "running", "error"}
         /\ s.on \in {"stop", "mark", "go"} /\ (s.on = "go" => s.do \in {"running", "error"})
         /\ s.do = "healthy" => s.on = "mark"
  BY DEF RiseStep
<1>2. s \in FallStep =>
         /\ s.do \in {"find", "lock", "down", "stopped", "error"}
         /\ s.on \in {"stop", "mark", "go"} /\ (s.on = "go" => s.do \in {"stopped", "error"})
  BY DEF FallStep
<1>3. s \in SyncStep =>
         /\ s.do \in {"find", "orphan", "count", "reconcile"}
         /\ s.on \in {"stop", "go"} /\ (s.on = "go" => s.do \in {"orphan", "reconcile"})
  BY DEF SyncStep
<1>4. s \in DomainStep => s.do \in {"find", "rewrite", "write"} /\ s.on = "stop"
  BY DEF DomainStep
<1>5. s \in ImportStep =>
         /\ s.do \in {"stat", "row+", "count", "settle"}
         /\ s.on \in {"stop", "go"} /\ (s.on = "go" => s.do = "settle")
  BY DEF ImportStep
<1>6. s \in DiscoverStep =>
         /\ s.do \in {"unmanaged", "scan", "row+scanned"}
         /\ s.on \in {"stop", "go", "blind"} /\ (s.on = "go" => s.do = "row+scanned")
         /\ s.on = "blind" => s.do = "scan"
  BY DEF DiscoverStep
<1>7. s \in AddStep => s.do = "row+" /\ s.on = "go"
  BY DEF AddStep
<1> QED
  BY <1>1, <1>2, <1>3, <1>4, <1>5, <1>6, <1>7

(* Which command takes a step that bears on the status.                     *)
LEMMA WhoDoes ==
    ASSUME NEW cmd \in Commands, NEW s \in StepsOf(cmd), cmd \in Narrow => s \in NarrowStep(cmd)
    PROVE  /\ s.do \in {"up", "restart", "running", "healthy"} => cmd \in Rising
           /\ s.do = "down" => cmd \in Falling \cup Removals
           /\ s.do = "stopped" => cmd \in Falling
           /\ s.do = "error" => cmd \in Rising \cup Falling
           /\ s.do = "row-" => cmd \in Removals
           /\ s.do = "row+" => cmd \in Creations \cup {"import", "apiImport"}
           /\ s.do = "row+scanned" => cmd = "discover"
           /\ s.do = "settle" => cmd = "import"
           /\ s.do \in {"reconcile", "orphan"} => cmd = "sync"
           /\ s.do = "write" => cmd \in {"domain", "apiDomain"}
           /\ s.do = "lock" => cmd \in Rising \cup Falling \cup Removals
           /\ s.do = "scan" => cmd = "discover"
<1> DEFINE Bearing == {"up", "restart", "running", "healthy", "down", "stopped", "error", "row-", "row+",
                       "row+scanned", "settle", "reconcile", "orphan", "write", "lock", "scan"}
<1>1. s \in WriterStep \/ s \in EnvRemovalStep => s.do \notin Bearing
  BY DEF WriterStep, EnvRemovalStep
<1>2. s \in RemovalStep => s.do \notin Bearing \/ s.do \in {"lock", "down", "row-"}
  BY DEF RemovalStep
<1>3. s \in CreateStep \/ s \in ApiCreateStep => s.do \notin Bearing \/ s.do = "row+"
  BY DEF CreateStep, ApiCreateStep, CleanStep
<1>4. CASE cmd \notin Narrow
  <2>1. \/ cmd \in EnvWriters /\ s \in WriterStep
        \/ cmd \in EnvRemovals /\ s \in EnvRemovalStep
        \/ cmd \in Removals /\ s \in RemovalStep
        \/ cmd \in Locals /\ s \in CreateStep
        \/ cmd = "apiCreate" /\ s \in ApiCreateStep
    BY <1>4, KindIs, NarrowKinds
  <2> QED
    BY <1>1, <1>2, <1>3, <2>1, CommandsApart
<1>5. CASE cmd \in Narrow
  <2>1. s \in NarrowStep(cmd)
    BY <1>5
  <2>2. \/ cmd \in Rising /\ s \in RiseStep
        \/ cmd \in Falling /\ s \in FallStep
        \/ cmd = "sync" /\ s \in SyncStep
        \/ cmd \in {"domain", "apiDomain"} /\ s \in DomainStep
        \/ cmd = "import" /\ s \in ImportStep
        \/ cmd = "discover" /\ s \in DiscoverStep
        \/ cmd = "apiImport" /\ s \in AddStep
    BY <1>5, <2>1, NarrowKinds DEF Narrow
  <2> QED
    BY <2>2, NarrowDoes
<1> QED
  BY <1>4, <1>5

(* What the steps do to the containers and to the row.                      *)
LEMMA UpMoves ==
    ASSUME NEW p \in Processes, NEW do
    PROVE  /\ do \in {"up", "restart"} => "up" \in Effect(p, do)
           /\ do = "down" => "up" \notin Effect(p, do)
           /\ do \notin {"up", "restart", "down"} => ("up" \in Effect(p, do) <=> "up" \in have)
<1>1. do \notin {"up", "restart"} => "up" \notin Adds(do)
  BY DEF Adds
<1>2. do # "down" => "up" \notin Drops(do)
  BY DEF Drops, Files, Staging, Production
<1>3. "up" \in Adds("up") /\ "up" \in Adds("restart") /\ "up" \in Drops("down")
  BY DEF Adds, Drops
<1>4. "up" \notin Files
  BY DEF Files, Staging, Production
<1>5. do = "down" => Effect(p, do) = (have \ Drops(do)) \cup Adds(do)
  BY DEF Effect
<1>6. do \in {"up", "restart"} => Effect(p, do) = (have \ Drops(do)) \cup Adds(do)
  BY DEF Effect
<1>7. CASE do \notin {"up", "restart", "down"}
  BY <1>1, <1>2, <1>4, <1>7 DEF Effect
<1> QED
  BY <1>1, <1>3, <1>5, <1>6, <1>7

LEMMA RowDoes ==
    ASSUME TypeInv, NEW p \in Processes, NEW do
    PROVE  /\ do \in {"running", "stopped", "error"} => RowAfter(p, do).status = do
           /\ do = "row-" => RowAfter(p, do).status = None
           /\ do = "row+" => RowAfter(p, do).status = IF job[p].cmd = "import" THEN "stopped" ELSE "created"
           /\ do = "row+scanned" => RowAfter(p, do).status = Says(job[p].count)
           /\ do = "settle" => RowAfter(p, do).status = IF job[p].count THEN "running" ELSE row.status
           /\ do = "reconcile" =>
                 RowAfter(p, do).status = IF job[p].seen.status \notin {"created", Says(job[p].count)}
                                          THEN Says(job[p].count) ELSE row.status
           /\ do = "orphan" => RowAfter(p, do) = row \/ RowAfter(p, do).status = "error"
           /\ do = "orphan" /\ "dir" \in have => RowAfter(p, do) = row
           /\ do = "write" => RowAfter(p, do).status = job[p].seen.status
           /\ do \notin {"running", "stopped", "error", "row-", "row+", "row+scanned", "settle",
                         "reconcile", "orphan", "write"} => RowAfter(p, do) = row
<1>1. row \in Row /\ job[p] \in JobType(job[p].cmd)
  BY DEF TypeInv, HostTypes, JobTypes
<1>2. job[p].seen \in Row /\ job[p].count \in BOOLEAN
  BY <1>1 DEF JobType
<1>3. \A st : [row EXCEPT !.status = st].status = st
  BY <1>1 DEF Row
<1>4. [job[p].seen EXCEPT !.domain = 1 - @].status = job[p].seen.status
  BY <1>2 DEF Row
<1>5. CASE do \in {"running", "stopped", "error"}
  BY <1>3, <1>5 DEF RowAfter
<1>6. CASE do = "row-"
  BY <1>6 DEF RowAfter, NoRow
<1>7. CASE do = "row+"
  BY <1>7 DEF RowAfter
<1>8. CASE do = "row+scanned"
  BY <1>8 DEF RowAfter
<1>9. CASE do = "settle"
  BY <1>3, <1>9 DEF RowAfter
<1>10. CASE do = "reconcile"
  BY <1>3, <1>10 DEF RowAfter
<1>11. CASE do = "orphan"
  BY <1>3, <1>11 DEF RowAfter
<1>12. CASE do = "write"
  BY <1>4, <1>12 DEF RowAfter
<1>13. CASE do \notin {"running", "stopped", "error", "row-", "row+", "row+scanned", "settle",
                       "reconcile", "orphan", "write"}
  BY <1>13 DEF RowAfter
<1> QED
  BY <1>5, <1>6, <1>7, <1>8, <1>9, <1>10, <1>11, <1>12, <1>13

LEMMA AlwaysPossible ==
    ASSUME NEW p
    PROVE  /\ Possible(p, "lock") /\ Possible(p, "scan")
           /\ \A do \in Fixers : Registered => Possible(p, do)
BY DEF Possible, Needs, Bars, RowSteps, NewRow, Fixers

LEMMA HeadNarrow ==
    ASSUME PlansNarrow, NEW p \in Processes, job[p].todo # <<>>, job[p].cmd \in Narrow
    PROVE  Head(job[p].todo) \in NarrowStep(job[p].cmd)
<1>1. job[p].todo \in Seq(NarrowStep(job[p].cmd))
  BY DEF PlansNarrow
<1> QED
  BY <1>1, TailIs

(* What a command that registers, changes or removes a project has left.    *)
LEMMA TodoLeft ==
    ASSUME TypeInv, PlansNarrow, NEW p \in Processes, Do(p) \/ Refuse(p) \/ Fail(p),
           job[p].cmd \in Narrow \cup Removals
    PROVE  \/ job'[p].todo \in {<<>>, Tail(job[p].todo)}
           \/ job[p].cmd \in Rising \cup Falling /\ job'[p].todo = Single("error")
<1>1. PICK s \in StepsOf(job[p].cmd) :
        /\ job[p].cmd \in Commands /\ job[p].todo # <<>> /\ s = Head(job[p].todo)
        /\ job[p].undo \in UndosOf(job[p].cmd)
        /\ \/ job'[p].todo \in {<<>>, Tail(job[p].todo)}
           \/ /\ s.on \in {"go", "blind"} => job'[p].todo = Tail(job[p].todo)
              /\ s.on = "mark" => job'[p].todo = Single("error")
              /\ s.on = "stop" => job'[p].todo = job[p].undo
  BY WholeMove
<1>2. job[p].cmd \notin Locals
  BY NarrowKinds, CommandsApart DEF Plain, Imports, Locals
<1>3. job[p].undo = <<>>
  BY <1>1, <1>2 DEF UndosOf
<1>4. job[p].cmd \in Narrow => s \in NarrowStep(job[p].cmd)
  BY <1>1, HeadNarrow
<1>5. s.on \in {"go", "blind", "stop"} \/ (s.on = "mark" /\ job[p].cmd \in Rising \cup Falling)
  <2>1. CASE job[p].cmd \in Removals
    BY <1>1, <2>1, KindsAre DEF RemovalStep
  <2>2. CASE job[p].cmd \in Narrow
    <3>1. \/ job[p].cmd \in Rising /\ s \in RiseStep
          \/ job[p].cmd \in Falling /\ s \in FallStep
          \/ job[p].cmd = "sync" /\ s \in SyncStep
          \/ job[p].cmd \in {"domain", "apiDomain"} /\ s \in DomainStep
          \/ job[p].cmd = "import" /\ s \in ImportStep
          \/ job[p].cmd = "discover" /\ s \in DiscoverStep
          \/ job[p].cmd = "apiImport" /\ s \in AddStep
      BY <1>4, <2>2, NarrowKinds DEF Narrow
    <3> QED
      BY <3>1, NarrowDoes
  <2> QED
    BY <2>1, <2>2
<1> QED
  BY <1>1, <1>3, <1>5

LEMMA NarrowMove ==
    ASSUME TypeInv, PlansNarrow, NEW p \in Processes, Do(p) \/ Refuse(p) \/ Fail(p)
    PROVE  PlansNarrow'
<1>1. /\ job[p].cmd \in Commands /\ job[p].todo # <<>> /\ job[p].todo \in Seq(StepsOf(job[p].cmd))
      /\ \A q \in Processes \ {p} : job'[q] = job[q]
      /\ \A q \in Processes : job'[q].cmd = job[q].cmd
  BY WholeMove
<1>2. PICK cmd, todo, todo1 : cmd = job[p].cmd /\ todo = job[p].todo /\ todo1 = job'[p].todo
  OBVIOUS
<1>3. /\ cmd \in Narrow => todo \in Seq(NarrowStep(cmd))
      /\ cmd \in Owing => EndsWell(todo, Shifts(cmd))
      /\ cmd \in Readers => LastOnly(todo, {"reconcile", "write"})
  BY <1>2 DEF PlansNarrow
<1>4. Owing \cup Readers \cup Narrow \subseteq Narrow \cup Removals
  BY DEF Owing, Readers, Narrow
<1>5. Shifts(cmd) \cap NoReturn = {}
  BY DEF Shifts, NoReturn, Fixers
<1>6. ASSUME cmd \in Narrow \cup Removals
      PROVE  /\ cmd \in Narrow => todo1 \in Seq(NarrowStep(cmd))
             /\ cmd \in Owing => EndsWell(todo1, Shifts(cmd))
             /\ cmd \in Readers => LastOnly(todo1, {"reconcile", "write"})
  <2>1. todo1 = <<>> \/ todo1 = Tail(todo) \/ (cmd \in Rising \cup Falling /\ todo1 = Single("error"))
    BY <1>2, <1>6, TodoLeft
  <2>2. CASE todo1 = <<>>
    BY <2>2, NoSteps DEF EndsWell, Clears, Takes, LastOnly
  <2>3. CASE todo1 = Tail(todo)
    <3>1. todo \in Seq(StepsOf(cmd)) /\ todo # <<>>
      BY <1>1, <1>2
    <3>2. cmd \in Narrow => todo1 \in Seq(NarrowStep(cmd))
      BY <1>3, <2>3, <3>1, TailIs
    <3>3. cmd \in Owing => EndsWell(todo1, Shifts(cmd))
      BY <1>3, <1>5, <2>3, <3>1, EndsTail
    <3>4. cmd \in Readers => LastOnly(todo1, {"reconcile", "write"})
      BY <1>3, <2>3, <3>1, TailTakes
    <3> QED
      BY <3>2, <3>3, <3>4
  <2>4. CASE cmd \in Rising \cup Falling /\ todo1 = Single("error")
    <3>1. PICK e : e = S("error", "go")
      OBVIOUS
    <3>2. e \in RiseStep /\ e \in FallStep /\ e.do = "error"
      BY <3>1, StepIs DEF RiseStep, FallStep, Nothing
    <3>3. todo1 = <<e>>
      BY <2>4, <3>1 DEF Single
    <3>4. cmd \in Narrow => todo1 \in Seq(NarrowStep(cmd))
      BY <2>4, <3>2, <3>3, NarrowKinds
    <3>5. EndsWell(todo1, Shifts(cmd)) /\ LastOnly(todo1, {"reconcile", "write"})
      BY <3>2, <3>3 DEF EndsWell, Clears, Takes, Shifts, LastOnly
    <3> QED
      BY <3>4, <3>5
  <2> QED
    BY <2>1, <2>2, <2>3, <2>4
<1>7. /\ cmd \in Narrow => todo1 \in Seq(NarrowStep(cmd))
      /\ cmd \in Owing => EndsWell(todo1, Shifts(cmd))
      /\ cmd \in Readers => LastOnly(todo1, {"reconcile", "write"})
  BY <1>4, <1>6
<1> QED
  BY <1>1, <1>2, <1>7 DEF PlansNarrow

(* A step of a command keeps what the command knows. *)
LEMMA CountMove ==
    ASSUME TypeInv, PlansNarrow, NEW p \in Processes, job[p].cmd \in Counters, KnowsCount(p),
           Do(p) \/ Refuse(p) \/ Fail(p), Fail(p) => job[p].cmd = "sync"
    PROVE  KnowsCount(p)'
<1> DEFINE A == {"settle", "reconcile", "row+scanned"}
           B == {"count", "scan"}
<1>1. PICK s \in StepsOf(job[p].cmd) :
        /\ job[p].todo # <<>> /\ s = Head(job[p].todo) /\ job[p].todo \in Seq(StepsOf(job[p].cmd))
        /\ job[p].undo \in UndosOf(job[p].cmd)
        /\ \/ /\ have' = Effect(p, s.do)
              /\ job'[p].todo = IF s.do = "orphan" /\ "dir" \notin have THEN <<>> ELSE Tail(job[p].todo)
              /\ s.do \in {"count", "scan"} => (job'[p].count <=> "up" \in have)
              /\ s.do \notin {"count", "scan"} => job'[p].count = job[p].count
           \/ /\ \/ Refuse(p) /\ ~Possible(p, s.do) /\ have' = have
                 \/ /\ Fail(p)
                    /\ have' \in {have, Effect(p, s.do), have \cup (Adds(s.do) \cap {"dir", "sdir", "pdir"})}
              /\ job'[p].count = job[p].count
              /\ s.on \in {"go", "blind"} => job'[p].todo = Tail(job[p].todo)
              /\ s.on = "stop" => job'[p].todo = job[p].undo
  BY WholeMove
<1>2. /\ s.do \notin {"up", "restart", "down"}
      /\ s.on \in {"stop", "go", "blind"} /\ (s.on = "go" => s.do \notin B)
      /\ (s.on = "blind" => s.do = "scan" /\ job[p].cmd = "discover")
  <2>1. job[p].cmd \in Narrow
    BY DEF Counters, Narrow
  <2>2. \/ job[p].cmd = "sync" /\ s \in SyncStep
        \/ job[p].cmd = "import" /\ s \in ImportStep
        \/ job[p].cmd = "discover" /\ s \in DiscoverStep
    BY <1>1, <2>1, HeadNarrow, NarrowKinds DEF Counters
  <2> QED
    BY <2>2, NarrowDoes
<1>3. "up" \in have' <=> "up" \in have
  <2>1. "up" \in Effect(p, s.do) <=> "up" \in have
    BY <1>2, UpMoves
  <2> QED
    BY <1>1, <2>1
<1>4. job[p].undo = <<>>
  <2>1. job[p].cmd \notin Locals
    BY DEF Counters, Locals
  <2> QED
    BY <1>1, <2>1 DEF UndosOf
<1>5. CASE s.do \in B /\ (job'[p].count <=> "up" \in have)
  BY <1>3, <1>5 DEF KnowsCount
<1>6. CASE /\ job'[p].count = job[p].count
           /\ job'[p].todo = <<>> \/ (job'[p].todo = Tail(job[p].todo) /\ s.do \notin B)
  <2>1. CASE job[p].count <=> "up" \in have
    BY <1>3, <1>6, <2>1 DEF KnowsCount
  <2>2. CASE Precede(job[p].todo, A, B)
    <3>1. PICK r : r = job'[p].todo
      OBVIOUS
    <3>2. Precede(r, A, B)
      BY <1>1, <1>6, <2>2, <3>1, PrecedeLeft
    <3> QED
      BY <3>1, <3>2 DEF KnowsCount
  <2> QED
    BY <2>1, <2>2 DEF KnowsCount
<1>7. CASE /\ have' = Effect(p, s.do)
           /\ job'[p].todo \in {<<>>, Tail(job[p].todo)}
           /\ s.do \in {"count", "scan"} => (job'[p].count <=> "up" \in have)
           /\ s.do \notin {"count", "scan"} => job'[p].count = job[p].count
  BY <1>5, <1>6, <1>7
<1>8. CASE /\ ~Possible(p, s.do) \/ job[p].cmd = "sync"
           /\ job'[p].count = job[p].count
           /\ s.on \in {"go", "blind"} => job'[p].todo = Tail(job[p].todo)
           /\ s.on = "stop" => job'[p].todo = job[p].undo
  <2>1. CASE s.on = "stop"
    BY <1>4, <1>6, <1>8, <2>1
  <2>2. CASE s.on = "go"
    BY <1>2, <1>6, <1>8, <2>2
  <2>3. s.on # "blind"
    BY <1>2, <1>8, AlwaysPossible
  <2> QED
    BY <1>2, <2>1, <2>2, <2>3
<1> QED
  BY <1>1, <1>7, <1>8

LEMMA RowMove ==
    ASSUME TypeInv, PlansNarrow, NEW p \in Processes, job[p].cmd \in Readers, KnowsRow(p),
           Do(p) \/ Refuse(p) \/ Fail(p)
    PROVE  KnowsRow(p)'
<1> DEFINE A == {"write", "reconcile"}
           B == {"find"}
<1>1. PICK s \in StepsOf(job[p].cmd) :
        /\ job[p].todo # <<>> /\ s = Head(job[p].todo) /\ job[p].todo \in Seq(StepsOf(job[p].cmd))
        /\ job[p].undo \in UndosOf(job[p].cmd)
        /\ \/ /\ row' = RowAfter(p, s.do)
              /\ job'[p].todo = IF s.do = "orphan" /\ "dir" \notin have THEN <<>> ELSE Tail(job[p].todo)
              /\ job'[p].seen = IF s.do = "find" THEN row ELSE job[p].seen
           \/ /\ row' = row /\ job'[p].seen = job[p].seen
              /\ s.on \in {"go", "blind"} => job'[p].todo = Tail(job[p].todo)
              /\ s.on = "stop" => job'[p].todo = job[p].undo
  BY WholeMove, ZenonT(60)
<1>2. /\ s.do \in {"find", "orphan", "count", "reconcile", "rewrite", "write"}
      /\ s.on \in {"stop", "go"} /\ (s.on = "go" => s.do \notin B)
  <2>1. job[p].cmd \in Narrow
    BY DEF Readers, Narrow
  <2>2. \/ job[p].cmd = "sync" /\ s \in SyncStep
        \/ job[p].cmd \in {"domain", "apiDomain"} /\ s \in DomainStep
    BY <1>1, <2>1, HeadNarrow, NarrowKinds DEF Readers
  <2> QED
    BY <2>2, NarrowDoes
<1>3. job[p].undo = <<>>
  <2>1. job[p].cmd \notin Locals
    BY DEF Readers, Locals
  <2> QED
    BY <1>1, <2>1 DEF UndosOf
<1>4. LastOnly(job[p].todo, {"reconcile", "write"})
  BY DEF PlansNarrow
<1>5. CASE job'[p].todo = <<>>
  BY <1>5 DEF KnowsRow, Precede
<1>6. CASE s.do \in A /\ job'[p].todo = Tail(job[p].todo)
  <2>1. s.do \in {"reconcile", "write"}
    BY <1>6
  <2>2. Tail(job[p].todo) = <<>>
    BY <1>1, <1>4, <2>1, TailTakes
  <2> QED
    BY <1>5, <1>6, <2>2
<1>7. CASE /\ row' = row /\ job'[p].seen = job[p].seen
           /\ job'[p].todo = Tail(job[p].todo) /\ s.do \notin B
  <2>1. CASE job[p].seen = row
    BY <1>7, <2>1 DEF KnowsRow
  <2>2. CASE Precede(job[p].todo, A, B)
    <3>1. PICK r : r = job'[p].todo
      OBVIOUS
    <3>2. Precede(r, A, B)
      BY <1>1, <1>7, <2>2, <3>1, PrecedeLeft
    <3> QED
      BY <3>1, <3>2 DEF KnowsRow
  <2> QED
    BY <2>1, <2>2 DEF KnowsRow
<1>8. CASE /\ row' = RowAfter(p, s.do)
           /\ job'[p].todo = IF s.do = "orphan" /\ "dir" \notin have THEN <<>> ELSE Tail(job[p].todo)
           /\ job'[p].seen = IF s.do = "find" THEN row ELSE job[p].seen
  <2>1. s.do \in {"find", "count", "rewrite"} => RowAfter(p, s.do) = row
    BY RowDoes
  <2>2. s.do = "orphan" /\ "dir" \in have => RowAfter(p, s.do) = row
    BY RowDoes
  <2>3. CASE s.do = "find"
    BY <1>8, <2>1, <2>3 DEF KnowsRow
  <2>4. CASE s.do = "orphan" /\ "dir" \notin have
    BY <1>5, <1>8, <2>4
  <2>5. CASE s.do \in A
    BY <1>6, <1>8, <2>5
  <2>6. CASE s.do \in {"count", "rewrite"} \/ (s.do = "orphan" /\ "dir" \in have)
    BY <1>7, <1>8, <2>1, <2>2, <2>6
  <2> QED
    BY <1>2, <2>3, <2>4, <2>5, <2>6
<1>9. CASE /\ row' = row /\ job'[p].seen = job[p].seen
           /\ s.on \in {"go", "blind"} => job'[p].todo = Tail(job[p].todo)
           /\ s.on = "stop" => job'[p].todo = job[p].undo
  BY <1>2, <1>3, <1>5, <1>7, <1>9
<1> QED
  BY <1>1, <1>8, <1>9

LEMMA Untainted ==
    ASSUME TypeInv, NEW p \in Processes, ~tainted'
    PROVE  /\ ~Fail(p)
           /\ Do(p) =>
                 /\ Head(job[p].todo).do = "restart" => "up" \in have
                 /\ ~tainted \/ (Head(job[p].todo).do = "reconcile" /\ job[p].alone)
           /\ Refuse(p) =>
                 /\ ~tainted
                 /\ ~(Head(job[p].todo).do = "count" /\ job[p].cmd = "import")
<1>1. ~Fail(p)
  BY DEF Fail
<1>2. ASSUME Do(p)
      PROVE  /\ Head(job[p].todo).do = "restart" => "up" \in have
             /\ ~tainted \/ (Head(job[p].todo).do = "reconcile" /\ job[p].alone)
  <2>1. PICK s : s = Head(job[p].todo)
    OBVIOUS
  <2>2. tainted' = IF s.do = "reconcile" /\ job[p].alone THEN FALSE
                   ELSE tainted \/ (s.do = "restart" /\ "up" \notin have)
    BY <1>2, <2>1, Zenon DEF Do
  <2>3. /\ s.do = "reconcile" => s.do # "restart"
        /\ ~(s.do = "reconcile" /\ job[p].alone) => ~tainted /\ ~(s.do = "restart" /\ "up" \notin have)
    <3>1. "reconcile" # "restart"
      OBVIOUS
    <3> QED
      BY <2>2, <3>1, Zenon
  <2> QED
    BY <2>1, <2>3
<1>3. ASSUME Refuse(p)
      PROVE  ~tainted /\ ~(Head(job[p].todo).do = "count" /\ job[p].cmd = "import")
  <2>1. PICK s : s = Head(job[p].todo)
    OBVIOUS
  <2>2. tainted' = (tainted \/ (s.do = "count" /\ job[p].cmd = "import"))
    BY <1>3, <2>1, Zenon DEF Refuse
  <2> QED
    BY <2>1, <2>2, Zenon
<1> QED
  BY <1>1, <1>2, <1>3

(* A step in full, when it succeeds or is refused.                          *)
LEMMA SureMove ==
    ASSUME TypeInv, PlansNarrow, NEW p \in Processes, Do(p) \/ Refuse(p), ~tainted'
    PROVE  \E s \in StepsOf(job[p].cmd) :
              /\ job[p].cmd \in Commands /\ job[p].todo # <<>> /\ s = Head(job[p].todo)
              /\ job[p].todo \in Seq(StepsOf(job[p].cmd))
              /\ job[p].cmd \in Narrow => s \in NarrowStep(job[p].cmd)
              /\ job'[p].cmd = job[p].cmd
              /\ \/ /\ Do(p) /\ Possible(p, s.do) /\ have' = Effect(p, s.do) /\ row' = RowAfter(p, s.do)
                    /\ s.do = "lock" => mutex = None /\ mutex' = p
                    /\ s.do # "lock" => mutex' = mutex
                    /\ job'[p].todo = IF s.do = "orphan" /\ "dir" \notin have THEN <<>> ELSE Tail(job[p].todo)
                    /\ s.do = "restart" => "up" \in have
                 \/ /\ Refuse(p) /\ ~Possible(p, s.do) /\ have' = have /\ row' = row /\ mutex' = mutex
                    /\ s.on \in {"go", "blind"} => job'[p].todo = Tail(job[p].todo)
                    /\ s.on = "mark" => job'[p].todo = Single("error")
                    /\ s.on = "stop" /\ job[p].cmd \notin Locals => job'[p].todo = <<>>
                    /\ ~(s.do = "count" /\ job[p].cmd = "import")
<1>1. PICK s \in StepsOf(job[p].cmd) :
              /\ job[p].cmd \in Commands /\ job[p].todo # <<>> /\ s = Head(job[p].todo)
              /\ job[p].todo \in Seq(StepsOf(job[p].cmd)) /\ job[p].undo \in UndosOf(job[p].cmd)
              /\ job'[p].cmd = job[p].cmd
              /\ \/ /\ Do(p) /\ Possible(p, s.do) /\ have' = Effect(p, s.do) /\ row' = RowAfter(p, s.do)
                    /\ s.do = "lock" => mutex = None /\ mutex' = p
                    /\ s.do # "lock" => mutex' = mutex
                    /\ job'[p].todo = IF s.do = "orphan" /\ "dir" \notin have THEN <<>> ELSE Tail(job[p].todo)
                 \/ /\ \/ Refuse(p) /\ ~Possible(p, s.do) /\ have' = have
                       \/ Fail(p)
                    /\ row' = row /\ mutex' = mutex
                    /\ s.on \in {"go", "blind"} => job'[p].todo = Tail(job[p].todo)
                    /\ s.on = "mark" => job'[p].todo = Single("error")
                    /\ s.on = "stop" => job'[p].todo = job[p].undo
  BY WholeMove
<1>2. job[p].cmd \in Narrow => s \in NarrowStep(job[p].cmd)
  BY <1>1, HeadNarrow
<1>3. job[p].cmd \notin Locals => job[p].undo = <<>>
  BY <1>1 DEF UndosOf
<1>4. ~Fail(p) /\ (Do(p) => (s.do = "restart" => "up" \in have))
      /\ (Refuse(p) => ~(s.do = "count" /\ job[p].cmd = "import"))
  BY <1>1, Untainted
<1> QED
  BY <1>1, <1>2, <1>3, <1>4

LEMMA UpMove ==
    ASSUME TypeInv, PlansNarrow, NEW p \in Processes, job[p].cmd \in Rising, KnowsUp(p),
           job[p].cmd \in Serialised => KnowsLock(p), Do(p) \/ Refuse(p), ~tainted'
    PROVE  KnowsUp(p)'
<1> DEFINE A == {"running"}
           B == {"up", "restart"}
<1>1. PICK s \in StepsOf(job[p].cmd) :
        /\ job[p].todo # <<>> /\ s = Head(job[p].todo) /\ job[p].todo \in Seq(StepsOf(job[p].cmd))
        /\ s \in RiseStep /\ job'[p].cmd = job[p].cmd
        /\ \/ /\ Possible(p, s.do) /\ have' = Effect(p, s.do)
              /\ s.do = "lock" => mutex' = p
              /\ s.do # "lock" => mutex' = mutex
              /\ job'[p].todo = IF s.do = "orphan" /\ "dir" \notin have THEN <<>> ELSE Tail(job[p].todo)
           \/ /\ ~Possible(p, s.do) /\ have' = have /\ mutex' = mutex
              /\ s.on \in {"go", "blind"} => job'[p].todo = Tail(job[p].todo)
              /\ s.on = "mark" => job'[p].todo = Single("error")
              /\ s.on = "stop" /\ job[p].cmd \notin Locals => job'[p].todo = <<>>
  <2>1. job[p].cmd \in Narrow /\ NarrowStep(job[p].cmd) = RiseStep
    BY NarrowKinds DEF Narrow
  <2> QED
    BY <2>1, SureMove
<1>2. /\ s.do \in {"find", "lock", "edge", "up", "restart", "healthy", "running", "error"}
      /\ s.on \in {"stop", "mark", "go"} /\ (s.on = "go" => s.do \in {"running", "error"})
  BY <1>1, NarrowDoes
<1>3. job[p].cmd \notin Locals
  BY DEF Rising, Locals
<1>4. Holds(p) => Holds(p)'
  <2>1. mutex = p => mutex' = p
    BY <1>1
  <2> QED
    BY <1>1, <2>1 DEF Holds
<1>5. "up" \in have => "up" \in have'
  BY <1>1, <1>2, UpMoves
<1>6. CASE "up" \in have /\ Holds(p)
  BY <1>4, <1>5, <1>6 DEF KnowsUp
<1>7. CASE Precede(job[p].todo, A, B)
  <2>1. PICK r : r = job'[p].todo
    OBVIOUS
  <2>2. CASE r \in {<<>>, Single("error")} \/ (r = Tail(job[p].todo) /\ s.do \notin B)
    <3>1. Precede(r, A, B)
      BY <1>1, <1>7, <2>2, PrecedeLeft
    <3> QED
      BY <2>1, <3>1 DEF KnowsUp
  <2>3. CASE s.do \in B /\ have' = Effect(p, s.do) /\ mutex' = mutex
    <3>1. "up" \in have'
      BY <2>3, UpMoves
    <3>2. job[p].cmd \in Serialised => mutex = p
      <4>1. SUFFICES ASSUME job[p].cmd \in Serialised PROVE mutex = p
        OBVIOUS
      <4>2. s.do \in Guarded
        BY <2>3 DEF Guarded
      <4>3. ~Precede(job[p].todo, Guarded, {"lock"})
        BY <1>1, <4>2, PrecedeTail
      <4> QED
        BY <4>1, <4>3 DEF KnowsLock
    <3>3. Holds(p)'
      BY <1>1, <2>3, <3>2 DEF Holds
    <3> QED
      BY <3>1, <3>3 DEF KnowsUp
  <2> QED
    BY <1>1, <1>2, <1>3, <2>1, <2>2, <2>3
<1> QED
  BY <1>6, <1>7 DEF KnowsUp

LEMMA DownMove ==
    ASSUME TypeInv, PlansNarrow, NEW p \in Processes, job[p].cmd \in Falling, KnowsDown(p),
           job[p].cmd \in Serialised => KnowsLock(p), Do(p) \/ Refuse(p), ~tainted'
    PROVE  KnowsDown(p)'
<1> DEFINE A == {"stopped"}
           B == {"down"}
<1>1. PICK s \in StepsOf(job[p].cmd) :
        /\ job[p].todo # <<>> /\ s = Head(job[p].todo) /\ job[p].todo \in Seq(StepsOf(job[p].cmd))
        /\ s \in FallStep /\ job'[p].cmd = job[p].cmd
        /\ \/ /\ Possible(p, s.do) /\ have' = Effect(p, s.do)
              /\ s.do = "lock" => mutex' = p
              /\ s.do # "lock" => mutex' = mutex
              /\ job'[p].todo = IF s.do = "orphan" /\ "dir" \notin have THEN <<>> ELSE Tail(job[p].todo)
           \/ /\ ~Possible(p, s.do) /\ have' = have /\ mutex' = mutex
              /\ s.on \in {"go", "blind"} => job'[p].todo = Tail(job[p].todo)
              /\ s.on = "mark" => job'[p].todo = Single("error")
              /\ s.on = "stop" /\ job[p].cmd \notin Locals => job'[p].todo = <<>>
  <2>1. job[p].cmd \in Narrow /\ NarrowStep(job[p].cmd) = FallStep
    BY NarrowKinds DEF Narrow
  <2> QED
    BY <2>1, SureMove
<1>2. /\ s.do \in {"find", "lock", "down", "stopped", "error"}
      /\ s.on \in {"stop", "mark", "go"} /\ (s.on = "go" => s.do \in {"stopped", "error"})
  BY <1>1, NarrowDoes
<1>3. job[p].cmd \notin Locals
  BY DEF Falling, Locals
<1>4. Holds(p) => Holds(p)'
  <2>1. mutex = p => mutex' = p
    BY <1>1
  <2> QED
    BY <1>1, <2>1 DEF Holds
<1>5. "up" \notin have => "up" \notin have'
  BY <1>1, <1>2, UpMoves
<1>6. CASE "up" \notin have /\ Holds(p)
  BY <1>4, <1>5, <1>6 DEF KnowsDown
<1>7. CASE Precede(job[p].todo, A, B)
  <2>1. PICK r : r = job'[p].todo
    OBVIOUS
  <2>2. CASE r \in {<<>>, Single("error")} \/ (r = Tail(job[p].todo) /\ s.do \notin B)
    <3>1. Precede(r, A, B)
      BY <1>1, <1>7, <2>2, PrecedeLeft
    <3> QED
      BY <2>1, <3>1 DEF KnowsDown
  <2>3. CASE s.do \in B /\ have' = Effect(p, s.do) /\ mutex' = mutex
    <3>1. "up" \notin have'
      BY <2>3, UpMoves
    <3>2. job[p].cmd \in Serialised => mutex = p
      <4>1. SUFFICES ASSUME job[p].cmd \in Serialised PROVE mutex = p
        OBVIOUS
      <4>2. s.do \in Guarded
        BY <2>3 DEF Guarded
      <4>3. ~Precede(job[p].todo, Guarded, {"lock"})
        BY <1>1, <4>2, PrecedeTail
      <4> QED
        BY <4>1, <4>3 DEF KnowsLock
    <3>3. Holds(p)'
      BY <1>1, <2>3, <3>2 DEF Holds
    <3> QED
      BY <3>1, <3>3 DEF KnowsDown
  <2> QED
    BY <1>1, <1>2, <1>3, <2>1, <2>2, <2>3
<1> QED
  BY <1>6, <1>7 DEF KnowsDown

LEMMA LockMove ==
    ASSUME TypeInv, PlansNarrow, NEW p \in Processes, job[p].cmd \in Serialised, KnowsLock(p),
           Do(p) \/ Refuse(p), ~tainted'
    PROVE  KnowsLock(p)'
<1>1. PICK s \in StepsOf(job[p].cmd) :
        /\ job[p].todo # <<>> /\ s = Head(job[p].todo) /\ job[p].todo \in Seq(StepsOf(job[p].cmd))
        /\ \/ /\ s.do = "lock" => mutex' = p
              /\ s.do # "lock" => mutex' = mutex
           \/ ~Possible(p, s.do) /\ mutex' = mutex
  BY SureMove
<1>2. mutex = p => mutex' = p
  BY <1>1
<1>3. CASE mutex = p
  BY <1>2, <1>3 DEF KnowsLock
<1>4. CASE Precede(job[p].todo, Guarded, {"lock"})
  <2>1. Possible(p, "lock")
    BY AlwaysPossible
  <2>2. CASE s.do = "lock"
    BY <1>1, <2>1, <2>2 DEF KnowsLock
  <2>3. CASE s.do # "lock"
    <3>1. PICK r : r = job'[p].todo
      OBVIOUS
    <3>2. r \in {<<>>, Tail(job[p].todo)} \/ (job[p].cmd \in Rising \cup Falling /\ r = Single("error"))
      <4>1. job[p].cmd \in Narrow \cup Removals
        BY DEF Serialised, Narrow, Rising, Falling, Removals
      <4> QED
        BY <3>1, <4>1, TodoLeft
    <3>3. Precede(r, Guarded, {"lock"})
      <4>1. "error" \notin Guarded
        BY DEF Guarded
      <4> QED
        BY <1>1, <1>4, <2>3, <3>2, <4>1, PrecedeLeft
    <3> QED
      BY <3>1, <3>3 DEF KnowsLock
  <2> QED
    BY <2>2, <2>3
<1> QED
  BY <1>3, <1>4 DEF KnowsLock

(* A step of another process, when no two commands mix.                     *)
LEMMA Elsewhere ==
    ASSUME TypeInv, PlansNarrow, NEW p \in Processes, NEW q \in Processes, p # q,
           Do(q) \/ Refuse(q), ~tainted', ~Mixes(job[p].cmd, job[q].cmd), job[p].cmd \notin EnvOnly,
           job[q].cmd \in Serialised => KnowsLock(q)
    PROVE  /\ job'[p] = job[p]
           /\ \/ ("up" \in have' <=> "up" \in have) /\ row' = row /\ mutex' = mutex
              \/ /\ job[p].cmd \in Serialised
                 /\ mutex = p => mutex' = p /\ ("up" \in have' <=> "up" \in have)
<1>1. PICK s \in StepsOf(job[q].cmd) :
        /\ job[q].cmd \in Commands /\ job[q].todo # <<>> /\ s = Head(job[q].todo)
        /\ job[q].todo \in Seq(StepsOf(job[q].cmd))
        /\ job[q].cmd \in Narrow => s \in NarrowStep(job[q].cmd)
        /\ \/ /\ have' = Effect(q, s.do) /\ row' = RowAfter(q, s.do)
              /\ s.do = "lock" => mutex = None /\ mutex' = q
              /\ s.do # "lock" => mutex' = mutex
           \/ have' = have /\ row' = row /\ mutex' = mutex
  BY SureMove
<1>2. job'[p] = job[p]
  BY WholeMove
<1>3. CASE have' = have /\ row' = row /\ mutex' = mutex
  BY <1>2, <1>3
<1>4. CASE /\ have' = Effect(q, s.do) /\ row' = RowAfter(q, s.do)
           /\ s.do = "lock" => mutex = None /\ mutex' = q
           /\ s.do # "lock" => mutex' = mutex
  <2>1. CASE job[q].cmd \in EnvOnly
    <3>1. job[q].cmd \notin Rising \cup Falling \cup Removals \cup Creations
                             \cup {"import", "apiImport", "discover", "sync", "domain", "apiDomain"}
      BY <2>1 DEF EnvOnly, EnvWriters, EnvRemovals, Rising, Falling, Removals, Creations
    <3>2. s.do \notin {"up", "restart", "down", "running", "stopped", "error", "row-", "row+", "row+scanned",
                       "settle", "reconcile", "orphan", "write", "lock"}
      BY <1>1, <3>1, WhoDoes
    <3>3. RowAfter(q, s.do) = row
      BY <3>2, RowDoes
    <3>4. "up" \in Effect(q, s.do) <=> "up" \in have
      BY <3>2, UpMoves
    <3> QED
      BY <1>2, <1>4, <3>2, <3>3, <3>4
  <2>2. CASE job[q].cmd \notin EnvOnly
    <3>1. job[p].cmd \in Serialised /\ job[q].cmd \in Serialised
      BY <2>2 DEF Mixes
    <3>2. ASSUME mutex = p PROVE mutex' = p /\ ("up" \in have' <=> "up" \in have)
      <4>1. mutex # None /\ mutex # q
        BY <3>2, ProcessAssumption
      <4>2. Precede(job[q].todo, Guarded, {"lock"})
        BY <3>1, <4>1 DEF KnowsLock
      <4>3. s.do \notin {"up", "restart", "down"}
        BY <1>1, <4>2, PrecedeTail DEF Guarded
      <4>4. "up" \in Effect(q, s.do) <=> "up" \in have
        BY <4>3, UpMoves
      <4> QED
        BY <1>4, <3>2, <4>1, <4>4
    <3> QED
      BY <1>2, <3>1, <3>2
  <2> QED
    BY <2>1, <2>2
<1> QED
  BY <1>1, <1>3, <1>4

LEMMA KnowsStays ==
    ASSUME TypeInv, PlansNarrow, NEW p \in Processes, NEW q \in Processes, p # q,
           Do(q) \/ Refuse(q), ~tainted', ~Mixes(job[p].cmd, job[q].cmd), Knows(p), Knows(q)
    PROVE  Knows(p)'
<1>1. CASE job[p].cmd \in EnvOnly
  <2>1. job'[p] = job[p]
    BY WholeMove
  <2>2. job'[p].cmd \notin Rising \cup Falling \cup Counters \cup Readers \cup Serialised
    BY <1>1, <2>1
       DEF EnvOnly, EnvWriters, EnvRemovals, Rising, Falling, Counters, Readers, Serialised
  <2> QED
    BY <2>2 DEF Knows
<1>2. CASE job[p].cmd \notin EnvOnly
  <2>1. /\ job'[p] = job[p]
        /\ \/ ("up" \in have' <=> "up" \in have) /\ row' = row /\ mutex' = mutex
           \/ /\ job[p].cmd \in Serialised
              /\ mutex = p => mutex' = p /\ ("up" \in have' <=> "up" \in have)
    BY <1>2, Elsewhere DEF Knows
  <2>2. CASE ("up" \in have' <=> "up" \in have) /\ row' = row /\ mutex' = mutex
    BY <2>1, <2>2 DEF Knows, KnowsUp, KnowsDown, KnowsCount, KnowsRow, KnowsLock, Holds
  <2>3. CASE /\ job[p].cmd \in Serialised
             /\ mutex = p => mutex' = p /\ ("up" \in have' <=> "up" \in have)
    <3>1. job'[p].cmd \notin Counters \cup Readers
      BY <2>1, <2>3 DEF Serialised, Counters, Readers
    <3>2. KnowsUp(p) => KnowsUp(p)'
      BY <2>1, <2>3 DEF KnowsUp, Holds
    <3>3. KnowsDown(p) => KnowsDown(p)'
      BY <2>1, <2>3 DEF KnowsDown, Holds
    <3>4. KnowsLock(p) => KnowsLock(p)'
      BY <2>1, <2>3 DEF KnowsLock
    <3> QED
      BY <2>1, <3>1, <3>2, <3>3, <3>4 DEF Knows
  <2> QED
    BY <2>1, <2>2, <2>3
<1> QED
  BY <1>1, <1>2

LEMMA OwesStays ==
    ASSUME TypeInv, PlansNarrow, NEW p \in Processes, NEW q \in Processes, p # q,
           Do(q) \/ Refuse(q), ~tainted', ~Mixes(job[p].cmd, job[q].cmd), Knows(q), Owes(p)
    PROVE  Owes(p)'
<1>1. job[p].cmd \in Owing /\ Settles(job[p].todo) /\ (job[p].cmd = "import" => row.status = "stopped")
  BY DEF Owes
<1>2. job[p].cmd \notin EnvOnly
  BY <1>1 DEF EnvOnly, EnvWriters, EnvRemovals, Owing, Rising, Falling, Removals
<1>3. /\ job'[p] = job[p]
      /\ job[p].cmd = "import" => row' = row
  <2>1. "import" \notin Serialised
    BY DEF Serialised
  <2> QED
    BY <1>2, <2>1, Elsewhere DEF Knows
<1> QED
  BY <1>1, <1>3 DEF Owes

(* The command that moves keeps what it knows.                              *)
LEMMA KnowsMove ==
    ASSUME TypeInv, PlansNarrow, NEW p \in Processes, Do(p) \/ Refuse(p), ~tainted', Knows(p)
    PROVE  Knows(p)'
<1>1. job'[p].cmd = job[p].cmd
  BY SureMove
<1>2. ~Fail(p)
  BY Untainted
<1>3. job[p].cmd \in Rising => KnowsUp(p)'
  BY UpMove DEF Knows
<1>4. job[p].cmd \in Falling => KnowsDown(p)'
  BY DownMove DEF Knows
<1>5. job[p].cmd \in Counters => KnowsCount(p)'
  BY <1>2, CountMove DEF Knows
<1>6. job[p].cmd \in Readers => KnowsRow(p)'
  BY RowMove DEF Knows
<1>7. job[p].cmd \in Serialised => KnowsLock(p)'
  BY LockMove DEF Knows
<1> QED
  BY <1>1, <1>3, <1>4, <1>5, <1>6, <1>7 DEF Knows

(* A status that is right stays so or is being set, and is set right.       *)
LEMMA RefuseSettles ==
    ASSUME TypeInv, PlansNarrow, NEW p \in Processes, Refuse(p), ~Do(p), ~tainted', StatusOK \/ Owes(p)
    PROVE  StatusOK' \/ Owes(p)'
<1>1. PICK s \in StepsOf(job[p].cmd) :
        /\ job[p].cmd \in Commands /\ job[p].todo # <<>> /\ s = Head(job[p].todo)
        /\ job[p].todo \in Seq(StepsOf(job[p].cmd))
        /\ job[p].cmd \in Narrow => s \in NarrowStep(job[p].cmd)
        /\ job'[p].cmd = job[p].cmd
        /\ ~Possible(p, s.do) /\ have' = have /\ row' = row
        /\ s.on \in {"go", "blind"} => job'[p].todo = Tail(job[p].todo)
        /\ s.on = "mark" => job'[p].todo = Single("error")
        /\ ~(s.do = "count" /\ job[p].cmd = "import")
  BY SureMove
<1>2. CASE StatusOK
  BY <1>1, <1>2 DEF StatusOK
<1>3. CASE Owes(p)
  <2>1. job[p].cmd \in Owing /\ Settles(job[p].todo) /\ (job[p].cmd = "import" => row.status = "stopped")
    BY <1>3 DEF Owes
  <2>2. /\ s.do \in NoReturn /\ (Tail(job[p].todo) # <<>> => Settles(Tail(job[p].todo)))
        /\ Tail(job[p].todo) = <<>> => s.do \in Fixers
    BY <1>1, <2>1, SettlesTail
  <2>3. CASE s.do \in Fixers
    <3>1. ~Registered
      BY <1>1, <2>3, AlwaysPossible
    <3> QED
      BY <1>1, <3>1 DEF Registered, StatusOK, None
  <2>4. CASE s.do = "healthy"
    <3>1. job[p].cmd \in Rising
      BY <1>1, <2>4, WhoDoes
    <3>2. s \in RiseStep /\ job[p].cmd # "import"
      BY <1>1, <3>1, NarrowKinds DEF Narrow, Rising
    <3>3. s.on = "mark"
      BY <2>4, <3>1, <3>2, NarrowDoes
    <3>4. Settles(Single("error"))
      BY StepIs DEF Settles, Single, Fixers, NoReturn
    <3> QED
      BY <1>1, <2>1, <3>2, <3>3, <3>4 DEF Owes
  <2>5. CASE s.do \notin Fixers \cup {"healthy"}
    <3>1. s.do \in {"repo-", "dir-", "user-", "count"}
      BY <2>2, <2>5 DEF NoReturn
    <3>2. job[p].cmd \in Removals
      <4>1. SUFFICES ASSUME job[p].cmd \in Rising \cup Falling \cup {"import"} PROVE FALSE
        BY <2>1 DEF Owing
      <4>2. \/ job[p].cmd \in Rising /\ s \in RiseStep
            \/ job[p].cmd \in Falling /\ s \in FallStep
            \/ job[p].cmd = "import" /\ s \in ImportStep
        BY <1>1, <4>1, NarrowKinds DEF Narrow
      <4>3. ~(s.do = "count" /\ job[p].cmd = "import")
        BY <1>1
      <4>4. CASE job[p].cmd \in Rising /\ s \in RiseStep
        BY <3>1, <4>4, NarrowDoes
      <4>5. CASE job[p].cmd \in Falling /\ s \in FallStep
        BY <3>1, <4>5, NarrowDoes
      <4>6. CASE job[p].cmd = "import" /\ s \in ImportStep
        BY <3>1, <4>3, <4>6, NarrowDoes
      <4> QED
        BY <4>2, <4>4, <4>5, <4>6
    <3>3. s \in RemovalStep
      BY <1>1, <3>2, KindsAre
    <3>4. s.on = "go" /\ job[p].cmd # "import"
      BY <3>1, <3>2, <3>3 DEF RemovalStep, Removals
    <3>5. job'[p].todo = Tail(job[p].todo) /\ Settles(Tail(job[p].todo))
      BY <1>1, <2>2, <2>5, <3>4
    <3> QED
      BY <1>1, <2>1, <3>4, <3>5 DEF Owes
  <2> QED
    BY <2>3, <2>4, <2>5
<1> QED
  BY <1>2, <1>3

LEMMA DoSettles ==
    ASSUME TypeInv, PlansNarrow, NEW p \in Processes, Do(p), ~tainted', Knows(p),
           StatusOK \/ Owes(p) \/ Head(job[p].todo).do = "reconcile"
    PROVE  StatusOK' \/ Owes(p)'
<1>1. PICK s \in StepsOf(job[p].cmd) :
        /\ job[p].cmd \in Commands /\ job[p].todo # <<>> /\ s = Head(job[p].todo)
        /\ job[p].todo \in Seq(StepsOf(job[p].cmd))
        /\ job[p].cmd \in Narrow => s \in NarrowStep(job[p].cmd)
        /\ job'[p].cmd = job[p].cmd
        /\ have' = Effect(p, s.do) /\ row' = RowAfter(p, s.do)
        /\ s.do # "orphan" => job'[p].todo = Tail(job[p].todo)
        /\ s.do = "restart" => "up" \in have
  <2>1. PICK s \in StepsOf(job[p].cmd) :
          /\ job[p].cmd \in Commands /\ job[p].todo # <<>> /\ s = Head(job[p].todo)
          /\ job[p].todo \in Seq(StepsOf(job[p].cmd)) /\ job'[p].cmd = job[p].cmd
          /\ job[p].cmd \in Narrow => s \in NarrowStep(job[p].cmd)
    BY SureMove
  <2>2. s.do = "restart" => "up" \in have
    BY <2>1, Untainted
  <2>3. PICK c \in JobType(job[p].cmd), r \in StepsOf(job[p].cmd) :
          /\ c = job[p] /\ r = Head(c.todo)
          /\ have' = Effect(p, r.do) /\ row' = RowAfter(p, r.do)
          /\ job' = [job EXCEPT ![p] = Advance(c, r)]
    BY DoIs
  <2>4. PICK d \in JobType(job[p].cmd) : d = Advance(c, r)
    BY <2>1, <2>3, AdvanceIs
  <2>5. job'[p] = d
    BY <2>1, <2>3, <2>4, JobStays
  <2>6. d.todo = IF r.do = "orphan" /\ "dir" \notin have THEN <<>> ELSE Tail(c.todo)
    BY <2>4, AdvanceKnows
  <2> QED
    BY <2>1, <2>2, <2>3, <2>5, <2>6
<1>2. /\ s.do \in {"up", "restart", "running", "healthy"} => job[p].cmd \in Rising
      /\ s.do = "down" => job[p].cmd \in Falling \cup Removals
      /\ s.do = "stopped" => job[p].cmd \in Falling
      /\ s.do = "row+" => job[p].cmd \in Creations \cup {"import", "apiImport"}
      /\ s.do = "row+scanned" => job[p].cmd = "discover"
      /\ s.do = "settle" => job[p].cmd = "import"
      /\ s.do \in {"reconcile", "orphan"} => job[p].cmd = "sync"
      /\ s.do = "write" => job[p].cmd \in {"domain", "apiDomain"}
  BY <1>1, WhoDoes
<1>3. s.do \notin {"up", "restart", "down"} => ("up" \in have' <=> "up" \in have)
  BY <1>1, UpMoves
<1>4. s.do \in Shifts(job[p].cmd) /\ job[p].cmd \in Owing => Settles(Tail(job[p].todo))
  <2>1. job[p].cmd \in Owing => EndsWell(job[p].todo, Shifts(job[p].cmd))
    BY DEF PlansNarrow
  <2>2. Shifts(job[p].cmd) \cap NoReturn = {}
    BY DEF Shifts, NoReturn, Fixers
  <2> QED
    BY <1>1, <2>1, <2>2, EndsTail
<1>5. Owes(p) =>
        /\ job[p].cmd \in Owing /\ s.do \in NoReturn
        /\ job[p].cmd = "import" => row.status = "stopped"
        /\ Tail(job[p].todo) # <<>> => Settles(Tail(job[p].todo))
        /\ Tail(job[p].todo) = <<>> => s.do \in Fixers
  BY <1>1, SettlesTail DEF Owes
<1>6. job[p].cmd \in Counters /\ s.do \in {"settle", "reconcile", "row+scanned"}
        => (job[p].count <=> "up" \in have)
  <2>1. \A B : s.do \in {"settle", "reconcile", "row+scanned"} =>
          ~Precede(job[p].todo, {"settle", "reconcile", "row+scanned"}, B)
    BY <1>1, PrecedeTail
  <2> QED
    BY <2>1 DEF Knows, KnowsCount
<1>7. job[p].cmd \in Readers /\ s.do \in {"write", "reconcile"} => job[p].seen = row
  <2>1. \A B : s.do \in {"write", "reconcile"} => ~Precede(job[p].todo, {"write", "reconcile"}, B)
    BY <1>1, PrecedeTail
  <2> QED
    BY <2>1 DEF Knows, KnowsRow
<1>8. Says(TRUE) = "running" /\ Says(FALSE) = "stopped"
  BY DEF Says
<1>9. job[p].count \in BOOLEAN
  BY DEF TypeInv, JobTypes, JobType
<1>10. CASE s.do \in {"up", "down"}
  <2>1. job[p].cmd \in Owing /\ job[p].cmd # "import" /\ s.do \in Shifts(job[p].cmd)
    BY <1>2, <1>10 DEF Owing, Shifts, Rising, Falling, Removals
  <2> QED
    BY <1>1, <1>4, <1>10, <2>1 DEF Owes
<1>11. CASE s.do = "restart"
  <2>1. "restart" \notin NoReturn
    BY DEF NoReturn, Fixers
  <2>2. StatusOK
    BY <1>1, <1>5, <1>11, <2>1
  <2>3. row' = row /\ "up" \in have' /\ "up" \in have
    BY <1>1, <1>11, RowDoes, UpMoves
  <2> QED
    BY <2>2, <2>3 DEF StatusOK
<1>12. CASE s.do = "row+"
  <2>1. row'.status = IF job[p].cmd = "import" THEN "stopped" ELSE "created"
    BY <1>1, <1>12, RowDoes
  <2>2. CASE job[p].cmd = "import"
    <3>1. job[p].cmd \in Owing /\ s.do \in Shifts(job[p].cmd)
      BY <1>12, <2>2 DEF Owing, Shifts
    <3> QED
      BY <1>1, <1>4, <1>12, <2>1, <2>2, <3>1 DEF Owes
  <2> QED
    BY <2>1, <2>2 DEF StatusOK
<1>13. CASE s.do = "running"
  <2>1. ~Precede(job[p].todo, {"running"}, {"up", "restart"})
    BY <1>1, <1>13, PrecedeTail
  <2>2. "up" \in have
    BY <1>2, <1>13, <2>1 DEF Knows, KnowsUp
  <2>3. row'.status = "running"
    BY <1>1, <1>13, RowDoes
  <2> QED
    BY <1>3, <1>13, <2>2, <2>3 DEF StatusOK
<1>14. CASE s.do = "stopped"
  <2>1. ~Precede(job[p].todo, {"stopped"}, {"down"})
    BY <1>1, <1>14, PrecedeTail
  <2>2. "up" \notin have
    BY <1>2, <1>14, <2>1 DEF Knows, KnowsDown
  <2>3. row'.status = "stopped"
    BY <1>1, <1>14, RowDoes
  <2> QED
    BY <1>3, <1>14, <2>2, <2>3 DEF StatusOK
<1>15. CASE s.do \in {"error", "row-"}
  <2>1. row'.status \in {"error", None}
    BY <1>1, <1>15, RowDoes
  <2> QED
    BY <2>1 DEF StatusOK, None
<1>16. CASE s.do = "row+scanned"
  <2>1. row'.status = Says(job[p].count) /\ (job[p].count <=> "up" \in have)
    BY <1>1, <1>2, <1>6, <1>16, RowDoes DEF Counters
  <2> QED
    BY <1>3, <1>8, <1>9, <1>16, <2>1 DEF StatusOK
<1>17. CASE s.do = "settle"
  <2>1. /\ row'.status = IF job[p].count THEN "running" ELSE row.status
        /\ job[p].count <=> "up" \in have
    BY <1>1, <1>2, <1>6, <1>17, RowDoes DEF Counters
  <2>2. StatusOK \/ row.status = "stopped"
    BY <1>1, <1>2, <1>5, <1>17
  <2>3. CASE job[p].count
    BY <1>3, <1>17, <2>1, <2>3 DEF StatusOK
  <2>4. CASE ~job[p].count
    BY <1>3, <1>17, <2>1, <2>2, <2>4 DEF StatusOK
  <2> QED
    BY <2>3, <2>4
<1>18. CASE s.do = "reconcile"
  <2>1. /\ row'.status = IF job[p].seen.status \notin {"created", Says(job[p].count)}
                         THEN Says(job[p].count) ELSE row.status
        /\ (job[p].count <=> "up" \in have) /\ job[p].seen = row
    BY <1>1, <1>2, <1>6, <1>7, <1>18, RowDoes DEF Counters, Readers
  <2>2. row'.status \in {"created", Says(job[p].count)}
    BY <2>1
  <2> QED
    BY <1>3, <1>8, <1>9, <1>18, <2>1, <2>2 DEF StatusOK
<1>19. CASE s.do \in {"orphan", "write"}
  <2>1. StatusOK
    <3>1. job[p].cmd \notin Owing
      BY <1>2, <1>19 DEF Owing, Rising, Falling, Removals
    <3> QED
      BY <1>1, <1>5, <1>19, <3>1
  <2>2. row'.status \in {row.status, "error"}
    <3>1. CASE s.do = "orphan"
      BY <1>1, <3>1, RowDoes
    <3>2. CASE s.do = "write"
      BY <1>1, <1>2, <1>7, <3>2, RowDoes DEF Readers
    <3> QED
      BY <1>19, <3>1, <3>2
  <2> QED
    BY <1>3, <1>19, <2>1, <2>2 DEF StatusOK
<1>20. CASE s.do \notin {"up", "down", "restart", "row+", "running", "stopped", "error", "row-",
                         "row+scanned", "settle", "reconcile", "orphan", "write"}
  <2>1. row' = row
    BY <1>1, <1>20, RowDoes
  <2>2. CASE StatusOK
    BY <1>3, <1>20, <2>1, <2>2 DEF StatusOK
  <2>3. CASE Owes(p)
    <3>1. Settles(Tail(job[p].todo))
      BY <1>5, <1>20, <2>3 DEF Fixers
    <3> QED
      BY <1>1, <1>5, <1>20, <2>1, <2>3, <3>1 DEF Owes
  <2> QED
    BY <1>1, <1>20, <2>2, <2>3
<1> QED
  BY <1>10, <1>11, <1>12, <1>13, <1>14, <1>15, <1>16, <1>17, <1>18, <1>19, <1>20

(* A process without a command has nothing to know and nothing to owe. *)
LEMMA NobodyIs ==
    /\ None \notin Rising \cup Falling \cup Counters \cup Readers \cup Serialised \cup Owing \cup Narrow
    /\ Rising \cup Falling \cup Counters \cup Readers \cup Serialised \cup Owing \cup Narrow \subseteq Commands
<1>1. Rising \cup Falling \cup Counters \cup Readers \cup Serialised \cup Owing \cup Narrow \subseteq Commands
  BY CommandsAre DEF Rising, Falling, Counters, Readers, Serialised, Owing, Narrow, Removals, Imports, Plain
<1> QED
  BY <1>1, IdleIs

LEMMA IdleKnows ==
    ASSUME NEW p, ~Active(p)
    PROVE  Knows(p) /\ ~Owes(p)
BY NobodyIs DEF Active, Knows, Owes

LEMMA SyncMove ==
    ASSUME TypeInv, CreationInv, PlansNarrow, SyncKnows, NEW p \in Processes,
           Do(p) \/ Refuse(p) \/ Fail(p)
    PROVE  SyncKnows'
<1>1. /\ job[p].cmd \in Commands /\ job'[p].alone = job[p].alone
      /\ \A q \in Processes \ {p} : job'[q] = job[q]
      /\ \A q \in Processes : job'[q].cmd = job[q].cmd
  BY WholeMove
<1>2. Active(p)
  BY <1>1, IdleIs DEF Active
<1>3. ASSUME NEW q \in Processes, Alone(q)', job'[q].cmd = "sync"
      PROVE  KnowsCount(q)' /\ KnowsRow(q)'
  <2>1. Alone(q) /\ job[q].cmd = "sync"
    BY <1>1, <1>3 DEF Alone, Active
  <2>2. q = p
    BY <1>2, <2>1 DEF CreationInv, LeftAlone
  <2>3. KnowsCount(p) /\ KnowsRow(p) /\ job[p].cmd \in Counters /\ job[p].cmd \in Readers
    BY <2>1, <2>2 DEF SyncKnows, Counters, Readers
  <2>4. KnowsCount(p)'
    BY <2>1, <2>2, <2>3, CountMove
  <2>5. KnowsRow(p)'
    BY <2>3, RowMove
  <2> QED
    BY <2>2, <2>4, <2>5
<1> QED
  BY <1>3 DEF SyncKnows

LEMMA StatusMove ==
    ASSUME TypeInv, CreationInv, StatusInv, NEW p \in Processes, Do(p) \/ Refuse(p) \/ Fail(p)
    PROVE  StatusInv'
<1>1. PlansNarrow /\ SyncKnows
  BY DEF StatusInv
<1>2. PlansNarrow' /\ SyncKnows'
  BY <1>1, NarrowMove, SyncMove
<1>3. /\ job[p].cmd \in Commands /\ job[p].todo # <<>>
      /\ \A q \in Processes \ {p} : job'[q] = job[q]
      /\ \A q \in Processes : job'[q].cmd = job[q].cmd
  BY WholeMove
<1>4. \A q \in Processes : Active(q)' <=> Active(q)
  BY <1>3 DEF Active
<1>5. Active(p)
  BY <1>3, IdleIs DEF Active
<1>6. ASSUME ~tainted'
      PROVE  MixApart' /\ (StatusOK' \/ \E q \in Processes : Owes(q)') /\ \A q \in Processes : Knows(q)'
  <2>1. Do(p) \/ Refuse(p)
    BY <1>6, Untainted
  <2>2. CASE ~tainted
    <3>1. MixApart /\ (StatusOK \/ \E q \in Processes : Owes(q)) /\ \A q \in Processes : Knows(q)
      BY <2>2 DEF StatusInv
    <3>2. MixApart'
      BY <1>3, <1>4, <3>1 DEF MixApart
    <3>3. ASSUME NEW q \in Processes PROVE Knows(q)'
      <4>1. CASE q = p
        BY <1>1, <1>6, <2>1, <3>1, <4>1, KnowsMove
      <4>2. CASE q # p /\ ~Active(q)
        <5>1. ~Active(q)'
          BY <1>4, <4>2
        <5> QED
          BY <5>1, NobodyIs DEF Active, Knows
      <4>3. CASE q # p /\ Active(q)
        <5>1. ~Mixes(job[q].cmd, job[p].cmd)
          BY <1>5, <3>1, <4>3 DEF MixApart
        <5> QED
          BY <1>1, <1>6, <2>1, <3>1, <4>3, <5>1, KnowsStays
      <4> QED
        BY <4>1, <4>2, <4>3
    <3>4. ASSUME NEW q \in Processes, q # p, Owes(q) PROVE Owes(q)'
      <4>1. Active(q)
        BY <3>4, IdleKnows
      <4>2. ~Mixes(job[q].cmd, job[p].cmd)
        BY <1>5, <3>1, <3>4, <4>1 DEF MixApart
      <4> QED
        BY <1>1, <1>6, <2>1, <3>1, <3>4, <4>2, OwesStays
    <3>5. StatusOK \/ Owes(p) => StatusOK' \/ Owes(p)'
      <4>1. SUFFICES ASSUME StatusOK \/ Owes(p) PROVE StatusOK' \/ Owes(p)'
        OBVIOUS
      <4>2. CASE Do(p)
        BY <1>1, <1>6, <3>1, <4>1, <4>2, DoSettles
      <4>3. CASE Refuse(p) /\ ~Do(p)
        BY <1>1, <1>6, <4>1, <4>3, RefuseSettles
      <4> QED
        BY <2>1, <4>2, <4>3
    <3> QED
      BY <3>1, <3>2, <3>3, <3>4, <3>5
  <2>3. CASE tainted
    <3>1. Do(p) /\ Head(job[p].todo).do = "reconcile" /\ job[p].alone
      BY <1>6, <2>1, <2>3, Untainted
    <3>2. job[p].cmd = "sync"
      <4>1. PICK s \in StepsOf(job[p].cmd) :
              s = Head(job[p].todo) /\ (job[p].cmd \in Narrow => s \in NarrowStep(job[p].cmd))
        BY <1>1, <1>6, <2>1, SureMove
      <4> QED
        BY <1>3, <3>1, <4>1, WhoDoes
    <3>3. Alone(p) /\ \A q \in Processes \ {p} : ~Active(q)
      BY <1>5, <3>1 DEF Alone, CreationInv, LeftAlone
    <3>4. Knows(p)
      <4>1. KnowsCount(p) /\ KnowsRow(p)
        BY <1>1, <3>2, <3>3 DEF SyncKnows
      <4>2. "sync" \notin Rising \cup Falling \cup Serialised
        BY DEF Rising, Falling, Serialised
      <4> QED
        BY <3>2, <4>1, <4>2 DEF Knows
    <3>5. StatusOK' \/ Owes(p)'
      BY <1>1, <1>6, <3>1, <3>4, DoSettles
    <3>6. \A q \in Processes \ {p} : ~Active(q)'
      BY <1>4, <3>3
    <3>7. MixApart'
      BY <3>6 DEF MixApart
    <3>8. Knows(p)'
      BY <1>1, <1>6, <2>1, <3>4, KnowsMove
    <3>9. ASSUME NEW q \in Processes \ {p} PROVE Knows(q)'
      BY <3>6, NobodyIs DEF Active, Knows
    <3> QED
      BY <3>5, <3>7, <3>8, <3>9
  <2> QED
    BY <2>2, <2>3
<1> QED
  BY <1>2, <1>6 DEF StatusInv

LEMMA StartOthers ==
    ASSUME TypeInv, NEW p \in Processes, NEW c \in Commands, Start(p, c), NEW q \in Processes \ {p}
    PROVE  /\ job'[q].cmd = job[q].cmd /\ job'[q].todo = job[q].todo
           /\ job'[q].seen = job[q].seen /\ job'[q].count = job[q].count
<1>1. job' = [o \in Processes |->
          IF o = p THEN [Idle EXCEPT !.cmd = c, !.todo = Plans[c], !.alone = Others(p) = {},
                                     !.before = IF c \in Creations THEN have ELSE {}]
          ELSE [job[o] EXCEPT !.alone = @ /\ ~Active(o)]]
  BY Zenon DEF Start
<1>2. job'[q] = [job[q] EXCEPT !.alone = @ /\ ~Active(q)]
  BY <1>1, Zenon
<1>3. PICK e : e = job[q]
  OBVIOUS
<1>4. e \in JobType(job[q].cmd)
  BY <1>3 DEF TypeInv, JobTypes
<1>5. PICK a \in BOOLEAN : a = (e.alone /\ ~Active(q))
  BY <1>4 DEF JobType
<1>6. job'[q] = [e EXCEPT !.alone = a]
  BY <1>2, <1>3, <1>5, Zenon
<1> QED
  BY <1>3, <1>4, <1>6 DEF JobType

LEMMA StatusStart ==
    ASSUME TypeInv, StatusInv, NEW p \in Processes, NEW c \in Commands, Start(p, c)
    PROVE  StatusInv'
<1>1. job[p].cmd = None /\ job'[p].cmd = c /\ job'[p].todo = Plans[c]
  BY StartIs
<1>1a. ASSUME NEW q \in Processes \ {p}
       PROVE  /\ job'[q].cmd = job[q].cmd /\ job'[q].todo = job[q].todo
              /\ job'[q].seen = job[q].seen /\ job'[q].count = job[q].count
  BY StartOthers
<1>2. UNCHANGED <<have, row, mutex>>
  BY Zenon DEF Start
<1>3. /\ tainted' = (tainted \/ \E q \in Others(p) : Mixes(c, job[q].cmd))
  BY Zenon DEF Start
<1>4. PlansNarrow'
  <2>1. ASSUME NEW q \in Processes
        PROVE  /\ job'[q].cmd \in Narrow => job'[q].todo \in Seq(NarrowStep(job'[q].cmd))
               /\ job'[q].cmd \in Owing => EndsWell(job'[q].todo, Shifts(job'[q].cmd))
               /\ job'[q].cmd \in Readers => LastOnly(job'[q].todo, {"reconcile", "write"})
    <3>1. CASE q = p
      BY <1>1, <1>1a, <3>1, StatusPlans
    <3>2. CASE q # p
      BY <1>1, <1>1a, <3>2 DEF StatusInv, PlansNarrow
    <3> QED
      BY <3>1, <3>2
  <2> QED
    BY <2>1 DEF PlansNarrow
<1>5. Knows(p)'
  <2>1. c \in Rising => KnowsUp(p)'
    BY <1>1, <1>1a, StatusPlans DEF KnowsUp
  <2>2. c \in Falling => KnowsDown(p)'
    BY <1>1, <1>1a, StatusPlans DEF KnowsDown
  <2>3. c \in Counters => KnowsCount(p)'
    BY <1>1, <1>1a, StatusPlans DEF KnowsCount
  <2>4. c \in Readers => KnowsRow(p)'
    BY <1>1, <1>1a, StatusPlans DEF KnowsRow
  <2>5. c \in Serialised => KnowsLock(p)'
    BY <1>1, <1>1a, StatusPlans DEF KnowsLock
  <2> QED
    BY <1>1, <1>1a, <2>1, <2>2, <2>3, <2>4, <2>5 DEF Knows
<1>6. SyncKnows'
  <2>1. ASSUME NEW q \in Processes, Alone(q)', job'[q].cmd = "sync"
        PROVE  KnowsCount(q)' /\ KnowsRow(q)'
    <3>1. q = p
      <4>1. SUFFICES ASSUME q # p PROVE FALSE
        OBVIOUS
      <4>2. job'[q].alone = (job[q].alone /\ ~Active(q))
        BY <4>1, StartIs, Zenon
      <4>3. job'[q].alone /\ job'[q].cmd # None
        BY <2>1 DEF Alone, Active
      <4>4. Active(q)
        BY <1>1, <1>1a, <4>1, <4>3 DEF Active
      <4> QED
        BY <4>2, <4>3, <4>4, Zenon
    <3>2. c \in Counters /\ c \in Readers
      BY <1>1, <1>1a, <2>1, <3>1 DEF Counters, Readers
    <3> QED
      BY <1>1, <1>1a, <1>5, <3>1, <3>2 DEF Knows
  <2> QED
    BY <2>1 DEF SyncKnows
<1>7. ASSUME ~tainted'
      PROVE  MixApart' /\ (StatusOK' \/ \E q \in Processes : Owes(q)') /\ \A q \in Processes : Knows(q)'
  <2>1. ~tainted /\ \A q \in Others(p) : ~Mixes(c, job[q].cmd)
    BY <1>3, <1>7, Zenon
  <2>2. MixApart /\ (StatusOK \/ \E q \in Processes : Owes(q)) /\ \A q \in Processes : Knows(q)
    BY <2>1 DEF StatusInv
  <2>3. ASSUME NEW q \in Processes, NEW r \in Processes, q # r, Active(q)', Active(r)'
        PROVE  ~Mixes(job'[q].cmd, job'[r].cmd)
    <3>1. \A a, b : Mixes(a, b) => Mixes(b, a)
      <4>1. \A a, b : {a, b} = {b, a}
        OBVIOUS
      <4> QED
        BY <4>1 DEF Mixes
    <3>2. ASSUME NEW o \in Processes, o # p, Active(o)' PROVE ~Mixes(c, job'[o].cmd)
      BY <1>1, <1>1a, <2>1, <3>2 DEF Others, Active
    <3>3. CASE q = p
      BY <1>1, <1>1a, <2>3, <3>2, <3>3
    <3>4. CASE r = p
      BY <1>1, <1>1a, <2>3, <3>1, <3>2, <3>4
    <3>5. CASE q # p /\ r # p
      BY <1>1, <1>1a, <2>2, <2>3, <3>5 DEF MixApart, Active
    <3> QED
      BY <3>3, <3>4, <3>5
  <2>4. MixApart'
    BY <2>3 DEF MixApart
  <2>5. ASSUME NEW q \in Processes PROVE Knows(q)'
    <3>1. CASE q # p
      BY <1>1, <1>1a, <1>2, <2>2, <3>1 DEF Knows, KnowsUp, KnowsDown, KnowsCount, KnowsRow, KnowsLock, Holds
    <3> QED
      BY <1>5, <3>1
  <2>6. ASSUME NEW q \in Processes, Owes(q) PROVE Owes(q)'
    <3>1. q # p
      BY <1>1, <1>1a, <2>6, IdleKnows DEF Active
    <3> QED
      BY <1>1, <1>1a, <1>2, <2>6, <3>1 DEF Owes
  <2>7. StatusOK => StatusOK'
    BY <1>2 DEF StatusOK
  <2> QED
    BY <2>2, <2>4, <2>5, <2>6, <2>7
<1> QED
  BY <1>4, <1>6, <1>7 DEF StatusInv

LEMMA StatusEnd ==
    ASSUME TypeInv, StatusInv, NEW p \in Processes, End(p)
    PROVE  StatusInv'
<1>1. /\ job[p].todo = <<>> /\ job'[p] = Idle /\ \A q \in Processes \ {p} : job'[q] = job[q]
      /\ UNCHANGED <<have, row, tainted>>
  BY EndIs
<1>2. \A q \in Processes \ {p} : mutex = q => mutex' = q
  BY DEF End
<1>3. ~Active(p)' /\ job'[p].cmd = None
  BY <1>1, IdleIs DEF Active
<1>4. PlansNarrow'
  <2>1. job'[p].cmd \notin Narrow \cup Owing \cup Readers
    BY <1>3, NobodyIs
  <2> QED
    BY <1>1, <2>1 DEF StatusInv, PlansNarrow
<1>5. SyncKnows'
  <2>1. ASSUME NEW q \in Processes, Alone(q)', job'[q].cmd = "sync"
        PROVE  KnowsCount(q)' /\ KnowsRow(q)'
    <3>1. q # p
      BY <1>3, <2>1 DEF Alone
    <3>2. KnowsCount(q) /\ KnowsRow(q)
      BY <1>1, <2>1, <3>1 DEF StatusInv, SyncKnows, Alone, Active
    <3> QED
      BY <1>1, <3>1, <3>2 DEF KnowsCount, KnowsRow
  <2> QED
    BY <2>1 DEF SyncKnows
<1>6. ASSUME ~tainted'
      PROVE  MixApart' /\ (StatusOK' \/ \E q \in Processes : Owes(q)') /\ \A q \in Processes : Knows(q)'
  <2>1. MixApart /\ (StatusOK \/ \E q \in Processes : Owes(q)) /\ \A q \in Processes : Knows(q)
    BY <1>1, <1>6 DEF StatusInv
  <2>2. MixApart'
    BY <1>1, <1>3, <2>1 DEF MixApart, Active
  <2>3. ASSUME NEW q \in Processes PROVE Knows(q)'
    <3>1. CASE q = p
      BY <1>3, <3>1, NobodyIs DEF Knows
    <3>2. CASE q # p
      BY <1>1, <1>2, <2>1, <3>2 DEF Knows, KnowsUp, KnowsDown, KnowsCount, KnowsRow, KnowsLock, Holds
    <3> QED
      BY <3>1, <3>2
  <2>4. ASSUME NEW q \in Processes, Owes(q) PROVE Owes(q)'
    <3>1. q # p
      BY <1>1, <2>4 DEF Owes, Settles
    <3> QED
      BY <1>1, <2>4, <3>1 DEF Owes
  <2>5. StatusOK => StatusOK'
    BY <1>1 DEF StatusOK
  <2> QED
    BY <2>1, <2>2, <2>3, <2>4, <2>5
<1> QED
  BY <1>4, <1>5, <1>6 DEF StatusInv

LEMMA StatusDie ==
    ASSUME TypeInv, StatusInv, NEW gone, Die(gone)
    PROVE  StatusInv'
<1>1. /\ \A q \in Processes : job'[q] = IF q \in gone THEN Idle ELSE job[q]
      /\ UNCHANGED <<have, row>> /\ tainted'
  BY DieIs
<1>2. ASSUME NEW q \in Processes
      PROVE  job'[q] = job[q] \/ (job'[q].cmd = None /\ ~Active(q)')
  BY <1>1, IdleIs DEF Active
<1>3. PlansNarrow'
  BY <1>2, NobodyIs DEF StatusInv, PlansNarrow, Readers
<1>4. ASSUME NEW q \in Processes, Alone(q)', job'[q].cmd = "sync"
      PROVE  KnowsCount(q)' /\ KnowsRow(q)'
  <2>1. job'[q] = job[q]
    BY <1>2, <1>4 DEF Alone
  <2>2. KnowsCount(q) /\ KnowsRow(q)
    BY <1>4, <2>1 DEF StatusInv, SyncKnows, Alone, Active
  <2> QED
    BY <1>1, <2>1, <2>2 DEF KnowsCount, KnowsRow
<1> QED
  BY <1>1, <1>3, <1>4 DEF StatusInv, SyncKnows

LEMMA StatusStep ==
    ASSUME TypeInv, CreationInv, StatusInv, [Next]_vars
    PROVE  StatusInv'
<1>1. CASE UNCHANGED vars
  <2>1. PlansNarrow' <=> PlansNarrow
    BY <1>1 DEF vars, PlansNarrow
  <2>2. \A q : /\ KnowsUp(q)' <=> KnowsUp(q)
               /\ KnowsDown(q)' <=> KnowsDown(q)
               /\ KnowsCount(q)' <=> KnowsCount(q)
               /\ KnowsRow(q)' <=> KnowsRow(q)
               /\ KnowsLock(q)' <=> KnowsLock(q)
    BY <1>1 DEF vars, KnowsUp, KnowsDown, KnowsCount, KnowsRow, KnowsLock, Holds
  <2>3. SyncKnows' <=> SyncKnows
    BY <1>1, <2>2 DEF vars, SyncKnows, Alone, Active
  <2>4. \A q : (Knows(q)' <=> Knows(q)) /\ (Owes(q)' <=> Owes(q))
    BY <1>1, <2>2 DEF vars, Knows, Owes
  <2>5. (MixApart' <=> MixApart) /\ (StatusOK' <=> StatusOK) /\ (tainted' <=> tainted)
    BY <1>1 DEF vars, MixApart, StatusOK, Active
  <2> QED
    BY <2>1, <2>3, <2>4, <2>5 DEF StatusInv
<1>2. ASSUME NEW p \in Processes, NEW c \in Commands, Start(p, c) PROVE StatusInv'
  BY <1>2, StatusStart
<1>3. ASSUME NEW p \in Processes, Do(p) \/ Refuse(p) \/ Fail(p) PROVE StatusInv'
  BY <1>3, StatusMove
<1>4. ASSUME NEW p \in Processes, End(p) PROVE StatusInv'
  BY <1>4, StatusEnd
<1>5. ASSUME NEW gone, Die(gone) PROVE StatusInv'
  BY <1>5, StatusDie
<1>6. CASE Crash
  <2>1. /\ \A q \in Processes : /\ job'[q].cmd = job[q].cmd /\ job'[q].todo = job[q].todo
                                /\ Active(q) => ~job'[q].alone
        /\ tainted'
    BY <1>6, CrashIs
  <2>2. PlansNarrow'
    BY <2>1 DEF StatusInv, PlansNarrow
  <2>3. \A q \in Processes : ~Alone(q)'
    BY <2>1 DEF Alone, Active
  <2> QED
    BY <2>1, <2>2, <2>3 DEF StatusInv, SyncKnows
<1>7. ASSUME NEW p \in Processes, Misread(p) PROVE StatusInv'
  <2>1. /\ have' = have /\ row' = row /\ tainted' /\ job[p].cmd \in EnvWriters \cup {"apiCreate"}
        /\ \A q \in Processes : job'[q].cmd = job[q].cmd
        /\ \A q \in Processes \ {p} : job'[q] = job[q]
    BY <1>7, MisreadIs
  <2>2. job[p].cmd \notin Narrow \cup Owing \cup Readers
    BY <2>1, CommandsApart, NarrowKinds DEF Owing, Readers, Narrow, Rising, Falling, Removals, EnvWriters
  <2>3. PlansNarrow'
    BY <2>1, <2>2 DEF StatusInv, PlansNarrow
  <2>4. SyncKnows'
    <3>1. ASSUME NEW q \in Processes, Alone(q)', job'[q].cmd = "sync"
          PROVE  KnowsCount(q)' /\ KnowsRow(q)'
      <4>1. q # p /\ job'[q] = job[q]
        BY <2>1, <2>2, <3>1 DEF Readers
      <4>2. KnowsCount(q) /\ KnowsRow(q)
        BY <3>1, <4>1 DEF StatusInv, SyncKnows, Alone, Active
      <4> QED
        BY <2>1, <4>1, <4>2 DEF KnowsCount, KnowsRow
    <3> QED
      BY <3>1 DEF SyncKnows
  <2> QED
    BY <2>1, <2>3, <2>4 DEF StatusInv
<1> QED
  BY <1>1, <1>2, <1>3, <1>4, <1>5, <1>6, <1>7 DEF Next, Kill, ServerDies

LEMMA StatusInit == Init => StatusInv
<1> SUFFICES ASSUME Init PROVE StatusInv
  OBVIOUS
<1>1. \A p \in Processes : job[p].cmd = None /\ ~Active(p)
  BY IdleIs DEF Init, Active
<1>2. PlansNarrow /\ SyncKnows /\ MixApart
  BY <1>1, NobodyIs DEF PlansNarrow, SyncKnows, MixApart, Alone
<1>3. \A p \in Processes : Knows(p)
  BY <1>1, IdleKnows
<1>4. PICK h \in Hosts : have = h.have /\ row = h.row
  BY DEF Init
<1>5. h.row.status = "running" => "up" \in h.have
  BY DEF Hosts, NoRow, None
<1>6. h.row.status # "stopped"
  BY DEF Hosts, NoRow, None
<1> QED
  BY <1>2, <1>3, <1>4, <1>5, <1>6 DEF StatusInv, StatusOK

(* When nothing is at work, a project that is shown running or stopped is:  *)
(* the status comes from the containers or from what was just done to them, *)
(* under the lock or alone; and after `sync --fix` whatever was before.     *)
THEOREM StatusStaysTrue == Spec => []StatusIsTrue
<1>1. TypeInv /\ CreationInv /\ StatusInv /\ [Next]_vars => StatusInv'
  BY StatusStep
<1>2. TypeInv /\ StatusInv => StatusIsTrue
  <2> SUFFICES ASSUME TypeInv, StatusInv PROVE StatusIsTrue
    OBVIOUS
  <2>1. TypeOK
    BY DEF TypeInv, HostTypes, JobTypes, Row, TypeOK
  <2>2. ASSUME Quiet, ~tainted PROVE StatusOK
    <3>1. \A p \in Processes : ~Owes(p)
      BY <2>2, IdleKnows DEF Quiet
    <3> QED
      BY <2>2, <3>1 DEF StatusInv
  <2>3. ASSUME Quiet, ~tainted, row.status \in {"running", "stopped"}
        PROVE  (row.status = "running") = ("up" \in have)
    <3>1. row.status = "running" <=> "up" \in have
      BY <2>2, <2>3 DEF StatusOK
    <3> QED
      BY <3>1
  <2> QED
    BY <2>1, <2>3 DEF StatusIsTrue
<1> QED
  BY <1>1, <1>2, StatusInit, TypeAlways, CreationAlways, PTL DEF Spec
=============================================================================
