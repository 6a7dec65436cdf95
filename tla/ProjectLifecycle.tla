-------------------------- MODULE ProjectLifecycle --------------------------
(* The commands and the handlers of the dashboard that create, start, stop, *)
(* import, reconcile and destroy a project, and those that keep its         *)
(* environments, on one host and for one project name.                      *)
(*                                                                          *)
(* A command is a plan: the steps it takes, in order, and what the failure  *)
(* of each means.  The commands share the host (accounts, files,            *)
(* repositories, containers) and the row of the project.  Every step may    *)
(* fail, every process may be killed between two steps, and two processes   *)
(* interleave step by step.  Only some handlers of the dashboard take the   *)
(* lock of the project, no command of the command line does.                *)
EXTENDS Naturals, Sequences, TLC

CONSTANTS
    Processes,    \* commands and handlers that may be at work at once
    MaxCommands,  \* bound: commands started in a behaviour
    MaxFaults     \* bound: failing steps, kills and crashes in a behaviour

None == "none"
ASSUME BoundsAssumption == MaxCommands \in Nat /\ MaxFaults \in Nat
ASSUME ProcessAssumption == None \notin Processes

VARIABLES
    have,      \* what is on the host
    row,       \* the row of the project
    mutex,     \* the process that holds projectMutex(name), or None
    job,       \* per process, the command at work
    started,   \* commands started so far
    faults,    \* faults so far
    tainted,   \* the status may be wrong: overlapping changes, a fault, an import unable to count
    broken,    \* the files may be gone: see Start, Do and Misread
    crossed    \* an environment was removed while one was being written

vars == <<have, row, mutex, job, started, faults, tainted, broken, crossed>>

(* The host: the Linux account; the directory of the project with its       *)
(* compose file and .env; the GitHub repository; the edge network, joined   *)
(* by the proxy; containers, made and up; and files of two environments,    *)
(* which live inside the directory of the project.                          *)
Staging == {"sdir", "scompose", "sdotenv", "smeta"}
Production == {"pdir", "pcompose", "pmeta"}
Files == {"dir", "compose", "dotenv"} \cup Staging \cup Production
Things == Files \cup {"user", "repo", "net", "made", "up"}

(* db.Project, as far as the commands tell rows apart.                      *)
Statuses == {"created", "running", "stopped", "error"}
NoRow == [status |-> None, repo |-> FALSE, domain |-> 0]
Registered == row.status # None

(* A step: what it does, what its failure means, and what undoes it.        *)
(*   stop: the command ends with an error, after its cleanups;              *)
(*   exit: the process ends at once, os.Exit runs none of its cleanups;     *)
(*   go:   a warning, and the command continues;                            *)
(*   mark: the status becomes error and the command ends;                   *)
(*   clean: the directory is removed and the command ends;                  *)
(*   blind: the command continues as if nothing had been found.             *)
S(do, on) == [do |-> do, on |-> on, undo |-> None]
U(do, undo) == [do |-> do, on |-> "stop", undo |-> undo]

-----------------------------------------------------------------------------
(* The plans.  autoSnapshot, which start, stop, restart and destroy take    *)
(* first, changes nothing here: see BackupStore.  Only create opens the     *)
(* database when it has already changed the host; elsewhere a database that *)
(* does not open is a find, a row+ or an absent that stops the command.     *)

createCmdKeepsRepo(github) ==
    <<U("user+", "user-"), U("scaffold", "dir-"), S("dotenv", "stop"), S("chown", "stop")>>
    \o (IF github THEN <<S("repo+", "stop"), S("push", "go")>> ELSE <<>>)
    \o <<S("openDB", "exit"), S("row+", "stop")>>
createCmd(github) ==
    <<U("user+", "user-"), U("scaffold", "dir-"), S("dotenv", "stop"), S("chown", "stop")>>
    \o (IF github THEN <<U("repo+", "repo-"), S("push", "go")>> ELSE <<>>)
    \o <<S("openDB", "exit"), S("row+", "stop")>>

destroyCmd(keep) ==
    <<S("find", "stop"), S("down", "go"), S("repo-", "go")>>
    \o (IF keep THEN <<>> ELSE <<S("dir-", "go"), S("user-", "go")>>)
    \o <<S("row-", "go")>>

(* ComposeUp: the edge network first.                                       *)
ComposeUp(on) == <<S("edge", on), S("up", on)>>

startCmd == <<S("find", "stop")>> \o ComposeUp("mark")
            \o <<S("healthy", "mark"), S("running", "go")>>
stopCmd == <<S("find", "stop"), S("down", "mark"), S("stopped", "go")>>
restartCmd == <<S("find", "stop"), S("restart", "mark"), S("healthy", "mark"), S("running", "go")>>

(* import: the row first, then the status that the containers show.         *)
importCmd == <<S("stat", "stop"), S("row+", "stop"), S("count", "stop"), S("settle", "go")>>

(* discover import: what a scan found, registered with the state it found.  *)
(* DiscoverAll asks which paths are managed, then looks for compose files,  *)
(* then for containers; a scan that fails has found nothing.                *)
DiscoverAll == <<S("unmanaged", "stop"), S("scan", "blind")>>
discoverImportCmd == DiscoverAll \o <<S("row+scanned", "go")>>

(* sync --fix: the status follows the containers; a failed count is not     *)
(* evidence that the project is stopped.                                    *)
syncCmd == <<S("find", "stop"), S("orphan", "go"), S("count", "stop"), S("reconcile", "go")>>

(* domain set: files, then the whole row as it was read.                    *)
domainSetCmd == <<S("find", "stop"), S("rewrite", "stop"), S("write", "stop")>>

handleCreateProjectUnchecked == <<S("scaffold", "stop"), S("row+", "clean")>>
handleCreateProject == <<S("absent", "stop"), S("scaffold", "stop"), S("row+", "clean")>>
handleDeleteProject(keep) ==
    <<S("find", "stop"), S("lock", "stop"), S("down", "go")>>
    \o (IF keep THEN <<>> ELSE <<S("dir-", "go")>>) \o <<S("row-", "stop")>>
handleStartProject == <<S("find", "stop"), S("lock", "stop")>> \o ComposeUp("stop")
                      \o <<S("running", "go")>>
handleStopProjectUnlocked == <<S("find", "stop"), S("down", "stop"), S("stopped", "go")>>
handleStopProject == <<S("find", "stop"), S("lock", "stop"), S("down", "stop"), S("stopped", "go")>>
handleRestartProject == <<S("find", "stop"), S("lock", "stop"), S("restart", "stop")>>
handleUpdateProjectDomain == <<S("find", "stop"), S("write", "stop")>>
handleDiscoverImport == <<S("row+", "go")>>

(* environments.Manager: the metadata comes last, so that a directory       *)
(* without it is not an environment.                                        *)
CreateMetadataFirst == <<S("source", "stop"), S("fresh", "stop"), S("sdir", "stop"),
    S("smeta", "stop"), S("scompose", "stop"), S("sdotenv", "stop")>>
Create == <<S("source", "stop"), S("fresh", "stop"), S("sdir", "stop"), S("scompose", "stop"),
            S("sdotenv", "stop"), S("smeta", "stop")>>
Promote == <<S("from", "stop"), S("pdir", "stop"), S("fromMeta", "stop"), S("pcompose", "stop"),
             S("pmeta", "stop")>>
Delete(e) == <<S("envdown", "go"), S(IF e = "staging" THEN "s-" ELSE "p-", "stop")>>

envCreateCmd == Create

(* The handlers look the project up first; the commands do not.             *)
handleCreateEnvironment == <<S("find", "stop")>> \o Create
handlePromoteEnvironment == <<S("find", "stop")>> \o Promote
handleDeleteEnvironment(e) == <<S("find", "stop")>> \o Delete(e)

Plans == [
    create |-> createCmd(TRUE), createLocal |-> createCmd(FALSE),
    destroy |-> destroyCmd(FALSE), destroyKeep |-> destroyCmd(TRUE),
    start |-> startCmd, stop |-> stopCmd, restart |-> restartCmd,
    import |-> importCmd, discover |-> discoverImportCmd, sync |-> syncCmd,
    domain |-> domainSetCmd,
    apiCreate |-> handleCreateProject,
    apiDelete |-> handleDeleteProject(FALSE), apiDeleteKeep |-> handleDeleteProject(TRUE),
    apiStart |-> handleStartProject, apiStop |-> handleStopProject,
    apiRestart |-> handleRestartProject, apiDomain |-> handleUpdateProjectDomain,
    apiImport |-> handleDiscoverImport,
    envCreate |-> envCreateCmd, envPromote |-> Promote, envDelete |-> Delete("staging"),
    apiEnvCreate |-> handleCreateEnvironment, apiEnvPromote |-> handlePromoteEnvironment,
    apiEnvDelete |-> handleDeleteEnvironment("production")]

Commands == DOMAIN Plans
Api == {"apiCreate", "apiDelete", "apiDeleteKeep", "apiStart", "apiStop", "apiRestart", "apiDomain",
        "apiImport", "apiEnvCreate", "apiEnvPromote", "apiEnvDelete"}
Locals == {"create", "createLocal"}
Creations == {"create", "createLocal", "apiCreate"}
Imports == {"import", "discover", "apiImport"}
Removals == {"destroy", "destroyKeep", "apiDelete", "apiDeleteKeep"}
EnvWriters == {"envCreate", "envPromote", "apiEnvCreate", "apiEnvPromote"}
EnvRemovals == {"envDelete", "apiEnvDelete"}
(* The handlers that hold the lock while they change something.             *)
Serialised == {"apiDelete", "apiDeleteKeep", "apiStart", "apiStop", "apiRestart"}

-----------------------------------------------------------------------------
(* What the steps do to the host.  useradd makes the home directory, which  *)
(* is the project's, and userdel removes it; MkdirAll makes the parents.    *)
Needs(do) ==
    CASE do = "chown" -> {"user", "dir"}
      [] do \in {"dotenv", "stat"} -> {"dir"}
      [] do = "push" -> {"repo"}
      [] do \in {"up", "down", "count", "rewrite", "source"} -> {"compose"}
      [] do = "restart" -> {"compose", "made"}
      [] do = "healthy" -> {"up"}
      [] do = "scompose" -> {"sdir", "compose"}
      [] do \in {"sdotenv", "smeta", "from"} -> {"sdir"}
      [] do = "fromMeta" -> {"smeta"}
      [] do = "pcompose" -> {"pdir", "scompose"}
      [] do = "pmeta" -> {"pdir"}
      [] OTHER -> {}
Bars(do) ==
    CASE do = "user+" -> {"user"}
      [] do = "repo+" -> {"repo"}
      [] do = "fresh" -> {"smeta"}
      [] OTHER -> {}
Adds(do) ==
    CASE do = "user+" -> {"user", "dir"}
      [] do = "scaffold" -> {"dir", "compose"}
      [] do = "repo+" -> {"repo"}
      [] do = "edge" -> {"net"}
      [] do = "up" -> {"made", "up"}
      [] do = "restart" -> {"up"}
      [] do \in {"sdir", "pdir"} -> {"dir", do}
      [] do \in {"dotenv", "scompose", "smeta", "pcompose", "pmeta"} -> {do}
      [] OTHER -> {}
Drops(do) ==
    CASE do = "dir-" -> Files
      [] do = "repo-" -> {"repo"}
      [] do = "s-" -> Staging
      [] do = "p-" -> Production
      [] do = "down" -> {"made", "up"}
      [] OTHER -> {}

(* The .env of an environment is made only when the project has one, and    *)
(* exclusively; the account is removed with its home, when there is one;    *)
(* the repository when the row names one.                                   *)
Effect(p, do) ==
    CASE do = "sdotenv" -> IF "dotenv" \in have THEN have \cup {"sdotenv"} ELSE have
      [] do = "user-" -> IF "user" \in have THEN have \ ({"user"} \cup Files) ELSE have
      [] do = "repo-" /\ job[p].cmd \in Removals /\ ~job[p].seen.repo -> have
      [] OTHER -> (have \ Drops(do)) \cup Adds(do)

(* The steps that ask the database.                                         *)
RowSteps == {"find", "running", "stopped", "error", "settle", "reconcile", "write", "row-"}
NewRow == {"absent", "unmanaged", "row+", "row+scanned"}
Found == "compose" \in have \/ "made" \in have
Possible(p, do) ==
    /\ Needs(do) \subseteq have /\ Bars(do) \cap have = {}
    /\ do = "sdotenv" => ~({"dotenv", "sdotenv"} \subseteq have)
    /\ do \in RowSteps => Registered
    /\ do \in NewRow => ~Registered
    /\ do = "unmanaged" => Found
    /\ do = "repo-" /\ (job[p].cmd \in Removals => job[p].seen.repo) => "repo" \in have

(* CreateProject, UpdateProjectStatus, UpdateProject, DeleteProject.        *)
Says(up) == IF up THEN "running" ELSE "stopped"
RowAfter(p, do) ==
    CASE do \in {"running", "stopped", "error"} -> [row EXCEPT !.status = do]
      [] do = "row+" -> [status |-> IF job[p].cmd = "import" THEN "stopped" ELSE "created",
                         repo |-> job[p].cmd = "create", domain |-> 0]
      [] do = "row+scanned" -> [status |-> Says(job[p].count), repo |-> FALSE, domain |-> 0]
      [] do = "settle" -> IF job[p].count THEN [row EXCEPT !.status = "running"] ELSE row
      [] do = "reconcile" -> IF job[p].seen.status \notin {"created", Says(job[p].count)}
                             THEN [row EXCEPT !.status = Says(job[p].count)] ELSE row
      [] do = "orphan" /\ Registered /\ "dir" \notin have -> [row EXCEPT !.status = "error"]
      [] do = "write" -> [job[p].seen EXCEPT !.domain = 1 - @]
      [] do = "row-" -> NoRow
      [] OTHER -> row

-----------------------------------------------------------------------------
Idle == [cmd |-> None, todo |-> <<>>, undo |-> <<>>, seen |-> NoRow, count |-> FALSE, alone |-> TRUE,
         ok |-> TRUE, clean |-> TRUE, before |-> {}, half |-> {}]
Active(p) == job[p].cmd # None
Quiet == \A p \in Processes : ~Active(p)
Others(p) == {q \in Processes \ {p} : Active(q)}

(* An empty host, a project of `create` that runs, one of the dashboard     *)
(* that never ran.                                                          *)
Hosts == {[have |-> {}, row |-> NoRow],
          [have |-> {"user", "dir", "compose", "dotenv", "repo", "net", "made", "up"},
           row |-> [status |-> "running", repo |-> TRUE, domain |-> 0]],
          [have |-> {"dir", "compose"}, row |-> [status |-> "created", repo |-> FALSE, domain |-> 0]]}
Init ==
    /\ \E h \in Hosts : have = h.have /\ row = h.row
    /\ mutex = None
    /\ job = [p \in Processes |-> Idle]
    /\ started = 0 /\ faults = 0
    /\ tainted = FALSE /\ broken = FALSE /\ crossed = FALSE

(* Two commands that change the project at once, unless the lock keeps them *)
(* apart.                                                                   *)
EnvOnly == EnvWriters \cup EnvRemovals
Mixes(c, d) == {c, d} \cap EnvOnly = {} /\ ~({c, d} \subseteq Serialised)
Crosses(c, d) == {c, d} \cap EnvWriters # {} /\ {c, d} \cap (EnvRemovals \cup Removals \cup Creations) # {}

(* A creation is past the check for its name.  The directory may be taken   *)
(* by one process while another makes the row that stands for it.           *)
Writing(p) == job[p].cmd \in Creations /\ job[p].todo # <<>> /\ Head(job[p].todo).do \notin {"absent", "user+"}
Taker(p) == job[p].cmd \in Removals \/ Writing(p)
Maker(p) == job[p].cmd \in Imports \/ Writing(p)
Overlap == \E p, q \in Processes : p # q /\ Taker(p) /\ Maker(q)

(* The import of a path that nobody checks, or of containers without files, *)
(* registers what has no directory.                                         *)
Start(p, c) ==
    /\ ~Active(p) /\ started < MaxCommands /\ started' = started + 1
    /\ job' = [q \in Processes |->
          IF q = p THEN [Idle EXCEPT !.cmd = c, !.todo = Plans[c], !.alone = Others(p) = {},
                                     !.before = IF c \in Creations THEN have ELSE {}]
          ELSE [job[q] EXCEPT !.alone = @ /\ ~Active(q)]]
    /\ tainted' = (tainted \/ \E q \in Others(p) : Mixes(c, job[q].cmd))
    /\ broken' = (broken \/ Overlap' \/ (c \in {"apiImport", "discover"} /\ "dir" \notin have))
    /\ crossed' = (crossed \/ \E q \in Others(p) : Crosses(c, job[q].cmd))
    /\ UNCHANGED <<have, row, mutex, faults>>

(* A step that succeeds.  `create` looks for the account only, so that it   *)
(* may be at work over a project that is registered without one.            *)
Do(p) ==
    /\ Active(p) /\ job[p].todo # <<>>
    /\ LET s == Head(job[p].todo) IN
          /\ s.do = "lock" => mutex = None
          /\ mutex' = IF s.do = "lock" THEN p ELSE mutex
          /\ Possible(p, s.do)
          /\ have' = Effect(p, s.do)
          /\ row' = RowAfter(p, s.do)
          /\ job' = [job EXCEPT ![p].todo = IF s.do = "orphan" /\ "dir" \notin have THEN <<>> ELSE Tail(@),
                                ![p].undo = IF s.undo = None THEN @ ELSE <<S(s.undo, "go")>> \o @,
                                ![p].seen = IF s.do = "find" THEN row ELSE @,
                                ![p].count = IF s.do \in {"count", "scan"} THEN "up" \in have ELSE @]
          /\ tainted' = IF s.do = "reconcile" /\ job[p].alone THEN FALSE
                        ELSE tainted \/ (s.do = "restart" /\ "up" \notin have)
          /\ broken' = (broken \/ Overlap' \/ (s.do = "user+" /\ Registered))
    /\ UNCHANGED <<started, faults, crossed>>

(* What is left to do after a failure.                                      *)
After(p, s) ==
    CASE s.on \in {"go", "blind"} -> Tail(job[p].todo)
      [] s.on = "mark" -> <<S("error", "go")>>
      [] s.on = "clean" -> <<S("dir-", "go")>>
      [] s.on = "exit" -> <<>>
      [] OTHER -> job[p].undo
Failed(p, s) ==
    job' = [job EXCEPT ![p].todo = After(p, s), ![p].undo = IF s.on = "stop" THEN <<>> ELSE @,
                       ![p].ok = s.on \in {"go", "blind"} /\ @,
                       ![p].clean = @ /\ (s.do \in {"user-", "dir-", "repo-"} => s.on # "go"),
                       ![p].half = IF s.on = "stop" THEN have' \ have ELSE @]

(* A step whose condition does not hold changes nothing.  An import that    *)
(* cannot count the containers keeps the status it began with.              *)
Refuse(p) ==
    /\ Active(p) /\ job[p].todo # <<>>
    /\ LET s == Head(job[p].todo) IN
          /\ ~Possible(p, s.do) /\ UNCHANGED have
          /\ Failed(p, s)
          /\ tainted' = (tainted \/ (s.do = "count" /\ job[p].cmd = "import"))
    /\ UNCHANGED <<row, mutex, started, faults, broken, crossed>>

(* A step that fails for a reason of its own may have done its work, or     *)
(* only made a directory.                                                   *)
Reads == {"find", "absent", "lock", "stat", "unmanaged", "source", "fresh", "from", "fromMeta", "orphan"}
Fail(p) ==
    /\ Active(p) /\ job[p].todo # <<>> /\ faults < MaxFaults
    /\ LET s == Head(job[p].todo) IN
          /\ s.do \notin Reads /\ Possible(p, s.do)
          /\ have' \in {have, Effect(p, s.do), have \cup (Adds(s.do) \cap {"dir", "sdir", "pdir"})}
          /\ Failed(p, s)
    /\ faults' = faults + 1 /\ tainted' = TRUE
    /\ broken' = (broken \/ job[p].cmd \in Removals)
    /\ UNCHANGED <<row, mutex, started, crossed>>

(* A lookup that fails is taken for one that found nothing: the handler     *)
(* reads any error of GetProject as a free name, and Create any error of    *)
(* Stat as a free environment.                                              *)
Misread(p) ==
    /\ Active(p) /\ job[p].todo # <<>> /\ faults < MaxFaults
    /\ LET s == Head(job[p].todo) IN
          /\ s.do \in {"absent", "fresh"} /\ ~Possible(p, s.do)
          /\ broken' = (broken \/ s.do = "absent")
    /\ job' = [job EXCEPT ![p].todo = Tail(@)]
    /\ faults' = faults + 1 /\ tainted' = TRUE
    /\ UNCHANGED <<have, row, mutex, started, crossed>>

(* The command ends; a handler releases the lock.                           *)
End(p) ==
    /\ Active(p) /\ job[p].todo = <<>>
    /\ job' = [job EXCEPT ![p] = Idle]
    /\ mutex' = IF mutex = p THEN None ELSE mutex
    /\ UNCHANGED <<have, row, started, faults, tainted, broken, crossed>>

(* A command is killed, or the dashboard is with all its handlers.          *)
Die(gone) ==
    /\ gone # {} /\ faults < MaxFaults /\ faults' = faults + 1
    /\ job' = [q \in Processes |-> IF q \in gone THEN Idle ELSE job[q]]
    /\ mutex' = IF mutex \in gone THEN None ELSE mutex
    /\ tainted' = TRUE /\ broken' = (broken \/ \E q \in gone : job[q].cmd \in Removals)
    /\ UNCHANGED <<have, row, started, crossed>>
Kill(p) == job[p].cmd \notin Api \cup {None} /\ Die({p})
ServerDies == Die({q \in Processes : job[q].cmd \in Api})

(* The containers of the project stop by themselves.                        *)
Crash ==
    /\ "up" \in have /\ faults < MaxFaults /\ faults' = faults + 1
    /\ have' = have \ {"up"} /\ tainted' = TRUE
    /\ job' = [q \in Processes |-> [job[q] EXCEPT !.alone = @ /\ ~Active(q)]]
    /\ UNCHANGED <<row, mutex, started, broken, crossed>>

Next ==
    \/ \E p \in Processes : \/ \E c \in Commands : Start(p, c)
                            \/ Do(p) \/ Refuse(p) \/ Fail(p) \/ Misread(p) \/ End(p) \/ Kill(p)
    \/ ServerDies \/ Crash

Spec == Init /\ [][Next]_vars

-----------------------------------------------------------------------------
TypeOK ==
    /\ have \subseteq Things /\ mutex \in Processes \cup {None}
    /\ row.status \in Statuses \cup {None} /\ row.domain \in {0, 1}
    /\ started \in 0..MaxCommands /\ faults \in 0..MaxFaults
    /\ \A p \in Processes : job[p].cmd \in Commands \cup {None}

(* When nothing is at work, the status shown for a project is what its      *)
(* containers do: after every order of the handlers that lock the project,  *)
(* after every command that ran alone, and after `sync --fix` whatever      *)
(* happened before.  The exceptions that the code has are in tainted.       *)
StatusIsTrue ==
    /\ TypeOK
    /\ Quiet /\ ~tainted /\ row.status \in {"running", "stopped"} =>
          (row.status = "running") = ("up" \in have)

(* The cleanups of a creation that has failed are over, and all went well.  *)
(* A process that exits before its cleanups still has them.                 *)
CleanedUp(p) ==
    job[p].cmd \in Locals /\ job[p].todo = <<>> /\ ~job[p].ok /\ job[p].alone /\ job[p].clean
Exited(p) == ~job[p].ok /\ job[p].undo # <<>>

(* A creation that fails while nothing else is at work and whose cleanups   *)
(* succeed leaves what was there before it, and of its own only what the    *)
(* failing step itself left half done.  It may take a directory that was    *)
(* there before, for the cleanup does not know whose it is.  A creation     *)
(* that cannot open the database exits with all it made, which its help     *)
(* does not say, and is the exception.                                      *)
FailedCreationLeavesNothing ==
    \A p \in Processes : CleanedUp(p) /\ ~Exited(p) =>
          /\ have \subseteq job[p].before \cup job[p].half
          /\ job[p].before \subseteq have \cup Files

(* A registered project has its directory, unless it is being removed: the  *)
(* cleanup of a creation that fails does not take it.  The exceptions that  *)
(* the code has are in broken: a taker of the directory beside a maker of   *)
(* the row, a creation over a project that its check does not see, an       *)
(* import of what is not there, a removal cut short.                        *)
RegisteredHasFiles ==
    Registered /\ ~broken /\ "dir" \notin have => \E p \in Processes : job[p].cmd \in Removals

(* environments.List: the directories with metadata.                        *)
List == {e \in {"s", "p"} : (e = "s" /\ "smeta" \in have) \/ (e = "p" /\ "pmeta" \in have)}

(* An environment that is listed has its compose file, whatever failed or   *)
(* was killed while it was made or promoted, as long as nothing removed it  *)
(* meanwhile.                                                               *)
ListedEnvironmentIsWhole ==
    ~crossed => /\ "s" \in List => "scompose" \in have
                /\ "p" \in List => "pcompose" \in have
=============================================================================
