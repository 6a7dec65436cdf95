--------------------------- MODULE DashboardPage ----------------------------
(***************************************************************************)
(* The dashboard in the browser, the script in internal/server/static.go.  *)
(* One tab has an address (the hash), a body, at most one refresh timer    *)
(* and any number of requests in flight, whose answers come in any order,  *)
(* after the user has moved on, or not at all.  Tasks run one at a time;   *)
(* a change of the address is handled by a task of its own.                *)
(*                                                                         *)
(* A page is the plan of its render function: the request it sends when it *)
(* opens and the one its timer repeats, each "blind" when the answer is    *)
(* drawn whatever the address is by then, "checked" when it is not.        *)
(*                                                                         *)
(* The names that every specification has are PageInit, PageNext, and so   *)
(* on, so that DashboardProofs can extend Access and this module.          *)
(***************************************************************************)
EXTENDS Integers, FiniteSets

CONSTANTS
    Projects,
    Routes,     \* addresses the user visits, besides those of the projects
    MaxPending, \* bound: requests in flight when the user acts
    MaxClicks   \* bound: requests of clicks among them when the user clicks

Plan(load, refresh) == [load |-> load, refresh |-> refresh]

(* The forms of the DNS and discovery pages write into an element of their *)
(* own body, as a tab does; nothing depends on what it shows.              *)
renderDashboard     == Plan("blind", "blind")
renderMonitoring    == Plan("checked", "checked")
renderProjects      == Plan("blind", "none")
renderProjectOnce   == Plan("blind", "none")
renderProjectDetail == Plan("blind", "checked")
renderServers       == Plan("twice", "none")   \* a failure asks /api/status
renderDNS           == Plan("none", "none")
renderDeploy        == Plan("blind", "none")
renderVolumes       == Plan("blind", "none")
renderScheduling    == Plan("blind", "none")
renderDiscovery     == Plan("none", "none")
renderTemplates     == Plan("blind", "none")
renderAudit         == Plan("blind", "none")
renderSettings      == Plan("blind", "none")
NotFound            == Plan("none", "none")

(* routes; a project is its own address *)
PlanOf(r) ==
    CASE r = "dashboard"  -> renderDashboard
      [] r = "projects"   -> renderProjects
      [] r = "servers"    -> renderServers
      [] r = "monitoring" -> renderMonitoring
      [] r = "deploy"     -> renderDeploy
      [] r = "dns"        -> renderDNS
      [] r = "volumes"    -> renderVolumes
      [] r = "scheduling" -> renderScheduling
      [] r = "discovery"  -> renderDiscovery
      [] r = "templates"  -> renderTemplates
      [] r = "audit"      -> renderAudit
      [] r = "settings"   -> renderSettings
      [] r \in Projects   -> renderProjectDetail
      [] OTHER            -> NotFound

Pages == Routes \cup Projects
LivePages == Projects \cup (Routes \cap {"dashboard", "monitoring"})
Nowhere == "none"

ASSUME PagesAssumption ==
    Projects \cap Routes = {} /\ Nowhere \notin Pages /\ {"projects", "volumes"} \subseteq Routes

VARIABLES
    hash,     \* location.hash
    moved,    \* a hashchange event waits for its task
    soon,     \* a setTimeout(navigate, 1000) waits
    timers,   \* pages whose interval is armed
    timer,    \* state.refreshTimer: the page whose interval navigate will clear
    body,     \* the page whose content, or spinner, is drawn
    filled,   \* the body has content, not the spinner
    pane,     \* what was loaded last into an element of the body: of which project, and by what
    modal,    \* the open question: delete or restore a project, delete a volume
    panel,    \* the form for a new project is open
    requests  \* requests in flight

pageVars == <<hash, moved, soon, timers, timer, body, filled, pane, modal, panel, requests>>

(* The requests whose answer goes to an element of a project page: those of *)
(* the tabs, of the Refresh button of the logs, and of the list of backups  *)
(* after a new one.  The element is looked up when the request is sent.     *)
Loaders == {"tab", "logs", "backups"}
NoPane == [of |-> Nowhere, by |-> Nowhere]
ProjectDrawn == body \in Projects /\ filled

(* api: a request, and whether the element its answer goes to is drawn.     *)
Request(kind, page) ==
    [kind |-> kind, page |-> page, here |-> kind \in Loaders /\ ProjectDrawn]
Drawn == {"load", "refresh", "fallback"}
Kinds == Loaders \cup Drawn \cup {"action", "backup", "create", "delete", "restore", "volume"}

PageInit ==
    /\ hash \in Pages /\ moved = TRUE /\ soon = FALSE  \* DOMContentLoaded
    /\ timers = {} /\ timer = Nowhere
    /\ body = Nowhere /\ filled = FALSE /\ pane = NoPane
    /\ modal = Nowhere /\ panel = FALSE /\ requests = {}

HasRoom == Cardinality(requests) < MaxPending
MayClick == HasRoom /\ Cardinality({q \in requests : q.kind \notin Drawn}) < MaxClicks
Send(kind, page) == requests' = requests \cup {Request(kind, page)}

(* setBody: the elements of the old body are gone, tabs and all.           *)
setBody(page, content, others) ==
    /\ body' = page /\ filled' = content /\ pane' = NoPane
    /\ requests' = {[q EXCEPT !.here = FALSE] : q \in others}
                     \cup (IF content THEN {} ELSE {Request("load", page)})

-----------------------------------------------------------------------------
IsStatic(r) == PlanOf(r).load = "none"
Repeats(r) == PlanOf(r).refresh # "none"

navigateClearsNothing(others) ==
    /\ setBody(hash, IsStatic(hash), others)
    /\ timers' = timers \cup {r \in {hash} : Repeats(r)}
    /\ timer' = IF Repeats(hash) THEN hash ELSE Nowhere
(* navigate: the interval of the page that is left is cleared; then the    *)
(* render function of the address: spinner, request, interval.             *)
navigate(others) ==
    /\ setBody(hash, IsStatic(hash), others)
    /\ timers' = (timers \ {timer}) \cup {r \in {hash} : Repeats(r)}
    /\ timer' = IF Repeats(hash) THEN hash ELSE Nowhere

(* The user follows a link or edits the address. *)
Visit(r) ==
    /\ r # hash /\ HasRoom
    /\ hash' = r /\ moved' = TRUE
    /\ UNCHANGED <<soon, timers, timer, body, filled, pane, modal, panel, requests>>

HashChange ==
    /\ moved
    /\ moved' = FALSE /\ navigate(requests)
    /\ UNCHANGED <<hash, soon, modal, panel>>

(* The navigate that __projectAction put off. *)
Timeout ==
    /\ soon
    /\ soon' = FALSE /\ navigate(requests)
    /\ UNCHANGED <<hash, moved, modal, panel>>

(* An interval fires: the page asks again. *)
Interval(r) ==
    /\ r \in timers
    /\ Send("refresh", r)
    /\ UNCHANGED <<hash, moved, soon, timers, timer, body, filled, pane, modal, panel>>

-----------------------------------------------------------------------------
(* What the user does on a page that is drawn. *)

(* __switchTab: the project is the one in the address, not the one drawn.  *)
(* Only the logs lose what they showed when they are loaded again.         *)
switchTab ==
    /\ ProjectDrawn /\ hash \in Projects /\ MayClick
    /\ pane' \in {pane, NoPane}
    /\ Send("tab", hash)
    /\ UNCHANGED <<hash, moved, soon, timers, timer, body, filled, modal, panel>>

(* The Refresh button calls __loadLogs for the project it was drawn for.   *)
refreshLogs ==
    /\ ProjectDrawn /\ MayClick
    /\ pane' = NoPane
    /\ Send("logs", body)
    /\ UNCHANGED <<hash, moved, soon, timers, timer, body, filled, modal, panel>>

projectAction ==
    /\ ProjectDrawn /\ MayClick
    /\ Send("action", Nowhere)
    /\ UNCHANGED <<hash, moved, soon, timers, timer, body, filled, pane, modal, panel>>

(* __createBackup, for the project its button was drawn for.               *)
createBackup ==
    /\ ProjectDrawn /\ MayClick
    /\ Send("backup", body)
    /\ UNCHANGED <<hash, moved, soon, timers, timer, body, filled, pane, modal, panel>>

(* The panel stays open when the user moves on. *)
openCreateProject ==
    /\ body = "projects" /\ filled /\ panel' = TRUE
    /\ UNCHANGED <<hash, moved, soon, timers, timer, body, filled, pane, modal, requests>>
closePanel ==
    /\ panel /\ panel' = FALSE
    /\ UNCHANGED <<hash, moved, soon, timers, timer, body, filled, pane, modal, requests>>
submitProject ==
    /\ panel /\ MayClick
    /\ Send("create", Nowhere)
    /\ UNCHANGED <<hash, moved, soon, timers, timer, body, filled, pane, modal, panel>>

openModal(m) ==
    /\ modal' = m
    /\ UNCHANGED <<hash, moved, soon, timers, timer, body, filled, pane, panel, requests>>
deleteProject == ProjectDrawn /\ openModal("delete")
(* The button is in a list of backups that was loaded.                     *)
restoreBackup == pane.by \in {"tab", "backups"} /\ openModal("restore")
deleteVolume  == body = "volumes" /\ filled /\ openModal("volume")

(* __confirmDelete, __confirmRestore, __confirmDeleteVolume *)
confirm ==
    /\ modal # Nowhere /\ MayClick
    /\ Send(modal, Nowhere)
    /\ UNCHANGED <<hash, moved, soon, timers, timer, body, filled, pane, modal, panel>>

cancel ==
    /\ modal # Nowhere
    /\ modal' = Nowhere
    /\ UNCHANGED <<hash, moved, soon, timers, timer, body, filled, pane, panel, requests>>

-----------------------------------------------------------------------------
(* Answers. *)

Rest(q) == requests \ {q}
Drop(q) == requests' = Rest(q) /\ UNCHANGED <<body, filled, pane>>
Draw(q) ==
    /\ body' = q.page /\ filled' = TRUE /\ pane' = NoPane
    /\ requests' = {[o EXCEPT !.here = FALSE] : o \in Rest(q)}

Check(q) == IF q.kind = "refresh" THEN PlanOf(q.page).refresh ELSE PlanOf(q.page).load
IsStale(q) == Check(q) = "checked" /\ hash # q.page

(* The answer of a load or a refresh is drawn, or dropped after a check of *)
(* the address.                                                            *)
Content(q) ==
    /\ q.kind \in Drawn
    /\ IF IsStale(q) THEN Drop(q) ELSE Draw(q)
    /\ UNCHANGED <<hash, moved, soon, timers, timer, modal, panel>>

(* A failed load draws an error in its place; a failed refresh does        *)
(* nothing, except on the monitoring page; the servers page asks again.    *)
Failure(q) ==
    /\ q.kind \in Drawn
    /\ \/ /\ q.kind = "load" /\ PlanOf(q.page).load = "twice"
          /\ requests' = Rest(q) \cup {Request("fallback", q.page)}
          /\ UNCHANGED <<body, filled, pane>>
       \/ /\ ~(q.kind = "load" /\ PlanOf(q.page).load = "twice")
          /\ IF \/ q.kind = "refresh" /\ PlanOf(q.page).load # "checked"
                \/ IsStale(q)
             THEN Drop(q) ELSE Draw(q)
    /\ UNCHANGED <<hash, moved, soon, timers, timer, modal, panel>>

PaneAnyway(q) ==
    /\ q.kind \in Loaders
    /\ pane' = [of |-> q.page, by |-> q.kind] /\ requests' = Rest(q)
    /\ UNCHANGED <<hash, moved, soon, timers, timer, body, filled, modal, panel>>
(* __loadLogs, __loadBackups, __loadDeployments, __loadEnvs, __loadHealth: *)
(* the list, or the error, goes to the element of the time of the request. *)
Pane(q) ==
    /\ q.kind \in Loaders
    /\ IF q.here THEN pane' = [of |-> q.page, by |-> q.kind] ELSE UNCHANGED pane
    /\ requests' = Rest(q)
    /\ UNCHANGED <<hash, moved, soon, timers, timer, body, filled, modal, panel>>

(* The request of a button is done: navigate a second later, or at once    *)
(* for a new project; load the backups of a project that has a new one;    *)
(* leave a deleted project; close whatever modal is open; draw the         *)
(* volumes, wherever the user is.                                          *)
Done(q) ==
    \/ /\ q.kind = "action" /\ Drop(q) /\ soon' = TRUE
       /\ UNCHANGED <<hash, moved, modal, panel, timers, timer>>
    \/ /\ q.kind = "backup" /\ requests' = Rest(q) \cup {Request("backups", q.page)}
       /\ UNCHANGED <<hash, moved, soon, timers, timer, body, filled, pane, modal, panel>>
    \/ /\ q.kind = "create" /\ panel' = FALSE /\ navigate(Rest(q))
       /\ UNCHANGED <<hash, moved, soon, modal>>
    \/ /\ q.kind = "delete" /\ Drop(q) /\ modal' = Nowhere
       /\ hash' = "projects" /\ moved' = (moved \/ hash # "projects")
       /\ UNCHANGED <<soon, panel, timers, timer>>
    \/ /\ q.kind = "restore" /\ Drop(q) /\ modal' = Nowhere
       /\ UNCHANGED <<hash, moved, soon, panel, timers, timer>>
    \/ /\ q.kind = "volume" /\ modal' = Nowhere
       /\ setBody("volumes", FALSE, Rest(q))
       /\ UNCHANGED <<hash, moved, soon, panel, timers, timer>>

(* It failed: a message, and the modal of a confirmed one closes.          *)
Refused(q) ==
    /\ q.kind \in {"action", "backup", "create", "delete", "restore", "volume"}
    /\ Drop(q)
    /\ modal' = IF q.kind \in {"action", "backup", "create"} THEN modal ELSE Nowhere
    /\ UNCHANGED <<hash, moved, soon, panel, timers, timer>>

Answer(q) == Content(q) \/ Pane(q) \/ Done(q)
User ==
    \/ \E r \in Pages : Visit(r)
    \/ switchTab \/ refreshLogs \/ projectAction \/ createBackup \/ openCreateProject \/ closePanel \/ submitProject
    \/ deleteProject \/ restoreBackup \/ deleteVolume \/ confirm \/ cancel
PageNext ==
    \/ User
    \/ HashChange \/ Timeout
    \/ \E r \in timers : Interval(r)
    \/ \E q \in requests : Answer(q) \/ Failure(q) \/ Refused(q)

PageSpec == PageInit /\ [][PageNext]_pageVars

(* The browser runs its tasks and ends every request; the server answers   *)
(* a refresh again and again.                                              *)
Fairness ==
    /\ WF_pageVars(HashChange) /\ WF_pageVars(Timeout)
    /\ WF_pageVars(\E q \in requests : Answer(q) \/ Failure(q) \/ Refused(q))
    /\ \A r \in LivePages :
          /\ WF_pageVars(Interval(r))
          /\ SF_pageVars(\E q \in requests : q.kind = "refresh" /\ q.page = r /\ Content(q))
FairSpec == PageSpec /\ Fairness

-----------------------------------------------------------------------------
(* Every variable keeps its type. *)
PageTypeOK ==
    /\ hash \in Pages /\ moved \in BOOLEAN /\ soon \in BOOLEAN /\ panel \in BOOLEAN
    /\ timers \subseteq Pages /\ timer \in Pages \cup {Nowhere}
    /\ body \in Pages \cup {Nowhere} /\ filled \in BOOLEAN
    /\ pane \in [of : Projects \cup {Nowhere}, by : Loaders \cup {Nowhere}]
    /\ modal \in {Nowhere, "delete", "restore", "volume"}
    /\ requests \subseteq [kind : Kinds, page : Pages \cup {Nowhere}, here : BOOLEAN]

(* At most one interval is armed, navigate knows it, and once the address  *)
(* is handled it is the interval of that address.                          *)
OneTimer ==
    /\ PageTypeOK
    /\ timers \subseteq {timer} \ {Nowhere}
    /\ ~moved => timer \in {Nowhere, hash}

(* A tab shows the project in the address, and refreshed logs are those of *)
(* the project drawn, although the answer may come after the user went to  *)
(* another project and back.  The list after a new backup is the           *)
(* exception: it goes to whatever project is drawn when the backup is done. *)
TabsFollowAddress ==
    /\ ~moved /\ pane.by = "tab" => pane.of = hash
    /\ pane.by = "logs" => pane.of = body

(* A page that refreshes itself is drawn again and again while the user    *)
(* stays, whatever late answers of other pages are drawn over it.          *)
LivePagesRecover ==
    \A r \in LivePages : <>[](hash = r) => []<>(body = r /\ filled)
=============================================================================
