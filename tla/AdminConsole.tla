---------------------------- MODULE AdminConsole ----------------------------
(***************************************************************************)
(* The admin console in one browser: a tenant is selected, panels are      *)
(* loaded for it by overlapping requests, and handlers that save something *)
(* reload panels when their answer comes.  The user selects another tenant *)
(* or logs out meanwhile.  Loads of the same panel number themselves, and  *)
(* most panels, not all, take only the newest.                             *)
(***************************************************************************)
EXTENDS Naturals, FiniteSets

CONSTANTS
    Projects,       \* tenants of the logged-in users
    Panels,         \* panels the run follows, of the names used below
    Handlers,       \* handlers the run follows, likewise
    MaxFlights,     \* loads under way at once, a bound
    MaxSwitches     \* selections, logouts and tabs opened, a bound

ASSUME ConsoleAssumption ==
    /\ "import" \in Handlers => "website" \in Panels
    /\ "dashboard" \notin Panels
    /\ MaxFlights \in Nat /\ MaxSwitches \in Nat

VARIABLES
    selected,       \* the selected tenant, or "none" when logged out
    openTab,        \* the open tab
    shown,          \* per panel: whose data it shows
    flights,        \* loads under way
    saving,         \* the handler under way: the tenant it was started for
    imported,       \* imports of scanned answers: scanned for, saved to
    switches

consoleVars == <<selected, openTab, shown, flights, saving, imported, switches>>

\* Panels whose loads number themselves; a failed load of some empties the panel.
Numbered == {"knowledge", "suggestions", "analytics", "inbox", "messages"}
EmptiedByError == {"inbox", "workflow", "whatsapp", "users", "onboarding"}
\* The dashboard request fills all but these, and a new selection empties all but these.
NotOnDashboard == {"suggestions", "messages", "website", "onboarding"}
KeptPanels == {"onboarding"}

TabPanels(t) ==
    CASE t = "knowledge" -> {"knowledge", "suggestions"} \cap Panels
      [] t = "leads" -> {"inbox"} \cap Panels
      [] OTHER -> {}

Resting == [kind |-> "none", of |-> "none", at |-> "idle"]
Empty == [p \in Panels |-> {}]

ConsoleInit ==
    /\ selected = "none" /\ openTab = "home"
    /\ shown = Empty /\ flights = {} /\ saving = Resting
    /\ imported = {} /\ switches = 0

\* beginLatestRequest: the newest load of a panel is the one that counts.
BeginLoads(F, loads) ==
    {IF \E l \in loads : l.panel = f.panel THEN [f EXCEPT !.newest = FALSE] ELSE f : f \in F}
        \cup {[panel |-> l.panel, of |-> l.of, stray |-> l.stray, more |-> l.more,
               newest |-> TRUE] : l \in loads}
Loads(ps, t, stray) == {[panel |-> p, of |-> t, stray |-> stray, more |-> FALSE] : p \in ps}
Bounded(F) == Cardinality(F) <= MaxFlights

\* Loads that will fill their panel although the tenant they are for has gone: those
\* of a panel without numbers, and the newest of one nothing reloads now.
Straying(F, t, reloaded) ==
    {[f EXCEPT !.stray = @ \/ (f.of # t /\ f.panel \notin reloaded)] : f \in F}

\* resetWorkspaceData
Emptied == [p \in Panels |-> IF p \in KeptPanels THEN shown[p] ELSE {}]

\* The selected tenant changes: panels are emptied first, then the dashboard and the
\* open tab's panels are loaded.
Select(t) ==
    LET now == {"dashboard"} \cup TabPanels(openTab) \cup (KeptPanels \cap Panels) IN
    /\ t # selected /\ switches < MaxSwitches
    /\ selected' = t
    /\ shown' = Emptied
    /\ flights' = BeginLoads(Straying(flights, t, now \cap (Numbered \cup {"dashboard"})),
                        Loads(now, t, FALSE))
    /\ Bounded(flights')
    /\ switches' = switches + 1
    /\ UNCHANGED <<openTab, saving, imported>>

\* Disabled while a handler is busy; loads go on.
Logout ==
    /\ selected # "none" /\ saving = Resting /\ switches < MaxSwitches
    /\ selected' = "none" /\ shown' = Empty
    /\ flights' = Straying(flights, "none", {})
    /\ switches' = switches + 1
    /\ UNCHANGED <<openTab, saving, imported>>

OpenTab(t) ==
    /\ selected # "none" /\ t # openTab /\ switches < MaxSwitches
    /\ openTab' = t
    /\ flights' = BeginLoads(flights, Loads(TabPanels(t), selected, FALSE)) /\ Bounded(flights')
    /\ switches' = switches + 1
    /\ UNCHANGED <<selected, shown, saving, imported>>

\* A search text, a filter or another conversation reloads a panel; "more" adds to it.
ReloadPanel(p, more) ==
    /\ selected # "none" /\ p \in TabPanels(openTab) /\ p \in Numbered
    /\ more => shown[p] # {}
    /\ flights' = BeginLoads(flights, {[panel |-> p, of |-> selected, stray |-> FALSE, more |-> more]})
    /\ Bounded(flights')
    /\ UNCHANGED <<selected, openTab, shown, saving, imported, switches>>

\* isLatestRequest and the workspace's own number; panels without one take any reply.
AnyCounts(f) == TRUE
Counts(f) == f.newest \/ f.panel \notin Numbered \cup {"dashboard"}

Content(f) == [of |-> f.of, stray |-> f.stray]

LoadArrives(f) ==
    /\ f \in flights
    /\ flights' = flights \ {f}
    /\ shown' =
        IF ~Counts(f) THEN shown
        ELSE IF f.panel = "dashboard"
        THEN [p \in Panels |-> IF p \in NotOnDashboard THEN shown[p] ELSE {Content(f)}]
        ELSE [shown EXCEPT ![f.panel] = (IF f.more THEN @ ELSE {}) \cup {Content(f)}]
    /\ UNCHANGED <<selected, openTab, saving, imported, switches>>

\* A failed dashboard empties everything, a failed list only where its handler says so.
FailToArrive(f) ==
    /\ f \in flights
    /\ flights' = flights \ {f}
    /\ shown' = CASE f.panel = "dashboard" /\ Counts(f) -> [Emptied EXCEPT !["website"] = shown["website"]]
                  [] f.panel \in EmptiedByError -> [shown EXCEPT ![f.panel] = {}]
                  [] OTHER -> shown
    /\ UNCHANGED <<selected, openTab, saving, imported, switches>>

\* What each handler loads again once its request has been answered.
AnswerSaved == {"knowledge", "analytics", "workflow"}
SuggestionApproved == {"knowledge", "suggestions", "analytics", "workflow"}
SuggestionReviewed == {"suggestions"}
DocumentUploaded == {"suggestions"}
InteractionsScanned == {"suggestions", "workflow"}
LeadUpdated == {"inbox", "analytics", "workflow"}
ReplySent == {"messages", "inbox"}
AssistantTested == {"analytics", "inbox", "workflow"}
ChannelSaved == {"channels"}
TelephoneSaved == {"channels"}
TemplateSaved == {"whatsapp", "workflow"}
UserSaved == {"users"}
PlaybookApplied == {"dashboard"}
NumberReserved == {"onboarding"}

Reloads(kind) == (Panels \cup {"dashboard"}) \cap
    (CASE kind = "answer" -> AnswerSaved         [] kind = "approve" -> SuggestionApproved
       [] kind = "review" -> SuggestionReviewed  [] kind = "upload" -> DocumentUploaded
       [] kind = "scan" -> InteractionsScanned   [] kind = "lead" -> LeadUpdated
       [] kind = "reply" -> ReplySent            [] kind = "test" -> AssistantTested
       [] kind = "channel" -> ChannelSaved       [] kind = "telephone" -> TelephoneSaved
       [] kind = "template" -> TemplateSaved     [] kind = "user" -> UserSaved
       [] kind = "playbook" -> PlaybookApplied   [] kind = "import" -> AnswerSaved
       [] kind = "reserve" -> NumberReserved
       [] OTHER -> {})

\* importSuggestedFaqs posts what the panel shows to the tenant now selected.
Press(kind) ==
    /\ selected # "none" /\ saving = Resting
    /\ kind = "import" => shown["website"] # {}
    /\ saving' = [kind |-> kind, of |-> selected, at |-> "request"]
    /\ imported' = IF kind = "import"
                   THEN imported \cup {[from |-> c, to |-> selected] : c \in shown["website"]}
                   ELSE imported
    /\ UNCHANGED <<selected, openTab, shown, flights, switches>>

\* The handler goes on with the tenant of its closure, whichever is selected now.
Saved ==
    /\ saving.at = "request"
    /\ flights' = BeginLoads(flights, Loads(Reloads(saving.kind), saving.of, saving.of # selected))
    /\ Bounded(flights')
    /\ shown' = IF saving.kind = "website"
                THEN [shown EXCEPT !["website"] = {[of |-> saving.of, stray |-> saving.of # selected]}]
                ELSE shown
    /\ saving' = [saving EXCEPT !.at = "loads"]
    /\ UNCHANGED <<selected, openTab, imported, switches>>

RefusedSave ==
    /\ saving.at = "request"
    /\ saving' = Resting
    /\ UNCHANGED <<selected, openTab, shown, flights, imported, switches>>

\* busy is taken back when the panels have been loaded.
Unbusy ==
    /\ saving.at = "loads"
    /\ \A f \in flights : ~(f.panel \in Reloads(saving.kind) /\ f.of = saving.of)
    /\ saving' = Resting
    /\ UNCHANGED <<selected, openTab, shown, flights, imported, switches>>

ConsoleNext ==
    \/ \E t \in Projects : Select(t)
    \/ \E t \in {"home", "knowledge"} : OpenTab(t)
    \/ \E p \in Panels, more \in BOOLEAN : ReloadPanel(p, more)
    \/ \E f \in flights : LoadArrives(f) \/ FailToArrive(f)
    \/ \E kind \in Handlers : Press(kind)
    \/ Logout \/ Saved \/ RefusedSave \/ Unbusy

ConsoleSpec == ConsoleInit /\ [][ConsoleNext]_consoleVars

-----------------------------------------------------------------------------
\* page.tsx:1431-1438 (data of the previous tenant is emptied before the new load, so
\* that a slow or failing load can never render it), 1737-1755: with replies in any
\* order, failures, tabs and searches, a panel shows the selected tenant's data,
\* except what came over the two gaps of the code: a load without number, or the
\* newest of a list nothing reloads, that was under way when the tenant changed, and
\* the loads a handler begins for the tenant it was pressed for.  Answers scanned
\* for one tenant are imported into another only over the same gap.  The onboarding
\* state is not emptied, so it is left out.
OnlyStragglersMix ==
    /\ \A p \in Panels \ KeptPanels : \A c \in shown[p] : c.of = selected \/ c.stray
    /\ \A i \in imported : i.from.of = i.to \/ i.from.stray

\* page.tsx:1433-1434, 1857-1860 say it of a selected tenant without exception.
ShownIsSelected == selected # "none" => \A p \in Panels : \A c \in shown[p] : c.of = selected
=============================================================================
