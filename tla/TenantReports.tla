---------------------------- MODULE TenantReports ----------------------------
(***************************************************************************)
(* What a workspace shows of itself: figures, inbox, suggestions, launch   *)
(* readiness and the data export.  A report is made of calls to the store  *)
(* that run side by side; a call is a transaction whose statements run in  *)
(* order and see each its own snapshot (READ COMMITTED).  Conversations,   *)
(* messages and handoffs come, change and go meanwhile.                    *)
(***************************************************************************)
EXTENDS Integers, FiniteSets, Sequences, FiniteSetsExt

CONSTANTS
    Rooms,          \* conversations
    Asks,           \* handoff requests, numbered in the order they are created
    PerRoom,        \* bound on messages of a conversation
    ListPage,       \* rows of a list (at most 100; readiness asks for 50)
    ReportKinds,    \* reports that are asked for
    Workspaces,     \* how the workspace may be set up for its launch
    MaxWritten      \* bound on writes

NoRoom == "none"

ASSUME ReportsAssumption ==
    /\ Asks \in Nat /\ PerRoom \in Nat /\ MaxWritten \in Nat /\ ListPage \in Nat \ {0}
    /\ NoRoom \notin Rooms
    /\ ReportKinds \subseteq {"dashboard", "readiness", "suggestions", "weekly", "inbox",
                             "export"}

VARIABLES
    stored,         \* conversations, messages, handoff_requests, audit_logs
    workspace,      \* channels, settings and environment
    view,           \* the report: its kind, how far its calls are, their snapshots
    written,        \* bound
    meanwhile       \* observed: what was written while the report was made

reportVars == <<stored, workspace, view, written, meanwhile>>

NoAsk == [status |-> "none", owned |-> FALSE, lead |-> FALSE, room |-> NoRoom]
NoBase == [rooms |-> {}, words |-> {}, asks |-> [i \in 1..Asks |-> NoAsk],
           exported |-> FALSE]

\* The store calls of each report.
Dashboard   == {"analytics", "handoffs", "inbox"}
Readiness   == {"analytics", "handoffs"}
Suggestions == {"analytics", "handoffs"}
Weekly      == {"analytics", "handoffs"}
CallsOf == [none |-> {}, dashboard |-> Dashboard, readiness |-> Readiness,
            suggestions |-> Suggestions, weekly |-> Weekly, inbox |-> {"inbox"},
            export |-> {"export"}]

\* The statements of a call, in order.
TotalFirst  == <<"messages", "total", "open", "channels">>
Figures     == <<"messages", "open", "total", "channels">>
Inbox       == <<"listed", "last", "count", "pending">>
Export      == <<"rooms", "words", "asks", "trail">>
HandoffList == <<"list">>
StatementsOf == [analytics |-> Figures, inbox |-> Inbox, export |-> Export,
                 handoffs |-> HandoffList]
StoreCalls == DOMAIN StatementsOf
Statements == UNION {{StatementsOf[c][k] : k \in DOMAIN StatementsOf[c]} : c \in StoreCalls}

NoReport == [kind |-> "none", done |-> [c \in StoreCalls |-> 0],
             got |-> [s \in Statements |-> NoBase]]

ReportInit ==
    /\ stored = NoBase /\ workspace \in Workspaces
    /\ view = NoReport /\ written = 0 /\ meanwhile = {}

-----------------------------------------------------------------------------
(* The writers, each a transaction. *)

WriteRows(after, what) ==
    /\ written < MaxWritten
    /\ stored' = after /\ written' = written + 1
    /\ meanwhile' = IF view.kind = "none" THEN meanwhile ELSE meanwhile \cup {what}
    /\ UNCHANGED <<workspace, view>>

AskExists(i) == stored.asks[i].status # "none"
NewAsk(room, lead) == [status |-> "open", owned |-> FALSE, lead |-> lead, room |-> room]

OpenRoom(r) == r \notin stored.rooms /\ WriteRows([stored EXCEPT !.rooms = @ \cup {r}], "row")

AddWord(r, k) ==
    /\ r \in stored.rooms /\ <<r, k>> \notin stored.words
    /\ WriteRows([stored EXCEPT !.words = @ \cup {<<r, k>>}], "row")

\* captureWebsiteLead stores the conversation, the form and the handoff together.
LeadArrives(r, k, i) ==
    /\ ~AskExists(i) /\ <<r, k>> \notin stored.words
    /\ WriteRows([stored EXCEPT !.rooms = @ \cup {r}, !.words = @ \cup {<<r, k>>},
                         !.asks[i] = NewAsk(r, TRUE)], "row")

AskForHuman(r, i) ==
    /\ r \in stored.rooms /\ ~AskExists(i)
    /\ WriteRows([stored EXCEPT !.asks[i] = NewAsk(r, FALSE)], "row")

UpdateAsk(i, status, owned) ==
    /\ AskExists(i)
    /\ <<status, owned>> # <<stored.asks[i].status, stored.asks[i].owned>>
    /\ WriteRows([stored EXCEPT !.asks[i].status = status, !.asks[i].owned = owned], "status")

\* Retention keeps the handoffs of a pruned conversation, an erasure does not.
RemoveRoom(r, keeps) ==
    /\ r \in stored.rooms
    /\ WriteRows([stored EXCEPT !.rooms = @ \ {r}, !.words = {w \in @ : w[1] # r},
                         !.asks = [i \in 1..Asks |->
                             IF @[i].room # r THEN @[i]
                             ELSE IF keeps THEN [@[i] EXCEPT !.room = NoRoom] ELSE NoAsk]], "gone")

-----------------------------------------------------------------------------
(* The report. *)

\* The export is audited before it reads; a failure of that is only logged.
BeginReport(kind, audited) ==
    /\ view.kind = "none" /\ (audited => kind = "export")
    /\ view' = [NoReport EXCEPT !.kind = kind]
    /\ stored' = [stored EXCEPT !.exported = audited]
    /\ UNCHANGED <<workspace, written, meanwhile>>

ReadNext(call) ==
    /\ call \in CallsOf[view.kind] /\ view.done[call] < Len(StatementsOf[call])
    /\ view' = [view EXCEPT !.done[call] = @ + 1,
                            !.got[StatementsOf[call][view.done[call] + 1]] = stored]
    /\ UNCHANGED <<stored, workspace, written, meanwhile>>

ReportNext ==
    \/ \E kind \in ReportKinds, audited \in BOOLEAN : BeginReport(kind, audited)
    \/ \E call \in StoreCalls : ReadNext(call)
    \/ \E r \in Rooms :
          \/ OpenRoom(r) \/ \E keeps \in BOOLEAN : RemoveRoom(r, keeps)
          \/ \E k \in 1..PerRoom : AddWord(r, k) \/ \E i \in 1..Asks : LeadArrives(r, k, i)
          \/ \E i \in 1..Asks : AskForHuman(r, i)
    \/ \E i \in 1..Asks, owned \in BOOLEAN :
          \E status \in {"open", "in_progress", "resolved"} : UpdateAsk(i, status, owned)

ReportSpec == ReportInit /\ [][ReportNext]_reportVars

-----------------------------------------------------------------------------
(* What a finished report shows. *)

Shows(call) ==
    /\ call \in CallsOf[view.kind]
    /\ \A c \in CallsOf[view.kind] : view.done[c] = Len(StatementsOf[c])

AsksOf(of) == {i \in 1..Asks : of.asks[i].status # "none"}
OpenAsks(of) == {i \in 1..Asks : of.asks[i].status = "open"}
WordsIn(of, r) == {w \in of.words : w[1] = r}

FiguresShown ==
    [messages |-> Cardinality(view.got["messages"].words),
     open     |-> Cardinality(OpenAsks(view.got["open"])),
     total    |-> Cardinality(AsksOf(view.got["total"])),
     channels |-> Cardinality(view.got["channels"].words)]

ItemShown(r) ==
    [last  |-> WordsIn(view.got["last"], r) # {},
     count |-> Cardinality(WordsIn(view.got["count"], r))]

\* listHandoffs: the newest rows, whatever their status.
NewestRows(of) == {i \in AsksOf(of) : Cardinality({j \in AsksOf(of) : j > i}) < ListPage}
ListedOpen == {i \in NewestRows(view.got["list"]) : view.got["list"].asks[i].status = "open"}

\* buildWeeklyReportEmail counts the leads among the rows listed.
OpenLeads == {i \in ListedOpen : view.got["list"].asks[i].lead}

\* buildWorkflowSuggestions: some come of the list, and one of the figures.
Suggested ==
    (IF ListedOpen # {} THEN {"handoff_assignment"} ELSE {}) \cup
    (IF FiguresShown.open = 0 THEN {"proactive_followup"} ELSE {})

\* buildProductionReadiness: what a check is worth, and what it earns, in halves.
Weight == [channel |-> 10, whatsapp |-> 7, meta |-> 3, voice |-> 10, owners |-> 5,
           reachable |-> 5, knowledge |-> 5, outcome |-> 5, encryption |-> 5, retention |-> 5,
           workers |-> 4, cleanup |-> 3, deliveries |-> 3, metrics |-> 3, errors |-> 3,
           metering |-> 4, widget |-> 6, livetest |-> 4, billing |-> 5, team |-> 5]

OwnersGrade ==
    LET owned == {i \in ListedOpen : view.got["list"].asks[i].owned}
    IN  IF owned = ListedOpen THEN "pass" ELSE IF owned # {} THEN "warn" ELSE "fail"

\* A channel beside the website, or at least something to say on it.
ChannelGrade ==
    IF ~workspace.website THEN "fail"
    ELSE IF "pass" \in {workspace.grade["whatsapp"], workspace.grade["voice"]} THEN "pass"
    ELSE IF workspace.entries THEN "warn" ELSE "fail"

Grade(check) ==
    CASE check = "owners"  -> OwnersGrade
      [] check = "channel" -> ChannelGrade
      [] OTHER             -> workspace.grade[check]

Earned(check) == CASE Grade(check) = "pass" -> 2 * Weight[check]
                   [] Grade(check) = "warn" -> Weight[check]
                   [] OTHER                 -> 0

\* Math.round rounds a half up; all checks together are worth 100.
Score == (MapThenSumSet(Earned, DOMAIN Weight) + 1) \div 2

Verdict ==
    IF Score >= 85 /\ \A check \in DOMAIN Weight : Grade(check) # "fail" THEN "ready_for_beta"
    ELSE IF Score >= 65 THEN "needs_work" ELSE "not_ready"

-----------------------------------------------------------------------------
\* Unless conversations were removed meanwhile, no more handoffs are open than
\* there are, and the channels' messages are at least the messages counted.
FiguresAgree ==
    Shows("analytics") /\ "gone" \notin meanwhile =>
        FiguresShown.open <= FiguresShown.total /\ FiguresShown.messages <= FiguresShown.channels

\* A conversation of the inbox that shows a last message counts one.
InboxAgrees ==
    Shows("inbox") /\ "gone" \notin meanwhile =>
        \A r \in view.got["listed"].rooms : ItemShown(r).last => ItemShown(r).count > 0

\* An export has what an exported conversation held when it was read, and, if
\* the audit could be written, the export itself.
ExportIsClosed ==
    Shows("export") =>
        /\ "gone" \notin meanwhile => \A r \in view.got["rooms"].rooms :
              WordsIn(view.got["rooms"], r) \subseteq view.got["words"].words
        /\ view.got["trail"].exported = stored.exported

\* Without a write in between, the calls of a report agree: a workspace that is
\* told to prepare campaigns as nothing is open is not told to assign open
\* handoffs, no more leads are mailed as open than handoffs are, and one that is
\* called ready has a website and, if all its handoffs are listed and some are
\* open, an owner for one of them.
AdviceAgrees ==
    Shows("handoffs") /\ meanwhile = {} =>
        /\ Cardinality(Suggested) <= 1
        /\ Cardinality(OpenLeads) <= FiguresShown.open
        /\ Verdict = "ready_for_beta" =>
              /\ workspace.website
              /\ AsksOf(stored) = NewestRows(stored) /\ OpenAsks(stored) # {} =>
                    \E i \in OpenAsks(stored) : stored.asks[i].owned

\* What a report says agrees with itself, whatever is written while it is made.
ReportsAgree == FiguresAgree /\ InboxAgrees /\ ExportIsClosed /\ AdviceAgrees
=============================================================================
