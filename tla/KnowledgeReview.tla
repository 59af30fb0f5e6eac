--------------------------- MODULE KnowledgeReview ---------------------------
(***************************************************************************)
(* Learning from unanswered questions: a scan of the handoffs suggests an  *)
(* entry per question, the assistant may draft its answer, and reviewers   *)
(* approve or reject it.  A decision is written to OneBrain first and then *)
(* to the tenant's own database.  Requests overlap; each repository call   *)
(* is a transaction, and one that reads before it writes has two steps.    *)
(***************************************************************************)
EXTENDS Naturals, FiniteSets, Sequences

CONSTANTS
    Questions,     \* questions of the handoffs that are worth learning
    Scans,         \* requests to scan the handoffs
    Requests       \* requests of reviewers, numbered: an answer is named by
                   \* the request that wrote it, 0 is no answer

ASSUME ReviewAssumption == Scans \in Nat /\ Requests \in Nat

VARIABLES
    suggestion,    \* the knowledge_suggestions rows, by question and scan
    live,          \* approved chunks: the suggestion, its answer and who approved
    decided,       \* the decisions OneBrain holds
    scan,          \* scan[k]: what a scan has read
    reviewing,     \* reviewing[r]: what a request does and where it is
    overlap        \* kinds of requests that ran at the same time

reviewVars == <<suggestion, live, decided, scan, reviewing, overlap>>

Suggestion == Questions \X (1..Scans)
Request == 1..Requests
Exists(s) == suggestion[s].status # "none"

ReviewInit ==
    /\ suggestion = [s \in Suggestion |-> [status |-> "none", answer |-> 0]]
    /\ live = {}
    /\ decided = {}
    /\ scan = [k \in 1..Scans |-> [at |-> "idle", read |-> {}, new |-> {}]]
    /\ reviewing = [r \in Request |->
                    [at |-> "idle", kind |-> "none", types |-> FALSE, todo |-> <<>>, answer |-> 0]]
    /\ overlap = {}

-----------------------------------------------------------------------------
\* scanKnowledgeSuggestions looks for a suggestion of each question, whatever
\* its status, and adds one where there is none; all commits at once.
Asked(q) == \E k \in 1..Scans : Exists(<<q, k>>)

StartScan(k) ==
    /\ scan[k].at = "idle"
    /\ scan' = [scan EXCEPT ![k].at = "reading"]
    /\ overlap' = overlap \cup (IF \E j \in 1..Scans : scan[j].at = "reading" THEN {"scans"} ELSE {})
    /\ UNCHANGED <<suggestion, live, decided, reviewing>>

ScanQuestion(k, q) ==
    /\ scan[k].at = "reading" /\ q \notin scan[k].read
    /\ scan' = [scan EXCEPT ![k].read = @ \cup {q}, ![k].new = IF Asked(q) THEN @ ELSE @ \cup {q}]
    /\ UNCHANGED <<suggestion, live, decided, reviewing, overlap>>

CommitScan(k) ==
    /\ scan[k].at = "reading" /\ scan[k].read = Questions
    /\ suggestion' = [s \in Suggestion |->
          IF s[2] = k /\ s[1] \in scan[k].new THEN [status |-> "pending", answer |-> 0] ELSE suggestion[s]]
    /\ scan' = [scan EXCEPT ![k].at = "done"]
    /\ UNCHANGED <<live, decided, reviewing, overlap>>

-----------------------------------------------------------------------------
\* A request names one suggestion, or several of a bulk request, which are
\* taken one after the other.  Only a single approval can type an answer.
Typed(r) == reviewing[r].types
CurrentOne(r) == Head(reviewing[r].todo)
RequestAt(r, where) == reviewing[r].at = where

StartRequest(r, kind, types, todo) ==
    /\ RequestAt(r, "idle") /\ \A o \in 1..(r - 1) : ~RequestAt(o, "idle")
    /\ \A i \in DOMAIN todo : Exists(todo[i])
    /\ types => kind = "approve"
    /\ reviewing' = [reviewing EXCEPT ![r] =
          [at |-> kind, kind |-> kind, types |-> types, todo |-> todo, answer |-> 0]]
    /\ UNCHANGED <<suggestion, live, decided, scan, overlap>>

BulkApprove(r, todo) == StartRequest(r, "approve", FALSE, todo)
BulkReject(r, todo) == StartRequest(r, "reject", FALSE, todo)
BulkDraft(r, todo) == StartRequest(r, "draft", FALSE, todo)

\* A bulk request goes on with its next suggestion whatever became of this one.
GoOn(r) ==
    reviewing' = [reviewing EXCEPT ![r].todo = Tail(@), ![r].answer = 0,
                               ![r].at = IF Len(reviewing[r].todo) = 1 THEN "done" ELSE reviewing[r].kind]

\* resolveKnowledgeApprovalFields: the answer typed, else the one suggested.
Resolved(r, s) == IF Typed(r) THEN r ELSE suggestion[s].answer

\* The routes read the suggestion and refuse one that is not pending; an
\* approval without an answer fails before it reaches OneBrain.
CheckApproval(r) ==
    /\ RequestAt(r, "approve")
    /\ LET s == CurrentOne(r) IN
          IF suggestion[s].status = "pending" /\ Resolved(r, s) # 0
          THEN reviewing' = [reviewing EXCEPT ![r].at = "record", ![r].answer = Resolved(r, s)]
          ELSE GoOn(r)
    /\ UNCHANGED <<suggestion, live, decided, scan, overlap>>

CheckRejection(r) ==
    /\ RequestAt(r, "reject")
    /\ IF suggestion[CurrentOne(r)].status = "pending"
       THEN reviewing' = [reviewing EXCEPT ![r].at = "record"] ELSE GoOn(r)
    /\ UNCHANGED <<suggestion, live, decided, scan, overlap>>

\* writeKnowledgeSuggestionDecisionToOneBrain, which may fail.
RecordDecision(r) ==
    /\ RequestAt(r, "record")
    /\ \/ /\ decided' = decided \cup
                {[on |-> CurrentOne(r), as |-> reviewing[r].kind, answer |-> reviewing[r].answer]}
          /\ reviewing' = [reviewing EXCEPT ![r].at = "apply"]
       \/ GoOn(r) /\ UNCHANGED decided
    /\ UNCHANGED <<suggestion, live, scan, overlap>>

-----------------------------------------------------------------------------
\* approveKnowledgeSuggestion: it reads the suggestion, then adds source,
\* document and chunk and updates the suggestion by its id.
BeginApproval(r) ==
    /\ RequestAt(r, "apply") /\ reviewing[r].kind = "approve"
    /\ LET s == CurrentOne(r) IN
          IF suggestion[s].status = "pending" /\ Resolved(r, s) # 0
          THEN reviewing' = [reviewing EXCEPT ![r].at = "publish", ![r].answer = Resolved(r, s)]
          ELSE GoOn(r)
    /\ UNCHANGED <<suggestion, live, decided, scan, overlap>>

CommitApproval(r) ==
    /\ RequestAt(r, "publish")
    /\ suggestion' = [suggestion EXCEPT ![CurrentOne(r)] = [status |-> "approved", answer |-> reviewing[r].answer]]
    /\ live' = live \cup {[of |-> CurrentOne(r), answer |-> reviewing[r].answer, by |-> r]}
    /\ GoOn(r)
    /\ UNCHANGED <<decided, scan, overlap>>

RejectById(r) ==
    /\ RequestAt(r, "apply") /\ reviewing[r].kind = "reject"
    /\ suggestion' = [suggestion EXCEPT ![CurrentOne(r)].status = "rejected"]
    /\ GoOn(r)
    /\ UNCHANGED <<live, decided, scan, overlap>>

\* rejectKnowledgeSuggestion is one UPDATE of a row that is still pending.
ApplyRejection(r) ==
    /\ RequestAt(r, "apply") /\ reviewing[r].kind = "reject"
    /\ suggestion' = IF suggestion[CurrentOne(r)].status = "pending"
                     THEN [suggestion EXCEPT ![CurrentOne(r)].status = "rejected"] ELSE suggestion
    /\ GoOn(r)
    /\ UNCHANGED <<live, decided, scan, overlap>>

-----------------------------------------------------------------------------
\* A draft is asked of the model when the suggestion is pending and has no
\* answer; the model may fail.
Reviewable(s) == suggestion[s].status = "pending"
Draftable(s) == suggestion[s].status = "pending" /\ suggestion[s].answer = 0

CheckDraft(r) ==
    /\ RequestAt(r, "draft")
    /\ IF Draftable(CurrentOne(r))
       THEN reviewing' = [reviewing EXCEPT ![r].at = "drafting"] ELSE GoOn(r)
    /\ overlap' = overlap \cup (IF \E o \in Request : reviewing[o].at \in {"drafting", "save", "saving"}
                                THEN {"drafts"} ELSE {})
    /\ UNCHANGED <<suggestion, live, decided, scan>>

GenerateDraft(r) ==
    /\ RequestAt(r, "drafting")
    /\ \/ reviewing' = [reviewing EXCEPT ![r].at = "save"]
       \/ GoOn(r)
    /\ UNCHANGED <<suggestion, live, decided, scan, overlap>>

\* saveKnowledgeSuggestionDraft reads the status, then updates by id.
BeginSaveDraft(r) ==
    /\ RequestAt(r, "save")
    /\ IF Reviewable(CurrentOne(r))
       THEN reviewing' = [reviewing EXCEPT ![r].at = "saving"] ELSE GoOn(r)
    /\ UNCHANGED <<suggestion, live, decided, scan, overlap>>

CommitSaveDraft(r) ==
    /\ RequestAt(r, "saving")
    /\ suggestion' = [suggestion EXCEPT ![CurrentOne(r)].answer = r]
    /\ GoOn(r)
    /\ UNCHANGED <<live, decided, scan, overlap>>

\* deleteKnowledge removes the source of a chunk, and the chunk with it.
DeleteKnowledge(c) ==
    /\ live' = live \ {c}
    /\ UNCHANGED <<suggestion, decided, scan, reviewing, overlap>>

ReviewNext ==
    \/ \E k \in 1..Scans : StartScan(k) \/ CommitScan(k) \/ \E q \in Questions : ScanQuestion(k, q)
    \/ \E r \in Request, s \in Suggestion :
          \E kind \in {"approve", "reject", "draft"}, types \in BOOLEAN :
             StartRequest(r, kind, types, <<s>>)
    \/ \E r \in Request, t \in Suggestion \X Suggestion :
          /\ t[1] # t[2]
          /\ BulkApprove(r, t) \/ BulkReject(r, t) \/ BulkDraft(r, t)
    \/ \E r \in Request :
          \/ CheckApproval(r) \/ CheckRejection(r) \/ RecordDecision(r) \/ BeginApproval(r)
          \/ CommitApproval(r) \/ ApplyRejection(r) \/ CheckDraft(r) \/ GenerateDraft(r)
          \/ BeginSaveDraft(r) \/ CommitSaveDraft(r)
    \/ \E c \in live : DeleteKnowledge(c)

ReviewSpec == ReviewInit /\ [][ReviewNext]_reviewVars

-----------------------------------------------------------------------------
(* Properties *)

\* A rejected suggestion is never among the entries the assistant answers
\* from, however an approval and a rejection of it overlap.
RejectedNeverLive == \A c \in live : suggestion[c.of].status = "approved"

\* What the tenant's database took, OneBrain holds: every chunk has the answer
\* of an approval it recorded, unless two drafts of answers overlapped, and
\* every rejection is recorded.
DecisionsAreRecorded ==
    /\ "drafts" \notin overlap =>
          \A c \in live : [on |-> c.of, as |-> "approve", answer |-> c.answer] \in decided
    /\ \A s \in Suggestion : suggestion[s].status = "rejected" =>
          [on |-> s, as |-> "reject", answer |-> 0] \in decided

\* A question is put to the reviewers once, and not again when they rejected
\* it, unless two scans overlapped.
AskedOnce ==
    "scans" \notin overlap =>
        \A q \in Questions : Cardinality({k \in 1..Scans : Exists(<<q, k>>)}) <= 1

\* A reviewer's decision holds: it is recorded, a rejected question stays out
\* of the answers and is not asked again.
DecisionsHold == RejectedNeverLive /\ DecisionsAreRecorded /\ AskedOnce
=============================================================================
