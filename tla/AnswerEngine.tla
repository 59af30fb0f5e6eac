---------------------------- MODULE AnswerEngine ----------------------------
(***************************************************************************)
(* How a customer's question gets its answer: OneBrain first where it is   *)
(* switched on, the tenant's own approved entries otherwise, a refusal with*)
(* a handoff request when neither knows.  Every provider may fail; entries *)
(* are edited, deleted and embedded while the question is being answered.  *)
(***************************************************************************)
EXTENDS Naturals, FiniteSets

CONSTANTS
    Entries,            \* rows of knowledge_chunks (all of them approved)
    Inquiries,          \* inbound messages
    RowLimit,           \* rows the word search ranks: five times the limit asked for
    MaxChanges          \* edits of entries, a bound

ASSUME AnswerAssumption == IsFiniteSet(Entries) /\ RowLimit \in Nat \ {0}

VARIABLES
    mode,               \* OneBrain: off, fallback (to the entries), required
    entry,              \* per entry: its words and its stored vector
    question,           \* exchanges
    handoffs,           \* handoff requests stored per question
    changes

answerVars == <<mode, entry, question, handoffs, changes>>

\* How an entry's words compare with the question's, and a vector with its vector.
Overlap == [same |-> 100, near |-> 50, off |-> 0, gone |-> 0]
Closeness == [same |-> 90, near |-> 60, off |-> 25, none |-> 0]
Fitting == {"same", "near"}
FromEntries == {"approved", "written"}

\* confidenceThreshold of a tenant and the floor for vectors, in hundredths.
Threshold == 18
Floor == 40

Nothing == [e \in Entries |-> 0]
Waits == [at |-> "idle", kind |-> "plain", rejected |-> FALSE, words |-> Nothing,
          meaning |-> Nothing, searched |-> {}, result |-> "none",
          steady |-> {}, crowded |-> FALSE, matched |-> {}]

AnswerInit ==
    /\ mode \in {"off", "fallback", "required"}
    /\ entry \in [Entries -> {[words |-> w, vector |-> "none"] : w \in {"gone", "same", "near", "off"}}]
    /\ question = [q \in Inquiries |-> Waits]
    /\ handoffs = [q \in Inquiries |-> 0]
    /\ changes = 0

Approved == {e \in Entries : entry[e].words # "gone"}
Fits(r) == r.words \in Fitting \/ r.vector \in Fitting

\* The policy: length and blocked topics are the only refusals before a search.
Passes(kind) == kind = "plain"

Move(q, at) == question' = [question EXCEPT ![q].at = at]
Finish(q, result) == question' = [question EXCEPT ![q].at = "done", ![q].result = result]

ReceiveQuestion(q, kind) ==
    /\ question[q].at = "idle"
    /\ question' = [question EXCEPT ![q] = [Waits EXCEPT
           !.at = IF mode = "off" THEN "local" ELSE "screen", !.kind = kind,
           !.steady = {<<e, entry[e].words>> : e \in {f \in Approved : entry[f].words \in Fitting}},
           !.crowded = Cardinality(Approved) > RowLimit,
           !.matched = {e \in Approved : Fits(entry[e])}]]
    /\ UNCHANGED <<mode, entry, handoffs, changes>>

\* policyPreflight before OneBrain is asked: a refusal ends the exchange.
Screen(q) ==
    /\ question[q].at = "screen"
    /\ Move(q, IF Passes(question[q].kind) THEN "ask" ELSE "refuse")
    /\ UNCHANGED <<mode, entry, handoffs, changes>>

\* OneBrain's reply counts when it is not empty, not too long and has evidence;
\* otherwise, and on an error, the entries are asked unless OneBrain is required.
AskOneBrain(q, reply) ==
    /\ question[q].at = "ask"
    /\ CASE reply = "good" -> Finish(q, "onebrain")
         [] reply # "good" /\ mode = "required" -> Finish(q, "unavailable")
         [] OTHER -> question' = [question EXCEPT ![q].at = "local",
                                                  ![q].rejected = reply = "unusable"]
    /\ UNCHANGED <<mode, entry, handoffs, changes>>

ScreenLocally(q) ==
    /\ question[q].at = "local"
    /\ question' = [question EXCEPT
           ![q].at = IF Passes(question[q].kind) THEN "search" ELSE "refuse",
           ![q].searched = {}]
    /\ UNCHANGED <<mode, entry, handoffs, changes>>

\* searchKnowledge: entries with every word of the question, or, when there are none,
\* some RowLimit of all entries.
RowsRead(rows) ==
    LET full == {e \in Approved : entry[e].words = "same"}
        from == IF full # {} THEN full ELSE Approved IN
    /\ rows \subseteq from
    /\ Cardinality(rows) = IF Cardinality(from) < RowLimit THEN Cardinality(from) ELSE RowLimit

SearchWords(q, rows) ==
    /\ question[q].at = "search" /\ "words" \notin question[q].searched
    /\ RowsRead(rows)
    /\ question' = [question EXCEPT ![q].searched = @ \cup {"words"},
           ![q].words = [e \in Entries |-> IF e \in rows THEN Overlap[entry[e].words] ELSE 0]]
    /\ UNCHANGED <<mode, entry, handoffs, changes>>

\* semanticSearch: vectors at or above the floor, nothing when the embedder or the
\* search fails.
SearchMeaning(q, works) ==
    LET near == {e \in Approved : Closeness[entry[e].vector] >= Floor} IN
    /\ question[q].at = "search" /\ "meaning" \notin question[q].searched
    /\ question' = [question EXCEPT ![q].searched = @ \cup {"meaning"},
           ![q].meaning = [e \in Entries |-> IF works /\ e \in near
                                             THEN Closeness[entry[e].vector] ELSE 0]]
    /\ UNCHANGED <<mode, entry, handoffs, changes>>

\* mergeRankedChunks: the stronger signal counts.
Scores(x) == [e \in Entries |-> IF x.words[e] >= x.meaning[e] THEN x.words[e] ELSE x.meaning[e]]

Decide(q) ==
    /\ question[q].at = "search" /\ question[q].searched = {"words", "meaning"}
    /\ IF \E e \in Entries : Scores(question[q])[e] >= Threshold
       THEN Move(q, "write") ELSE Move(q, "refuse")
    /\ UNCHANGED <<mode, entry, handoffs, changes>>

\* generateGroundedAnswer: what the generator writes; the approved text when it is
\* left out, says it does not know, writes too much or fails.
Write(q, result) ==
    /\ question[q].at = "write" /\ result \in FromEntries
    /\ Finish(q, result)
    /\ UNCHANGED <<mode, entry, handoffs, changes>>

\* An error of the local answer ends the request, also the one that stands in for a
\* rejected reply: its promise is returned, not awaited, so no handler sees it.
AwaitedReject(x) ==
    IF x.rejected THEN [x EXCEPT !.at = "local", !.rejected = FALSE] ELSE [x EXCEPT !.at = "failed"]
AfterError(x) == [x EXCEPT !.at = "failed"]

\* refuse: the handoff request is stored, or the call fails before or after it is.
Refuse(q, stored, reported) ==
    /\ question[q].at = "refuse"
    /\ reported => stored
    /\ handoffs' = [handoffs EXCEPT ![q] = IF stored THEN @ + 1 ELSE @]
    /\ IF reported THEN Finish(q, "handoff")
       ELSE question' = [question EXCEPT ![q] = AfterError(@)]
    /\ UNCHANGED <<mode, entry, changes>>

\* The embedder, a search or the policy's read fails outright.
LookupFails(q) ==
    /\ question[q].at \in {"screen", "local", "search"}
    /\ question' = [question EXCEPT ![q] = IF @.at = "screen" THEN [@ EXCEPT !.at = "failed"]
                                           ELSE AfterError(@)]
    /\ UNCHANGED <<mode, entry, handoffs, changes>>

\* Each exchange remembers what stayed, how many rows there were, what matched.
Watch(e, row, size) ==
    question' = [q \in Inquiries |->
        IF question[q].at \in {"idle", "done", "failed"} THEN question[q]
        ELSE [question[q] EXCEPT
               !.steady = IF row.words = entry[e].words THEN @ ELSE @ \ {<<e, entry[e].words>>},
               !.crowded = @ \/ size > RowLimit,
               !.matched = IF Fits(row) THEN @ \cup {e} ELSE @]]

Change(e, row) ==
    /\ changes < MaxChanges /\ row # entry[e]
    /\ entry' = [entry EXCEPT ![e] = row]
    /\ Watch(e, row, Cardinality({f \in Entries : entry'[f].words # "gone"}))
    /\ changes' = changes + 1
    /\ UNCHANGED <<mode, handoffs>>

AddEntry(e, w) ==
    entry[e].words = "gone" /\ Change(e, [words |-> w, vector |-> "none"])

\* updateFaq keeps the vector of the words it replaces.
UpdateEntry(e, w) ==
    entry[e].words # "gone" /\ Change(e, [entry[e] EXCEPT !.words = w])

RemoveEntry(e) ==
    entry[e].words # "gone" /\ Change(e, [words |-> "gone", vector |-> "none"])

\* setChunkEmbedding of the words as they are.
EmbedEntry(e) ==
    entry[e].words # "gone" /\ Change(e, [entry[e] EXCEPT !.vector = entry[e].words])

AnswerNext ==
    \/ \E q \in Inquiries :
        \/ \E kind \in {"plain", "blocked", "long"} : ReceiveQuestion(q, kind)
        \/ Screen(q) \/ ScreenLocally(q) \/ Decide(q) \/ LookupFails(q)
        \/ \E result \in FromEntries : Write(q, result)
        \/ \E reply \in {"good", "unusable", "error"} : AskOneBrain(q, reply)
        \/ \E rows \in SUBSET Entries : SearchWords(q, rows)
        \/ \E works \in BOOLEAN : SearchMeaning(q, works)
        \/ \E stored, reported \in BOOLEAN : Refuse(q, stored, reported)
    \/ \E e \in Entries :
        \/ \E w \in {"same", "near", "off"} : AddEntry(e, w) \/ UpdateEntry(e, w)
        \/ RemoveEntry(e) \/ EmbedEntry(e)

AnswerSpec == AnswerInit /\ [][AnswerNext]_answerVars

-----------------------------------------------------------------------------
\* engine.ts:118-266, repository.ts:3951-3997: a question the policy lets through is
\* answered when an entry that stayed unchanged throughout has all its words, or
\* some of them while the tenant has no more rows than one search ranks; whatever
\* the embedder, the generator and OneBrain do and whichever entries change.  Only
\* a required OneBrain that is out leaves it to people.
KnownIsAnswered ==
    \A q \in Inquiries : LET x == question[q] IN
        (/\ x.at = "done" /\ x.kind = "plain" /\ x.result # "unavailable"
         /\ \E kept \in x.steady : kept[2] = "same" \/ ~x.crowded)
        => x.result \in FromEntries \cup {"onebrain"}

\* engine.ts:404-442: a question is answered from the entries only if during the
\* exchange some entry shared words with it or had a vector that fits, whatever
\* similarity unrelated text reaches.
UnknownIsRefused ==
    \A q \in Inquiries : question[q].result \in FromEntries => question[q].matched # {}

\* engine.ts:456-500, onebrain-runtime.ts:88-163: although the policy is applied
\* before OneBrain and again before the entries, and either may fail with the
\* request already stored, a question leaves at most one handoff request; it has
\* one when it was told of a handoff and none when it was answered.
OneHandoffPerQuestion ==
    \A q \in Inquiries :
        /\ handoffs[q] <= 1
        /\ question[q].result = "handoff" => handoffs[q] = 1
        /\ question[q].result \in FromEntries \cup {"onebrain", "unavailable"} => handoffs[q] = 0

\* Every question comes to the end it deserves: answered when the entries know,
\* refused when they do not, and left to people once.
QuestionsAreSettled == KnownIsAnswered /\ UnknownIsRefused /\ OneHandoffPerQuestion
=============================================================================
