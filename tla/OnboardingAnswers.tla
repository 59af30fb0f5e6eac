-------------------------- MODULE OnboardingAnswers --------------------------
(***************************************************************************)
(* One question of a tenant's onboarding: its answer is saved as a draft   *)
(* or published as an approved entry, which administrators edit and delete *)
(* like any other.  The upsert locks the answer's row for its transaction, *)
(* and a delete must update that row, so the two do not interleave.        *)
(***************************************************************************)
EXTENDS Naturals

CONSTANTS
    Answers,       \* texts of an answer
    Saves          \* how often the answer is saved; entry k is made by save k

VARIABLES
    row,           \* the brain_onboarding_answers row
    entries,       \* the entries published for it: id, text, edited by hand
    saved          \* how often it was saved

onboardingVars == <<row, entries, saved>>

OnboardingInit ==
    /\ row = [status |-> "none", text |-> "none", chunk |-> 0]
    /\ entries = {}
    /\ saved = 0

\* publishOnboardingAnswer rewrites the entry the row is linked to and makes a
\* new one when there is no link or the entry is gone.
LinkedTo(e) == e.id = row.chunk
AnswerLinked == {e \in entries : LinkedTo(e)}

Entry(id, text) == [id |-> id, text |-> text, edited |-> FALSE]

PublishAnew(text) ==
    /\ entries' = entries \cup {Entry(saved', text)}
    /\ row' = [status |-> "approved", text |-> text, chunk |-> saved']

Publish(text) ==
    IF AnswerLinked # {}
    THEN /\ entries' = (entries \ AnswerLinked) \cup {Entry(row.chunk, text)}
         /\ row' = [row EXCEPT !.status = "approved", !.text = text]
    ELSE PublishAnew(text)

\* upsertBrainOnboardingAnswers saves the answer, and publishes it when it is
\* approved or the request says so.
SaveDraft(text) ==
    /\ saved < Saves
    /\ saved' = saved + 1
    /\ row' = [row EXCEPT !.status = "draft", !.text = text]
    /\ UNCHANGED entries

SaveApproved(text) ==
    /\ saved < Saves
    /\ saved' = saved + 1
    /\ Publish(text)

EditEntry(e, text) ==
    /\ entries' = (entries \ {e}) \cup {[e EXCEPT !.text = text, !.edited = TRUE]}
    /\ UNCHANGED <<row, saved>>

\* The foreign key takes the link with the entry.
DeleteLinked(e) ==
    /\ entries' = entries \ {e}
    /\ row' = IF LinkedTo(e) THEN [row EXCEPT !.chunk = 0] ELSE row
    /\ UNCHANGED saved

OnboardingNext ==
    \/ \E text \in Answers : SaveDraft(text) \/ SaveApproved(text)
    \/ \E e \in entries : DeleteLinked(e) \/ \E text \in Answers : EditEntry(e, text)

OnboardingSpec == OnboardingInit /\ [][OnboardingNext]_onboardingVars

-----------------------------------------------------------------------------
\* However an answer is saved, published, edited and deleted, the assistant
\* knows at most one entry for its question, and an approved answer's entry
\* says what was saved until somebody edits it.
OneEntryPerAnswer ==
    \A e \in entries :
        /\ \A f \in entries : e = f
        /\ row.status = "approved" /\ ~e.edited => e.text = row.text
=============================================================================
