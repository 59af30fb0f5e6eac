--------------------------- MODULE ContactErasure ---------------------------
(***************************************************************************)
(* What is kept of a customer: conversations linked to the contact, and    *)
(* the rows that refer to a conversation.  Retention prunes conversations  *)
(* by age, erasure (GDPR Art. 17) removes a contact with everything linked,*)
(* and a legal hold is to stop both.                                       *)
(*                                                                         *)
(* A pruned conversation takes its messages and links along; deliveries,   *)
(* handoffs and calls keep the row and lose the reference, a suggestion has*)
(* no foreign key and keeps a reference to nothing.  Both jobs check the   *)
(* hold in an earlier statement than they delete.                          *)
(***************************************************************************)
EXTENDS Naturals, FiniteSets

CONSTANTS
    Talks           \* conversations of the contact

VARIABLES
    contactRow,     \* contacts: "live" or "erased"
    talk,           \* conversations: none, young or old (past the window), gone
    traces,         \* the rows that refer to a conversation
    hold,           \* tenants.legalHoldAt
    eraser,         \* deleteContact
    pruner,         \* retention.cleanup
    happened        \* what may leave traces behind

erasureVars == <<contactRow, talk, traces, hold, eraser, pruner, happened>>

Kinds == {"delivery", "handoff", "call", "suggestion"}
Nulled == {"delivery", "handoff", "call"}      \* ON DELETE SET NULL
There(t) == talk[t] \in {"young", "old"}
Present(t) == {k \in Kinds : traces[t][k] # "none"}

ErasureInit ==
    /\ contactRow = "live"
    /\ talk = [t \in Talks |-> "none"]
    /\ traces = [t \in Talks |-> [k \in Kinds |-> "none"]]
    /\ hold = FALSE
    /\ eraser = [at |-> "idle", found |-> {}]
    /\ pruner = [at |-> "idle"]
    /\ happened = {}

-----------------------------------------------------------------------------
\* A conversation is created and linked.  The erasure's delete locks the contact
\* row, so that a link waits for it and then fails.
Converse(t) ==
    /\ talk[t] = "none" /\ contactRow = "live"
    /\ eraser.at \notin {"rows", "talks"}
    /\ talk' = [talk EXCEPT ![t] = "young"]
    /\ UNCHANGED <<contactRow, traces, hold, eraser, pruner, happened>>

\* A reply, a handoff or a call adds a row; a scan of the handoffs may add its
\* suggestion when the conversation is gone.
AddTrace(t, k) ==
    /\ traces[t][k] = "none" /\ talk[t] # "none"
    /\ There(t) \/ k \notin Nulled
    /\ traces' = [traces EXCEPT ![t][k] = "ref"]
    /\ happened' = IF ~There(t) \/ eraser.at = "talks" THEN happened \cup {"raced"} ELSE happened
    /\ UNCHANGED <<contactRow, talk, hold, eraser, pruner>>

GrowOld(t) ==
    /\ talk[t] = "young"
    /\ talk' = [talk EXCEPT ![t] = "old"]
    /\ UNCHANGED <<contactRow, traces, hold, eraser, pruner, happened>>

ChangeHold ==
    /\ hold' = ~hold
    /\ UNCHANGED <<contactRow, talk, traces, eraser, pruner, happened>>

\* ON DELETE SET NULL of the rows of the deleted conversations.
Loosen(gone) ==
    [t \in Talks |-> [k \in Kinds |->
        IF t \in gone /\ k \in Nulled /\ traces[t][k] = "ref" THEN "loose" ELSE traces[t][k]]]

-----------------------------------------------------------------------------
\* deleteTenantDataOlderThanRetention
CheckRetention ==
    /\ pruner.at = "idle" /\ ~hold
    /\ pruner' = [at |-> "prune"]
    /\ UNCHANGED <<contactRow, talk, traces, hold, eraser, happened>>

PruneTalks ==
    LET gone == {t \in Talks : talk[t] = "old"} IN
    /\ pruner.at = "prune"
    /\ talk' = [t \in Talks |-> IF t \in gone THEN "gone" ELSE talk[t]]
    /\ traces' = Loosen(gone)
    /\ pruner' = [pruner EXCEPT !.at = "calls"]
    /\ happened' = IF \E t \in gone : Present(t) # {} THEN happened \cup {"pruned"} ELSE happened
    /\ UNCHANGED <<contactRow, hold, eraser>>

\* Calls go by their own age, with their transcripts.
PruneCalls ==
    /\ pruner.at = "calls"
    /\ traces' \in {traces, [t \in Talks |-> [traces[t] EXCEPT !["call"] =
                                IF talk[t] \in {"old", "gone"} THEN "none" ELSE @]]}
    /\ pruner' = [pruner EXCEPT !.at = "idle"]
    /\ UNCHANGED <<contactRow, talk, hold, eraser, happened>>

-----------------------------------------------------------------------------
\* deleteContact
CheckErasable ==
    /\ eraser.at = "idle" /\ ~hold /\ contactRow = "live"
    /\ eraser' = [eraser EXCEPT !.at = "links"]
    /\ UNCHANGED <<contactRow, talk, traces, hold, pruner, happened>>

Linked == {t \in Talks : There(t)}

FindLinks ==
    /\ eraser.at = "links"
    /\ eraser' = [eraser EXCEPT !.at = "contact", !.found = Linked]
    /\ UNCHANGED <<contactRow, talk, traces, hold, pruner, happened>>

\* A conversation linked after the links were read is not erased with the contact.
DeleteRow ==
    /\ eraser.at = "contact"
    /\ eraser' = [eraser EXCEPT !.at = "rows"]
    /\ happened' = IF Linked \ eraser.found # {} THEN happened \cup {"raced"} ELSE happened
    /\ UNCHANGED <<contactRow, talk, traces, hold, pruner>>

\* The rows are deleted while they refer to the conversation.
ReachedCalls(found, k) == IF k = "call" THEN {t \in found : traces[t][k] = "ref"} ELSE {}
Reached(found, k) == {t \in found : traces[t][k] = "ref"}

DeleteTraces ==
    /\ eraser.at = "rows"
    /\ traces' = [t \in Talks |-> [k \in Kinds |->
                     IF t \in Reached(eraser.found, k) THEN "none" ELSE traces[t][k]]]
    /\ eraser' = [eraser EXCEPT !.at = "talks"]
    /\ UNCHANGED <<contactRow, talk, hold, pruner, happened>>

DeleteTalks ==
    /\ eraser.at = "talks"
    /\ contactRow' = "erased"
    /\ talk' = [t \in Talks |-> IF t \in eraser.found /\ There(t) THEN "gone" ELSE talk[t]]
    /\ traces' = Loosen(eraser.found)
    /\ eraser' = [eraser EXCEPT !.at = "idle", !.found = {}]
    /\ UNCHANGED <<hold, pruner, happened>>

ErasureNext ==
    \/ \E t \in Talks : Converse(t) \/ GrowOld(t) \/ \E k \in Kinds : AddTrace(t, k)
    \/ ChangeHold \/ CheckRetention \/ PruneTalks \/ PruneCalls
    \/ CheckErasable \/ FindLinks \/ DeleteRow \/ DeleteTraces \/ DeleteTalks

ErasureSpec == ErasureInit /\ [][ErasureNext]_erasureVars

-----------------------------------------------------------------------------
\* repository.ts:6509-6512: nothing survives an erasure that carries the
\* customer's recipient id, message or question.  Excepted are rows added while
\* the erasure runs, and those of conversations retention pruned before it.
ErasedLeavesNothing ==
    contactRow = "erased" /\ happened = {} => \A t \in Talks : Present(t) = {} /\ ~There(t)
=============================================================================
