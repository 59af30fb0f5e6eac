---------------------------- MODULE HandoffDesk ----------------------------
(***************************************************************************)
(* Operators work on one handoff: they set its status and add notes, and   *)
(* the answer given while resolving it is offered to the review queue.     *)
(* updateHandoff is one transaction: it reads the row, updates it (which   *)
(* takes the row lock), and looks for an earlier suggestion of the handoff.*)
(* An error of that last part is caught, but a failed statement aborts the *)
(* transaction, which then rolls back at its commit without an error.      *)
(***************************************************************************)
EXTENDS Naturals, FiniteSets

CONSTANTS Updates           \* PATCH .../handoffs/:handoffId requests

VARIABLES
    handoffRow,     \* handoff_requests: its status, notes and a version
    update,         \* the requests
    replies,        \* human_reply suggestions of the handoff
    mishap          \* requests that wrote from a stale read, or were rolled back

handoffVars == <<handoffRow, update, replies, mishap>>

IdleUpdate == [at |-> "idle", resolves |-> FALSE, notes |-> FALSE, answers |-> FALSE,
               read |-> [status |-> "open", notes |-> {}, version |-> 0], new |-> FALSE]

HandoffInit ==
    /\ handoffRow = [status |-> "open", notes |-> {}, version |-> 0]
    /\ update = [u \in Updates |-> IdleUpdate]
    /\ replies = {}
    /\ mishap = {}

Holding(u) == update[u].at \in {"locked", "looked", "aborted"}

-----------------------------------------------------------------------------
BeginUpdate(u, resolves, notes, answers) ==
    /\ update[u].at = "idle"
    /\ update' = [update EXCEPT ![u] = [at |-> "read", resolves |-> resolves, notes |-> notes,
                                        answers |-> answers, read |-> handoffRow, new |-> FALSE]]
    /\ UNCHANGED <<handoffRow, replies, mishap>>

\* The UPDATE waits for the row lock, and sets what was read before it.
LockRow(u) ==
    /\ update[u].at = "read" /\ \A o \in Updates : ~Holding(o)
    /\ update' = [update EXCEPT ![u].at = "locked"]
    /\ mishap' = IF update[u].notes /\ update[u].read.version # handoffRow.version
                 THEN mishap \cup {u} ELSE mishap
    /\ UNCHANGED <<handoffRow, replies>>

OnlyNote(u) == {u}
NotesOf(u) == update[u].read.notes \cup {u}
StatusOf(u) == IF update[u].resolves THEN "resolved" ELSE handoffRow.status
Updated(u) == [status |-> StatusOf(u),
               notes |-> IF update[u].notes THEN NotesOf(u) ELSE handoffRow.notes,
               version |-> handoffRow.version + 1]

\* captureHumanReplyFromHandoff: at most one suggestion for a handoff.
Learns(u) == StatusOf(u) = "resolved" /\ (update[u].answers \/ update[u].notes)
Unlearned == replies = {}

LookForReply(u) ==
    /\ update[u].at = "locked"
    /\ update' = [update EXCEPT ![u].at = "looked", ![u].new = Learns(u) /\ Unlearned]
    /\ UNCHANGED <<handoffRow, replies, mishap>>

FailCapture(u) ==
    /\ update[u].at \in {"locked", "looked"} /\ Learns(u)
    /\ update' = [update EXCEPT ![u].at = "aborted"]
    /\ mishap' = mishap \cup {u}
    /\ UNCHANGED <<handoffRow, replies>>

CommitUpdate(u) ==
    /\ update[u].at = "looked"
    /\ handoffRow' = Updated(u)
    /\ replies' = IF update[u].new THEN replies \cup {u} ELSE replies
    /\ update' = [update EXCEPT ![u].at = "acknowledged"]
    /\ UNCHANGED mishap

RollBack(u) ==
    /\ update[u].at = "aborted"
    /\ update' = [update EXCEPT ![u].at = "acknowledged"]
    /\ UNCHANGED <<handoffRow, replies, mishap>>

HandoffNext ==
    \E u \in Updates :
        \/ LockRow(u) \/ LookForReply(u) \/ FailCapture(u) \/ CommitUpdate(u) \/ RollBack(u)
        \/ \E resolves, notes, answers \in BOOLEAN : BeginUpdate(u, resolves, notes, answers)

HandoffSpec == HandoffInit /\ [][HandoffNext]_handoffVars

-----------------------------------------------------------------------------
\* An acknowledged update lasts: its note stays on the handoff and a resolution
\* stays, unless some update wrote notes from a stale read, or its capture failed
\* and took the transaction along (which "must never break resolving the
\* handoff", repository.ts:5303).
UpdatesLast ==
    \A u \in Updates : update[u].at = "acknowledged" /\ u \notin mishap =>
        /\ update[u].resolves => handoffRow.status = "resolved"
        /\ update[u].notes /\ mishap = {} => u \in handoffRow.notes

\* "Deduped per handoff": the suggestion is looked for under the row lock, so
\* that overlapping resolutions make one.
HumanReplyOnce == Cardinality(replies) <= 1

\* Overlapping updates of a handoff keep what each was acknowledged for and
\* teach the assistant one reply.
UpdatesHold == UpdatesLast /\ HumanReplyOnce
=============================================================================
