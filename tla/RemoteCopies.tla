---------------------------- MODULE RemoteCopies ----------------------------
(***************************************************************************)
(* A tenant's approved knowledge is copied to OneBrain by the sync job,    *)
(* and when the tenant is erased the copies have to go as well: the erasure*)
(* lists them in an outbox that outlives the tenant, and the drain job     *)
(* deletes them remotely.  One tenant, its items and their copies.         *)
(*                                                                         *)
(* A content hash is the version of the item's content.  An intake         *)
(* replaces the copy with the same source_ref, a delete of an absent copy  *)
(* succeeds, and a call that fails may have been carried out all the same  *)
(* (a timeout).  The erasure is one transaction of three statements under  *)
(* READ COMMITTED: its legal hold check is in TombstoneFeed, its capture   *)
(* and its delete are two actions here, and others commit in between.      *)
(***************************************************************************)
EXTENDS Naturals

CONSTANTS Items,        \* knowledge chunks of the tenant
          NoCopy,       \* no copy in OneBrain
          Syncs,        \* onebrain.sync jobs that can overlap
          Erasures,     \* calls of deleteTenantData that can overlap
          Drains,       \* onebrain.delete-drain jobs that can overlap
          MaxAttempts,  \* DEFAULT_MAX_ATTEMPTS
          MaxEdits,     \* bound on edits of one item
          MaxFaults     \* bound on crashes and rejected database calls

ASSUME CopiesAssumption == /\ NoCopy \notin Nat
                           /\ MaxAttempts \in Nat \ {0}
                           /\ MaxEdits \in Nat
                           /\ MaxFaults \in Nat

VARIABLES
  tenant,   \* "live" or "erased"
  content,  \* knowledge_chunks: the version of each item
  record,   \* onebrain_sync_records
  remote,   \* OneBrain: the version of each copy
  sync,     \* the sync jobs' local state
  erasure,  \* the erasures' local state, with the rows they have inserted
  outbox,   \* onebrain_delete_outbox, a row per item and erasure
  drain,    \* the drain jobs' local state
  raced,    \* observed: items a sync held during an erasure
  faults    \* bound

vars == <<tenant, content, record, remote, sync, erasure, outbox, drain, raced, faults>>

Versions == 0 .. MaxEdits
Jobs     == Items \X Versions          \* an item as it was listed
Rows     == Items \X Erasures
Records  == [status : {"none", "synced", "failed"}, ref : BOOLEAN, hash : Versions]
NoRecord == [status |-> "none", ref |-> FALSE, hash |-> 0]
NoRow    == [status |-> "none", attempts |-> 0]
IdleSync    == [at |-> "next", todo |-> {}, hand |-> {}]
IdleErasure == [at |-> "idle", captured |-> {}]
IdleDrain   == [at |-> "next", todo |-> {}, hand |-> {}]

Init ==
  /\ tenant = "live"
  /\ content = [i \in Items |-> 0]
  /\ record = [i \in Items |-> NoRecord]
  /\ remote = [i \in Items |-> NoCopy]
  /\ sync = [s \in Syncs |-> IdleSync]
  /\ erasure = [e \in Erasures |-> IdleErasure]
  /\ outbox = [k \in Rows |-> NoRow]
  /\ drain = [d \in Drains |-> IdleDrain]
  /\ raced = {}
  /\ faults = 0

\* updateFaq and publishOnboardingAnswer; each of them sets updated_at, which the
\* hash covers, so no version comes back.
Edit(i) ==
  /\ tenant = "live"
  /\ content[i] < MaxEdits
  /\ content' = [content EXCEPT ![i] = @ + 1]
  /\ UNCHANGED <<tenant, record, remote, sync, erasure, outbox, drain, raced, faults>>
-----------------------------------------------------------------------------
(* syncApprovedKnowledgeToOneBrain. *)

ItemsHeld(s) == {job[1] : job \in sync[s].todo \cup sync[s].hand}
Erasing == \E e \in Erasures : erasure[e].at = "delete"

\* listTenants and listKnowledge; some of the items are beyond the limit.  An
\* erased tenant lists nothing.
List(s) ==
  /\ tenant = "live"
  /\ sync[s] = IdleSync
  /\ \E some \in SUBSET Items :
       /\ some # {}
       /\ sync' = [sync EXCEPT ![s].todo = {<<i, content[i]>> : i \in some}]
       /\ raced' = IF Erasing THEN raced \cup some ELSE raced
  /\ UNCHANGED <<tenant, content, record, remote, erasure, outbox, drain, faults>>

\* The next item; it is skipped when its record is synced with this hash.
UpToDate(i, v) == record[i].status = "synced" /\ record[i].hash = v

Take(s, i, v) ==
  /\ sync[s].at = "next"
  /\ <<i, v>> \in sync[s].todo
  /\ sync' = [sync EXCEPT ![s] =
       [at   |-> IF UpToDate(i, v) THEN "next" ELSE "intake",
        todo |-> @.todo \ {<<i, v>>},
        hand |-> IF UpToDate(i, v) THEN {} ELSE {<<i, v>>}]]
  /\ UNCHANGED <<tenant, content, record, remote, erasure, outbox, drain, raced, faults>>

\* provider.intake: accepted, rejected, or accepted without an answer in time.
Intake(s, i, v) ==
  /\ sync[s].at = "intake"
  /\ sync[s].hand = {<<i, v>>}
  /\ \/ /\ remote' = [remote EXCEPT ![i] = v]
        /\ \E answer \in {"record", "fail"} : sync' = [sync EXCEPT ![s].at = answer]
     \/ /\ sync' = [sync EXCEPT ![s].at = "fail"]
        /\ UNCHANGED remote
  /\ UNCHANGED <<tenant, content, record, erasure, outbox, drain, raced, faults>>

HashAsOfNow(i, v) == content[i]
HashSent(i, v) == v

\* recordOneBrainSyncSuccess; the foreign key rejects it for an erased tenant,
\* and any rejection goes to the catch block.
RecordSuccess(s, i, v) ==
  /\ sync[s].at = "record"
  /\ sync[s].hand = {<<i, v>>}
  /\ IF tenant = "live"
     THEN /\ record' = [record EXCEPT ![i] =
               [status |-> "synced", ref |-> TRUE, hash |-> HashSent(i, v)]]
          /\ sync' = [sync EXCEPT ![s].at = "next", ![s].hand = {}]
     ELSE /\ sync' = [sync EXCEPT ![s].at = "fail"]
          /\ UNCHANGED record
  /\ UNCHANGED <<tenant, content, remote, erasure, outbox, drain, raced, faults>>

\* recordOneBrainSyncFailure keeps the external id, and the error is thrown
\* again: the run ends here.
RecordFailure(s, i, v) ==
  /\ sync[s].at = "fail"
  /\ sync[s].hand = {<<i, v>>}
  /\ record' = IF tenant = "live"
               THEN [record EXCEPT ![i] = [status |-> "failed", ref |-> @.ref, hash |-> v]]
               ELSE record
  /\ sync' = [sync EXCEPT ![s] = IdleSync]
  /\ UNCHANGED <<tenant, content, remote, erasure, outbox, drain, raced, faults>>
-----------------------------------------------------------------------------
(* deleteTenantData. *)

\* Records with status 'synced' or a retained external id.
OnlySynced(i) == record[i].status = "synced"
HasCopy(i) == record[i].status = "synced" \/ record[i].ref

\* captureOneBrainDeletesForTenantRow.
Capture(e) ==
  /\ tenant = "live"
  /\ erasure[e] = IdleErasure
  /\ erasure' = [erasure EXCEPT ![e] =
       [at |-> "delete", captured |-> {i \in Items : HasCopy(i)}]]
  /\ raced' = raced \cup UNION {ItemsHeld(s) : s \in Syncs}
  /\ UNCHANGED <<tenant, content, record, remote, sync, outbox, drain, faults>>

\* DELETE FROM tenants, which cascades to the sync records, and COMMIT.  The
\* second of two erasures deletes no row, and its outbox rows are committed too.
Delete(e) ==
  /\ erasure[e].at = "delete"
  /\ tenant' = "erased"
  /\ record' = [i \in Items |-> NoRecord]
  /\ outbox' = [k \in Rows |->
       IF k[2] = e /\ k[1] \in erasure[e].captured
       THEN [status |-> "pending", attempts |-> 0]
       ELSE outbox[k]]
  /\ erasure' = [erasure EXCEPT ![e] = IdleErasure]
  /\ UNCHANGED <<content, remote, sync, drain, raced, faults>>
-----------------------------------------------------------------------------
(* processOneBrainDeleteOutbox. *)

Pending == {k \in Rows : outbox[k].status = "pending"}

\* The drain keeps the attempts it has listed.
ListPending(d) ==
  /\ drain[d] = IdleDrain
  /\ Pending # {}
  /\ drain' = [drain EXCEPT ![d].todo = {<<k, outbox[k].attempts>> : k \in Pending}]
  /\ UNCHANGED <<tenant, content, record, remote, sync, erasure, outbox, raced, faults>>

\* provider.deleteRecord of the next row.
DeleteCopy(d, row) ==
  /\ drain[d].at = "next"
  /\ row \in drain[d].todo
  /\ \/ /\ remote' = [remote EXCEPT ![row[1][1]] = NoCopy]
        /\ \E answer \in {"done", "failed"} :
             drain' = [drain EXCEPT ![d] =
               [at |-> answer, todo |-> @.todo \ {row}, hand |-> {row}]]
     \/ /\ drain' = [drain EXCEPT ![d] =
             [at |-> "failed", todo |-> @.todo \ {row}, hand |-> {row}]]
        /\ UNCHANGED remote
  /\ UNCHANGED <<tenant, content, record, sync, erasure, outbox, raced, faults>>

\* markOneBrainDeleteDone.
MarkDone(d, row) ==
  /\ drain[d].at = "done"
  /\ drain[d].hand = {row}
  /\ outbox' = [outbox EXCEPT ![row[1]].status = "done"]
  /\ drain' = [drain EXCEPT ![d].at = "next", ![d].hand = {}]
  /\ UNCHANGED <<tenant, content, record, remote, sync, erasure, raced, faults>>

Exhausted(attempts) == attempts + 1 >= MaxAttempts

NotCounted(row) == row.attempts
Counted(row) == row.attempts + 1

\* markOneBrainDeleteFailed: it counts in the row, but what it decides on is
\* the count that was listed.
MarkFailed(d, row) ==
  /\ drain[d].at = "failed"
  /\ drain[d].hand = {row}
  /\ outbox' = [outbox EXCEPT ![row[1]] =
       [status |-> IF Exhausted(row[2]) THEN "failed" ELSE "pending",
        attempts |-> Counted(@)]]
  /\ drain' = [drain EXCEPT ![d].at = "next", ![d].hand = {}]
  /\ UNCHANGED <<tenant, content, record, remote, sync, erasure, raced, faults>>
-----------------------------------------------------------------------------
(* Rejected database calls and crashes.  Inside a try block the catch runs. *)

Fault == faults < MaxFaults /\ faults' = faults + 1

ThrowInSync(s) ==
  /\ Fault
  /\ sync[s].at = "record"
  /\ sync' = [sync EXCEPT ![s].at = "fail"]
  /\ UNCHANGED <<tenant, content, record, remote, erasure, outbox, drain, raced>>

CrashSync(s) ==
  /\ Fault
  /\ sync[s] # IdleSync
  /\ sync' = [sync EXCEPT ![s] = IdleSync]
  /\ UNCHANGED <<tenant, content, record, remote, erasure, outbox, drain, raced>>

RollBack(e) ==
  /\ Fault
  /\ erasure[e].at = "delete"
  /\ erasure' = [erasure EXCEPT ![e] = IdleErasure]
  /\ UNCHANGED <<tenant, content, record, remote, sync, outbox, drain, raced>>

ThrowInDrain(d) ==
  /\ Fault
  /\ drain[d].at = "done"
  /\ drain' = [drain EXCEPT ![d].at = "failed"]
  /\ UNCHANGED <<tenant, content, record, remote, sync, erasure, outbox, raced>>

CrashDrain(d) ==
  /\ Fault
  /\ drain[d] # IdleDrain
  /\ drain' = [drain EXCEPT ![d] = IdleDrain]
  /\ UNCHANGED <<tenant, content, record, remote, sync, erasure, outbox, raced>>
-----------------------------------------------------------------------------
SyncStep(s) ==
  \E i \in Items, v \in Versions :
    \/ Take(s, i, v)
    \/ Intake(s, i, v)
    \/ RecordSuccess(s, i, v)
    \/ RecordFailure(s, i, v)

DrainStep(d) ==
  \E row \in drain[d].todo \cup drain[d].hand :
    \/ DeleteCopy(d, row)
    \/ MarkDone(d, row)
    \/ MarkFailed(d, row)

Next ==
  \/ \E i \in Items : Edit(i)
  \/ \E s \in Syncs : List(s) \/ SyncStep(s) \/ ThrowInSync(s) \/ CrashSync(s)
  \/ \E e \in Erasures : Capture(e) \/ Delete(e) \/ RollBack(e)
  \/ \E d \in Drains : ListPending(d) \/ DrainStep(d) \/ ThrowInDrain(d) \/ CrashDrain(d)

Spec == Init /\ [][Next]_vars

\* The scheduler starts drains for ever, and a drain that has started goes on.
Fairness == \A d \in Drains : WF_vars(ListPending(d)) /\ WF_vars(DrainStep(d))

FairSpec == Spec /\ Fairness
-----------------------------------------------------------------------------
JobSets  == SUBSET Jobs
ListedRows == SUBSET (Rows \X Nat)

TypeOK ==
  /\ tenant \in {"live", "erased"}
  /\ content \in [Items -> Versions]
  /\ record \in [Items -> Records]
  /\ remote \in [Items -> Versions \cup {NoCopy}]
  /\ sync \in [Syncs -> [at : {"next", "intake", "record", "fail"},
                         todo : JobSets, hand : JobSets]]
  /\ erasure \in [Erasures -> [at : {"idle", "delete"}, captured : SUBSET Items]]
  /\ outbox \in [Rows -> [status : {"none", "pending", "done", "failed"}, attempts : Nat]]
  /\ drain \in [Drains -> [at : {"next", "done", "failed"},
                           todo : ListedRows, hand : ListedRows]]
  /\ raced \subseteq Items
  /\ faults \in 0 .. MaxFaults

\* A record the next sync would skip tells the truth: unless a sync is working
\* on the item, OneBrain has the very version the record's hash claims.  No
\* timeout, failed write or crash leaves an outdated copy that no later sync
\* repairs.  (For syncs that do not overlap.)
SkippedIsCurrent ==
  \A i \in Items :
    /\ tenant = "live"
    /\ record[i].status = "synced"
    /\ record[i].hash = content[i]
    /\ \A s \in Syncs : i \notin {job[1] : job \in sync[s].hand}
    => remote[i] = content[i]

\* The platform has the copy of item i on a list of its own.
Tracked(i) ==
  \/ tenant = "live" /\ HasCopy(i)
  \/ \E e \in Erasures : outbox[<<i, e>>].status \in {"pending", "failed"}

\* A copy is not lost sight of while it exists: from the record of the sync it
\* gets into the outbox of the erasure, and leaves it when it is gone, however
\* erasures and drains overlap and fail.  Items a sync holds during the erasure
\* are excepted (see NeverLostSight).
KeptInSight ==
  [][\A i \in Items \ raced' :
       Tracked(i) /\ remote'[i] # NoCopy => Tracked(i)']_vars

\* A row is given up only after MaxAttempts attempts, although drains decide on
\* the count they listed.
GivenUpWasTried ==
  \A k \in Rows : outbox[k].status = "failed" => outbox[k].attempts >= MaxAttempts

\* Every row is settled, deleted or given up, although an overlapping drain may
\* put a row that was settled back to pending.
OutboxSettles == \A k \in Rows : <>[](outbox[k].status # "pending")

\* The doc of the capture: it is to list "every record that has (or had) a
\* remote copy".  A copy of an erased tenant that no running job will touch
\* any more is listed.
CopiesAreListed ==
  \A i \in Items :
    /\ tenant = "erased"
    /\ remote[i] # NoCopy
    /\ \A s \in Syncs : i \notin ItemsHeld(s)
    => Tracked(i)
-----------------------------------------------------------------------------
(* The inductive strengthening of KeptInSight and GivenUpWasTried. *)

\* Rows and their listed copies are the business of an erased tenant.
RowsAfterErasure ==
  /\ \A k \in Rows : outbox[k].status # "none" => tenant = "erased"
  /\ \A d \in Drains : \A row \in drain[d].todo \cup drain[d].hand :
       /\ outbox[row[1]].status # "none"
       /\ row[2] <= outbox[row[1]].attempts

\* A row is inserted once: an erasure that has rows is over.
InsertedOnce ==
  \A e \in Erasures : erasure[e].at = "delete" =>
    \A i \in Items : outbox[<<i, e>>].status = "none"

\* What a sync holds during an erasure, and after it, has raced with it.
RacesAreSeen ==
  Erasing \/ tenant = "erased" => \A s \in Syncs : ItemsHeld(s) \subseteq raced

\* An open erasure has captured what it is about to delete.
CaptureIsCurrent ==
  \A e \in Erasures : erasure[e].at = "delete" /\ tenant = "live" =>
    \A i \in Items \ raced : HasCopy(i) => i \in erasure[e].captured

SyncedHasRef == \A i \in Items : record[i].status = "synced" => record[i].ref

\* A delete that was confirmed is not undone by a late intake.
DoneIsGone ==
  \A d \in Drains : drain[d].at = "done" =>
    \A row \in drain[d].hand : row[1][1] \notin raced => remote[row[1][1]] = NoCopy

IInv ==
  /\ TypeOK
  /\ RowsAfterErasure
  /\ InsertedOnce
  /\ RacesAreSeen
  /\ CaptureIsCurrent
  /\ SyncedHasRef
  /\ DoneIsGone
  /\ GivenUpWasTried
=============================================================================
