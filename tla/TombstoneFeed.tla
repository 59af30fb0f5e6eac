---------------------------- MODULE TombstoneFeed ----------------------------
(***************************************************************************)
(* OneBrain publishes its erasures as a feed of tombstones; a job reads on *)
(* from a stored cursor, erases the tenant that owns the account (its slug)*)
(* and acknowledges.  Owners erase their tenant themselves as well, and a  *)
(* legal hold is to stop both.                                             *)
(*                                                                         *)
(* deleteTenantData checks the hold and deletes in one transaction under   *)
(* READ COMMITTED without a lock, so they are two actions.  What it does   *)
(* with the copies in OneBrain is in RemoteCopies.  Slugs are not renamed  *)
(* or reused here: the job's doc makes that a condition of its use.        *)
(***************************************************************************)
EXTENDS Naturals

CONSTANTS Tenants,       \* local tenants, each with its account
          Strangers,     \* accounts without a local tenant
          Consumers,     \* onebrain.tombstone-consume jobs that can overlap
          Owners,        \* DELETE /admin/tenants/:tenantId calls that can overlap
          EraseEnabled,  \* ONEBRAIN_TOMBSTONE_ERASE_ENABLED
          Ambiguous,     \* ONEBRAIN_ACCOUNT_ID maps every tenant to one account
          MaxSeq,        \* bound on tombstones published
          MaxFaults      \* bound on crashes and rejected calls

ASSUME FeedAssumption == /\ Tenants \cap Strangers = {}
                         /\ EraseEnabled \in BOOLEAN
                         /\ Ambiguous \in BOOLEAN
                         /\ MaxSeq \in Nat
                         /\ MaxFaults \in Nat

VARIABLES
  tenant,     \* tenants: live, held (legalHoldAt) or erased
  feed,       \* OneBrain: the tombstones it publishes, by seq
  published,  \* OneBrain: how many it has published
  acked,      \* OneBrain: the tombstones acknowledged
  cursor,     \* onebrain_tombstone_cursor
  run,        \* the consumers' local state
  owner,      \* the owners' calls: tenants past the check for a hold
  faults      \* bound

vars == <<tenant, feed, published, acked, cursor, run, owner, faults>>

Accounts   == Tenants \cup Strangers
Tombstones == [account : Accounts, type : {"account", "space"}]
Seqs       == 0 .. MaxSeq
Runs == [at : {"idle", "fetch", "next", "check", "delete", "ack"},
         since : Seqs, done : Seqs, upto : Seqs]
IdleRun == [at |-> "idle", since |-> 0, done |-> 0, upto |-> 0]

Init ==
  /\ tenant = [t \in Tenants |-> "live"]
  /\ feed \in [1 .. MaxSeq -> Tombstones]
  /\ published = 0
  /\ acked = {}
  /\ cursor = 0
  /\ run = [c \in Consumers |-> IdleRun]
  /\ owner = [o \in Owners |-> {}]
  /\ faults = 0

Publish ==
  /\ published < MaxSeq
  /\ published' = published + 1
  /\ UNCHANGED <<tenant, feed, acked, cursor, run, owner, faults>>

SetHold(t) ==
  /\ tenant[t] = "live"
  /\ tenant' = [tenant EXCEPT ![t] = "held"]
  /\ UNCHANGED <<feed, published, acked, cursor, run, owner, faults>>

ReleaseHold(t) ==
  /\ tenant[t] = "held"
  /\ tenant' = [tenant EXCEPT ![t] = "live"]
  /\ UNCHANGED <<feed, published, acked, cursor, run, owner, faults>>
-----------------------------------------------------------------------------
(* consumeTombstoneFeed. *)

Current(c) == feed[run[c].done + 1]

\* getTombstoneCursor.
Start(c) ==
  /\ run[c].at = "idle"
  /\ run' = [run EXCEPT ![c] = [at |-> "fetch", since |-> cursor, done |-> cursor, upto |-> cursor]]
  /\ UNCHANGED <<tenant, feed, published, acked, cursor, owner, faults>>

\* listTombstones: a page of what follows the cursor, possibly all of it.
Fetch(c) ==
  /\ run[c].at = "fetch"
  /\ \E upto \in IF published > run[c].since
                 THEN run[c].since + 1 .. published
                 ELSE {run[c].since} :
       run' = [run EXCEPT ![c].at = "next", ![c].upto = upto]
  /\ UNCHANGED <<tenant, feed, published, acked, cursor, owner, faults>>

\* Whether nothing is left to erase for the account here.
Gone(a) == a \in Tenants => tenant[a] = "erased"

\* Left to a person: an account of many tenants, a part of a tenant, or the
\* switch for erasing is off.
ForManualReview(tombstone) ==
  \/ Ambiguous
  \/ ~Gone(tombstone.account) /\ (tombstone.type # "account" \/ ~EraseEnabled)

\* resolveTenant, and the branch it leads to.
Resolve(c) ==
  /\ run[c].at = "next"
  /\ run[c].done < run[c].upto
  /\ \/ /\ ForManualReview(Current(c))
        /\ run' = [run EXCEPT ![c].done = @ + 1]
     \/ /\ ~ForManualReview(Current(c))
        /\ run' = [run EXCEPT ![c].at = IF Gone(Current(c).account) THEN "ack" ELSE "check"]
  /\ UNCHANGED <<tenant, feed, published, acked, cursor, owner, faults>>

\* deleteTenantData refuses a tenant on hold: the error ends the run.
Held(c) == tenant[Current(c).account] = "held"
AckAnyway(c) == [run[c] EXCEPT !.at = IF Held(c) THEN "ack" ELSE "delete"]
Checked(c) == IF Held(c) THEN IdleRun ELSE [run[c] EXCEPT !.at = "delete"]

CheckHold(c) ==
  /\ run[c].at = "check"
  /\ run' = [run EXCEPT ![c] = Checked(c)]
  /\ UNCHANGED <<tenant, feed, published, acked, cursor, owner, faults>>

\* DELETE FROM tenants, and COMMIT.
Delete(c) ==
  /\ run[c].at = "delete"
  /\ tenant' = [tenant EXCEPT ![Current(c).account] = "erased"]
  /\ run' = [run EXCEPT ![c].at = "ack"]
  /\ UNCHANGED <<feed, published, acked, cursor, owner, faults>>

\* ackTombstone; a call that fails may have been carried out (see Fail).
Ack(c) ==
  /\ run[c].at = "ack"
  /\ acked' = acked \cup {run[c].done + 1}
  /\ run' = [run EXCEPT ![c].at = "next", ![c].done = @ + 1]
  /\ UNCHANGED <<tenant, feed, published, cursor, owner, faults>>

\* setTombstoneCursor writes whatever the run has reached, also over a later
\* cursor of an overlapping run.
LatestKnown(c) == published
Reached(c) == run[c].upto

Finish(c) ==
  /\ run[c].at = "next"
  /\ run[c].done = run[c].upto
  /\ cursor' = IF run[c].upto # run[c].since THEN Reached(c) ELSE cursor
  /\ run' = [run EXCEPT ![c] = IdleRun]
  /\ UNCHANGED <<tenant, feed, published, acked, owner, faults>>

\* The process dies, or a call fails and the error ends the run; an ack or a
\* delete may have been carried out first.
Fail(c) ==
  /\ faults < MaxFaults
  /\ faults' = faults + 1
  /\ run[c].at # "idle"
  /\ run' = [run EXCEPT ![c] = IdleRun]
  /\ \/ UNCHANGED <<tenant, acked>>
     \/ /\ run[c].at = "ack"
        /\ acked' = acked \cup {run[c].done + 1}
        /\ UNCHANGED tenant
     \/ /\ run[c].at = "delete"
        /\ tenant' = [tenant EXCEPT ![Current(c).account] = "erased"]
        /\ UNCHANGED acked
  /\ UNCHANGED <<feed, published, cursor, owner>>
-----------------------------------------------------------------------------
(* DELETE /admin/tenants/:tenantId. *)

OwnerCheck(o, t) ==
  /\ owner[o] = {}
  /\ tenant[t] = "live"
  /\ owner' = [owner EXCEPT ![o] = {t}]
  /\ UNCHANGED <<tenant, feed, published, acked, cursor, run, faults>>

OwnerDelete(o, t) ==
  /\ t \in owner[o]
  /\ tenant' = [tenant EXCEPT ![t] = "erased"]
  /\ owner' = [owner EXCEPT ![o] = {}]
  /\ UNCHANGED <<feed, published, acked, cursor, run, faults>>
-----------------------------------------------------------------------------
Consume(c) ==
  \/ Start(c)
  \/ Fetch(c)
  \/ Resolve(c)
  \/ CheckHold(c)
  \/ Delete(c)
  \/ Ack(c)
  \/ Finish(c)

Next ==
  \/ Publish
  \/ \E t \in Tenants : SetHold(t) \/ ReleaseHold(t)
  \/ \E c \in Consumers : Consume(c) \/ Fail(c)
  \/ \E o \in Owners, t \in Tenants : OwnerCheck(o, t) \/ OwnerDelete(o, t)

Spec == Init /\ [][Next]_vars

\* The scheduler starts the job for ever, and a run that has started goes on.
FairSpec == Spec /\ \A c \in Consumers : WF_vars(Consume(c))
-----------------------------------------------------------------------------
TypeOK ==
  /\ tenant \in [Tenants -> {"live", "held", "erased"}]
  /\ feed \in [1 .. MaxSeq -> Tombstones]
  /\ published \in Seqs
  /\ acked \subseteq 1 .. MaxSeq
  /\ cursor \in Seqs
  /\ run \in [Consumers -> Runs]
  /\ owner \in [Owners -> SUBSET Tenants]
  /\ faults \in 0 .. MaxFaults

\* The erasure of a whole account, which is to be carried out automatically.
Automatic(n) == feed[n].type = "account" /\ EraseEnabled /\ ~Ambiguous

\* OneBrain is never told that an erasure was carried out when it was not: the
\* acknowledged account has no tenant here, whatever holds, failed calls,
\* crashes and overlapping runs do.
AckedIsErased == \A n \in acked : Gone(feed[n].account)

\* The cursor loses no erasure: what is at or before it, and will not be read
\* again, has been acknowledged or is for manual review, although overlapping
\* runs read it before and write it after each other.
CursorCovers == \A n \in 1 .. cursor : Automatic(n) => n \in acked

\* No erasure is acknowledged or passed by that was not carried out.
TombstonesCovered == AckedIsErased /\ CursorCovers

\* Once no tenant is on hold any more, every erasure published is carried out
\* and acknowledged: an aborted or crashed run is taken up again from the cursor.
FeedSettles ==
  <>[](\A t \in Tenants : tenant[t] # "held") =>
    \A n \in 1 .. MaxSeq : published >= n ~> (Automatic(n) => n \in acked)
-----------------------------------------------------------------------------
(* The inductive strengthening of AckedIsErased and CursorCovers. *)

\* A run has dealt with everything before the tombstone it is at, which it
\* acknowledges only when nothing is left of the account.
Covers(r) ==
  /\ r.at = "fetch" => r.done = r.since
  /\ r.since <= r.done
  /\ r.done <= r.upto
  /\ r.at \in {"check", "delete", "ack"} => r.done < r.upto
  /\ \A n \in 1 .. r.done : Automatic(n) => n \in acked
  /\ r.at \in {"check", "delete"} => feed[r.done + 1].account \in Tenants
  /\ r.at = "ack" => Gone(feed[r.done + 1].account)

RunCovers == \A c \in Consumers : Covers(run[c])

IInv ==
  /\ TypeOK
  /\ AckedIsErased
  /\ CursorCovers
  /\ RunCovers
=============================================================================
