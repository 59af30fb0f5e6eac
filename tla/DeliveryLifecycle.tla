-------------------------- MODULE DeliveryLifecycle --------------------------
(***************************************************************************)
(* The life of a message_deliveries row once its sender owns it: the send  *)
(* and its record, the provider's status callbacks, and the worker that    *)
(* sends transient failures again.  The three write the same row, each     *)
(* with a read, a decision and an unconditional UPDATE by id; under READ   *)
(* COMMITTED nothing orders the read of one against the write of another,  *)
(* so the read and the write are two actions.                              *)
(*                                                                         *)
(* Provider message n of delivery d is the n-th provider call made for d.  *)
(* A call that fails with a retryable error may have been accepted all the *)
(* same (a timeout).  Definitions named as a variant of the next one are   *)
(* plausible mistakes, used only by the mutants of PROJECT.json.           *)
(***************************************************************************)
EXTENDS Integers

CONSTANTS Deliveries,   \* delivery rows
          NoDelivery,   \* nothing in hand
          Claimed,      \* rows reserved before the send; the others are
                        \* inserted after it (operator replies)
          Unroutable,   \* rows whose channel has no adapter in the worker
          Callbacks,    \* status callbacks the API can be applying at once
          Sweepers,     \* retry sweeps that can overlap
          MaxRetries,   \* DEFAULT_MAX_ATTEMPTS
          MaxSends,     \* bound on provider calls for one delivery
          MaxCrashes    \* bound on sweeps that die

ASSUME DeliveriesAssumption == /\ NoDelivery \notin Deliveries
                               /\ Claimed \subseteq Deliveries
                               /\ Unroutable \subseteq Deliveries
ASSUME BoundsAssumption == /\ MaxRetries \in Nat \ {0}
                           /\ MaxSends \in Nat \ {0}
                           /\ MaxCrashes \in Nat

VARIABLES
  row,       \* message_deliveries, one row per delivery
  sender,    \* the await deliverOutbound is suspended in
  reply,     \* what the adapter told deliverOutbound
  callback,  \* what each callback has read and is about to write
  listed,    \* what is left of each sweep's list: <<delivery, attempts>>
  point,     \* the await each sweep is suspended in
  outcome,   \* the outcome each sweep is about to record
  snapshot,  \* the metadata each sweep has read to record it
  sends,     \* observed: provider calls made for the delivery
  accepted,  \* observed: <<delivery, n>> the provider took over
  crashes    \* bound on crashes

deliveryVars == <<row, sender, reply, callback, listed, point, outcome, snapshot,
          sends, accepted, crashes>>

Statuses   == {"none", "pending", "sent", "delivered", "read", "failed", "skipped"}
Reported   == {"sent", "delivered", "read", "failed"}
MessageIds == 0 .. MaxSends         \* 0 is a null provider_message_id
Metadata   == [retryable : BOOLEAN, attempts : Nat]
DeliveryRows       == [status : Statuses, pmid : MessageIds, meta : Metadata]
Replies    == [status : {"sent", "failed", "skipped"}, retryable : BOOLEAN,
               pmid : MessageIds]
Outcomes   == [on : Deliveries \cup {NoDelivery}, succeeded : BOOLEAN,
               exhausted : BOOLEAN, attempts : Nat, pmid : MessageIds]

FirstMeta  == [retryable |-> FALSE, attempts |-> 0]
NoReply    == [status |-> "skipped", retryable |-> FALSE, pmid |-> 0]
NoCallback == [on |-> NoDelivery, status |-> "sent", meta |-> FirstMeta]
NoOutcome  == [on |-> NoDelivery, succeeded |-> FALSE, exhausted |-> FALSE,
               attempts |-> 0, pmid |-> 0]

DeliveryInit ==
  /\ row = [d \in Deliveries |->
             [status |-> IF d \in Claimed THEN "pending" ELSE "none",
              pmid |-> 0, meta |-> FirstMeta]]
  /\ sender = [d \in Deliveries |-> "send"]
  /\ reply = [d \in Deliveries |-> NoReply]
  /\ callback = [c \in Callbacks |-> NoCallback]
  /\ listed = [s \in Sweepers |-> {}]
  /\ outcome = [s \in Sweepers |-> NoOutcome]
  /\ point = [s \in Sweepers |-> "next"]
  /\ snapshot = [s \in Sweepers |-> FALSE]
  /\ sends = [d \in Deliveries |-> 0]
  /\ accepted = {}
  /\ crashes = 0
-----------------------------------------------------------------------------
(* The adapters' sendMessage (Meta). *)

\* adapter.sendMessage(d) returned r: sent with the provider's id, skipped for
\* want of a token or a recipient, or failed, retryable exactly for a transport
\* error, 429 or 5xx.
SendMessage(d, r) ==
  LET n == sends[d] + 1 IN
  \/ /\ r = [status |-> "skipped", retryable |-> FALSE, pmid |-> 0]
     /\ UNCHANGED <<sends, accepted>>
  \/ /\ n <= MaxSends
     /\ sends' = [sends EXCEPT ![d] = n]
     /\ \/ /\ r = [status |-> "sent", retryable |-> FALSE, pmid |-> n]
           /\ accepted' = accepted \cup {<<d, n>>}
        \/ /\ r = [status |-> "failed", retryable |-> FALSE, pmid |-> 0]
           /\ UNCHANGED accepted
        \/ /\ r = [status |-> "failed", retryable |-> TRUE, pmid |-> 0]
           /\ \/ UNCHANGED accepted
              \/ accepted' = accepted \cup {<<d, n>>}
-----------------------------------------------------------------------------
(* deliverOutbound after the claim. *)

\* The window policy may skip the call; that looks like an adapter's skip.
Send(d) ==
  /\ sender[d] = "send"
  /\ \E r \in Replies : /\ SendMessage(d, r)
                        /\ reply' = [reply EXCEPT ![d] = r]
  /\ sender' = [sender EXCEPT ![d] = "record"]
  /\ UNCHANGED <<row, callback, listed, point, outcome, snapshot, crashes>>

\* The row deliverOutbound writes from the adapter's reply.
RecordedRow(r) ==
  [status |-> r.status, pmid |-> r.pmid,
   meta |-> [retryable |-> r.status = "failed" /\ r.retryable, attempts |-> 0]]

\* finalizeOutboundDelivery of a claimed row, or recordMessageDelivery of a new
\* one.  Both follow addMessage: the row is linked to the stored reply text.
Record(d) ==
  /\ sender[d] = "record"
  /\ row' = [row EXCEPT ![d] = RecordedRow(reply[d])]
  /\ sender' = [sender EXCEPT ![d] = "done"]
  /\ reply' = [reply EXCEPT ![d] = NoReply]
  /\ UNCHANGED <<callback, listed, point, outcome, snapshot, sends, accepted,
                 crashes>>
-----------------------------------------------------------------------------
(* applyDeliveryStatusCallback. *)

deliveryStatusRank(status) ==
  CASE status = "pending"   -> 0
    [] status = "sent"      -> 1
    [] status = "delivered" -> 2
    [] status = "read"      -> 3
    [] OTHER                -> -1

\* Whether a callback that reports `status` moves a row read in state `old`.
Applies(old, status) ==
  /\ old \notin {"read", "failed"}
  /\ status = "failed" \/ deliveryStatusRank(status) > deliveryStatusRank(old)

\* The provider reports a status of a message it accepted, in any order and any
\* number of times; the callback loads the row with that provider message id.
\* No such row, or a status that does not apply, ends it without a write.
ReadForCallback(c, d, n, status) ==
  /\ callback[c].on = NoDelivery
  /\ <<d, n>> \in accepted
  /\ row[d].pmid = n
  /\ Applies(row[d].status, status)
  /\ callback' = [callback EXCEPT
       ![c] = [on |-> d, status |-> status, meta |-> row[d].meta]]
  /\ UNCHANGED <<row, sender, reply, listed, point, outcome, snapshot, sends,
                 accepted, crashes>>

\* A rejection after acceptance is not retried; otherwise the metadata that was
\* read is written back.
RowAfterCallback(old, cb) ==
  [status |-> cb.status,
   pmid   |-> old.pmid,
   meta   |-> [retryable |-> cb.meta.retryable /\ cb.status # "failed",
               attempts |-> cb.meta.attempts]]

WriteCallback(c) ==
  /\ callback[c].on # NoDelivery
  /\ row' = [row EXCEPT ![callback[c].on] = RowAfterCallback(@, callback[c])]
  /\ callback' = [callback EXCEPT ![c] = NoCallback]
  /\ UNCHANGED <<sender, reply, listed, point, outcome, snapshot, sends,
                 accepted, crashes>>
-----------------------------------------------------------------------------
(* retryFailedDeliveries. *)

\* listRetryableDeliveries: failed, flagged, below the limit (and linked to a
\* message, which every recorded row is).
AnyFailureIsRetryable(d) ==
  row[d].status = "failed" /\ row[d].meta.attempts < MaxRetries
Retryable(d) ==
  /\ row[d].status = "failed"
  /\ row[d].meta.retryable
  /\ row[d].meta.attempts < MaxRetries

SweepIdle(s) == listed[s] = {} /\ point[s] = "next"

\* The sweep lists some retryable rows: the others are too fresh (retryAfterMs)
\* or beyond the batch size.
ListFailed(s) ==
  /\ SweepIdle(s)
  /\ \E some \in SUBSET {d \in Deliveries : Retryable(d)} :
       /\ some # {}
       /\ listed' = [listed EXCEPT
            ![s] = {<<d, row[d].meta.attempts>> : d \in some}]
  /\ UNCHANGED <<row, sender, reply, callback, point, outcome, snapshot, sends,
                 accepted, crashes>>

\* The last attempt is the MaxRetries-th, whatever the adapter said.
NeverExhausted(r, attempts) == r.status = "skipped" \/ ~r.retryable
OutOfRetries(r, attempts) ==
  r.status = "skipped" \/ ~r.retryable \/ attempts >= MaxRetries

\* The next listed row is sent again through its channel's adapter.
Resend(s, d, attempts) ==
  /\ point[s] = "next"
  /\ <<d, attempts>> \in listed[s]
  /\ d \notin Unroutable
  /\ listed' = [listed EXCEPT ![s] = @ \ {<<d, attempts>>}]
  /\ point' = [point EXCEPT ![s] = "read"]
  /\ \E r \in Replies :
       /\ SendMessage(d, r)
       /\ outcome' = [outcome EXCEPT ![s] =
            [on |-> d, succeeded |-> r.status = "sent",
             exhausted |-> r.status # "sent" /\ OutOfRetries(r, attempts + 1),
             attempts |-> attempts + 1, pmid |-> r.pmid]]
  /\ UNCHANGED <<row, sender, reply, callback, snapshot, crashes>>

\* No adapter: give the row up without another attempt.
SkippedForNow(d, attempts) ==
  [on |-> d, succeeded |-> FALSE, exhausted |-> FALSE,
   attempts |-> attempts, pmid |-> 0]
GivenUp(d, attempts) ==
  [on |-> d, succeeded |-> FALSE, exhausted |-> TRUE,
   attempts |-> attempts, pmid |-> 0]

GiveUp(s, d, attempts) ==
  /\ point[s] = "next"
  /\ <<d, attempts>> \in listed[s]
  /\ d \in Unroutable
  /\ listed' = [listed EXCEPT ![s] = @ \ {<<d, attempts>>}]
  /\ point' = [point EXCEPT ![s] = "read"]
  /\ outcome' = [outcome EXCEPT ![s] = GivenUp(d, attempts)]
  /\ UNCHANGED <<row, sender, reply, callback, snapshot, sends, accepted,
                 crashes>>

\* applyDeliveryRetryOutcome reads the row's metadata (the update overwrites
\* its attempts, so only the retryable flag matters) ...
ReadForOutcome(s) ==
  /\ point[s] = "read"
  /\ snapshot' = [snapshot EXCEPT ![s] = row[outcome[s].on].meta.retryable]
  /\ point' = [point EXCEPT ![s] = "write"]
  /\ UNCHANGED <<row, sender, reply, callback, listed, outcome, sends,
                 accepted, crashes>>

\* ... and writes the outcome over whatever the row has become.
RowAfterRetry(old, o, flag) ==
  [status |-> IF o.succeeded THEN "sent" ELSE "failed",
   pmid   |-> IF o.succeeded THEN o.pmid ELSE old.pmid,
   meta   |-> [retryable |-> flag /\ ~o.succeeded /\ ~o.exhausted,
               attempts |-> o.attempts]]

WriteOutcome(s) ==
  /\ point[s] = "write"
  /\ row' = [row EXCEPT
       ![outcome[s].on] = RowAfterRetry(@, outcome[s], snapshot[s])]
  /\ outcome' = [outcome EXCEPT ![s] = NoOutcome]
  /\ snapshot' = [snapshot EXCEPT ![s] = FALSE]
  /\ point' = [point EXCEPT ![s] = "next"]
  /\ UNCHANGED <<sender, reply, callback, listed, sends, accepted, crashes>>

\* The worker dies, or a database call of the sweep rejects and the job fails.
Crash(s) ==
  /\ crashes < MaxCrashes
  /\ listed[s] # {} \/ point[s] # "next"
  /\ listed' = [listed EXCEPT ![s] = {}]
  /\ outcome' = [outcome EXCEPT ![s] = NoOutcome]
  /\ snapshot' = [snapshot EXCEPT ![s] = FALSE]
  /\ point' = [point EXCEPT ![s] = "next"]
  /\ crashes' = crashes + 1
  /\ UNCHANGED <<row, sender, reply, callback, sends, accepted>>
-----------------------------------------------------------------------------
SweepStep(s) ==
  \/ \E d \in Deliveries, attempts \in 0 .. MaxRetries - 1 :
       Resend(s, d, attempts) \/ GiveUp(s, d, attempts)
  \/ ReadForOutcome(s)
  \/ WriteOutcome(s)

DeliveryNext ==
  \/ \E d \in Deliveries : Send(d) \/ Record(d)
  \/ \E c \in Callbacks :
       \/ \E d \in Deliveries, n \in 1 .. MaxSends, status \in Reported :
            ReadForCallback(c, d, n, status)
       \/ WriteCallback(c)
  \/ \E s \in Sweepers : ListFailed(s) \/ SweepStep(s) \/ Crash(s)

DeliverySpec == DeliveryInit /\ [][DeliveryNext]_deliveryVars

\* The scheduler starts sweeps for ever, and a sweep that has started goes on.
\* Nothing makes a sender go on or the provider report a status.
DeliveryFairness == \A s \in Sweepers : WF_deliveryVars(SweepStep(s)) /\ WF_deliveryVars(ListFailed(s))

DeliveryFairSpec == DeliverySpec /\ DeliveryFairness
-----------------------------------------------------------------------------
DeliveryTypeOK ==
  /\ row \in [Deliveries -> DeliveryRows]
  /\ sender \in [Deliveries -> {"send", "record", "done"}]
  /\ reply \in [Deliveries -> Replies]
  /\ callback \in [Callbacks -> [on : Deliveries \cup {NoDelivery},
                                 status : Reported, meta : Metadata]]
  /\ listed \in [Sweepers -> SUBSET (Deliveries \X Nat)]
  /\ point \in [Sweepers -> {"next", "read", "write"}]
  /\ outcome \in [Sweepers -> Outcomes]
  /\ snapshot \in [Sweepers -> BOOLEAN]
  /\ sends \in [Deliveries -> MessageIds]
  /\ accepted \in SUBSET (Deliveries \X (1 .. MaxSends))
  /\ crashes \in 0 .. MaxCrashes

\* Whatever overlaps, a row that is still flagged retryable is below the limit:
\* no write of a callback or of a stale sweep hands a row back to the sweeps
\* that has used its attempts up.
RetryBudget ==
  \A d \in Deliveries :
    row[d].meta.retryable => row[d].meta.attempts < MaxRetries

\* A row never claims more than the provider did: its message id is one the
\* provider gave for this delivery, and a row that reads sent, delivered or
\* read has one.
StatusIsBacked ==
  \A d \in Deliveries :
    /\ row[d].pmid # 0 => <<d, row[d].pmid>> \in accepted
    /\ row[d].status \in {"sent", "delivered", "read"} => row[d].pmid # 0

\* The doc of applyDeliveryStatusCallback: the lifecycle advances "forwards
\* only"; read and failed are terminal.  The one way back is a sweep that
\* sends a retryable row again.
Forward(old, new) ==
  \/ old.status \in {"none", "pending"}
  \/ old.status = "failed" /\ old.meta.retryable
  \/ old.status # "read" /\ new.status = "failed"
  \/ /\ old.status # "failed"
     /\ deliveryStatusRank(new.status) > deliveryStatusRank(old.status)

ForwardOnly ==
  [][\A d \in Deliveries : row'[d].status # row[d].status => Forward(row[d], row'[d])]_deliveryVars

\* A reply the provider is known to have taken, or has rejected for good, is
\* not sent again.
NoResendOfSettled ==
  [][\A d \in Deliveries : sends'[d] > sends[d] =>
       \/ row[d].status \in {"none", "pending"}
       \/ row[d].status = "failed" /\ row[d].meta.retryable]_deliveryVars

\* A transient failure is settled: the sweeps send the reply or use up its
\* attempts and leave it failed for good.
RetriesSettle ==
  \A d \in Deliveries : <>[]~Retryable(d)
-----------------------------------------------------------------------------
(* The inductive strengthening of RetryBudget and StatusIsBacked. *)

\* Every copy of the metadata on its way back to a row respects the budget.
BudgetInHand ==
  /\ \A c \in Callbacks :
       callback[c].meta.retryable => callback[c].meta.attempts < MaxRetries
  /\ \A s \in Sweepers :
       \/ outcome[s].succeeded
       \/ outcome[s].exhausted
       \/ outcome[s].attempts < MaxRetries

\* Every provider message id on its way to a row was accepted.
IdsInHand ==
  /\ \A d \in Deliveries :
       /\ reply[d].pmid # 0 => <<d, reply[d].pmid>> \in accepted
       /\ reply[d].status = "sent" => reply[d].pmid # 0
  /\ \A s \in Sweepers : outcome[s].succeeded =>
       outcome[s].pmid # 0 /\ <<outcome[s].on, outcome[s].pmid>> \in accepted

\* Nobody but the sender touches a row that has not been recorded; a callback
\* has found its row by a message id, which the row keeps.
RecordedFirst ==
  /\ \A d \in Deliveries : sender[d] # "done" =>
       /\ row[d].status \in {"none", "pending"}
       /\ row[d].pmid = 0
       /\ \A s \in Sweepers :
            outcome[s].on # d /\ d \notin {p[1] : p \in listed[s]}
  /\ \A c \in Callbacks :
       callback[c].on # NoDelivery => /\ callback[c].on \in Deliveries
                                  /\ row[callback[c].on].pmid # 0
  /\ \A s \in Sweepers :
       point[s] \in {"read", "write"} => outcome[s].on \in Deliveries

DeliveryIInv ==
  /\ DeliveryTypeOK
  /\ BudgetInHand
  /\ RetryBudget
  /\ IdsInHand
  /\ RecordedFirst
  /\ StatusIsBacked
=============================================================================
