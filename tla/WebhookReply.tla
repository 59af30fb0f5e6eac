---------------------------- MODULE WebhookReply ----------------------------
(***************************************************************************)
(* POST /webhooks/meta/:channel and the automated reply it produces, for   *)
(* the events of one conversation.                                         *)
(*                                                                         *)
(* Every `await` of the handler is a point where other requests, an        *)
(* operator or a crash may interleave, so the handler is one action per    *)
(* database call or provider call.  The provider delivers a batch of       *)
(* events, and delivers it again, also while an earlier delivery is still  *)
(* being handled, until it has seen a 2xx response.                        *)
(*                                                                         *)
(* The answer engine and the OneBrain fallback read nothing this module    *)
(* keeps and write nothing: their await is the gap before Claim, and an    *)
(* exception of theirs is a Throw there.                                   *)
(*                                                                         *)
(* Some definitions follow one or two variants of themselves, each a       *)
(* mistake the code could plausibly contain; PROJECT.json pairs each with  *)
(* the property that rules it out.  Nothing else uses them.                *)
(***************************************************************************)
EXTENDS Naturals

CONSTANTS Requests,   \* webhook requests the API can be handling at once
          Events,     \* provider event ids (the idempotency keys)
          NoEvent,    \* no event in hand
          Batches,    \* the sets of events the provider posts together
          MaxFaults   \* bound on exceptions and crashes

ASSUME BatchesAssumption == Batches \subseteq (SUBSET Events) \ {{}}
ASSUME NoEventAssumption == NoEvent \notin Events
ASSUME MaxFaultsAssumption == MaxFaults \in Nat

VARIABLES
  webhook,       \* channel_webhook_events.status by event, "none" if no row
  conversation,  \* "absent", "ai" (ai_paused = false) or "human" (true)
  inbox,         \* events whose inbound message row exists
  outbox,        \* message_deliveries.status by idempotency key
  turns,         \* assistant messages stored for the event
  usage,         \* usage_events rows logged for the event
  acked,         \* batches the provider saw a 2xx for
  pc, batch, todo, cur, paused, outcome,   \* the requests' local state
  sends,         \* observed: calls of adapter.sendMessage for the event
  suppressed,    \* observed: events left to a human
  arrivedOwned,  \* observed: events first recorded during the takeover
  faults         \* bound on faults

tables   == <<webhook, conversation, inbox, outbox, turns, usage>>
locals   == <<batch, todo, cur, paused, outcome>>
observed == <<sends, suppressed, arrivedOwned>>
vars     == <<tables, acked, pc, locals, observed, faults>>

SendOutcomes    == {"sent", "failed", "skipped"}
DeliveryStates  == {"none", "pending"} \cup SendOutcomes
WebhookStates   == {"none", "received", "failed", "processed"}
Ownership       == {"absent", "ai", "human"}

\* The await a request is suspended in.  "failed" is the catch block.
Points == {"idle", "record", "conversation", "inbound", "claim", "send",
           "turn", "finalize", "usage", "processed", "failed"}

Working(r) == pc[r] \notin {"idle", "record"}

Init ==
  /\ webhook = [e \in Events |-> "none"]
  /\ conversation = "absent"
  /\ inbox = {}
  /\ outbox = [e \in Events |-> "none"]
  /\ turns = [e \in Events |-> 0]
  /\ usage = [e \in Events |-> 0]
  /\ acked = {}
  /\ pc = [r \in Requests |-> "idle"]
  /\ batch = [r \in Requests |-> {}]
  /\ todo = [r \in Requests |-> {}]
  /\ cur = [r \in Requests |-> NoEvent]
  /\ paused = [r \in Requests |-> FALSE]
  /\ outcome = [r \in Requests |-> "skipped"]
  /\ sends = [e \in Events |-> 0]
  /\ suppressed = {}
  /\ arrivedOwned = {}
  /\ faults = 0

\* The event's variables go out of scope, and with them the request's.
DropEvent(r) ==
  /\ cur' = [cur EXCEPT ![r] = NoEvent]
  /\ paused' = [paused EXCEPT ![r] = FALSE]
  /\ outcome' = [outcome EXCEPT ![r] = "skipped"]

DropRequest(r) ==
  /\ DropEvent(r)
  /\ batch' = [batch EXCEPT ![r] = {}]
  /\ todo' = [todo EXCEPT ![r] = {}]
-----------------------------------------------------------------------------
(* The provider and the request loop. *)

\* The provider posts a batch it has no 2xx for, the first time or again.
Receive(r, b) ==
  /\ pc[r] = "idle"
  /\ b \notin acked
  /\ pc' = [pc EXCEPT ![r] = "record"]
  /\ batch' = [batch EXCEPT ![r] = b]
  /\ todo' = [todo EXCEPT ![r] = b]
  /\ UNCHANGED <<tables, acked, cur, paused, outcome, observed, faults>>

\* A duplicate counts as a replay only once it has been processed.
AnyDuplicateIsReplay(e) == webhook[e] # "none"
IsReplay(e) == webhook[e] = "processed"

\* recordChannelWebhookEvent: insert a "received" row or load the existing
\* one; only a duplicate that is already "processed" is skipped.
RecordEvent(r, e) ==
  /\ pc[r] = "record"
  /\ e \in todo[r]
  /\ todo' = [todo EXCEPT ![r] = @ \ {e}]
  /\ webhook' = [webhook EXCEPT ![e] = IF @ = "none" THEN "received" ELSE @]
  /\ \/ /\ IsReplay(e)
        /\ UNCHANGED <<pc, cur>>
     \/ /\ ~IsReplay(e)
        /\ pc' = [pc EXCEPT ![r] = "conversation"]
        /\ cur' = [cur EXCEPT ![r] = e]
  /\ arrivedOwned' = IF webhook[e] = "none" /\ conversation = "human"
                     THEN arrivedOwned \cup {e} ELSE arrivedOwned
  /\ UNCHANGED <<conversation, inbox, outbox, turns, usage, acked, batch,
                 paused, outcome, sends, suppressed, faults>>

\* All events of the batch are done: the handler answers 200.
Respond(r) ==
  /\ pc[r] = "record"
  /\ todo[r] = {}
  /\ pc' = [pc EXCEPT ![r] = "idle"]
  /\ acked' = acked \cup {batch[r]}
  /\ DropRequest(r)
  /\ UNCHANGED <<tables, observed, faults>>
-----------------------------------------------------------------------------
(* processChannelInboundEvent. *)

OwnedInverted == conversation = "ai"
OwnedByOperator == conversation = "human"

\* findOrCreateConversation: the handler keeps the row it read, and with it
\* the ai_paused of that moment.
FindConversation(r) ==
  /\ pc[r] = "conversation"
  /\ conversation' = IF conversation = "absent" THEN "ai" ELSE conversation
  /\ paused' = [paused EXCEPT ![r] = OwnedByOperator]
  /\ pc' = [pc EXCEPT ![r] = "inbound"]
  /\ UNCHANGED <<webhook, inbox, outbox, turns, usage, acked, batch, todo,
                 cur, outcome, observed, faults>>

KeptForOperatorsOnly(r) == IF paused[r] THEN inbox \cup {cur[r]} ELSE inbox
Kept(r) == inbox \cup {cur[r]}

\* addMessage, deduplicated on the provider event id, and the takeover check.
StoreInbound(r) ==
  /\ pc[r] = "inbound"
  /\ inbox' = Kept(r)
  /\ suppressed' = IF paused[r] THEN suppressed \cup {cur[r]} ELSE suppressed
  /\ pc' = [pc EXCEPT ![r] = IF paused[r] THEN "processed" ELSE "claim"]
  /\ UNCHANGED <<webhook, conversation, outbox, turns, usage, acked, locals,
                 sends, arrivedOwned, faults>>

\* The unique index on (tenant, idempotency key) decides who wins the insert.
PendingIsFree(e) == outbox[e] \in {"none", "pending"}
ClaimIsFree(e) == outbox[e] = "none"

\* claimOutboundDelivery: insert the pending intent row, on conflict do nothing.
Claim(r) ==
  /\ pc[r] = "claim"
  /\ \/ /\ ClaimIsFree(cur[r])
        /\ outbox' = [outbox EXCEPT ![cur[r]] = "pending"]
        /\ pc' = [pc EXCEPT ![r] = "send"]
     \/ /\ ~ClaimIsFree(cur[r])
        /\ pc' = [pc EXCEPT ![r] = "processed"]
        /\ UNCHANGED outbox
  /\ UNCHANGED <<webhook, conversation, inbox, turns, usage, acked, locals,
                 observed, faults>>

\* The messaging-window policy and adapter.sendMessage.  The policy, a missing
\* token or a missing recipient skips the send; otherwise the provider is
\* called and the call is reported as sent or failed.
Send(r) ==
  /\ pc[r] = "send"
  /\ \/ /\ outcome' = [outcome EXCEPT ![r] = "skipped"]
        /\ UNCHANGED sends
     \/ \E result \in {"sent", "failed"} :
          /\ outcome' = [outcome EXCEPT ![r] = result]
          /\ sends' = [sends EXCEPT ![cur[r]] = @ + 1]
  /\ pc' = [pc EXCEPT ![r] = "turn"]
  /\ UNCHANGED <<tables, acked, batch, todo, cur, paused, suppressed,
                 arrivedOwned, faults>>

\* addMessage of the assistant's turn.
StoreOutbound(r) ==
  /\ pc[r] = "turn"
  /\ turns' = [turns EXCEPT ![cur[r]] = @ + 1]
  /\ pc' = [pc EXCEPT ![r] = "finalize"]
  /\ UNCHANGED <<webhook, conversation, inbox, outbox, usage, acked, locals,
                 observed, faults>>

StatusForgotten(r) == outbox[cur[r]]
FinalStatus(r) == outcome[r]

\* finalizeOutboundDelivery of the claimed row.
Finalize(r) ==
  /\ pc[r] = "finalize"
  /\ outbox' = [outbox EXCEPT ![cur[r]] = FinalStatus(r)]
  /\ pc' = [pc EXCEPT ![r] = "usage"]
  /\ UNCHANGED <<webhook, conversation, inbox, turns, usage, acked, locals,
                 observed, faults>>

LogUsage(r) ==
  /\ pc[r] = "usage"
  /\ usage' = [usage EXCEPT ![cur[r]] = @ + 1]
  /\ pc' = [pc EXCEPT ![r] = "processed"]
  /\ UNCHANGED <<webhook, conversation, inbox, outbox, turns, acked, locals,
                 observed, faults>>

\* markChannelWebhookEventProcessed, then the next event of the batch.
MarkProcessed(r) ==
  /\ pc[r] = "processed"
  /\ webhook' = [webhook EXCEPT ![cur[r]] = "processed"]
  /\ pc' = [pc EXCEPT ![r] = "record"]
  /\ DropEvent(r)
  /\ UNCHANGED <<conversation, inbox, outbox, turns, usage, acked, batch,
                 todo, observed, faults>>

MarkFailedNoAnswer(r) ==
  /\ pc[r] = "failed"
  /\ webhook' = [webhook EXCEPT ![cur[r]] = "failed"]
  /\ UNCHANGED <<conversation, inbox, outbox, turns, usage, acked, pc, locals,
                 observed, faults>>

\* The catch block: mark the event failed and rethrow.  The request answers
\* 5xx and the rest of its batch is not looked at.
MarkFailed(r) ==
  /\ pc[r] = "failed"
  /\ webhook' = [webhook EXCEPT ![cur[r]] = "failed"]
  /\ pc' = [pc EXCEPT ![r] = "idle"]
  /\ DropRequest(r)
  /\ UNCHANGED <<conversation, inbox, outbox, turns, usage, acked, observed,
                 faults>>
-----------------------------------------------------------------------------
(* Faults and operators. *)

\* A call inside the try block rejects.  sendMessage is not among them: the
\* adapters turn a transport error into a "failed" result.
Throw(r) ==
  /\ faults < MaxFaults
  /\ pc[r] \in {"conversation", "inbound", "claim", "turn", "finalize",
                "usage", "processed"}
  /\ pc' = [pc EXCEPT ![r] = "failed"]
  /\ faults' = faults + 1
  /\ UNCHANGED <<tables, acked, locals, observed>>

\* The process dies, or a call outside the try block rejects: no 2xx, and
\* nothing more is written for this request.
Crash(r) ==
  /\ faults < MaxFaults
  /\ pc[r] # "idle"
  /\ pc' = [pc EXCEPT ![r] = "idle"]
  /\ DropRequest(r)
  /\ faults' = faults + 1
  /\ UNCHANGED <<tables, acked, observed>>

\* setConversationHandling with aiPaused = true: the handling route, or the
\* first write of an operator's reply.
TakeOver ==
  /\ conversation # "absent"
  /\ conversation' = "human"
  /\ UNCHANGED <<webhook, inbox, outbox, turns, usage, acked, pc, locals,
                 observed, faults>>

\* setConversationHandling with aiPaused = false.
Release ==
  /\ conversation # "absent"
  /\ conversation' = "ai"
  /\ arrivedOwned' = {}
  /\ UNCHANGED <<webhook, inbox, outbox, turns, usage, acked, pc, locals,
                 sends, suppressed, faults>>
-----------------------------------------------------------------------------
\* What the event loop runs of a request once it is its turn.
Step(r) ==
  \/ \E e \in Events : RecordEvent(r, e)
  \/ Respond(r)
  \/ FindConversation(r)
  \/ StoreInbound(r)
  \/ Claim(r)
  \/ Send(r)
  \/ StoreOutbound(r)
  \/ Finalize(r)
  \/ LogUsage(r)
  \/ MarkProcessed(r)
  \/ MarkFailed(r)

Next ==
  \/ \E r \in Requests : Step(r) \/ Throw(r) \/ Crash(r)
  \/ \E r \in Requests, b \in Batches : Receive(r, b)
  \/ TakeOver
  \/ Release

Spec == Init /\ [][Next]_vars

\* The event loop runs every request that is not suspended in a dead call, and
\* the provider posts a batch again until it has been acknowledged.
Fairness ==
  /\ \A r \in Requests : WF_vars(Step(r))
  /\ \A b \in Batches : WF_vars(\E r \in Requests : Receive(r, b))

FairSpec == Spec /\ Fairness
-----------------------------------------------------------------------------
TypeOK ==
  /\ webhook \in [Events -> WebhookStates]
  /\ conversation \in Ownership
  /\ inbox \in SUBSET Events
  /\ outbox \in [Events -> DeliveryStates]
  /\ turns \in [Events -> Nat]
  /\ usage \in [Events -> Nat]
  /\ acked \in SUBSET (SUBSET Events)
  /\ pc \in [Requests -> Points]
  /\ batch \in [Requests -> SUBSET Events]
  /\ todo \in [Requests -> SUBSET Events]
  /\ cur \in [Requests -> Events \cup {NoEvent}]
  /\ paused \in [Requests -> BOOLEAN]
  /\ outcome \in [Requests -> SendOutcomes]
  /\ sends \in [Events -> Nat]
  /\ suppressed \in SUBSET Events
  /\ arrivedOwned \in SUBSET Events
  /\ faults \in 0 .. MaxFaults

\* However often the provider posts an event, whatever fails and whenever the
\* process dies, the customer is sent at most one automated reply to it, and at
\* most one assistant turn and one usage record are stored for it: the outbox
\* claim of claimOutboundDelivery closes the webhook-retry double-send window.
AtMostOneReply ==
  \A e \in Events : sends[e] <= 1 /\ turns[e] <= 1 /\ usage[e] <= 1

\* The event was stored, and either its reply was reserved or it was left to
\* the operator who owns the conversation.
Handled(e) == e \in inbox /\ (outbox[e] # "none" \/ e \in suppressed)

\* The provider is told 2xx, and stops retrying, only for events that were
\* handled: a row in "received" or "failed" is processed again, by this request
\* or by another, never skipped as a replay.
AckedIsHandled ==
  \A b \in acked : \A e \in b : Handled(e)

\* A usage record charges a reply whose delivery row carries its outcome and
\* whose text is in the conversation: no other order of the four writes
\* survives a crash without charging for a reply nobody can see.
UsageFollowsDelivery ==
  \A e \in Events :
    usage[e] > 0 => turns[e] > 0 /\ outbox[e] \notin {"none", "pending"}

\* An event that arrives while an operator owns the conversation gets no
\* automated reply as long as the operator keeps it, not even when the provider
\* posts it again after a failure.
TakeoverSilencesArrivals ==
  \A e \in arrivedOwned : outbox[e] = "none" /\ sends[e] = 0
-----------------------------------------------------------------------------
(* The inductive strengthening of the invariants above. *)

\* Request r won the claim for its event and has not finished with it.
Holding(r) == pc[r] \in {"send", "turn", "finalize", "usage"}

\* A request has an event in hand exactly while it works on one, and that
\* event has a webhook row.
CurInHand ==
  \A r \in Requests :
    IF Working(r) THEN cur[r] \in Events /\ webhook[cur[r]] # "none"
                  ELSE cur[r] = NoEvent

\* A claim is never won twice, and the row stays pending in the winner's hands.
OneHolder ==
  /\ \A r, s \in Requests :
       Holding(r) /\ Holding(s) /\ cur[r] = cur[s] => r = s
  /\ \A r \in Requests :
       /\ pc[r] \in {"send", "turn", "finalize"} => outbox[cur[r]] = "pending"
       /\ pc[r] = "usage" => outbox[cur[r]] \in SendOutcomes

\* What has not happened yet at each point of the holder's path.
NothingTwice ==
  /\ \A e \in Events :
       outbox[e] = "none" => sends[e] = 0 /\ turns[e] = 0 /\ usage[e] = 0
  /\ \A r \in Requests :
       /\ pc[r] = "send" => sends[cur[r]] = 0
       /\ pc[r] \in {"send", "turn"} => turns[cur[r]] = 0
       /\ pc[r] \in {"finalize", "usage"} => turns[cur[r]] = 1
       /\ Holding(r) => usage[cur[r]] = 0

\* Every event a request is past, and every processed event, was handled.
HandledSoFar ==
  /\ \A e \in Events : webhook[e] = "processed" => Handled(e)
  /\ \A r \in Requests :
       /\ \A e \in batch[r] \ todo[r] : e = cur[r] \/ Handled(e)
       /\ pc[r] = "claim" \/ Holding(r) => cur[r] \in inbox
       /\ pc[r] = "processed" => Handled(cur[r])

\* No request that could still send looks at an event that arrived owned.
OwnedUntouched ==
  /\ \A e \in Events : outbox[e] # "none" => webhook[e] # "none" /\ e \in inbox
  /\ arrivedOwned # {} => conversation = "human"
  /\ \A r \in Requests : cur[r] \in arrivedOwned =>
       /\ pc[r] = "inbound" => paused[r]
       /\ pc[r] # "claim" /\ ~Holding(r)

IInv ==
  /\ TypeOK
  /\ CurInHand
  /\ OneHolder
  /\ NothingTwice
  /\ AtMostOneReply
  /\ UsageFollowsDelivery
  /\ HandledSoFar
  /\ AckedIsHandled
  /\ OwnedUntouched
  /\ TakeoverSilencesArrivals
-----------------------------------------------------------------------------
\* The reply text of a lost claim: "reply already delivered".  An event that is
\* processed, has a reserved reply and is in no request's hands any more has had
\* its reply sent or deliberately skipped.
ClaimedReplyIsDelivered ==
  \A e \in Events :
    /\ webhook[e] = "processed"
    /\ \A r \in Requests : Working(r) => cur[r] # e
    => outbox[e] # "pending"

\* Every batch the provider posts is acknowledged in the end, once faults stop.
EveryBatchAcked == \A b \in Batches : <>(b \in acked)

\* The pipeline implements what it promises: the message is kept before the
\* reply is reserved, and the reservation comes before the only send.
Contract == INSTANCE ReplyContract
  WITH kept <- inbox,
       promised <- {e \in Events : outbox[e] # "none"},
       copies <- sends

ImplementsContract == Contract!Spec
=============================================================================
