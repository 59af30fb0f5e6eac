------------------------------- MODULE Billing -------------------------------
(***************************************************************************)
(* A tenant's Stripe account: the customer its first checkout creates, the *)
(* subscription events that set account and subscription in two writes,    *)
(* and the meter report of one accepted telephone call.  Every repository  *)
(* call is a transaction of its own, so requests interleave between calls. *)
(***************************************************************************)
EXTENDS Naturals, FiniteSets

CONSTANTS
    Checkouts,     \* checkout requests, numbered
    Events,        \* subscription events in the order Stripe made them
    Deliveries,    \* how often Stripe may post one event
    Reports        \* posts of the accepted call

ASSUME BillingAssumption == {Checkouts, Events, Deliveries, Reports} \subseteq Nat \ {0}

VARIABLES
    account,       \* the billing_accounts row; customer k was created by checkout k
    checkout,      \* checkout[h]: where ensureStripeCustomerForTenant is
    payer,         \* the customer that bought the subscription, 0 before
    says,          \* says[e]: the status that event e carries
    eventRow,      \* eventRow[e]: its stripe_webhook_events row
    handler,       \* handler[e, d]: where processing of delivery d is
    subscription,  \* status of the billing_subscriptions row
    applied,       \* applied[e]: how often e was written to the account
    torn,          \* two events were applied at once, or one by half, or a
                   \* second checkout saved its customer after the purchase
    usage,         \* status of the call's billable_usage_events row
    report,        \* report[r]: where reportBillableUsageToStripe is
    meter          \* meter events that Stripe counted, by identifier

billingVars == <<account, checkout, payer, says, eventRow, handler, subscription, applied,
                 torn, usage, report, meter>>

Checkout == 1..Checkouts
Event == 1..Events
Delivery == Event \X (1..Deliveries)
Report == 1..Reports

StripeStatus == {"active", "unpaid", "canceled"}
AccountStatusOf == [active |-> "active", unpaid |-> "past_due", canceled |-> "canceled"]

BillingInit ==
    /\ account = [customer |-> 0, status |-> "none"]
    /\ checkout = [h \in Checkout |-> [at |-> "idle", customer |-> 0]]
    /\ payer = 0
    /\ says \in [Event -> StripeStatus]
    /\ eventRow = [e \in Event |-> "none"]
    /\ handler = [d \in Delivery |-> "unsent"]
    /\ subscription = "none"
    /\ applied = [e \in Event |-> 0]
    /\ torn = FALSE
    /\ usage = "none"
    /\ report = [r \in Report |-> [at |-> "idle", saw |-> "none"]]
    /\ meter = {}

checkoutVars == <<account, checkout, payer>>
eventVars == <<says, eventRow, handler, subscription, applied, torn>>
usageVars == <<usage, report, meter>>

-----------------------------------------------------------------------------
\* ensureStripeCustomerForTenant: read the account, create a customer when it
\* has none, save it.  The call to Stripe may fail.
LookUpCustomer(h) ==
    /\ checkout[h].at = "idle"
    /\ checkout' = [checkout EXCEPT ![h] =
          [at |-> IF account.customer = 0 THEN "creating" ELSE "ready", customer |-> account.customer]]
    /\ UNCHANGED <<account, payer, eventVars, usageVars>>

CreateCustomer(h) ==
    /\ checkout[h].at = "creating"
    /\ checkout' \in {[checkout EXCEPT ![h] = [at |-> "saving", customer |-> h]],
                      [checkout EXCEPT ![h].at = "failed"]}
    /\ UNCHANGED <<account, payer, eventVars, usageVars>>

SaveCustomer(h) ==
    /\ checkout[h].at = "saving"
    /\ account' = [customer |-> checkout[h].customer, status |-> "incomplete"]
    /\ checkout' = [checkout EXCEPT ![h].at = "ready"]
    /\ torn' = (torn \/ payer # 0)
    /\ UNCHANGED <<payer, says, eventRow, handler, subscription, applied, usageVars>>

\* The customer completes one of the checkouts at Stripe.
Subscribe(h) ==
    /\ checkout[h].at = "ready" /\ payer = 0
    /\ payer' = checkout[h].customer
    /\ UNCHANGED <<account, checkout, eventVars, usageVars>>

-----------------------------------------------------------------------------
\* recordStripeWebhookEvent: only the delivery that inserts the row goes on.
TakesEveryDelivery(e) == eventRow[e] # "processed"
IsFirst(e) == eventRow[e] = "none"

ReceiveEvent(d) ==
    /\ payer # 0 /\ handler[d] = "unsent"
    /\ handler' = [handler EXCEPT ![d] = IF IsFirst(d[1]) THEN "account" ELSE "duplicate"]
    /\ eventRow' = [eventRow EXCEPT ![d[1]] = IF IsFirst(d[1]) THEN "received" ELSE @]
    /\ UNCHANGED <<checkoutVars, says, subscription, applied, torn, usageVars>>

\* Some handler has written the account and not yet the subscription.
HalfWay == \E d \in Delivery : handler[d] \in {"insert", "update", "subscription"}

\* getOrCreateBillingAccount.
ApplyToAccount(d) ==
    /\ handler[d] = "account"
    /\ account' = [customer |-> payer, status |-> AccountStatusOf[says[d[1]]]]
    /\ applied' = [applied EXCEPT ![d[1]] = @ + 1]
    /\ handler' = [handler EXCEPT ![d] = "subscription"]
    /\ torn' = (torn \/ HalfWay)
    /\ UNCHANGED <<checkout, payer, says, eventRow, subscription, usageVars>>

\* upsertBillingSubscription reads whether the row exists, then inserts or
\* updates; an insert that comes second meets the unique index and throws.
LookUpSubscription(d) ==
    /\ handler[d] = "subscription"
    /\ handler' = [handler EXCEPT ![d] = IF subscription = "none" THEN "insert" ELSE "update"]
    /\ UNCHANGED <<checkoutVars, says, eventRow, subscription, applied, torn, usageVars>>

ApplyToSubscription(d) ==
    /\ \/ handler[d] = "update"
       \/ handler[d] = "insert" /\ subscription = "none"
    /\ subscription' = says[d[1]]
    /\ handler' = [handler EXCEPT ![d] = "mark"]
    /\ UNCHANGED <<checkoutVars, says, eventRow, applied, torn, usageVars>>

MarkEventProcessed(d) ==
    /\ handler[d] = "mark"
    /\ eventRow' = [eventRow EXCEPT ![d[1]] = "processed"]
    /\ handler' = [handler EXCEPT ![d] = "done"]
    /\ UNCHANGED <<checkoutVars, says, subscription, applied, torn, usageVars>>

\* Any query may throw: the row is marked failed, and stays so, because a
\* repeated delivery is a duplicate.
EventFails(d) ==
    /\ handler[d] \in {"account", "subscription", "insert", "update", "mark"}
    /\ eventRow' = [eventRow EXCEPT ![d[1]] = "failed"]
    /\ handler' = [handler EXCEPT ![d] = "done"]
    /\ torn' = (torn \/ handler[d] \in {"subscription", "insert", "update"})
    /\ UNCHANGED <<checkoutVars, says, subscription, applied, usageVars>>

-----------------------------------------------------------------------------
\* recordBillableAcceptedCall by the voice service, which reports nothing.
RecordCall ==
    /\ usage = "none"
    /\ usage' = "pending"
    /\ UNCHANGED <<checkoutVars, eventVars, report, meter>>

\* An admin posts the call: recorded or found again, and read.
PostCall(r) ==
    /\ report[r].at = "idle"
    /\ usage' = IF usage = "none" THEN "pending" ELSE usage
    /\ report' = [report EXCEPT ![r] = [at |-> "posted", saw |-> usage']]
    /\ UNCHANGED <<checkoutVars, eventVars, meter>>

\* A call that was reported, or a tenant without a customer, ends it here.
CheckReport(r) ==
    /\ report[r].at = "posted"
    /\ report' = [report EXCEPT ![r].at =
          IF report[r].saw = "reported" \/ account.customer = 0 THEN "done" ELSE "reporting"]
    /\ UNCHANGED <<checkoutVars, eventVars, usage, meter>>

\* Stripe counts an identifier once.  An answer may be lost after it counted.
Identifier(r) == 0

ReportMeterEvent(r) ==
    /\ report[r].at = "reporting"
    /\ \/ /\ meter' = meter \cup {Identifier(r)}
          /\ report' \in {[report EXCEPT ![r].at = "counted"], [report EXCEPT ![r].at = "failing"]}
       \/ /\ report' = [report EXCEPT ![r].at = "failing"]
          /\ UNCHANGED meter
    /\ UNCHANGED <<checkoutVars, eventVars, usage>>

\* Writing the outcome may itself fail, after which the call is marked failed.
MarkReported(r) ==
    /\ report[r].at = "counted"
    /\ \/ usage' = "reported" /\ report' = [report EXCEPT ![r].at = "done"]
       \/ UNCHANGED usage /\ report' = [report EXCEPT ![r].at = "failing"]
    /\ UNCHANGED <<checkoutVars, eventVars, meter>>

\* By id and whatever the row says by now.
MarkReportFailed(r) ==
    /\ report[r].at = "failing"
    /\ usage' = "failed"
    /\ report' = [report EXCEPT ![r].at = "done"]
    /\ UNCHANGED <<checkoutVars, eventVars, meter>>

-----------------------------------------------------------------------------
BillingNext ==
    \/ \E h \in Checkout : LookUpCustomer(h) \/ CreateCustomer(h) \/ SaveCustomer(h) \/ Subscribe(h)
    \/ \E d \in Delivery :
          \/ ReceiveEvent(d) \/ ApplyToAccount(d) \/ LookUpSubscription(d)
          \/ ApplyToSubscription(d) \/ MarkEventProcessed(d) \/ EventFails(d)
    \/ RecordCall
    \/ \E r \in Report :
          \/ PostCall(r) \/ CheckReport(r) \/ ReportMeterEvent(r)
          \/ MarkReported(r) \/ MarkReportFailed(r)

BillingSpec == BillingInit /\ [][BillingNext]_billingVars

-----------------------------------------------------------------------------
\* A Stripe event is applied by one delivery however often it is posted, also
\* at the same time.
EventAppliedOnce == \A e \in Event : applied[e] <= 1

\* An event marked processed was written to the account and to the subscription.
ProcessedIsApplied ==
    \A e \in Event : eventRow[e] = "processed" => applied[e] > 0 /\ subscription # "none"

\* Account and subscription tell the same story between events, unless two
\* events were applied at once, one failed half way, or an overlapping
\* checkout saved its customer last.
AccountAgrees ==
    subscription # "none" /\ ~HalfWay /\ ~torn =>
        account.status = AccountStatusOf[subscription]

\* One meter event per accepted call, however often it is posted, overlapped,
\* failed and posted again.
MeteredOnce == Cardinality(meter) <= 1

\* A call counts as reported only when Stripe has counted it.
ReportedIsMetered == usage = "reported" => meter # {}

\* What Stripe says and counts and what the platform stores agree, with events and
\* reports repeated, reordered, overlapping and failing half way.
BillingAgrees ==
    EventAppliedOnce /\ ProcessedIsApplied /\ AccountAgrees /\ MeteredOnce /\ ReportedIsMetered
=============================================================================
