----------------------------- MODULE NumberPool -----------------------------
(***************************************************************************)
(* The telephone number pool: a tenant reserves a number for half an hour, *)
(* pays for it in a Stripe checkout, and the Stripe webhook assigns it.    *)
(* Expiry has no job of its own: it runs inside the calls that list or     *)
(* look up numbers.  For a listing it is two statements, each committed by *)
(* itself; everywhere else it is part of a transaction, one action here.   *)
(* The activation reads the reservation without a lock and writes by id,   *)
(* so its read and its commit are two actions.                             *)
(*                                                                         *)
(* Definitions named as a variant of the next one are plausible mistakes,  *)
(* used only by the mutants of PROJECT.json.                               *)
(***************************************************************************)
EXTENDS Naturals

CONSTANTS Tenants, NoTenant,
          Numbers, NoNumber,
          Reservations,   \* ids of telephone_number_reservations
          Checkouts,      \* Stripe checkout sessions, with their one event
          Payer,          \* the tenant whose owner opens each of them
          Listings,       \* listings that can be in progress at once
          Handlers,       \* webhook deliveries that can be in progress at once
          RowSecurity,    \* the API's role is subject to row level security
          MaxPoolFaults,  \* bound on crashes and rejected calls
          MaxInventoryEdits, \* bound on edits of the inventory by its owner
          Deletable       \* tenants that may be erased

ASSUME PoolAssumption == /\ NoTenant \notin Tenants
                         /\ NoNumber \notin Numbers
                         /\ Payer \in [Checkouts -> Tenants]
                         /\ RowSecurity \in BOOLEAN
                         /\ MaxPoolFaults \in Nat
                         /\ MaxInventoryEdits \in Nat
                         /\ Deletable \subseteq Tenants

VARIABLES
  number,       \* telephone_number_inventory: status and assigned tenant
  reservation,  \* telephone_number_reservations
  connection,   \* channel_connections: the tenant's telephone number
  erased,       \* tenants whose row is deleted
  listing,      \* the await each listing is suspended in
  freeing,      \* numbers each listing has yet to put back
  checkout,     \* Stripe's side of each checkout session
  event,        \* stripe_webhook_events: status of its row
  handler,      \* the await each webhook delivery is suspended in
  poolFaults, edits \* bounds

poolVars == <<number, reservation, connection, erased, listing, freeing, checkout, event,
          handler, poolFaults, edits>>

NumberStatuses == {"available", "reserved", "assigned", "suspended", "retired"}
NumberRows == [status : NumberStatuses, tenant : Tenants \cup {NoTenant}]
ReservationRows ==
  [status : {"none", "active", "expired", "released", "completed"},
   tenant : Tenants \cup {NoTenant}, number : Numbers \cup {NoNumber},
   overdue : BOOLEAN]
NoReservation ==
  [status |-> "none", tenant |-> NoTenant, number |-> NoNumber, overdue |-> FALSE]

PoolInit ==
  /\ number = [n \in Numbers |-> [status |-> "available", tenant |-> NoTenant]]
  /\ reservation = [r \in Reservations |-> NoReservation]
  /\ connection = [t \in Tenants |-> NoNumber]
  /\ erased = {}
  /\ listing = [l \in Listings |-> "idle"]
  /\ freeing = [l \in Listings |-> {}]
  /\ checkout = [c \in Checkouts |-> [phase |-> "none", of |-> {}]]
  /\ event = [c \in Checkouts |-> "none"]
  /\ handler = [h \in Handlers |-> [at |-> "idle", on |-> {}]]
  /\ poolFaults = 0
  /\ edits = 0
-----------------------------------------------------------------------------
(* expireTelephoneNumberReservations: two UPDATEs. *)

Active(r) == reservation[r].status = "active"

\* The active reservations past their deadline that a session scoped to
\* `scope` sees; with row level security an unscoped session sees none.
Lapsed(scope) ==
  {r \in Reservations : /\ Active(r)
                        /\ reservation[r].overdue
                        /\ RowSecurity => reservation[r].tenant = scope}

NumbersOf(rs) == {reservation[r].number : r \in rs}

WithStatus(rs, status) ==
  [r \in Reservations |->
     IF r \in rs THEN [reservation[r] EXCEPT !.status = status] ELSE reservation[r]]

\* Of the numbers ns, those still reserved are available again.
PutBackAny(ns) ==
  [n \in Numbers |->
     IF n \in ns THEN [status |-> "available", tenant |-> NoTenant] ELSE number[n]]
PutBack(ns) ==
  [n \in Numbers |->
     IF n \in ns /\ number[n].status = "reserved"
     THEN [status |-> "available", tenant |-> NoTenant]
     ELSE number[n]]

\* listAvailableTelephoneNumbers or listTelephoneNumberInventory: the first
\* statement expires reservations ...
ExpireForListing(l) ==
  /\ listing[l] = "idle"
  /\ listing' = [listing EXCEPT ![l] = "free"]
  /\ reservation' = WithStatus(Lapsed(NoTenant), "expired")
  /\ freeing' = [freeing EXCEPT ![l] = NumbersOf(Lapsed(NoTenant))]
  /\ UNCHANGED <<number, connection, erased, checkout, event, handler, poolFaults, edits>>

\* ... and the second puts their numbers back, before the listing is read.
FreeForListing(l) ==
  /\ listing[l] = "free"
  /\ listing' = [listing EXCEPT ![l] = "idle"]
  /\ number' = PutBack(freeing[l])
  /\ freeing' = [freeing EXCEPT ![l] = {}]
  /\ UNCHANGED <<reservation, connection, erased, checkout, event, handler, poolFaults, edits>>

\* getActiveTelephoneNumberReservation: both statements in the transaction that
\* scopes the session to the tenant.
LookUp(t) ==
  /\ t \notin erased
  /\ Lapsed(t) # {}
  /\ reservation' = WithStatus(Lapsed(t), "expired")
  /\ number' = PutBack(NumbersOf(Lapsed(t)))
  /\ UNCHANGED <<connection, erased, listing, freeing, checkout, event, handler, poolFaults, edits>>
-----------------------------------------------------------------------------
(* createTelephoneNumberReservation: one transaction, rolled back as a whole
   when the number is not available or an active reservation already holds
   it (the partial unique index on the number). *)

Own(t) == {r \in Reservations : Active(r) /\ reservation[r].tenant = t}

\* A number whose tenant releases it keeps assigned_tenant_id.
KeptReserved(rows, ns) == rows
Released(rows, ns) ==
  [n \in Numbers |->
     IF n \in ns /\ rows[n].status = "reserved"
     THEN [rows[n] EXCEPT !.status = "available"]
     ELSE rows[n]]

\* Whether the pool lets a tenant have a number in this state.
AnyButAssigned(row) == row.status # "assigned"
IsAvailable(row) == row.status = "available"

CreateReservation(t, n, r) ==
  LET lapsed == Lapsed(t)
      own    == Own(t) \ lapsed
      rows   == Released(PutBack(NumbersOf(lapsed)), NumbersOf(own))
  IN  /\ t \notin erased
      /\ reservation[r].status = "none"
      /\ IsAvailable(rows[n])
      /\ \A other \in Reservations :
           Active(other) /\ reservation[other].number = n => other \in lapsed \cup own
      /\ number' = [rows EXCEPT ![n] = [status |-> "reserved", tenant |-> t]]
      /\ reservation' = [x \in Reservations |->
           IF x = r
           THEN [status |-> "active", tenant |-> t, number |-> n, overdue |-> FALSE]
           ELSE [reservation[x] EXCEPT
                   !.status = IF x \in lapsed THEN "expired"
                              ELSE IF x \in own THEN "released" ELSE @]]
      /\ UNCHANGED <<connection, erased, listing, freeing, checkout, event, handler, poolFaults, edits>>

\* Half an hour passes.
Lapse(r) ==
  /\ Active(r)
  /\ ~reservation[r].overdue
  /\ reservation' = [reservation EXCEPT ![r].overdue = TRUE]
  /\ UNCHANGED <<number, connection, erased, listing, freeing, checkout, event, handler, poolFaults, edits>>
-----------------------------------------------------------------------------
(* Checkout and the Stripe webhook. *)

\* POST checkout-sessions: look up the active reservation (expiring the lapsed
\* ones) and put its id into the session.
OpenCheckout(c) ==
  LET t == Payer[c] IN
  /\ t \notin erased
  /\ checkout[c].phase = "none"
  /\ \E r \in Own(t) \ Lapsed(t) :
       checkout' = [checkout EXCEPT ![c] = [phase |-> "open", of |-> {r}]]
  /\ reservation' = WithStatus(Lapsed(t), "expired")
  /\ number' = PutBack(NumbersOf(Lapsed(t)))
  /\ UNCHANGED <<connection, erased, listing, freeing, event, handler, poolFaults, edits>>

\* The customer pays, however late; Stripe posts checkout.session.completed
\* until it gets a 2xx.
Pay(c) ==
  /\ checkout[c].phase = "open"
  /\ checkout' = [checkout EXCEPT ![c].phase = "paid"]
  /\ UNCHANGED <<number, reservation, connection, erased, listing, freeing, event, handler, poolFaults, edits>>

\* Whether a delivery is acknowledged without processing it.
OnlyProcessedIsDuplicate(status) == status = "processed"
IsDuplicate(status) == status # "none"

\* recordStripeWebhookEvent: the insert fails for an erased tenant (foreign
\* key), and a duplicate is acknowledged whatever became of the first delivery.
Deliver(h, c) ==
  /\ handler[h].at = "idle"
  /\ checkout[c].phase = "paid"
  /\ Payer[c] \notin erased
  /\ \/ /\ IsDuplicate(event[c])
        /\ checkout' = [checkout EXCEPT ![c].phase = "acked"]
        /\ UNCHANGED <<event, handler>>
     \/ /\ ~IsDuplicate(event[c])
        /\ event' = [event EXCEPT ![c] = "received"]
        /\ handler' = [handler EXCEPT ![h] = [at |-> "read", on |-> {c}]]
        /\ UNCHANGED checkout
  /\ UNCHANGED <<number, reservation, connection, erased, listing, freeing, poolFaults, edits>>

\* activateReservedTelephoneNumber reads the reservation, which must be active ...
ReadReservation(h, c) ==
  /\ handler[h] = [at |-> "read", on |-> {c}]
  /\ handler' = [handler EXCEPT ![h].at =
       IF \E r \in checkout[c].of : Active(r) THEN "commit" ELSE "fail"]
  /\ UNCHANGED <<number, reservation, connection, erased, listing, freeing, checkout, event, poolFaults, edits>>

\* The unique index on an account id: no other tenant is connected to n.
FreeOrOwn(t, n) == \A u \in Tenants \ {t} : connection[u] # n

\* ... and commits: reservation completed, number assigned and the telephone
\* channel connected, by id; or rolls back on a conflict.
Activate(h, c, r) ==
  LET t == reservation[r].tenant
      n == reservation[r].number
  IN  /\ handler[h] = [at |-> "commit", on |-> {c}]
      /\ r \in checkout[c].of
      /\ t \in Tenants \ erased
      /\ FreeOrOwn(t, n)
      /\ reservation' = [reservation EXCEPT ![r].status = "completed"]
      /\ number' = [number EXCEPT ![n] = [status |-> "assigned", tenant |-> t]]
      /\ connection' = [connection EXCEPT ![t] = n]
      /\ handler' = [handler EXCEPT ![h].at = "mark"]
      /\ UNCHANGED <<erased, listing, freeing, checkout, event, poolFaults, edits>>

RollBackActivation(h, c) ==
  /\ handler[h] = [at |-> "commit", on |-> {c}]
  /\ \E r \in checkout[c].of :
       LET t == reservation[r].tenant IN
       t \notin Tenants \ erased \/ ~FreeOrOwn(t, reservation[r].number)
  /\ handler' = [handler EXCEPT ![h].at = "fail"]
  /\ UNCHANGED <<number, reservation, connection, erased, listing, freeing, checkout, event, poolFaults, edits>>

\* Any database call of the handler may reject; the transaction is rolled back.
Throw(h) ==
  /\ poolFaults < MaxPoolFaults
  /\ handler[h].at \in {"read", "commit", "mark"}
  /\ handler' = [handler EXCEPT ![h].at = "fail"]
  /\ poolFaults' = poolFaults + 1
  /\ UNCHANGED <<number, reservation, connection, erased, listing, freeing, checkout, event, edits>>

\* The event's row, if erasing the tenant has not deleted it.
Marked(c, status) ==
  [event EXCEPT ![c] = IF @ = "none" THEN "none" ELSE status]

\* markStripeWebhookEventProcessed, and a 200.
MarkProcessed(h, c) ==
  /\ handler[h] = [at |-> "mark", on |-> {c}]
  /\ event' = Marked(c, "processed")
  /\ checkout' = [checkout EXCEPT ![c].phase = "acked"]
  /\ handler' = [handler EXCEPT ![h] = [at |-> "idle", on |-> {}]]
  /\ UNCHANGED <<number, reservation, connection, erased, listing, freeing, poolFaults, edits>>

\* markStripeWebhookEventFailed, and the error is thrown again: a 500.
MarkEventFailed(h, c) ==
  /\ handler[h] = [at |-> "fail", on |-> {c}]
  /\ event' = Marked(c, "failed")
  /\ handler' = [handler EXCEPT ![h] = [at |-> "idle", on |-> {}]]
  /\ UNCHANGED <<number, reservation, connection, erased, listing, freeing, checkout, poolFaults, edits>>
-----------------------------------------------------------------------------
(* The process dies, the owner edits the inventory, a tenant is erased. *)

CrashHandler(h) ==
  /\ poolFaults < MaxPoolFaults
  /\ handler[h].at # "idle"
  /\ handler' = [handler EXCEPT ![h] = [at |-> "idle", on |-> {}]]
  /\ poolFaults' = poolFaults + 1
  /\ UNCHANGED <<number, reservation, connection, erased, listing, freeing, checkout, event, edits>>

CrashListing(l) ==
  /\ poolFaults < MaxPoolFaults
  /\ listing[l] = "free"
  /\ listing' = [listing EXCEPT ![l] = "idle"]
  /\ freeing' = [freeing EXCEPT ![l] = {}]
  /\ poolFaults' = poolFaults + 1
  /\ UNCHANGED <<number, reservation, connection, erased, checkout, event, handler, edits>>

\* updateTelephoneNumberInventory takes any status and tenant.
EditInventory(n) ==
  /\ edits < MaxInventoryEdits
  /\ \E row \in NumberRows :
       /\ row.tenant \notin erased
       /\ number' = [number EXCEPT ![n] = row]
  /\ edits' = edits + 1
  /\ UNCHANGED <<reservation, connection, erased, listing, freeing, checkout, event, handler, poolFaults>>

\* deleteTenantData: the foreign keys delete the tenant's reservations,
\* connection and event rows, and unset the tenant of its numbers.
DeleteTenant(t) ==
  /\ t \in Deletable \ erased
  /\ erased' = erased \cup {t}
  /\ reservation' = [r \in Reservations |->
       IF reservation[r].tenant = t
       THEN [NoReservation EXCEPT !.status = "released"]
       ELSE reservation[r]]
  /\ number' = [n \in Numbers |->
       IF number[n].tenant = t THEN [number[n] EXCEPT !.tenant = NoTenant] ELSE number[n]]
  /\ connection' = [connection EXCEPT ![t] = NoNumber]
  /\ event' = [c \in Checkouts |-> IF Payer[c] = t THEN "none" ELSE event[c]]
  /\ UNCHANGED <<listing, freeing, checkout, handler, poolFaults, edits>>
-----------------------------------------------------------------------------
Work(h) ==
  \E c \in Checkouts :
    \/ Deliver(h, c)
    \/ ReadReservation(h, c)
    \/ \E r \in Reservations : Activate(h, c, r)
    \/ RollBackActivation(h, c)
    \/ MarkProcessed(h, c)
    \/ MarkEventFailed(h, c)

PoolNext ==
  \/ \E l \in Listings : ExpireForListing(l) \/ FreeForListing(l) \/ CrashListing(l)
  \/ \E t \in Tenants : LookUp(t) \/ DeleteTenant(t)
  \/ \E t \in Tenants, n \in Numbers, r \in Reservations : CreateReservation(t, n, r)
  \/ \E r \in Reservations : Lapse(r)
  \/ \E c \in Checkouts : OpenCheckout(c) \/ Pay(c)
  \/ \E h \in Handlers : Work(h) \/ Throw(h) \/ CrashHandler(h)
  \/ \E n \in Numbers : EditInventory(n)

PoolSpec == PoolInit /\ [][PoolNext]_poolVars

\* Stripe redelivers until it gets a 2xx and the event loop runs the handler.
\* Nothing makes a tenant list, reserve or pay.
PoolFairness == \A h \in Handlers : WF_poolVars(Work(h))

PoolFairSpec == PoolSpec /\ PoolFairness
-----------------------------------------------------------------------------
PoolTypeOK ==
  /\ number \in [Numbers -> NumberRows]
  /\ reservation \in [Reservations -> ReservationRows]
  /\ connection \in [Tenants -> Numbers \cup {NoNumber}]
  /\ erased \subseteq Deletable
  /\ listing \in [Listings -> {"idle", "free"}]
  /\ freeing \in [Listings -> SUBSET Numbers]
  /\ checkout \in [Checkouts -> [phase : {"none", "open", "paid", "acked"},
                                 of : SUBSET Reservations]]
  /\ event \in [Checkouts -> {"none", "received", "processed", "failed"}]
  /\ handler \in [Handlers -> [at : {"idle", "read", "commit", "mark", "fail"},
                               on : SUBSET Checkouts]]
  /\ poolFaults \in 0 .. MaxPoolFaults
  /\ edits \in 0 .. MaxInventoryEdits

\* A number somebody holds is not offered to anybody else: no listing, look-up,
\* release or late activation puts back the number of an active reservation.
ActiveIsHidden ==
  \A r \in Reservations :
    Active(r) => number[reservation[r].number].status # "available"

\* A number is kept out of the pool only as long as somebody holds it: a
\* reserved number has an active reservation or is about to be put back.
ReservedIsHeld ==
  \A n \in Numbers : number[n].status = "reserved" =>
    \/ \E r \in Reservations : Active(r) /\ reservation[r].number = n
    \/ \E l \in Listings : n \in freeing[l]

\* The statuses of the numbers agree with the reservations: who holds a number
\* has it for himself, and nothing is kept for nobody.
NumbersAgree == ActiveIsHidden /\ ReservedIsHeld

\* What a tenant has paid for stays its own: its telephone channel is connected
\* to a number that it bought and that is assigned to it, whatever a late
\* activation, an expiry or another tenant's reservation of the same number does.
\* (A second purchase moves the connection to the second number, and nothing but
\* the connection keeps a late activation of somebody else away from the first.)
BoughtStaysBought ==
  \A r \in Reservations : reservation[r].status = "completed" =>
    \E s \in Reservations :
      /\ reservation[s].status = "completed"
      /\ reservation[s].tenant = reservation[r].tenant
      /\ connection[reservation[s].tenant] = reservation[s].number
      /\ number[reservation[s].number] =
           [status |-> "assigned", tenant |-> reservation[s].tenant]

\* Stripe gets its 2xx in the end, also for a payment that cannot be activated,
\* unless the tenant is erased (its event can no longer be recorded).
PaymentsSettle ==
  \A c \in Checkouts :
    checkout[c].phase = "paid" ~> checkout[c].phase = "acked" \/ Payer[c] \in erased

\* The integration guide: a tenant pays and then uses the number "after the
\* Stripe webhook activates the reservation".  A payment for a reservation that
\* is still good is not dropped.
PaidIsActivated ==
  \A c \in Checkouts : checkout[c].phase = "acked" =>
    \/ \E h \in Handlers : c \in handler[h].on
    \/ \A r \in checkout[c].of : ~Active(r)
-----------------------------------------------------------------------------
(* The inductive strengthening of ActiveIsHidden. *)

\* The two partial unique indexes, on the number and on the tenant.
OneActive ==
  /\ \A r \in Reservations : Active(r) => /\ reservation[r].number \in Numbers
                                         /\ reservation[r].tenant \in Tenants
  /\ \A r, s \in Reservations :
       /\ Active(r)
       /\ Active(s)
       /\ \/ reservation[r].number = reservation[s].number
          \/ reservation[r].tenant = reservation[s].tenant
       => r = s

\* A number a listing is about to put back is in nobody else's hands, and no
\* other listing will put it back a second time.
FreeingIsQuiet ==
  \A l \in Listings, n \in Numbers : n \in freeing[l] =>
    /\ number[n].status # "available"
    /\ \A r \in Reservations : Active(r) => reservation[r].number # n
    /\ \A k \in Listings \ {l} : n \notin freeing[k]

IdleHoldsNothing == \A l \in Listings : listing[l] = "idle" => freeing[l] = {}

PoolIInv ==
  /\ PoolTypeOK
  /\ OneActive
  /\ IdleHoldsNothing
  /\ FreeingIsQuiet
  /\ ActiveIsHidden
=============================================================================
