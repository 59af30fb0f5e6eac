-------------------------- MODULE NumberPoolProofs --------------------------
(***************************************************************************)
(* Proofs about NumberPool for every set of tenants, numbers, reservations *)
(* and concurrent listings and webhook deliveries, with and without row    *)
(* level security, whatever crashes and whoever is erased; only the        *)
(* owner's free-hand edits of the inventory are left out.                  *)
(***************************************************************************)
EXTENDS NumberPool, TLAPS

(* What the two statements of an expiry and a release compute are rows. *)
LEMMA WithStatusType ==
  ASSUME PoolTypeOK, NEW rs \in SUBSET Reservations,
         NEW status \in {"expired", "released", "completed"}
  PROVE  WithStatus(rs, status) \in [Reservations -> ReservationRows]
  <1>1. \A r \in Reservations : reservation[r] \in ReservationRows
    BY DEF PoolTypeOK
  <1>2. \A r \in Reservations :
          [reservation[r] EXCEPT !.status = status] \in ReservationRows
    BY <1>1 DEF ReservationRows
  <1> QED BY <1>1, <1>2 DEF WithStatus

LEMMA PutBackType ==
  ASSUME PoolTypeOK, NEW ns
  PROVE  PutBack(ns) \in [Numbers -> NumberRows]
  BY DEF PoolTypeOK, PutBack, NumberRows, NumberStatuses

(* The numbers of lapsed reservations are numbers. *)
LEMMA LapsedNumbers ==
  ASSUME OneActive, NEW scope
  PROVE  /\ Lapsed(scope) \in SUBSET Reservations
         /\ NumbersOf(Lapsed(scope)) \in SUBSET Numbers
  BY DEF OneActive, Lapsed, NumbersOf

(* Every step keeps the types. *)
LEMMA TypeStep ==
  ASSUME PoolTypeOK, OneActive, [PoolNext]_poolVars
  PROVE  PoolTypeOK'
  <1> USE PoolAssumption
  <1>1. ASSUME NEW l \in Listings, ExpireForListing(l)
        PROVE  PoolTypeOK'
    <2>1. reservation' \in [Reservations -> ReservationRows]
      BY <1>1, WithStatusType, LapsedNumbers DEF ExpireForListing
    <2>2. freeing' \in [Listings -> SUBSET Numbers]
      BY <1>1, LapsedNumbers DEF ExpireForListing, PoolTypeOK
    <2> QED BY <1>1, <2>1, <2>2 DEF ExpireForListing, PoolTypeOK
  <1>2. ASSUME NEW l \in Listings, FreeForListing(l)
        PROVE  PoolTypeOK'
    BY <1>2, PutBackType DEF FreeForListing, PoolTypeOK
  <1>3. ASSUME NEW l \in Listings, CrashListing(l)
        PROVE  PoolTypeOK'
    BY <1>3 DEF CrashListing, PoolTypeOK
  <1>4. ASSUME NEW t \in Tenants, LookUp(t)
        PROVE  PoolTypeOK'
    <2>1. reservation' \in [Reservations -> ReservationRows]
      BY <1>4, WithStatusType, LapsedNumbers DEF LookUp
    <2>2. number' \in [Numbers -> NumberRows]
      BY <1>4, PutBackType DEF LookUp
    <2> QED BY <1>4, <2>1, <2>2 DEF LookUp, PoolTypeOK
  <1>5. ASSUME NEW t \in Tenants, DeleteTenant(t)
        PROVE  PoolTypeOK'
    <2>1. reservation' \in [Reservations -> ReservationRows]
      BY <1>5 DEF DeleteTenant, PoolTypeOK, ReservationRows, NoReservation
    <2>2. number' \in [Numbers -> NumberRows]
      BY <1>5 DEF DeleteTenant, PoolTypeOK, NumberRows
    <2>3. /\ erased' \subseteq Deletable
          /\ connection' \in [Tenants -> Numbers \cup {NoNumber}]
          /\ event' \in [Checkouts -> {"none", "received", "processed", "failed"}]
      BY <1>5 DEF DeleteTenant, PoolTypeOK
    <2> QED BY <1>5, <2>1, <2>2, <2>3 DEF DeleteTenant, PoolTypeOK
  <1>6. ASSUME NEW t \in Tenants, NEW n \in Numbers, NEW r \in Reservations,
            CreateReservation(t, n, r)
        PROVE  PoolTypeOK'
    <2>1. reservation' \in [Reservations -> ReservationRows]
      <3>1. \A x \in Reservations : reservation'[x] \in ReservationRows
        BY <1>6 DEF CreateReservation, PoolTypeOK, ReservationRows
      <3>2. reservation' = [x \in Reservations |-> reservation'[x]]
        BY <1>6 DEF CreateReservation
      <3> QED BY <3>1, <3>2
    <2>2. PutBack(NumbersOf(Lapsed(t))) \in [Numbers -> NumberRows]
      BY PutBackType
    <2>3. Released(PutBack(NumbersOf(Lapsed(t))), NumbersOf(Own(t) \ Lapsed(t)))
            \in [Numbers -> NumberRows]
      BY <2>2 DEF Released, NumberRows, NumberStatuses
    <2>4. number' \in [Numbers -> NumberRows]
      BY <1>6, <2>3 DEF CreateReservation, NumberRows, NumberStatuses
    <2> QED BY <1>6, <2>1, <2>4 DEF CreateReservation, PoolTypeOK
  <1>7. ASSUME NEW r \in Reservations, Lapse(r)
        PROVE  PoolTypeOK'
    <2>1. reservation' \in [Reservations -> ReservationRows]
      <3>a. reservation[r] \in ReservationRows
        BY DEF PoolTypeOK
      <3>1. [reservation[r] EXCEPT !.overdue = TRUE] \in ReservationRows
        BY <3>a DEF ReservationRows
      <3> QED BY <1>7, <3>1 DEF Lapse, PoolTypeOK
    <2> QED BY <1>7, <2>1 DEF Lapse, PoolTypeOK
  <1>8. ASSUME NEW c \in Checkouts, OpenCheckout(c)
        PROVE  PoolTypeOK'
    <2>1. reservation' \in [Reservations -> ReservationRows]
      BY <1>8, WithStatusType, LapsedNumbers DEF OpenCheckout
    <2>2. number' \in [Numbers -> NumberRows]
      BY <1>8, PutBackType DEF OpenCheckout
    <2>3. PICK r \in Own(Payer[c]) \ Lapsed(Payer[c]) :
            checkout' = [checkout EXCEPT ![c] = [phase |-> "open", of |-> {r}]]
      BY <1>8 DEF OpenCheckout
    <2>4. {r} \in SUBSET Reservations
      BY DEF Own
    <2>5. checkout' \in [Checkouts -> [phase : {"none", "open", "paid", "acked"},
                                      of : SUBSET Reservations]]
      BY <2>3, <2>4 DEF PoolTypeOK
    <2> QED BY <1>8, <2>1, <2>2, <2>5 DEF OpenCheckout, PoolTypeOK
  <1>9. ASSUME NEW c \in Checkouts, Pay(c)
        PROVE  PoolTypeOK'
    BY <1>9 DEF Pay, PoolTypeOK
  <1>10. ASSUME NEW h \in Handlers, NEW c \in Checkouts, Deliver(h, c)
         PROVE  PoolTypeOK'
    <2>a. checkout[c] \in [phase : {"none", "open", "paid", "acked"}, of : SUBSET Reservations]
      BY DEF PoolTypeOK
    <2>0. /\ [checkout[c] EXCEPT !.phase = "acked"]
               \in [phase : {"none", "open", "paid", "acked"}, of : SUBSET Reservations]
          /\ [at |-> "read", on |-> {c}]
               \in [at : {"idle", "read", "commit", "mark", "fail"}, on : SUBSET Checkouts]
      BY <2>a
    <2>1. checkout' \in [Checkouts -> [phase : {"none", "open", "paid", "acked"},
                                      of : SUBSET Reservations]]
      <3>1. \/ checkout' = checkout
            \/ checkout' = [checkout EXCEPT ![c].phase = "acked"]
        BY <1>10 DEF Deliver
      <3>2. checkout \in [Checkouts -> [phase : {"none", "open", "paid", "acked"},
                                        of : SUBSET Reservations]]
        BY DEF PoolTypeOK
      <3> QED BY <3>1, <3>2
    <2>2. event' \in [Checkouts -> {"none", "received", "processed", "failed"}]
      BY <1>10 DEF Deliver, PoolTypeOK
    <2>3. handler' \in [Handlers -> [at : {"idle", "read", "commit", "mark", "fail"},
                                    on : SUBSET Checkouts]]
      <3>1. handler' = handler \/ handler' = [handler EXCEPT ![h] = [at |-> "read", on |-> {c}]]
        BY <1>10 DEF Deliver
      <3> QED BY <3>1, <2>0 DEF PoolTypeOK
    <2> QED BY <1>10, <2>1, <2>2, <2>3 DEF Deliver, PoolTypeOK
  <1>11. ASSUME NEW h \in Handlers, NEW c \in Checkouts,
            ReadReservation(h, c)
         PROVE  PoolTypeOK'
    BY <1>11 DEF ReadReservation, PoolTypeOK
  <1>12. ASSUME NEW h \in Handlers, NEW c \in Checkouts, NEW r \in Reservations,
            Activate(h, c, r)
         PROVE  PoolTypeOK'
    <2>1. /\ reservation[r].tenant \in Tenants
          /\ reservation[r].number \in Numbers \cup {NoNumber}
      BY <1>12 DEF Activate, PoolTypeOK, ReservationRows
    <2>2. number' \in [Numbers -> NumberRows]
      BY <1>12, <2>1 DEF Activate, PoolTypeOK, NumberRows, NumberStatuses
    <2>3. reservation' \in [Reservations -> ReservationRows]
      <3>a. reservation[r] \in ReservationRows
        BY DEF PoolTypeOK
      <3>1. [reservation[r] EXCEPT !.status = "completed"] \in ReservationRows
        BY <3>a DEF ReservationRows
      <3> QED BY <1>12, <3>1 DEF Activate, PoolTypeOK
    <2>4. connection' \in [Tenants -> Numbers \cup {NoNumber}]
      BY <1>12, <2>1 DEF Activate, PoolTypeOK
    <2>5. handler' \in [Handlers -> [at : {"idle", "read", "commit", "mark", "fail"},
                                    on : SUBSET Checkouts]]
      BY <1>12 DEF Activate, PoolTypeOK
    <2> QED BY <1>12, <2>2, <2>3, <2>4, <2>5 DEF Activate, PoolTypeOK
  <1>13. ASSUME NEW h \in Handlers, NEW c \in Checkouts, RollBackActivation(h, c)
         PROVE  PoolTypeOK'
    BY <1>13 DEF RollBackActivation, PoolTypeOK
  <1>14. ASSUME NEW h \in Handlers, NEW c \in Checkouts, MarkProcessed(h, c)
         PROVE  PoolTypeOK'
    BY <1>14 DEF MarkProcessed, PoolTypeOK, Marked
  <1>15. ASSUME NEW h \in Handlers, NEW c \in Checkouts, MarkEventFailed(h, c)
         PROVE  PoolTypeOK'
    BY <1>15 DEF MarkEventFailed, PoolTypeOK, Marked
  <1>16. ASSUME NEW h \in Handlers, Throw(h)
         PROVE  PoolTypeOK'
    BY <1>16 DEF Throw, PoolTypeOK
  <1>17. ASSUME NEW h \in Handlers, CrashHandler(h)
         PROVE  PoolTypeOK'
    BY <1>17 DEF CrashHandler, PoolTypeOK
  <1>18. ASSUME NEW n \in Numbers, EditInventory(n)
         PROVE  PoolTypeOK'
    BY <1>18 DEF EditInventory, PoolTypeOK
  <1>19. ASSUME UNCHANGED poolVars
         PROVE  PoolTypeOK'
    BY <1>19 DEF poolVars, PoolTypeOK
  <1> QED BY <1>1, <1>2, <1>3, <1>4, <1>5, <1>6, <1>7, <1>8, <1>9, <1>10,
             <1>11, <1>12, <1>13, <1>14, <1>15, <1>16, <1>17, <1>18, <1>19 DEF
             PoolNext, Work
(* No step makes a second reservation of a number, or of a tenant, active. *)
LEMMA OneActiveStep ==
  ASSUME PoolTypeOK, OneActive, [PoolNext]_poolVars
  PROVE  OneActive'
  <1> USE PoolAssumption
  <1> USE DEF OneActive, Active, NumberRows, ReservationRows
  <1>a. /\ number \in [Numbers -> NumberRows]
        /\ reservation \in [Reservations -> ReservationRows]
    BY DEF PoolTypeOK, NumberRows, ReservationRows
  <1> USE <1>a
  <1>1. ASSUME NEW l \in Listings, ExpireForListing(l)
        PROVE  OneActive'
    BY <1>1 DEF ExpireForListing, WithStatus, Lapsed, NumbersOf
  <1>2. ASSUME NEW l \in Listings, FreeForListing(l)
        PROVE  OneActive'
    BY <1>2 DEF FreeForListing, PutBack
  <1>3. ASSUME NEW l \in Listings, CrashListing(l)
        PROVE  OneActive'
    BY <1>3 DEF CrashListing
  <1>4. ASSUME NEW t \in Tenants, LookUp(t)
        PROVE  OneActive'
    BY <1>4 DEF LookUp, WithStatus, Lapsed, NumbersOf, PutBack
  <1>5. ASSUME NEW t \in Tenants, DeleteTenant(t)
        PROVE  OneActive'
    BY <1>5 DEF DeleteTenant, NoReservation
  <1>6. ASSUME NEW t \in Tenants, NEW n \in Numbers, NEW r \in Reservations,
            CreateReservation(t, n, r)
        PROVE  OneActive'
    BY <1>6 DEF CreateReservation, WithStatus, Lapsed, NumbersOf, PutBack, Own, Released, IsAvailable
  <1>7. ASSUME NEW r \in Reservations, Lapse(r)
        PROVE  OneActive'
    BY <1>7 DEF Lapse
  <1>8. ASSUME NEW c \in Checkouts, OpenCheckout(c)
        PROVE  OneActive'
    BY <1>8 DEF OpenCheckout, WithStatus, Lapsed, NumbersOf, PutBack, Own
  <1>9. ASSUME NEW c \in Checkouts, Pay(c)
        PROVE  OneActive'
    BY <1>9 DEF Pay
  <1>10. ASSUME NEW h \in Handlers, NEW c \in Checkouts, Deliver(h, c)
         PROVE  OneActive'
    BY <1>10 DEF Deliver
  <1>11. ASSUME NEW h \in Handlers, NEW c \in Checkouts,
            ReadReservation(h, c)
         PROVE  OneActive'
    BY <1>11 DEF ReadReservation
  <1>12. ASSUME NEW h \in Handlers, NEW c \in Checkouts, NEW r \in Reservations,
            Activate(h, c, r)
         PROVE  OneActive'
    BY <1>12 DEF Activate
  <1>13. ASSUME NEW h \in Handlers, NEW c \in Checkouts, RollBackActivation(h, c)
         PROVE  OneActive'
    BY <1>13 DEF RollBackActivation
  <1>14. ASSUME NEW h \in Handlers, NEW c \in Checkouts, MarkProcessed(h, c)
         PROVE  OneActive'
    BY <1>14 DEF MarkProcessed, Marked
  <1>15. ASSUME NEW h \in Handlers, NEW c \in Checkouts, MarkEventFailed(h, c)
         PROVE  OneActive'
    BY <1>15 DEF MarkEventFailed, Marked
  <1>16. ASSUME NEW h \in Handlers, Throw(h)
         PROVE  OneActive'
    BY <1>16 DEF Throw
  <1>17. ASSUME NEW h \in Handlers, CrashHandler(h)
         PROVE  OneActive'
    BY <1>17 DEF CrashHandler
  <1>18. ASSUME NEW n \in Numbers, EditInventory(n)
         PROVE  OneActive'
    BY <1>18 DEF EditInventory
  <1>19. ASSUME UNCHANGED poolVars
         PROVE  OneActive'
    BY <1>19 DEF poolVars
  <1> HIDE DEF OneActive, Active, NumberRows, ReservationRows
  <1> QED BY <1>1, <1>2, <1>3, <1>4, <1>5, <1>6, <1>7, <1>8, <1>9, <1>10,
             <1>11, <1>12, <1>13, <1>14, <1>15, <1>16, <1>17, <1>18, <1>19 DEF
             PoolNext, Work
(* A listing that is not under way has nothing to put back. *)
LEMMA IdleStep ==
  ASSUME PoolTypeOK, IdleHoldsNothing, [PoolNext]_poolVars
  PROVE  IdleHoldsNothing'
  <1> USE DEF IdleHoldsNothing
  <1>a. /\ freeing \in [Listings -> SUBSET Numbers]
        /\ listing \in [Listings -> {"idle", "free"}]
    BY DEF PoolTypeOK, NumberRows, ReservationRows
  <1> USE <1>a
  <1>1. ASSUME NEW l \in Listings, ExpireForListing(l)
        PROVE  IdleHoldsNothing'
    BY <1>1 DEF ExpireForListing, WithStatus, Lapsed, NumbersOf
  <1>2. ASSUME NEW l \in Listings, FreeForListing(l)
        PROVE  IdleHoldsNothing'
    BY <1>2 DEF FreeForListing, PutBack
  <1>3. ASSUME NEW l \in Listings, CrashListing(l)
        PROVE  IdleHoldsNothing'
    BY <1>3 DEF CrashListing
  <1>4. ASSUME NEW t \in Tenants, LookUp(t)
        PROVE  IdleHoldsNothing'
    BY <1>4 DEF LookUp, WithStatus, Lapsed, NumbersOf, PutBack
  <1>5. ASSUME NEW t \in Tenants, DeleteTenant(t)
        PROVE  IdleHoldsNothing'
    BY <1>5 DEF DeleteTenant, NoReservation
  <1>6. ASSUME NEW t \in Tenants, NEW n \in Numbers, NEW r \in Reservations,
            CreateReservation(t, n, r)
        PROVE  IdleHoldsNothing'
    BY <1>6 DEF CreateReservation, WithStatus, Lapsed, NumbersOf, PutBack, Own, Released, IsAvailable
  <1>7. ASSUME NEW r \in Reservations, Lapse(r)
        PROVE  IdleHoldsNothing'
    BY <1>7 DEF Lapse
  <1>8. ASSUME NEW c \in Checkouts, OpenCheckout(c)
        PROVE  IdleHoldsNothing'
    BY <1>8 DEF OpenCheckout, WithStatus, Lapsed, NumbersOf, PutBack, Own
  <1>9. ASSUME NEW c \in Checkouts, Pay(c)
        PROVE  IdleHoldsNothing'
    BY <1>9 DEF Pay
  <1>10. ASSUME NEW h \in Handlers, NEW c \in Checkouts, Deliver(h, c)
         PROVE  IdleHoldsNothing'
    BY <1>10 DEF Deliver
  <1>11. ASSUME NEW h \in Handlers, NEW c \in Checkouts,
            ReadReservation(h, c)
         PROVE  IdleHoldsNothing'
    BY <1>11 DEF ReadReservation
  <1>12. ASSUME NEW h \in Handlers, NEW c \in Checkouts, NEW r \in Reservations,
            Activate(h, c, r)
         PROVE  IdleHoldsNothing'
    BY <1>12 DEF Activate
  <1>13. ASSUME NEW h \in Handlers, NEW c \in Checkouts, RollBackActivation(h, c)
         PROVE  IdleHoldsNothing'
    BY <1>13 DEF RollBackActivation
  <1>14. ASSUME NEW h \in Handlers, NEW c \in Checkouts, MarkProcessed(h, c)
         PROVE  IdleHoldsNothing'
    BY <1>14 DEF MarkProcessed, Marked
  <1>15. ASSUME NEW h \in Handlers, NEW c \in Checkouts, MarkEventFailed(h, c)
         PROVE  IdleHoldsNothing'
    BY <1>15 DEF MarkEventFailed, Marked
  <1>16. ASSUME NEW h \in Handlers, Throw(h)
         PROVE  IdleHoldsNothing'
    BY <1>16 DEF Throw
  <1>17. ASSUME NEW h \in Handlers, CrashHandler(h)
         PROVE  IdleHoldsNothing'
    BY <1>17 DEF CrashHandler
  <1>18. ASSUME NEW n \in Numbers, EditInventory(n)
         PROVE  IdleHoldsNothing'
    BY <1>18 DEF EditInventory
  <1>19. ASSUME UNCHANGED poolVars
         PROVE  IdleHoldsNothing'
    BY <1>19 DEF poolVars
  <1> HIDE DEF IdleHoldsNothing
  <1> QED BY <1>1, <1>2, <1>3, <1>4, <1>5, <1>6, <1>7, <1>8, <1>9, <1>10,
             <1>11, <1>12, <1>13, <1>14, <1>15, <1>16, <1>17, <1>18, <1>19 DEF
             PoolNext, Work
(* What a listing has expired stays out of everybody's hands until it is put
   back. *)
LEMMA FreeingStep ==
  ASSUME MaxInventoryEdits = 0, PoolTypeOK, OneActive, IdleHoldsNothing, FreeingIsQuiet,
         ActiveIsHidden, [PoolNext]_poolVars
  PROVE  FreeingIsQuiet'
  <1> USE PoolAssumption
  <1> USE DEF FreeingIsQuiet, OneActive, IdleHoldsNothing, ActiveIsHidden,
              Active
  <1>a. /\ number \in [Numbers -> NumberRows]
        /\ reservation \in [Reservations -> ReservationRows]
        /\ freeing \in [Listings -> SUBSET Numbers]
        /\ listing \in [Listings -> {"idle", "free"}]
        /\ edits = 0
    BY DEF PoolTypeOK, NumberRows, ReservationRows
  <1> USE <1>a
  <1>1. ASSUME NEW l \in Listings, ExpireForListing(l)
        PROVE  FreeingIsQuiet'
    BY <1>1 DEF ExpireForListing, WithStatus, Lapsed, NumbersOf
  <1>2. ASSUME NEW l \in Listings, FreeForListing(l)
        PROVE  FreeingIsQuiet'
    BY <1>2 DEF FreeForListing, PutBack
  <1>3. ASSUME NEW l \in Listings, CrashListing(l)
        PROVE  FreeingIsQuiet'
    BY <1>3 DEF CrashListing
  <1>4. ASSUME NEW t \in Tenants, LookUp(t)
        PROVE  FreeingIsQuiet'
    BY <1>4 DEF LookUp, WithStatus, Lapsed, NumbersOf, PutBack
  <1>5. ASSUME NEW t \in Tenants, DeleteTenant(t)
        PROVE  FreeingIsQuiet'
    BY <1>5 DEF DeleteTenant, NoReservation
  <1>6. ASSUME NEW t \in Tenants, NEW n \in Numbers, NEW r \in Reservations,
            CreateReservation(t, n, r)
        PROVE  FreeingIsQuiet'
    <2> DEFINE lapsed == Lapsed(t)
               own    == Own(t) \ lapsed
               rows   == Released(PutBack(NumbersOf(lapsed)), NumbersOf(own))
    <2>1. \A m \in Numbers :
            m \notin NumbersOf(lapsed) /\ m \notin NumbersOf(own) => rows[m] = number[m]
      BY DEF PutBack, Released
    <2>2. \A m \in Numbers : m # n => number'[m] = rows[m]
      BY <1>6 DEF CreateReservation
    <2>3. IsAvailable(rows[n])
      BY <1>6 DEF CreateReservation
    <2>4. \A x \in Reservations :
            /\ Active(x)' => x = r \/ Active(x)
            /\ Active(x) /\ x \notin lapsed /\ x \notin own => Active(x)'
            /\ x # r => reservation'[x].number = reservation[x].number
      BY <1>6 DEF CreateReservation
    <2>5. Active(r)' /\ reservation'[r].number = n /\ freeing' = freeing
      BY <1>6 DEF CreateReservation
    <2>6. lapsed \cup own \subseteq {x \in Reservations : Active(x)}
      BY DEF Lapsed, Own
    <2>7. \A l \in Listings, m \in Numbers : m \in freeing[l] =>
            m \notin NumbersOf(lapsed) /\ m \notin NumbersOf(own)
      BY <2>6 DEF NumbersOf
    <2>8. \A l \in Listings, m \in Numbers : m \in freeing[l] => m # n
      BY <2>1, <2>3, <2>7 DEF IsAvailable
    <2> HIDE DEF lapsed, own, rows
    <2> QED BY <2>1, <2>2, <2>4, <2>5, <2>7, <2>8
  <1>7. ASSUME NEW r \in Reservations, Lapse(r)
        PROVE  FreeingIsQuiet'
    BY <1>7 DEF Lapse
  <1>8. ASSUME NEW c \in Checkouts, OpenCheckout(c)
        PROVE  FreeingIsQuiet'
    BY <1>8 DEF OpenCheckout, WithStatus, Lapsed, NumbersOf, PutBack, Own
  <1>9. ASSUME NEW c \in Checkouts, Pay(c)
        PROVE  FreeingIsQuiet'
    BY <1>9 DEF Pay
  <1>10. ASSUME NEW h \in Handlers, NEW c \in Checkouts, Deliver(h, c)
         PROVE  FreeingIsQuiet'
    BY <1>10 DEF Deliver
  <1>11. ASSUME NEW h \in Handlers, NEW c \in Checkouts,
            ReadReservation(h, c)
         PROVE  FreeingIsQuiet'
    BY <1>11 DEF ReadReservation
  <1>12. ASSUME NEW h \in Handlers, NEW c \in Checkouts, NEW r \in Reservations,
            Activate(h, c, r)
         PROVE  FreeingIsQuiet'
    BY <1>12 DEF Activate
  <1>13. ASSUME NEW h \in Handlers, NEW c \in Checkouts, RollBackActivation(h, c)
         PROVE  FreeingIsQuiet'
    BY <1>13 DEF RollBackActivation
  <1>14. ASSUME NEW h \in Handlers, NEW c \in Checkouts, MarkProcessed(h, c)
         PROVE  FreeingIsQuiet'
    BY <1>14 DEF MarkProcessed, Marked
  <1>15. ASSUME NEW h \in Handlers, NEW c \in Checkouts, MarkEventFailed(h, c)
         PROVE  FreeingIsQuiet'
    BY <1>15 DEF MarkEventFailed, Marked
  <1>16. ASSUME NEW h \in Handlers, Throw(h)
         PROVE  FreeingIsQuiet'
    BY <1>16 DEF Throw
  <1>17. ASSUME NEW h \in Handlers, CrashHandler(h)
         PROVE  FreeingIsQuiet'
    BY <1>17 DEF CrashHandler
  <1>18. ASSUME NEW n \in Numbers, EditInventory(n)
         PROVE  FreeingIsQuiet'
    BY <1>18 DEF EditInventory
  <1>19. ASSUME UNCHANGED poolVars
         PROVE  FreeingIsQuiet'
    BY <1>19 DEF poolVars
  <1> HIDE DEF FreeingIsQuiet, OneActive, IdleHoldsNothing, ActiveIsHidden,
               Active
  <1> QED BY <1>1, <1>2, <1>3, <1>4, <1>5, <1>6, <1>7, <1>8, <1>9, <1>10,
             <1>11, <1>12, <1>13, <1>14, <1>15, <1>16, <1>17, <1>18, <1>19 DEF
             PoolNext, Work
(* No step puts back a number that is actively reserved. *)
LEMMA HiddenStep ==
  ASSUME MaxInventoryEdits = 0, PoolTypeOK, OneActive, FreeingIsQuiet, ActiveIsHidden,
         [PoolNext]_poolVars
  PROVE  ActiveIsHidden'
  <1> USE PoolAssumption
  <1> USE DEF FreeingIsQuiet, OneActive, ActiveIsHidden, Active
  <1>a. /\ number \in [Numbers -> NumberRows]
        /\ reservation \in [Reservations -> ReservationRows]
        /\ freeing \in [Listings -> SUBSET Numbers]
        /\ edits = 0
    BY DEF PoolTypeOK, NumberRows, ReservationRows
  <1> USE <1>a
  <1>1. ASSUME NEW l \in Listings, ExpireForListing(l)
        PROVE  ActiveIsHidden'
    BY <1>1 DEF ExpireForListing, WithStatus, Lapsed, NumbersOf
  <1>2. ASSUME NEW l \in Listings, FreeForListing(l)
        PROVE  ActiveIsHidden'
    BY <1>2 DEF FreeForListing, PutBack
  <1>3. ASSUME NEW l \in Listings, CrashListing(l)
        PROVE  ActiveIsHidden'
    BY <1>3 DEF CrashListing
  <1>4. ASSUME NEW t \in Tenants, LookUp(t)
        PROVE  ActiveIsHidden'
    BY <1>4 DEF LookUp, WithStatus, Lapsed, NumbersOf, PutBack
  <1>5. ASSUME NEW t \in Tenants, DeleteTenant(t)
        PROVE  ActiveIsHidden'
    BY <1>5 DEF DeleteTenant, NoReservation
  <1>6. ASSUME NEW t \in Tenants, NEW n \in Numbers, NEW r \in Reservations,
            CreateReservation(t, n, r)
        PROVE  ActiveIsHidden'
    <2> DEFINE lapsed == Lapsed(t)
               own    == Own(t) \ lapsed
               rows   == Released(PutBack(NumbersOf(lapsed)), NumbersOf(own))
    <2>1. \A m \in Numbers :
            m \notin NumbersOf(lapsed) /\ m \notin NumbersOf(own) => rows[m] = number[m]
      BY DEF PutBack, Released
    <2>2. \A m \in Numbers : m # n => number'[m] = rows[m]
      BY <1>6 DEF CreateReservation
    <2>3. IsAvailable(rows[n])
      BY <1>6 DEF CreateReservation
    <2>4. \A x \in Reservations :
            /\ Active(x)' => x = r \/ Active(x)
            /\ Active(x) /\ x \notin lapsed /\ x \notin own => Active(x)'
            /\ x # r => reservation'[x].number = reservation[x].number
      BY <1>6 DEF CreateReservation
    <2>5. Active(r)' /\ reservation'[r].number = n /\ freeing' = freeing
      BY <1>6 DEF CreateReservation
    <2>6. lapsed \cup own \subseteq {x \in Reservations : Active(x)}
      BY DEF Lapsed, Own
    <2>7. \A x \in Reservations : Active(x)' /\ x # r =>
            x \notin lapsed /\ x \notin own
      BY <1>6 DEF CreateReservation
    <2>8. \A x \in Reservations : Active(x)' /\ x # r => reservation[x].number # n
      BY <1>6, <2>4, <2>7 DEF CreateReservation
    <2>9. \A x \in Reservations : Active(x)' /\ x # r =>
            /\ reservation[x].number \notin NumbersOf(lapsed)
            /\ reservation[x].number \notin NumbersOf(own)
      BY <2>4, <2>6, <2>7 DEF NumbersOf
    <2>10. number'[n].status = "reserved"
      BY <1>6 DEF CreateReservation, Released
    <2> HIDE DEF lapsed, own, rows
    <2> QED BY <2>1, <2>2, <2>4, <2>5, <2>8, <2>9, <2>10
  <1>7. ASSUME NEW r \in Reservations, Lapse(r)
        PROVE  ActiveIsHidden'
    BY <1>7 DEF Lapse
  <1>8. ASSUME NEW c \in Checkouts, OpenCheckout(c)
        PROVE  ActiveIsHidden'
    BY <1>8 DEF OpenCheckout, WithStatus, Lapsed, NumbersOf, PutBack, Own
  <1>9. ASSUME NEW c \in Checkouts, Pay(c)
        PROVE  ActiveIsHidden'
    BY <1>9 DEF Pay
  <1>10. ASSUME NEW h \in Handlers, NEW c \in Checkouts, Deliver(h, c)
         PROVE  ActiveIsHidden'
    BY <1>10 DEF Deliver
  <1>11. ASSUME NEW h \in Handlers, NEW c \in Checkouts,
            ReadReservation(h, c)
         PROVE  ActiveIsHidden'
    BY <1>11 DEF ReadReservation
  <1>12. ASSUME NEW h \in Handlers, NEW c \in Checkouts, NEW r \in Reservations,
            Activate(h, c, r)
         PROVE  ActiveIsHidden'
    BY <1>12 DEF Activate
  <1>13. ASSUME NEW h \in Handlers, NEW c \in Checkouts, RollBackActivation(h, c)
         PROVE  ActiveIsHidden'
    BY <1>13 DEF RollBackActivation
  <1>14. ASSUME NEW h \in Handlers, NEW c \in Checkouts, MarkProcessed(h, c)
         PROVE  ActiveIsHidden'
    BY <1>14 DEF MarkProcessed, Marked
  <1>15. ASSUME NEW h \in Handlers, NEW c \in Checkouts, MarkEventFailed(h, c)
         PROVE  ActiveIsHidden'
    BY <1>15 DEF MarkEventFailed, Marked
  <1>16. ASSUME NEW h \in Handlers, Throw(h)
         PROVE  ActiveIsHidden'
    BY <1>16 DEF Throw
  <1>17. ASSUME NEW h \in Handlers, CrashHandler(h)
         PROVE  ActiveIsHidden'
    BY <1>17 DEF CrashHandler
  <1>18. ASSUME NEW n \in Numbers, EditInventory(n)
         PROVE  ActiveIsHidden'
    BY <1>18 DEF EditInventory
  <1>19. ASSUME UNCHANGED poolVars
         PROVE  ActiveIsHidden'
    BY <1>19 DEF poolVars
  <1> HIDE DEF FreeingIsQuiet, OneActive, ActiveIsHidden, Active
  <1> QED BY <1>1, <1>2, <1>3, <1>4, <1>5, <1>6, <1>7, <1>8, <1>9, <1>10,
             <1>11, <1>12, <1>13, <1>14, <1>15, <1>16, <1>17, <1>18, <1>19 DEF
             PoolNext, Work
(* Without crashes and erasures every reserved number stays held. *)
LEMMA HeldStep ==
  ASSUME MaxInventoryEdits = 0, MaxPoolFaults = 0, Deletable = {}, PoolTypeOK, OneActive,
         IdleHoldsNothing, ReservedIsHeld, [PoolNext]_poolVars
  PROVE  ReservedIsHeld'
  <1> USE PoolAssumption
  <1> USE DEF ReservedIsHeld, OneActive, IdleHoldsNothing, Active
  <1>a. /\ number \in [Numbers -> NumberRows]
        /\ reservation \in [Reservations -> ReservationRows]
        /\ freeing \in [Listings -> SUBSET Numbers]
        /\ listing \in [Listings -> {"idle", "free"}]
        /\ edits = 0
        /\ poolFaults = 0
    BY DEF PoolTypeOK, NumberRows, ReservationRows
  <1> USE <1>a
  <1>1. ASSUME NEW l \in Listings, ExpireForListing(l)
        PROVE  ReservedIsHeld'
    BY <1>1 DEF ExpireForListing, WithStatus, Lapsed, NumbersOf
  <1>2. ASSUME NEW l \in Listings, FreeForListing(l)
        PROVE  ReservedIsHeld'
    BY <1>2 DEF FreeForListing, PutBack
  <1>3. ASSUME NEW l \in Listings, CrashListing(l)
        PROVE  ReservedIsHeld'
    BY <1>3 DEF CrashListing
  <1>4. ASSUME NEW t \in Tenants, LookUp(t)
        PROVE  ReservedIsHeld'
    BY <1>4 DEF LookUp, WithStatus, Lapsed, NumbersOf, PutBack
  <1>5. ASSUME NEW t \in Tenants, DeleteTenant(t)
        PROVE  ReservedIsHeld'
    BY <1>5 DEF DeleteTenant, NoReservation
  <1>6. ASSUME NEW t \in Tenants, NEW n \in Numbers, NEW r \in Reservations,
            CreateReservation(t, n, r)
        PROVE  ReservedIsHeld'
    <2> DEFINE lapsed == Lapsed(t)
               own    == Own(t) \ lapsed
               rows   == Released(PutBack(NumbersOf(lapsed)), NumbersOf(own))
    <2>1. \A m \in Numbers :
            m \notin NumbersOf(lapsed) /\ m \notin NumbersOf(own) => rows[m] = number[m]
      BY DEF PutBack, Released
    <2>2. \A m \in Numbers : m # n => number'[m] = rows[m]
      BY <1>6 DEF CreateReservation
    <2>3. IsAvailable(rows[n])
      BY <1>6 DEF CreateReservation
    <2>4. \A x \in Reservations :
            /\ Active(x)' => x = r \/ Active(x)
            /\ Active(x) /\ x \notin lapsed /\ x \notin own => Active(x)'
            /\ x # r => reservation'[x].number = reservation[x].number
      BY <1>6 DEF CreateReservation
    <2>5. Active(r)' /\ reservation'[r].number = n /\ freeing' = freeing
      BY <1>6 DEF CreateReservation
    <2>6. lapsed \cup own \subseteq {x \in Reservations : Active(x)}
      BY DEF Lapsed, Own
    <2>7. \A m \in Numbers : rows[m].status = "reserved" =>
            /\ number[m].status = "reserved"
            /\ m \notin NumbersOf(lapsed)
            /\ m \notin NumbersOf(own)
      BY DEF PutBack, Released
    <2>8. \A x \in Reservations :
            /\ x \in lapsed => reservation[x].number \in NumbersOf(lapsed)
            /\ x \in own => reservation[x].number \in NumbersOf(own)
      BY DEF NumbersOf
    <2>9. ~Active(r)
      BY <1>6 DEF CreateReservation
    <2> HIDE DEF lapsed, own, rows
    <2> QED BY <2>2, <2>4, <2>5, <2>7, <2>8, <2>9
  <1>7. ASSUME NEW r \in Reservations, Lapse(r)
        PROVE  ReservedIsHeld'
    BY <1>7 DEF Lapse
  <1>8. ASSUME NEW c \in Checkouts, OpenCheckout(c)
        PROVE  ReservedIsHeld'
    BY <1>8 DEF OpenCheckout, WithStatus, Lapsed, NumbersOf, PutBack, Own
  <1>9. ASSUME NEW c \in Checkouts, Pay(c)
        PROVE  ReservedIsHeld'
    BY <1>9 DEF Pay
  <1>10. ASSUME NEW h \in Handlers, NEW c \in Checkouts, Deliver(h, c)
         PROVE  ReservedIsHeld'
    BY <1>10 DEF Deliver
  <1>11. ASSUME NEW h \in Handlers, NEW c \in Checkouts,
            ReadReservation(h, c)
         PROVE  ReservedIsHeld'
    BY <1>11 DEF ReadReservation
  <1>12. ASSUME NEW h \in Handlers, NEW c \in Checkouts, NEW r \in Reservations,
            Activate(h, c, r)
         PROVE  ReservedIsHeld'
    BY <1>12 DEF Activate
  <1>13. ASSUME NEW h \in Handlers, NEW c \in Checkouts, RollBackActivation(h, c)
         PROVE  ReservedIsHeld'
    BY <1>13 DEF RollBackActivation
  <1>14. ASSUME NEW h \in Handlers, NEW c \in Checkouts, MarkProcessed(h, c)
         PROVE  ReservedIsHeld'
    BY <1>14 DEF MarkProcessed, Marked
  <1>15. ASSUME NEW h \in Handlers, NEW c \in Checkouts, MarkEventFailed(h, c)
         PROVE  ReservedIsHeld'
    BY <1>15 DEF MarkEventFailed, Marked
  <1>16. ASSUME NEW h \in Handlers, Throw(h)
         PROVE  ReservedIsHeld'
    BY <1>16 DEF Throw
  <1>17. ASSUME NEW h \in Handlers, CrashHandler(h)
         PROVE  ReservedIsHeld'
    BY <1>17 DEF CrashHandler
  <1>18. ASSUME NEW n \in Numbers, EditInventory(n)
         PROVE  ReservedIsHeld'
    BY <1>18 DEF EditInventory
  <1>19. ASSUME UNCHANGED poolVars
         PROVE  ReservedIsHeld'
    BY <1>19 DEF poolVars
  <1> HIDE DEF ReservedIsHeld, OneActive, IdleHoldsNothing, Active
  <1> QED BY <1>1, <1>2, <1>3, <1>4, <1>5, <1>6, <1>7, <1>8, <1>9, <1>10,
             <1>11, <1>12, <1>13, <1>14, <1>15, <1>16, <1>17, <1>18, <1>19 DEF
             PoolNext, Work
-----------------------------------------------------------------------------
LEMMA InitIInv == PoolInit => PoolIInv
  BY PoolAssumption
     DEF PoolInit, PoolIInv, PoolTypeOK, OneActive, FreeingIsQuiet, IdleHoldsNothing,
         ActiveIsHidden, Active, NoReservation, NumberRows, NumberStatuses,
         ReservationRows

(* The inductive invariant of the pool, as long as its owner does not edit the
   inventory by hand. *)
THEOREM Invariance == ASSUME MaxInventoryEdits = 0 PROVE PoolSpec => []PoolIInv
  <1>1. PoolIInv /\ [PoolNext]_poolVars => PoolIInv'
    BY TypeStep, OneActiveStep, IdleStep, FreeingStep, HiddenStep DEF PoolIInv
  <1> QED BY InitIInv, <1>1, PTL DEF PoolSpec

(* A number somebody holds is never offered to anybody else, whatever listings
   and activations overlap, crash or run late. *)
THEOREM HeldIsHidden == ASSUME MaxInventoryEdits = 0 PROVE PoolSpec => []ActiveIsHidden
  <1>1. PoolIInv => ActiveIsHidden
    BY DEF PoolIInv
  <1> QED BY Invariance, <1>1, PTL

(* A reserved number has a holder or is about to be put back, as long as no
   listing dies between its two statements and no tenant is erased. *)
THEOREM ReservedNumbersAreHeld ==
  ASSUME MaxInventoryEdits = 0, MaxPoolFaults = 0, Deletable = {}
  PROVE  PoolSpec => []ReservedIsHeld
  <1>1. PoolInit => ReservedIsHeld
    BY DEF PoolInit, ReservedIsHeld
  <1>2. PoolIInv /\ ReservedIsHeld /\ [PoolNext]_poolVars => ReservedIsHeld'
    BY HeldStep DEF PoolIInv
  <1> QED BY Invariance, <1>1, <1>2, PTL DEF PoolSpec

(* Both at once: the statuses of the numbers agree with the reservations, under
   the conditions of the second. *)
THEOREM StatusesAgree ==
  ASSUME MaxInventoryEdits = 0, MaxPoolFaults = 0, Deletable = {}
  PROVE  PoolSpec => []NumbersAgree
  <1>1. ActiveIsHidden /\ ReservedIsHeld => NumbersAgree
    BY DEF NumbersAgree
  <1> QED BY <1>1, HeldIsHidden, ReservedNumbersAreHeld, PTL
-----------------------------------------------------------------------------
(* The inductive strengthening of BoughtStaysBought. *)

(* A connected number is assigned to the tenant, and the tenant has bought it. *)
ConnectedIsOwn ==
  \A t \in Tenants : connection[t] # NoNumber =>
    /\ number[connection[t]] = [status |-> "assigned", tenant |-> t]
    /\ \E s \in Reservations :
         /\ reservation[s].status = "completed"
         /\ reservation[s].tenant = t
         /\ reservation[s].number = connection[t]

(* Who has bought a number is connected to one. *)
BoughtIsConnected ==
  \A r \in Reservations : reservation[r].status = "completed" =>
    /\ reservation[r].tenant \in Tenants
    /\ connection[reservation[r].tenant] # NoNumber

(* A reservation of a tenant names a number. *)
HeldHasNumber ==
  \A r \in Reservations :
    reservation[r].tenant \in Tenants => reservation[r].number \in Numbers

BoughtInv == ConnectedIsOwn /\ BoughtIsConnected /\ HeldHasNumber

(* Two facts together say what BoughtStaysBought says. *)
LEMMA BoughtFollows ==
  ASSUME BoughtInv
  PROVE  BoughtStaysBought
  <1> SUFFICES ASSUME NEW r \in Reservations, reservation[r].status = "completed"
               PROVE  \E s \in Reservations :
                        /\ reservation[s].status = "completed"
                        /\ reservation[s].tenant = reservation[r].tenant
                        /\ connection[reservation[s].tenant] = reservation[s].number
                        /\ number[reservation[s].number] =
                             [status |-> "assigned", tenant |-> reservation[s].tenant]
    BY DEF BoughtStaysBought
  <1>1. reservation[r].tenant \in Tenants /\ connection[reservation[r].tenant] # NoNumber
    BY DEF BoughtInv, BoughtIsConnected
  <1>2. PICK s \in Reservations :
          /\ reservation[s].status = "completed"
          /\ reservation[s].tenant = reservation[r].tenant
          /\ reservation[s].number = connection[reservation[r].tenant]
    BY <1>1 DEF BoughtInv, ConnectedIsOwn
  <1>3. number[connection[reservation[r].tenant]] =
          [status |-> "assigned", tenant |-> reservation[r].tenant]
    BY <1>1 DEF BoughtInv, ConnectedIsOwn
  <1> QED BY <1>2, <1>3

(* A step that moves no connection, completes nothing and leaves completed
   reservations and assigned numbers as they are keeps it all. *)
LEMMA PurchasesKept ==
  ASSUME BoughtInv, connection' = connection,
         \A r \in Reservations : reservation'[r].status = "completed" =>
           reservation[r].status = "completed",
         \A r \in Reservations : reservation[r].status = "completed" =>
           /\ reservation'[r].status = "completed"
           /\ reservation'[r].tenant = reservation[r].tenant
           /\ reservation'[r].number = reservation[r].number,
         \A n \in Numbers : number[n].status = "assigned" => number'[n] = number[n],
         \A r \in Reservations :
           reservation'[r].tenant \in Tenants => reservation'[r].number \in Numbers
  PROVE  BoughtInv'
  <1>1. BoughtIsConnected'
    BY DEF BoughtInv, BoughtIsConnected
  <1>2. HeldHasNumber'
    BY DEF HeldHasNumber
  <1>3. ASSUME NEW t \in Tenants, connection'[t] # NoNumber
        PROVE  /\ number'[connection'[t]] = [status |-> "assigned", tenant |-> t]
               /\ \E s \in Reservations :
                    /\ reservation'[s].status = "completed"
                    /\ reservation'[s].tenant = t
                    /\ reservation'[s].number = connection'[t]
    <2>1. number[connection[t]] = [status |-> "assigned", tenant |-> t]
      BY <1>3 DEF BoughtInv, ConnectedIsOwn
    <2>2. PICK s \in Reservations :
            /\ reservation[s].status = "completed"
            /\ reservation[s].tenant = t
            /\ reservation[s].number = connection[t]
      BY <1>3 DEF BoughtInv, ConnectedIsOwn
    <2>3. connection[t] \in Numbers
      BY <2>2 DEF BoughtInv, HeldHasNumber
    <2>4. number'[connection[t]] = number[connection[t]]
      BY <2>1, <2>3
    <2> QED BY <2>1, <2>2, <2>4
  <1>4. ConnectedIsOwn'
    BY <1>3 DEF ConnectedIsOwn
  <1> QED BY <1>1, <1>2, <1>4 DEF BoughtInv

(* Expiring reservations and putting their numbers back is such a step. *)
LEMMA ExpiryKeeps ==
  ASSUME PoolTypeOK, BoughtInv, NEW scope, connection' = connection,
         \/ reservation' = reservation
         \/ reservation' = WithStatus(Lapsed(scope), "expired"),
         \/ number' = number
         \/ \E ns : number' = PutBack(ns)
  PROVE  BoughtInv'
  <1>1. \A r \in Reservations : reservation[r] \in ReservationRows
    BY DEF PoolTypeOK
  <1>2. \A r \in Reservations :
          /\ reservation'[r].tenant = reservation[r].tenant
          /\ reservation'[r].number = reservation[r].number
          /\ \/ reservation'[r].status = reservation[r].status
             \/ reservation[r].status = "active" /\ reservation'[r].status = "expired"
    <2>1. CASE reservation' = reservation
      BY <2>1
    <2>2. CASE reservation' = WithStatus(Lapsed(scope), "expired")
      BY <1>1, <2>2 DEF WithStatus, Lapsed, Active, ReservationRows
    <2> QED BY <2>1, <2>2
  <1>3. \A n \in Numbers : number[n].status = "assigned" => number'[n] = number[n]
    BY DEF PutBack
  <1>4. \A r \in Reservations : reservation'[r].status = "completed" <=>
          reservation[r].status = "completed"
    BY <1>2
  <1>5. \A r \in Reservations :
          reservation'[r].tenant \in Tenants => reservation'[r].number \in Numbers
    BY <1>2 DEF BoughtInv, HeldHasNumber
  <1> QED BY <1>2, <1>3, <1>4, <1>5, PurchasesKept

(* So is a new reservation: the number it takes was not assigned. *)
LEMMA ReservingKeeps ==
  ASSUME PoolTypeOK, BoughtInv, NEW t \in Tenants, NEW n \in Numbers,
         NEW r \in Reservations, CreateReservation(t, n, r)
  PROVE  BoughtInv'
  <1> DEFINE rows == Released(PutBack(NumbersOf(Lapsed(t))), NumbersOf(Own(t) \ Lapsed(t)))
  <1>1. \A x \in Reservations : reservation[x] \in ReservationRows
    BY DEF PoolTypeOK
  <1>2. /\ reservation[r].status = "none"
        /\ rows[n].status = "available"
        /\ number' = [rows EXCEPT ![n] = [status |-> "reserved", tenant |-> t]]
        /\ connection' = connection
    BY DEF CreateReservation, IsAvailable
  <1>3. \A m \in Numbers : number[m].status = "assigned" => rows[m] = number[m]
    BY DEF Released, PutBack
  <1>4. rows = [m \in Numbers |-> rows[m]]
    BY DEF Released
  <1> HIDE DEF rows
  <1>5. \A m \in Numbers : number[m].status = "assigned" => number'[m] = number[m]
    BY <1>2, <1>3, <1>4
  <1>6. reservation' = [x \in Reservations |->
           IF x = r
           THEN [status |-> "active", tenant |-> t, number |-> n, overdue |-> FALSE]
           ELSE [reservation[x] EXCEPT
                   !.status = IF x \in Lapsed(t) THEN "expired"
                              ELSE IF x \in Own(t) \ Lapsed(t) THEN "released" ELSE @]]
    BY DEF CreateReservation
  <1>7. /\ reservation'[r].status = "active"
        /\ reservation'[r].number = n
    BY <1>6
  <1>8. \A x \in Reservations \ {r} :
          /\ reservation'[x].tenant = reservation[x].tenant
          /\ reservation'[x].number = reservation[x].number
          /\ \/ reservation'[x].status = reservation[x].status
             \/ /\ reservation[x].status = "active"
                /\ reservation'[x].status \in {"expired", "released"}
    BY <1>1, <1>6 DEF Lapsed, Own, Active, ReservationRows
  <1>9. \A x \in Reservations :
          reservation'[x].tenant \in Tenants => reservation'[x].number \in Numbers
    BY <1>7, <1>8 DEF BoughtInv, HeldHasNumber
  <1>10. \A x \in Reservations : reservation'[x].status = "completed" <=>
           reservation[x].status = "completed"
    BY <1>2, <1>7, <1>8
  <1>11. \A x \in Reservations : reservation[x].status = "completed" =>
           /\ reservation'[x].tenant = reservation[x].tenant
           /\ reservation'[x].number = reservation[x].number
    BY <1>2, <1>8
  <1> QED BY <1>2, <1>5, <1>9, <1>10, <1>11, PurchasesKept

(* An activation moves the tenant's connection to the number it assigns, and the
   unique index keeps it away from the number of another tenant. *)
LEMMA ActivatingKeeps ==
  ASSUME PoolTypeOK, BoughtInv, NEW h \in Handlers, NEW c \in Checkouts,
         NEW r \in Reservations, Activate(h, c, r)
  PROVE  BoughtInv'
  <1> DEFINE t == reservation[r].tenant
             n == reservation[r].number
  <1>1. /\ t \in Tenants
        /\ FreeOrOwn(t, n)
        /\ reservation' = [reservation EXCEPT ![r].status = "completed"]
        /\ number' = [number EXCEPT ![n] = [status |-> "assigned", tenant |-> t]]
        /\ connection' = [connection EXCEPT ![t] = n]
    BY DEF Activate
  <1>2. n \in Numbers
    BY <1>1 DEF BoughtInv, HeldHasNumber
  <1>3. /\ reservation \in [Reservations -> ReservationRows]
        /\ number \in [Numbers -> NumberRows]
        /\ connection \in [Tenants -> Numbers \cup {NoNumber}]
    BY DEF PoolTypeOK
  <1>4. /\ reservation'[r].status = "completed"
        /\ \A x \in Reservations :
             /\ reservation'[x].tenant = reservation[x].tenant
             /\ reservation'[x].number = reservation[x].number
        /\ \A x \in Reservations \ {r} : reservation'[x] = reservation[x]
    BY <1>1, <1>3 DEF ReservationRows
  <1>5. /\ number'[n] = [status |-> "assigned", tenant |-> t]
        /\ \A m \in Numbers \ {n} : number'[m] = number[m]
        /\ connection'[t] = n
        /\ \A u \in Tenants \ {t} : connection'[u] = connection[u]
    BY <1>1, <1>2, <1>3
  <1>6. t = reservation[r].tenant /\ n = reservation[r].number
    OBVIOUS
  <1> HIDE DEF t, n
  <1>7. HeldHasNumber'
    BY <1>4 DEF BoughtInv, HeldHasNumber
  <1>8. BoughtIsConnected'
    <2> SUFFICES ASSUME NEW x \in Reservations, reservation'[x].status = "completed"
                 PROVE  /\ reservation'[x].tenant \in Tenants
                        /\ connection'[reservation'[x].tenant] # NoNumber
      BY DEF BoughtIsConnected
    <2>1. CASE reservation[x].tenant = t
      BY <1>1, <1>2, <1>4, <1>5, <2>1, PoolAssumption
    <2>2. CASE reservation[x].tenant # t
      BY <1>4, <1>5, <1>6, <2>2 DEF BoughtInv, BoughtIsConnected
    <2> QED BY <2>1, <2>2
  <1>9. ASSUME NEW u \in Tenants, connection'[u] # NoNumber
        PROVE  /\ number'[connection'[u]] = [status |-> "assigned", tenant |-> u]
               /\ \E s \in Reservations :
                    /\ reservation'[s].status = "completed"
                    /\ reservation'[s].tenant = u
                    /\ reservation'[s].number = connection'[u]
    <2>1. CASE u = t
      BY <1>4, <1>5, <1>6, <2>1
    <2>2. CASE u # t
      <3>1. connection'[u] = connection[u] /\ connection[u] # n
        BY <1>1, <1>5, <2>2 DEF FreeOrOwn
      <3>2. number[connection[u]] = [status |-> "assigned", tenant |-> u]
        BY <1>9, <3>1 DEF BoughtInv, ConnectedIsOwn
      <3>3. PICK s \in Reservations :
              /\ reservation[s].status = "completed"
              /\ reservation[s].tenant = u
              /\ reservation[s].number = connection[u]
        BY <1>9, <3>1 DEF BoughtInv, ConnectedIsOwn
      <3>4. connection[u] \in Numbers
        BY <3>3 DEF BoughtInv, HeldHasNumber
      <3>5. s # r
        BY <1>6, <2>2, <3>3
      <3> QED BY <1>4, <1>5, <3>1, <3>2, <3>3, <3>4, <3>5
    <2> QED BY <2>1, <2>2
  <1>10. ConnectedIsOwn'
    BY <1>9 DEF ConnectedIsOwn
  <1> QED BY <1>7, <1>8, <1>10 DEF BoughtInv

(* Erasing a tenant takes its purchases and its connection away together. *)
LEMMA ErasingKeeps ==
  ASSUME PoolTypeOK, BoughtInv, NEW t \in Tenants, DeleteTenant(t)
  PROVE  BoughtInv'
  <1>1. /\ reservation' = [r \in Reservations |->
             IF reservation[r].tenant = t
             THEN [NoReservation EXCEPT !.status = "released"]
             ELSE reservation[r]]
        /\ number' = [n \in Numbers |->
             IF number[n].tenant = t THEN [number[n] EXCEPT !.tenant = NoTenant]
             ELSE number[n]]
        /\ connection' = [connection EXCEPT ![t] = NoNumber]
    BY DEF DeleteTenant
  <1>2. connection \in [Tenants -> Numbers \cup {NoNumber}]
    BY DEF PoolTypeOK
  <1>3. \A r \in Reservations :
          /\ reservation[r].tenant = t =>
               reservation'[r].status = "released" /\ reservation'[r].tenant = NoTenant
          /\ reservation[r].tenant # t => reservation'[r] = reservation[r]
    BY <1>1 DEF NoReservation
  <1>4. \A n \in Numbers : number[n].tenant # t => number'[n] = number[n]
    BY <1>1
  <1>5. /\ connection'[t] = NoNumber
        /\ \A u \in Tenants \ {t} : connection'[u] = connection[u]
    BY <1>1, <1>2
  <1>6. HeldHasNumber'
    BY <1>3, PoolAssumption DEF BoughtInv, HeldHasNumber
  <1>7. BoughtIsConnected'
    <2> SUFFICES ASSUME NEW r \in Reservations, reservation'[r].status = "completed"
                 PROVE  /\ reservation'[r].tenant \in Tenants
                        /\ connection'[reservation'[r].tenant] # NoNumber
      BY DEF BoughtIsConnected
    <2>1. reservation[r].tenant # t /\ reservation'[r] = reservation[r]
      BY <1>3
    <2>2. /\ reservation[r].tenant \in Tenants
          /\ connection[reservation[r].tenant] # NoNumber
      BY <2>1 DEF BoughtInv, BoughtIsConnected
    <2> QED BY <1>5, <2>1, <2>2
  <1>8. ASSUME NEW u \in Tenants, connection'[u] # NoNumber
        PROVE  /\ number'[connection'[u]] = [status |-> "assigned", tenant |-> u]
               /\ \E s \in Reservations :
                    /\ reservation'[s].status = "completed"
                    /\ reservation'[s].tenant = u
                    /\ reservation'[s].number = connection'[u]
    <2>1. u # t /\ connection'[u] = connection[u]
      BY <1>5, <1>8
    <2>2. number[connection[u]] = [status |-> "assigned", tenant |-> u]
      BY <1>8, <2>1 DEF BoughtInv, ConnectedIsOwn
    <2>3. PICK s \in Reservations :
            /\ reservation[s].status = "completed"
            /\ reservation[s].tenant = u
            /\ reservation[s].number = connection[u]
      BY <1>8, <2>1 DEF BoughtInv, ConnectedIsOwn
    <2>4. connection[u] \in Numbers
      BY <2>3 DEF BoughtInv, HeldHasNumber
    <2>5. number'[connection[u]] = number[connection[u]]
      BY <1>4, <2>1, <2>2, <2>4
    <2>6. reservation'[s] = reservation[s]
      BY <1>3, <2>1, <2>3
    <2> QED BY <2>1, <2>2, <2>3, <2>5, <2>6
  <1>9. ConnectedIsOwn'
    BY <1>8 DEF ConnectedIsOwn
  <1> QED BY <1>6, <1>7, <1>9 DEF BoughtInv

(* No step takes a purchase away, as long as the owner does not edit the
   inventory by hand. *)
LEMMA BoughtStep ==
  ASSUME PoolTypeOK, MaxInventoryEdits = 0, BoughtInv, [PoolNext]_poolVars
  PROVE  BoughtInv'
  <1>1. ASSUME NEW l \in Listings, ExpireForListing(l)
        PROVE  BoughtInv'
    BY <1>1, ExpiryKeeps DEF ExpireForListing
  <1>2. ASSUME NEW l \in Listings, FreeForListing(l)
        PROVE  BoughtInv'
    BY <1>2, ExpiryKeeps DEF FreeForListing
  <1>3. ASSUME NEW t \in Tenants, LookUp(t)
        PROVE  BoughtInv'
    BY <1>3, ExpiryKeeps DEF LookUp
  <1>4. ASSUME NEW c \in Checkouts, OpenCheckout(c)
        PROVE  BoughtInv'
    BY <1>4, ExpiryKeeps DEF OpenCheckout
  <1>5. ASSUME UNCHANGED <<number, reservation, connection>>
        PROVE  BoughtInv'
    BY <1>5, ExpiryKeeps
  <1>6. ASSUME NEW r \in Reservations, Lapse(r)
        PROVE  BoughtInv'
    <2>1. /\ reservation \in [Reservations -> ReservationRows]
          /\ reservation' = [reservation EXCEPT ![r].overdue = TRUE]
          /\ number' = number
          /\ connection' = connection
      BY <1>6 DEF Lapse, PoolTypeOK
    <2>2. \A x \in Reservations :
            /\ reservation'[x].status = reservation[x].status
            /\ reservation'[x].tenant = reservation[x].tenant
            /\ reservation'[x].number = reservation[x].number
      BY <2>1 DEF ReservationRows
    <2>3. \A x \in Reservations :
            reservation'[x].tenant \in Tenants => reservation'[x].number \in Numbers
      BY <2>2 DEF BoughtInv, HeldHasNumber
    <2> QED BY <2>1, <2>2, <2>3, PurchasesKept
  <1>7. ASSUME NEW h \in Handlers, Work(h)
        PROVE  BoughtInv'
    <2>1. \/ UNCHANGED <<number, reservation, connection>>
          \/ \E c \in Checkouts, r \in Reservations : Activate(h, c, r)
      BY <1>7 DEF Work, Deliver, ReadReservation, RollBackActivation, MarkProcessed,
                  MarkEventFailed
    <2> QED BY <1>5, <2>1, ActivatingKeeps
  <1>8. ASSUME NEW n \in Numbers, EditInventory(n)
        PROVE  BoughtInv'
    BY <1>8 DEF EditInventory, PoolTypeOK
  <1>9. ASSUME NEW l \in Listings, CrashListing(l)
        PROVE  UNCHANGED <<number, reservation, connection>>
    BY <1>9 DEF CrashListing
  <1>10. ASSUME NEW c \in Checkouts, Pay(c)
         PROVE  UNCHANGED <<number, reservation, connection>>
    BY <1>10 DEF Pay
  <1>11. ASSUME NEW h \in Handlers, Throw(h) \/ CrashHandler(h)
         PROVE  UNCHANGED <<number, reservation, connection>>
    BY <1>11 DEF Throw, CrashHandler
  <1>12. ASSUME UNCHANGED poolVars
         PROVE  UNCHANGED <<number, reservation, connection>>
    BY <1>12 DEF poolVars
  <1> QED BY <1>1, <1>2, <1>3, <1>4, <1>5, <1>6, <1>7, <1>8, <1>9, <1>10, <1>11, <1>12,
             ReservingKeeps, ErasingKeeps DEF PoolNext

(* A tenant's telephone channel stays connected to a number it has bought and
   that is assigned to it, whoever reserves, expires, pays late or is erased.
   What the owner sets in the inventory by hand is the owner's. *)
THEOREM BoughtKept ==
  ASSUME MaxInventoryEdits = 0
  PROVE  PoolSpec => []BoughtStaysBought
  <1>1. PoolInit => BoughtInv
    BY PoolAssumption DEF PoolInit, BoughtInv, ConnectedIsOwn, BoughtIsConnected,
                          HeldHasNumber, NoReservation
  <1>2. PoolTypeOK /\ BoughtInv /\ [PoolNext]_poolVars => BoughtInv'
    BY BoughtStep
  <1>3. PoolIInv => PoolTypeOK
    BY DEF PoolIInv
  <1> QED BY <1>1, <1>2, <1>3, Invariance, BoughtFollows, PTL DEF PoolSpec
=============================================================================
