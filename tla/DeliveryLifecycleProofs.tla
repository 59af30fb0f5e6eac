----------------------- MODULE DeliveryLifecycleProofs -----------------------
(***************************************************************************)
(* Proofs about DeliveryLifecycle for every set of deliveries, callbacks   *)
(* and overlapping sweeps and every value of the bounds.                   *)
(***************************************************************************)
EXTENDS DeliveryLifecycle, TLAPS

(* What a call of the adapter may do: it only ever adds to what the provider
   accepted, and an id it returns is one of those. *)
LEMMA SendMessageFacts ==
  ASSUME DeliveryTypeOK, NEW d \in Deliveries, NEW r \in Replies, SendMessage(d, r)
  PROVE  /\ sends' \in [Deliveries -> MessageIds]
         /\ accepted' \in SUBSET (Deliveries \X (1 .. MaxSends))
         /\ accepted \subseteq accepted'
         /\ r.status = "sent" => r.pmid # 0
         /\ r.pmid # 0 => <<d, r.pmid>> \in accepted'
  <1>1. sends \in [Deliveries -> 0 .. MaxSends] /\ MaxSends \in Nat
    BY BoundsAssumption DEF DeliveryTypeOK, MessageIds
  <1>2. sends[d] + 1 \in Nat /\ sends[d] + 1 # 0
    BY <1>1
  <1>3. accepted \in SUBSET (Deliveries \X (1 .. MaxSends))
    BY DEF DeliveryTypeOK
  <1>4. CASE UNCHANGED <<sends, accepted>>
    BY <1>1, <1>3, <1>4 DEF SendMessage, MessageIds
  <1>5. CASE sends[d] + 1 <= MaxSends
    BY <1>1, <1>2, <1>3, <1>5 DEF SendMessage, MessageIds
  <1> QED BY <1>4, <1>5 DEF SendMessage

(* Every step keeps the types. *)
LEMMA TypeStep ==
  ASSUME DeliveryTypeOK, RecordedFirst, [DeliveryNext]_deliveryVars
  PROVE  DeliveryTypeOK'
  <1> USE DeliveriesAssumption, BoundsAssumption
  <1> USE DEF DeliveryTypeOK, Statuses, Reported, MessageIds, Metadata, DeliveryRows, Replies,
              Outcomes, FirstMeta, NoReply, NoCallback, NoOutcome,
              RecordedFirst
  <1>1. ASSUME NEW d \in Deliveries, Send(d)
        PROVE  DeliveryTypeOK'
    <2>1. PICK r \in Replies : SendMessage(d, r) /\ reply' = [reply EXCEPT ![d] = r]
      BY <1>1 DEF Send
    <2> QED BY <1>1, <2>1, SendMessageFacts DEF Send
  <1>2. ASSUME NEW d \in Deliveries, Record(d)
        PROVE  DeliveryTypeOK'
    BY <1>2 DEF Record, RecordedRow
  <1>3. ASSUME NEW c \in Callbacks, NEW d \in Deliveries,
            NEW n \in 1 .. MaxSends, NEW status \in Reported,
            ReadForCallback(c, d, n, status)
        PROVE  DeliveryTypeOK'
    BY <1>3 DEF ReadForCallback, Applies
  <1>4. ASSUME NEW c \in Callbacks, WriteCallback(c)
        PROVE  DeliveryTypeOK'
    BY <1>4 DEF WriteCallback, RowAfterCallback
  <1>5. ASSUME NEW s \in Sweepers, ListFailed(s)
        PROVE  DeliveryTypeOK'
    BY <1>5 DEF ListFailed, SweepIdle, Retryable
  <1>6. ASSUME NEW s \in Sweepers, NEW d \in Deliveries,
            NEW attempts \in 0 .. MaxRetries - 1, Resend(s, d, attempts)
        PROVE  DeliveryTypeOK'
    <2>1. PICK r \in Replies :
            /\ SendMessage(d, r)
            /\ outcome' = [outcome EXCEPT ![s] =
                 [on |-> d, succeeded |-> r.status = "sent",
                  exhausted |-> r.status # "sent" /\ OutOfRetries(r, attempts + 1),
                  attempts |-> attempts + 1, pmid |-> r.pmid]]
      BY <1>6 DEF Resend
    <2>2. OutOfRetries(r, attempts + 1) \in BOOLEAN
      BY DEF OutOfRetries
    <2>3. [on |-> d, succeeded |-> r.status = "sent",
           exhausted |-> r.status # "sent" /\ OutOfRetries(r, attempts + 1),
           attempts |-> attempts + 1, pmid |-> r.pmid] \in Outcomes
      BY <2>2 DEF Outcomes, MessageIds, Replies
    <2>4. outcome' \in [Sweepers -> Outcomes]
      BY <2>1, <2>3
    <2> QED BY <1>6, <2>4, <2>1, SendMessageFacts DEF Resend
  <1>7. ASSUME NEW s \in Sweepers, NEW d \in Deliveries,
            NEW attempts \in 0 .. MaxRetries - 1, GiveUp(s, d, attempts)
        PROVE  DeliveryTypeOK'
    BY <1>7 DEF GiveUp, GivenUp
  <1>8. ASSUME NEW s \in Sweepers, ReadForOutcome(s)
        PROVE  DeliveryTypeOK'
    BY <1>8 DEF ReadForOutcome
  <1>9. ASSUME NEW s \in Sweepers, WriteOutcome(s)
        PROVE  DeliveryTypeOK'
    BY <1>9 DEF WriteOutcome, RowAfterRetry
  <1>10. ASSUME NEW s \in Sweepers, Crash(s)
         PROVE  DeliveryTypeOK'
    BY <1>10 DEF Crash
  <1>11. ASSUME UNCHANGED deliveryVars
         PROVE  DeliveryTypeOK'
    BY <1>11 DEF deliveryVars
  <1> HIDE DEF DeliveryTypeOK, Statuses, Reported, MessageIds, Metadata, DeliveryRows,
               Replies, Outcomes, FirstMeta, NoReply, NoCallback, NoOutcome,
               RecordedFirst
  <1> QED BY <1>1, <1>2, <1>3, <1>4, <1>5, <1>6, <1>7, <1>8, <1>9, <1>10,
             <1>11 DEF DeliveryNext, SweepStep
(* No metadata above the budget is read, computed or written. *)
LEMMA BudgetStep ==
  ASSUME DeliveryTypeOK, RecordedFirst, BudgetInHand, RetryBudget, [DeliveryNext]_deliveryVars
  PROVE  BudgetInHand' /\ RetryBudget'
  <1> USE DeliveriesAssumption, BoundsAssumption
  <1> USE DEF DeliveryRows, Metadata, MessageIds, Statuses, BudgetInHand, RetryBudget,
              FirstMeta, NoCallback, NoOutcome, Outcomes, Reported
  <1>a. /\ row \in [Deliveries -> DeliveryRows]
        /\ outcome \in [Sweepers -> Outcomes]
        /\ callback \in [Callbacks -> [on : Deliveries \cup {NoDelivery},
                                 status : Reported, meta : Metadata]]
    BY DEF DeliveryTypeOK
  <1> USE <1>a
  <1>1. ASSUME NEW d \in Deliveries, Send(d)
        PROVE  BudgetInHand' /\ RetryBudget'
    BY <1>1 DEF Send, SendMessage
  <1>2. ASSUME NEW d \in Deliveries, Record(d)
        PROVE  BudgetInHand' /\ RetryBudget'
    BY <1>2 DEF Record, RecordedRow
  <1>3. ASSUME NEW c \in Callbacks, NEW d \in Deliveries,
            NEW n \in 1 .. MaxSends, NEW status \in Reported,
            ReadForCallback(c, d, n, status)
        PROVE  BudgetInHand' /\ RetryBudget'
    BY <1>3 DEF ReadForCallback, Applies
  <1>4. ASSUME NEW c \in Callbacks, WriteCallback(c)
        PROVE  BudgetInHand' /\ RetryBudget'
    BY <1>4 DEF WriteCallback, RowAfterCallback
  <1>5. ASSUME NEW s \in Sweepers, ListFailed(s)
        PROVE  BudgetInHand' /\ RetryBudget'
    BY <1>5 DEF ListFailed, SweepIdle, Retryable
  <1>6. ASSUME NEW s \in Sweepers, NEW d \in Deliveries,
            NEW attempts \in 0 .. MaxRetries - 1, Resend(s, d, attempts)
        PROVE  BudgetInHand' /\ RetryBudget'
    <2>1. PICK r \in Replies : outcome' = [outcome EXCEPT ![s] =
                 [on |-> d, succeeded |-> r.status = "sent",
                  exhausted |-> r.status # "sent" /\ OutOfRetries(r, attempts + 1),
                  attempts |-> attempts + 1, pmid |-> r.pmid]]
      BY <1>6 DEF Resend
    <2>2. r.status = "sent" \/ OutOfRetries(r, attempts + 1) \/ attempts + 1 < MaxRetries
      BY DEF OutOfRetries
    <2> QED BY <1>6, <2>1, <2>2 DEF Resend
  <1>7. ASSUME NEW s \in Sweepers, NEW d \in Deliveries,
            NEW attempts \in 0 .. MaxRetries - 1, GiveUp(s, d, attempts)
        PROVE  BudgetInHand' /\ RetryBudget'
    BY <1>7 DEF GiveUp, GivenUp
  <1>8. ASSUME NEW s \in Sweepers, ReadForOutcome(s)
        PROVE  BudgetInHand' /\ RetryBudget'
    BY <1>8 DEF ReadForOutcome
  <1>9. ASSUME NEW s \in Sweepers, WriteOutcome(s)
        PROVE  BudgetInHand' /\ RetryBudget'
    <2>1. row' = [row EXCEPT ![outcome[s].on] =
                    RowAfterRetry(@, outcome[s], snapshot[s])]
      BY <1>9 DEF WriteOutcome
    <2>2. \A d \in Deliveries :
            row'[d] = row[d] \/ row'[d] = RowAfterRetry(row[d], outcome[s], snapshot[s])
      BY <2>1
    <2>3. \A old : RowAfterRetry(old, outcome[s], snapshot[s]).meta.retryable
                   => outcome[s].attempts < MaxRetries
      BY DEF RowAfterRetry
    <2>4. \A old : RowAfterRetry(old, outcome[s], snapshot[s]).meta.attempts
                   = outcome[s].attempts
      BY DEF RowAfterRetry
    <2>5. RetryBudget'
      BY <2>2, <2>3, <2>4
    <2>6. BudgetInHand'
      BY <1>9 DEF WriteOutcome
    <2> QED BY <2>5, <2>6
  <1>10. ASSUME NEW s \in Sweepers, Crash(s)
         PROVE  BudgetInHand' /\ RetryBudget'
    BY <1>10 DEF Crash
  <1>11. ASSUME UNCHANGED deliveryVars
         PROVE  BudgetInHand' /\ RetryBudget'
    BY <1>11 DEF deliveryVars
  <1> HIDE DEF DeliveryRows, Metadata, MessageIds, Statuses, BudgetInHand,
               RetryBudget, FirstMeta, NoCallback, NoOutcome, Outcomes,
               Reported
  <1> QED BY <1>1, <1>2, <1>3, <1>4, <1>5, <1>6, <1>7, <1>8, <1>9, <1>10,
             <1>11 DEF DeliveryNext, SweepStep
(* No message id is read, computed or written that was not accepted. *)
LEMMA IdsStep ==
  ASSUME DeliveryTypeOK, IdsInHand, [DeliveryNext]_deliveryVars
  PROVE  IdsInHand'
  <1> USE DeliveriesAssumption, BoundsAssumption
  <1> USE DEF IdsInHand, Replies, NoReply, NoOutcome, MessageIds, Outcomes
  <1>a. /\ reply \in [Deliveries -> Replies]
        /\ outcome \in [Sweepers -> Outcomes]
    BY DEF DeliveryTypeOK
  <1> USE <1>a
  <1>1. ASSUME NEW d \in Deliveries, Send(d)
        PROVE  IdsInHand'
    <2>1. PICK r \in Replies : SendMessage(d, r) /\ reply' = [reply EXCEPT ![d] = r]
      BY <1>1 DEF Send
    <2> QED BY <1>1, <2>1, SendMessageFacts DEF Send
  <1>2. ASSUME NEW d \in Deliveries, Record(d)
        PROVE  IdsInHand'
    BY <1>2 DEF Record, RecordedRow
  <1>3. ASSUME NEW c \in Callbacks, NEW d \in Deliveries,
            NEW n \in 1 .. MaxSends, NEW status \in Reported,
            ReadForCallback(c, d, n, status)
        PROVE  IdsInHand'
    BY <1>3 DEF ReadForCallback, Applies
  <1>4. ASSUME NEW c \in Callbacks, WriteCallback(c)
        PROVE  IdsInHand'
    BY <1>4 DEF WriteCallback, RowAfterCallback
  <1>5. ASSUME NEW s \in Sweepers, ListFailed(s)
        PROVE  IdsInHand'
    BY <1>5 DEF ListFailed, SweepIdle, Retryable
  <1>6. ASSUME NEW s \in Sweepers, NEW d \in Deliveries,
            NEW attempts \in 0 .. MaxRetries - 1, Resend(s, d, attempts)
        PROVE  IdsInHand'
    <2>1. PICK r \in Replies :
            /\ SendMessage(d, r)
            /\ outcome' = [outcome EXCEPT ![s] =
                 [on |-> d, succeeded |-> r.status = "sent",
                  exhausted |-> r.status # "sent" /\ OutOfRetries(r, attempts + 1),
                  attempts |-> attempts + 1, pmid |-> r.pmid]]
      BY <1>6 DEF Resend
    <2>2. \A t \in Sweepers :
            \/ outcome'[t] = outcome[t]
            \/ /\ outcome'[t].succeeded = (r.status = "sent")
               /\ outcome'[t].pmid = r.pmid
               /\ outcome'[t].on = d
      BY <2>1
    <2>3. reply' = reply
      BY <1>6 DEF Resend
    <2>4. /\ accepted \subseteq accepted'
          /\ r.status = "sent" => r.pmid # 0
          /\ r.pmid # 0 => <<d, r.pmid>> \in accepted'
      BY <2>1, SendMessageFacts
    <2> QED BY <2>2, <2>3, <2>4
  <1>7. ASSUME NEW s \in Sweepers, NEW d \in Deliveries,
            NEW attempts \in 0 .. MaxRetries - 1, GiveUp(s, d, attempts)
        PROVE  IdsInHand'
    BY <1>7 DEF GiveUp, GivenUp
  <1>8. ASSUME NEW s \in Sweepers, ReadForOutcome(s)
        PROVE  IdsInHand'
    BY <1>8 DEF ReadForOutcome
  <1>9. ASSUME NEW s \in Sweepers, WriteOutcome(s)
        PROVE  IdsInHand'
    BY <1>9 DEF WriteOutcome, RowAfterRetry
  <1>10. ASSUME NEW s \in Sweepers, Crash(s)
         PROVE  IdsInHand'
    BY <1>10 DEF Crash
  <1>11. ASSUME UNCHANGED deliveryVars
         PROVE  IdsInHand'
    BY <1>11 DEF deliveryVars
  <1> HIDE DEF IdsInHand, Replies, NoReply, NoOutcome, MessageIds, Outcomes
  <1> QED BY <1>1, <1>2, <1>3, <1>4, <1>5, <1>6, <1>7, <1>8, <1>9, <1>10,
             <1>11 DEF DeliveryNext, SweepStep
(* Callbacks and sweeps only reach recorded rows. *)
LEMMA RecordedStep ==
  ASSUME DeliveryTypeOK, RecordedFirst, IdsInHand, [DeliveryNext]_deliveryVars
  PROVE  RecordedFirst'
  <1> USE DeliveriesAssumption, BoundsAssumption
  <1> USE DEF DeliveryRows, Metadata, MessageIds, Statuses, RecordedFirst, NoCallback,
              NoOutcome, Outcomes, Reported
  <1>a. /\ row \in [Deliveries -> DeliveryRows]
        /\ outcome \in [Sweepers -> Outcomes]
        /\ callback \in [Callbacks -> [on : Deliveries \cup {NoDelivery},
                                 status : Reported, meta : Metadata]]
        /\ listed \in [Sweepers -> SUBSET (Deliveries \X Nat)]
        /\ sender \in [Deliveries -> {"send", "record", "done"}]
        /\ point \in [Sweepers -> {"next", "read", "write"}]
    BY DEF DeliveryTypeOK
  <1> USE <1>a
  <1>1. ASSUME NEW d \in Deliveries, Send(d)
        PROVE  RecordedFirst'
    BY <1>1 DEF Send, SendMessage
  <1>2. ASSUME NEW d \in Deliveries, Record(d)
        PROVE  RecordedFirst'
    BY <1>2 DEF Record, RecordedRow
  <1>3. ASSUME NEW c \in Callbacks, NEW d \in Deliveries,
            NEW n \in 1 .. MaxSends, NEW status \in Reported,
            ReadForCallback(c, d, n, status)
        PROVE  RecordedFirst'
    BY <1>3 DEF ReadForCallback, Applies
  <1>4. ASSUME NEW c \in Callbacks, WriteCallback(c)
        PROVE  RecordedFirst'
    BY <1>4 DEF WriteCallback, RowAfterCallback
  <1>5. ASSUME NEW s \in Sweepers, ListFailed(s)
        PROVE  RecordedFirst'
    BY <1>5 DEF ListFailed, SweepIdle, Retryable
  <1>6. ASSUME NEW s \in Sweepers, NEW d \in Deliveries,
            NEW attempts \in 0 .. MaxRetries - 1, Resend(s, d, attempts)
        PROVE  RecordedFirst'
    BY <1>6 DEF Resend, SendMessage, OutOfRetries
  <1>7. ASSUME NEW s \in Sweepers, NEW d \in Deliveries,
            NEW attempts \in 0 .. MaxRetries - 1, GiveUp(s, d, attempts)
        PROVE  RecordedFirst'
    BY <1>7 DEF GiveUp, GivenUp
  <1>8. ASSUME NEW s \in Sweepers, ReadForOutcome(s)
        PROVE  RecordedFirst'
    BY <1>8 DEF ReadForOutcome
  <1>9. ASSUME NEW s \in Sweepers, WriteOutcome(s)
        PROVE  RecordedFirst'
    <2>1. outcome[s].on \in Deliveries /\ sender[outcome[s].on] = "done"
      BY <1>9 DEF WriteOutcome
    <2>2. row' = [row EXCEPT ![outcome[s].on] =
                    RowAfterRetry(@, outcome[s], snapshot[s])]
      BY <1>9 DEF WriteOutcome
    <2>3. outcome[s].succeeded => outcome[s].pmid # 0
      BY DEF IdsInHand
    <2>4. \A d \in Deliveries : row[d].pmid # 0 => row'[d].pmid # 0
      BY <2>1, <2>2, <2>3 DEF RowAfterRetry
    <2>5. \A d \in Deliveries : d # outcome[s].on => row'[d] = row[d]
      BY <2>1, <2>2
    <2> QED BY <1>9, <2>1, <2>4, <2>5 DEF WriteOutcome
  <1>10. ASSUME NEW s \in Sweepers, Crash(s)
         PROVE  RecordedFirst'
    BY <1>10 DEF Crash
  <1>11. ASSUME UNCHANGED deliveryVars
         PROVE  RecordedFirst'
    BY <1>11 DEF deliveryVars
  <1> HIDE DEF DeliveryRows, Metadata, MessageIds, Statuses, RecordedFirst,
               NoCallback, NoOutcome, Outcomes, Reported
  <1> QED BY <1>1, <1>2, <1>3, <1>4, <1>5, <1>6, <1>7, <1>8, <1>9, <1>10,
             <1>11 DEF DeliveryNext, SweepStep
(* A row never says more than the provider did. *)
LEMMA BackedStep ==
  ASSUME DeliveryTypeOK, RecordedFirst, StatusIsBacked, IdsInHand, [DeliveryNext]_deliveryVars
  PROVE  StatusIsBacked'
  <1> USE DeliveriesAssumption, BoundsAssumption
  <1> USE DEF DeliveryRows, Metadata, MessageIds, Statuses, Replies, RecordedFirst,
              StatusIsBacked, IdsInHand, NoCallback
  <1>a. /\ row \in [Deliveries -> DeliveryRows]
        /\ outcome \in [Sweepers -> Outcomes]
        /\ point \in [Sweepers -> {"next", "read", "write"}]
        /\ reply \in [Deliveries -> Replies]
    BY DEF DeliveryTypeOK
  <1> USE <1>a
  <1>1. ASSUME NEW d \in Deliveries, Send(d)
        PROVE  StatusIsBacked'
    <2>1. PICK r \in Replies : SendMessage(d, r) /\ reply' = [reply EXCEPT ![d] = r]
      BY <1>1 DEF Send
    <2> QED BY <1>1, <2>1, SendMessageFacts DEF Send
  <1>2. ASSUME NEW d \in Deliveries, Record(d)
        PROVE  StatusIsBacked'
    BY <1>2 DEF Record, RecordedRow
  <1>3. ASSUME NEW c \in Callbacks, NEW d \in Deliveries,
            NEW n \in 1 .. MaxSends, NEW status \in Reported,
            ReadForCallback(c, d, n, status)
        PROVE  StatusIsBacked'
    BY <1>3 DEF ReadForCallback, Applies
  <1>4. ASSUME NEW c \in Callbacks, WriteCallback(c)
        PROVE  StatusIsBacked'
    BY <1>4 DEF WriteCallback, RowAfterCallback
  <1>5. ASSUME NEW s \in Sweepers, ListFailed(s)
        PROVE  StatusIsBacked'
    BY <1>5 DEF ListFailed, SweepIdle, Retryable
  <1>6. ASSUME NEW s \in Sweepers, NEW d \in Deliveries,
            NEW attempts \in 0 .. MaxRetries - 1, Resend(s, d, attempts)
        PROVE  StatusIsBacked'
    <2>1. PICK r \in Replies :
            /\ SendMessage(d, r)
            /\ outcome' = [outcome EXCEPT ![s] =
                 [on |-> d, succeeded |-> r.status = "sent",
                  exhausted |-> r.status # "sent" /\ OutOfRetries(r, attempts + 1),
                  attempts |-> attempts + 1, pmid |-> r.pmid]]
      BY <1>6 DEF Resend
    <2>2. OutOfRetries(r, attempts + 1) \in BOOLEAN
      BY DEF OutOfRetries
    <2>3. [on |-> d, succeeded |-> r.status = "sent",
           exhausted |-> r.status # "sent" /\ OutOfRetries(r, attempts + 1),
           attempts |-> attempts + 1, pmid |-> r.pmid] \in Outcomes
      BY <2>2 DEF Outcomes, MessageIds, Replies
    <2>4. outcome' \in [Sweepers -> Outcomes]
      BY <2>1, <2>3
    <2> QED BY <1>6, <2>4, <2>1, SendMessageFacts DEF Resend
  <1>7. ASSUME NEW s \in Sweepers, NEW d \in Deliveries,
            NEW attempts \in 0 .. MaxRetries - 1, GiveUp(s, d, attempts)
        PROVE  StatusIsBacked'
    BY <1>7 DEF GiveUp, GivenUp
  <1>8. ASSUME NEW s \in Sweepers, ReadForOutcome(s)
        PROVE  StatusIsBacked'
    BY <1>8 DEF ReadForOutcome
  <1>9. ASSUME NEW s \in Sweepers, WriteOutcome(s)
        PROVE  StatusIsBacked'
    BY <1>9 DEF WriteOutcome, RowAfterRetry
  <1>10. ASSUME NEW s \in Sweepers, Crash(s)
         PROVE  StatusIsBacked'
    BY <1>10 DEF Crash
  <1>11. ASSUME UNCHANGED deliveryVars
         PROVE  StatusIsBacked'
    BY <1>11 DEF deliveryVars
  <1> HIDE DEF DeliveryRows, Metadata, MessageIds, Statuses, Replies, RecordedFirst,
               StatusIsBacked, IdsInHand, NoCallback
  <1> QED BY <1>1, <1>2, <1>3, <1>4, <1>5, <1>6, <1>7, <1>8, <1>9, <1>10,
             <1>11 DEF DeliveryNext, SweepStep
-----------------------------------------------------------------------------
LEMMA InitIInv == DeliveryInit => DeliveryIInv
  <1> SUFFICES ASSUME DeliveryInit PROVE DeliveryIInv
    OBVIOUS
  <1> USE DeliveriesAssumption, BoundsAssumption
      DEF DeliveryInit, FirstMeta, NoReply, NoCallback, NoOutcome
  <1>1. DeliveryTypeOK
    BY DEF DeliveryTypeOK, DeliveryRows, Metadata, MessageIds, Statuses, Reported, Replies,
           Outcomes
  <1>2. BudgetInHand /\ RetryBudget
    BY DEF BudgetInHand, RetryBudget
  <1>3. IdsInHand /\ StatusIsBacked
    BY DEF IdsInHand, StatusIsBacked
  <1>4. RecordedFirst
    BY DEF RecordedFirst
  <1> QED BY <1>1, <1>2, <1>3, <1>4 DEF DeliveryIInv

LEMMA NextIInv == DeliveryIInv /\ [DeliveryNext]_deliveryVars => DeliveryIInv'
  BY TypeStep, BudgetStep, IdsStep, RecordedStep, BackedStep DEF DeliveryIInv

(* DeliveryIInv holds in every reachable state, whatever overlaps.           *)
THEOREM Invariance == DeliverySpec => []DeliveryIInv
  BY InitIInv, NextIInv, PTL DEF DeliverySpec

(* listRetryableDeliveries never sees a row that has used its attempts up,   *)
(* even when a stale sweep or callback writes metadata back.                 *)
THEOREM BudgetKept == DeliverySpec => []RetryBudget
  <1>1. DeliveryIInv => RetryBudget
    BY DEF DeliveryIInv
  <1> QED BY <1>1, Invariance, PTL

(* A row is sent, delivered or read only with a message id that the provider *)
(* gave for this delivery.                                                   *)
THEOREM StatusBacked == DeliverySpec => []StatusIsBacked
  <1>1. DeliveryIInv => StatusIsBacked
    BY DEF DeliveryIInv
  <1> QED BY <1>1, Invariance, PTL
-----------------------------------------------------------------------------
(* The inductive strengthening of NoResendOfSettled, for sweeps that do not
   overlap. *)

(* A row that is flagged retryable was never accepted under an id, so no
   callback finds it, and a callback under way gives no flag back. *)
RetryableIsFailed ==
  /\ \A d \in Deliveries : row[d].meta.retryable => row[d].status = "failed" /\ row[d].pmid = 0
  /\ \A d \in Deliveries : reply[d].status = "failed" => reply[d].pmid = 0
  /\ \A c \in Callbacks : callback[c].on # NoDelivery => ~callback[c].meta.retryable

(* What the sweep has listed stays retryable until the sweep gets to it: it
   lists a row once and writes none that is still listed. *)
ListedStays ==
  \A s \in Sweepers :
    /\ \A p \in listed[s] : /\ row[p[1]].meta.retryable
                            /\ point[s] # "next" => outcome[s].on # p[1]
    /\ \A p, q \in listed[s] : p[1] = q[1] => p = q
    /\ point[s] = "write" /\ snapshot[s] => row[outcome[s].on].meta.retryable

ResendInv == RetryableIsFailed /\ ListedStays

(* A step that takes no flag away and lists nothing keeps what is listed. *)
LEMMA ListedKept ==
  ASSUME ListedStays, listed' = listed, outcome' = outcome, point' = point,
         snapshot' = snapshot, DeliveryTypeOK, RecordedFirst,
         \A d \in Deliveries : row[d].meta.retryable => row'[d].meta.retryable
  PROVE  ListedStays'
  <1>1. \A s \in Sweepers :
          /\ \A p \in listed[s] : p[1] \in Deliveries
          /\ point[s] = "write" => outcome[s].on \in Deliveries
    BY DEF DeliveryTypeOK, RecordedFirst
  <1> QED BY <1>1 DEF ListedStays

(* The sender records its row before anybody else can list it. *)
LEMMA ResendRecord ==
  ASSUME DeliveryIInv, ResendInv, NEW d \in Deliveries, Record(d)
  PROVE  ResendInv'
  <1>1. /\ row \in [Deliveries -> DeliveryRows]
        /\ reply \in [Deliveries -> Replies]
        /\ DeliveryTypeOK /\ RecordedFirst
    BY DEF DeliveryIInv, DeliveryTypeOK
  <1>2. /\ sender[d] # "done"
        /\ row' = [row EXCEPT ![d] = RecordedRow(reply[d])]
        /\ reply' = [reply EXCEPT ![d] = NoReply]
        /\ UNCHANGED <<callback, listed, point, outcome, snapshot>>
    BY DEF Record
  <1>3. ~row[d].meta.retryable
    BY <1>1, <1>2 DEF RecordedFirst, ResendInv, RetryableIsFailed
  <1>4. \A e \in Deliveries \ {d} : row'[e] = row[e] /\ reply'[e] = reply[e]
    BY <1>1, <1>2
  <1>5. /\ row'[d].meta.retryable => row'[d].status = "failed" /\ row'[d].pmid = 0
        /\ reply'[d].status = "failed" => reply'[d].pmid = 0
    BY <1>1, <1>2 DEF RecordedRow, NoReply, ResendInv, RetryableIsFailed
  <1>6. RetryableIsFailed'
    BY <1>2, <1>4, <1>5 DEF ResendInv, RetryableIsFailed
  <1>7. ListedStays'
    BY <1>1, <1>2, <1>3, <1>4, ListedKept DEF ResendInv
  <1> QED BY <1>6, <1>7 DEF ResendInv

(* A callback under way is for a row that nobody will send again. *)
LEMMA ResendCallback ==
  ASSUME DeliveryIInv, ResendInv, NEW c \in Callbacks, WriteCallback(c)
  PROVE  ResendInv'
  <1> DEFINE d == callback[c].on
  <1>1. /\ row \in [Deliveries -> DeliveryRows]
        /\ callback \in [Callbacks -> [on : Deliveries \cup {NoDelivery},
                                       status : Reported, meta : Metadata]]
        /\ DeliveryTypeOK /\ RecordedFirst
    BY DEF DeliveryIInv, DeliveryTypeOK
  <1>2. /\ d # NoDelivery
        /\ row' = [row EXCEPT ![d] = RowAfterCallback(@, callback[c])]
        /\ callback' = [callback EXCEPT ![c] = NoCallback]
        /\ UNCHANGED <<reply, listed, point, outcome, snapshot>>
    BY DEF WriteCallback
  <1>3. d \in Deliveries /\ ~row[d].meta.retryable /\ ~callback[c].meta.retryable
    BY <1>1, <1>2 DEF RecordedFirst, ResendInv, RetryableIsFailed
  <1>4. \A e \in Deliveries \ {d} : row'[e] = row[e]
    BY <1>1, <1>2, <1>3
  <1>5. row'[d] = RowAfterCallback(row[d], callback[c])
    BY <1>1, <1>2, <1>3
  <1> HIDE DEF d
  <1>6. ~row'[d].meta.retryable
    <2>1. row'[d].meta.retryable =
            (callback[c].meta.retryable /\ callback[c].status # "failed")
      BY <1>5 DEF RowAfterCallback
    <2> QED BY <1>3, <2>1
  <1>7. \A b \in Callbacks : callback'[b].on # NoDelivery => ~callback'[b].meta.retryable
    BY <1>1, <1>2 DEF NoCallback, ResendInv, RetryableIsFailed
  <1>8. RetryableIsFailed'
    BY <1>2, <1>4, <1>6, <1>7 DEF ResendInv, RetryableIsFailed
  <1>9. ListedStays'
    BY <1>1, <1>2, <1>3, <1>4, ListedKept DEF ResendInv
  <1> QED BY <1>8, <1>9 DEF ResendInv

(* A callback reads the metadata of a row that was accepted. *)
LEMMA ResendRead ==
  ASSUME DeliveryIInv, ResendInv, NEW c \in Callbacks, NEW d \in Deliveries,
         NEW n \in 1 .. MaxSends, NEW status \in Reported, ReadForCallback(c, d, n, status)
  PROVE  ResendInv'
  <1>1. DeliveryTypeOK /\ RecordedFirst
    BY DEF DeliveryIInv
  <1>2. /\ row[d].pmid = n
        /\ callback' = [callback EXCEPT
             ![c] = [on |-> d, status |-> status, meta |-> row[d].meta]]
        /\ UNCHANGED <<row, reply, listed, point, outcome, snapshot>>
    BY DEF ReadForCallback
  <1>3. ~row[d].meta.retryable
    BY <1>2 DEF ResendInv, RetryableIsFailed
  <1>4. \A b \in Callbacks :
          \/ callback'[b] = callback[b]
          \/ ~callback'[b].meta.retryable
    BY <1>2, <1>3
  <1>5. RetryableIsFailed'
    BY <1>2, <1>4 DEF ResendInv, RetryableIsFailed
  <1>6. ListedStays'
    BY <1>1, <1>2, ListedKept DEF ResendInv
  <1> QED BY <1>5, <1>6 DEF ResendInv

(* The sweep takes a row off its list before it sends it or gives it up. *)
LEMMA ResendTake ==
  ASSUME DeliveryIInv, ResendInv, \A t, u \in Sweepers : t = u,
         NEW s \in Sweepers, NEW d \in Deliveries, NEW attempts \in Nat,
         <<d, attempts>> \in listed[s], point' = [point EXCEPT ![s] = "read"],
         listed' = [listed EXCEPT ![s] = @ \ {<<d, attempts>>}],
         outcome'[s].on = d, UNCHANGED <<row, reply, callback, snapshot>>
  PROVE  ResendInv'
  <1>1. /\ listed \in [Sweepers -> SUBSET (Deliveries \X Nat)]
        /\ point \in [Sweepers -> {"next", "read", "write"}]
    BY DEF DeliveryIInv, DeliveryTypeOK
  <1>2. /\ listed'[s] = listed[s] \ {<<d, attempts>>}
        /\ point'[s] = "read"
    BY <1>1
  <1>3. \A p \in listed[s] : p[1] = d => p = <<d, attempts>>
    BY DEF ResendInv, ListedStays
  <1>4. ListedStays'
    BY <1>2, <1>3 DEF ResendInv, ListedStays
  <1>5. RetryableIsFailed'
    BY DEF ResendInv, RetryableIsFailed
  <1> QED BY <1>4, <1>5 DEF ResendInv

(* The outcome is written over a row that is on nobody's list. *)
LEMMA ResendWrite ==
  ASSUME DeliveryIInv, ResendInv, \A t, u \in Sweepers : t = u,
         NEW s \in Sweepers, WriteOutcome(s)
  PROVE  ResendInv'
  <1> DEFINE d == outcome[s].on
  <1>1. /\ row \in [Deliveries -> DeliveryRows]
        /\ point \in [Sweepers -> {"next", "read", "write"}]
        /\ snapshot \in [Sweepers -> BOOLEAN]
        /\ listed \in [Sweepers -> SUBSET (Deliveries \X Nat)]
    BY DEF DeliveryIInv, DeliveryTypeOK
  <1>2. /\ point[s] = "write"
        /\ row' = [row EXCEPT ![d] = RowAfterRetry(@, outcome[s], snapshot[s])]
        /\ point' = [point EXCEPT ![s] = "next"]
        /\ UNCHANGED <<reply, callback, listed>>
    BY DEF WriteOutcome
  <1>3. d \in Deliveries
    BY <1>2 DEF DeliveryIInv, RecordedFirst
  <1>4. /\ row'[d] = RowAfterRetry(row[d], outcome[s], snapshot[s])
        /\ \A e \in Deliveries \ {d} : row'[e] = row[e]
        /\ point'[s] = "next"
    BY <1>1, <1>2, <1>3
  <1>5. snapshot[s] => row[d].pmid = 0
    BY <1>2, <1>3 DEF ResendInv, ListedStays, RetryableIsFailed
  <1>6. \A p \in listed[s] : p[1] # d /\ p[1] \in Deliveries /\ row[p[1]].meta.retryable
    BY <1>1, <1>2 DEF ResendInv, ListedStays
  <1> HIDE DEF d
  <1>7. row'[d].meta.retryable => row'[d].status = "failed" /\ row'[d].pmid = 0
    <2>1. /\ row'[d].meta.retryable =
               (snapshot[s] /\ ~outcome[s].succeeded /\ ~outcome[s].exhausted)
          /\ row'[d].status = IF outcome[s].succeeded THEN "sent" ELSE "failed"
          /\ row'[d].pmid = IF outcome[s].succeeded THEN outcome[s].pmid ELSE row[d].pmid
      BY <1>4 DEF RowAfterRetry
    <2> QED BY <1>5, <2>1
  <1>8. RetryableIsFailed'
    BY <1>2, <1>4, <1>7 DEF ResendInv, RetryableIsFailed
  <1>9. \A p \in listed[s] : row'[p[1]].meta.retryable
    BY <1>4, <1>6
  <1>10. ListedStays'
    BY <1>2, <1>4, <1>9 DEF ResendInv, ListedStays
  <1> QED BY <1>8, <1>10 DEF ResendInv

LEMMA ResendStep ==
  ASSUME DeliveryIInv, ResendInv, \A s, t \in Sweepers : s = t, [DeliveryNext]_deliveryVars
  PROVE  ResendInv'
  <1>a. DeliveryTypeOK /\ RecordedFirst
    BY DEF DeliveryIInv
  <1>b. /\ listed \in [Sweepers -> SUBSET (Deliveries \X Nat)]
        /\ point \in [Sweepers -> {"next", "read", "write"}]
        /\ outcome \in [Sweepers -> Outcomes]
        /\ snapshot \in [Sweepers -> BOOLEAN]
        /\ reply \in [Deliveries -> Replies]
    BY <1>a DEF DeliveryTypeOK
  <1>1. ASSUME NEW d \in Deliveries, Send(d)
        PROVE  ResendInv'
    <2>1. PICK r \in Replies : SendMessage(d, r) /\ reply' = [reply EXCEPT ![d] = r]
      BY <1>1 DEF Send
    <2>2. r.status = "failed" => r.pmid = 0
      BY <2>1 DEF SendMessage
    <2>3. \A e \in Deliveries : reply'[e].status = "failed" => reply'[e].pmid = 0
      BY <1>b, <2>1, <2>2 DEF ResendInv, RetryableIsFailed
    <2>4. UNCHANGED <<row, callback, listed, point, outcome, snapshot>>
      BY <1>1 DEF Send
    <2>5. RetryableIsFailed'
      BY <2>3, <2>4 DEF ResendInv, RetryableIsFailed
    <2>6. ListedStays'
      BY <1>a, <2>4, ListedKept DEF ResendInv
    <2> QED BY <2>5, <2>6 DEF ResendInv
  <1>2. ASSUME NEW d \in Deliveries, Record(d)
        PROVE  ResendInv'
    BY <1>2, ResendRecord
  <1>3. ASSUME NEW c \in Callbacks, NEW d \in Deliveries, NEW n \in 1 .. MaxSends,
               NEW status \in Reported, ReadForCallback(c, d, n, status)
        PROVE  ResendInv'
    BY <1>3, ResendRead
  <1>4. ASSUME NEW c \in Callbacks, WriteCallback(c)
        PROVE  ResendInv'
    BY <1>4, ResendCallback
  <1>5. ASSUME NEW s \in Sweepers, ListFailed(s)
        PROVE  ResendInv'
    <2>1. PICK some \in SUBSET {d \in Deliveries : Retryable(d)} :
            listed' = [listed EXCEPT ![s] = {<<d, row[d].meta.attempts>> : d \in some}]
      BY <1>5 DEF ListFailed
    <2>2. /\ listed'[s] = {<<d, row[d].meta.attempts>> : d \in some}
          /\ point[s] = "next"
          /\ UNCHANGED <<row, reply, callback, point, outcome, snapshot>>
      BY <1>b, <1>5, <2>1 DEF ListFailed, SweepIdle
    <2>3. \A p \in listed'[s] : /\ p = <<p[1], row[p[1]].meta.attempts>>
                                /\ row[p[1]].meta.retryable
      BY <2>2 DEF Retryable
    <2>4. ListedStays'
      BY <2>2, <2>3 DEF ListedStays
    <2>5. RetryableIsFailed'
      BY <2>2 DEF ResendInv, RetryableIsFailed
    <2> QED BY <2>4, <2>5 DEF ResendInv
  <1>6. ASSUME NEW s \in Sweepers, NEW d \in Deliveries, NEW attempts \in 0 .. MaxRetries - 1,
               Resend(s, d, attempts) \/ GiveUp(s, d, attempts)
        PROVE  ResendInv'
    <2>1. /\ <<d, attempts>> \in listed[s]
          /\ listed' = [listed EXCEPT ![s] = @ \ {<<d, attempts>>}]
          /\ point' = [point EXCEPT ![s] = "read"]
          /\ UNCHANGED <<row, reply, callback, snapshot>>
      BY <1>6 DEF Resend, GiveUp
    <2>2. outcome'[s].on = d
      BY <1>b, <1>6 DEF Resend, GiveUp, GivenUp
    <2>3. attempts \in Nat
      BY BoundsAssumption
    <2> QED BY <2>1, <2>2, <2>3, ResendTake
  <1>7. ASSUME NEW s \in Sweepers, ReadForOutcome(s)
        PROVE  ResendInv'
    <2>1. /\ point[s] = "read"
          /\ snapshot'[s] = row[outcome[s].on].meta.retryable
          /\ UNCHANGED <<row, reply, callback, listed, outcome>>
      BY <1>b, <1>7 DEF ReadForOutcome
    <2>2. ListedStays'
      BY <2>1 DEF ResendInv, ListedStays
    <2>3. RetryableIsFailed'
      BY <2>1 DEF ResendInv, RetryableIsFailed
    <2> QED BY <2>2, <2>3 DEF ResendInv
  <1>8. ASSUME NEW s \in Sweepers, WriteOutcome(s)
        PROVE  ResendInv'
    BY <1>8, ResendWrite
  <1>9. ASSUME NEW s \in Sweepers, Crash(s)
        PROVE  ResendInv'
    <2>1. /\ listed'[s] = {} /\ point'[s] = "next"
          /\ UNCHANGED <<row, reply, callback>>
      BY <1>b, <1>9 DEF Crash
    <2>2. ListedStays'
      BY <2>1 DEF ListedStays
    <2>3. RetryableIsFailed'
      BY <2>1 DEF ResendInv, RetryableIsFailed
    <2> QED BY <2>2, <2>3 DEF ResendInv
  <1>10. ASSUME UNCHANGED deliveryVars
         PROVE  ResendInv'
    BY <1>10 DEF deliveryVars, ResendInv, RetryableIsFailed, ListedStays
  <1> QED BY <1>1, <1>2, <1>3, <1>4, <1>5, <1>6, <1>7, <1>8, <1>9, <1>10
          DEF DeliveryNext, SweepStep

(* Only the sender of a row nobody has recorded, and the sweep for a row on its
   list, call the adapter. *)
LEMMA CallersAreFew ==
  ASSUME DeliveryIInv, ResendInv, DeliveryNext, NEW d \in Deliveries, sends'[d] > sends[d]
  PROVE  \/ row[d].status \in {"none", "pending"}
         \/ row[d].status = "failed" /\ row[d].meta.retryable
  <1>1. sends \in [Deliveries -> Nat]
    BY BoundsAssumption DEF DeliveryIInv, DeliveryTypeOK, MessageIds
  <1>2. sends' # sends
    BY <1>1
  <1>3. ASSUME NEW e \in Deliveries, NEW r \in Replies, SendMessage(e, r)
        PROVE  e = d
    BY <1>1, <1>3 DEF SendMessage
  <1>4. ASSUME NEW e \in Deliveries, Send(e)
        PROVE  row[d].status \in {"none", "pending"}
    <2>1. e = d
      BY <1>3, <1>4 DEF Send
    <2> QED BY <1>4, <2>1 DEF Send, DeliveryIInv, RecordedFirst
  <1>5. ASSUME NEW s \in Sweepers, NEW e \in Deliveries, NEW attempts \in 0 .. MaxRetries - 1,
               Resend(s, e, attempts)
        PROVE  row[d].status = "failed" /\ row[d].meta.retryable
    <2>1. e = d
      BY <1>3, <1>5 DEF Resend
    <2>2. <<d, attempts>> \in listed[s] /\ <<d, attempts>>[1] = d
      BY <1>5, <2>1 DEF Resend
    <2>3. row[d].meta.retryable
      BY <2>2 DEF ResendInv, ListedStays
    <2> QED BY <2>3 DEF ResendInv, RetryableIsFailed
  <1>6. ASSUME NEW e \in Deliveries, Record(e)
        PROVE  sends' = sends
    BY <1>6 DEF Record
  <1>7. ASSUME NEW c \in Callbacks, NEW e \in Deliveries, NEW n \in 1 .. MaxSends,
               NEW status \in Reported, ReadForCallback(c, e, n, status)
        PROVE  sends' = sends
    BY <1>7 DEF ReadForCallback
  <1>8. ASSUME NEW c \in Callbacks, WriteCallback(c)
        PROVE  sends' = sends
    BY <1>8 DEF WriteCallback
  <1>9. ASSUME NEW s \in Sweepers, ListFailed(s) \/ ReadForOutcome(s) \/ WriteOutcome(s) \/ Crash(s)
        PROVE  sends' = sends
    BY <1>9 DEF ListFailed, ReadForOutcome, WriteOutcome, Crash
  <1>10. ASSUME NEW s \in Sweepers, NEW e \in Deliveries, NEW attempts \in 0 .. MaxRetries - 1,
                GiveUp(s, e, attempts)
         PROVE  sends' = sends
    BY <1>10 DEF GiveUp
  <1> QED BY <1>2, <1>4, <1>5, <1>6, <1>7, <1>8, <1>9, <1>10 DEF DeliveryNext, SweepStep

(* With one sweep at a time a reply the provider has taken, or rejected for good,
   is not sent again, whenever callbacks arrive and sweeps die.  A second sweep
   may have listed a row that the first has sent in the meantime. *)
THEOREM SettledIsNotResent ==
  ASSUME \A s, t \in Sweepers : s = t
  PROVE  DeliverySpec => NoResendOfSettled
  <1>1. DeliveryInit => ResendInv
    BY DEF DeliveryInit, ResendInv, RetryableIsFailed, ListedStays, FirstMeta, NoReply,
           NoCallback
  <1>2. DeliveryIInv /\ ResendInv /\ [DeliveryNext]_deliveryVars => ResendInv'
    BY ResendStep
  <1>3. DeliveryIInv /\ ResendInv /\ [DeliveryNext]_deliveryVars =>
          [\A d \in Deliveries : sends'[d] > sends[d] =>
             \/ row[d].status \in {"none", "pending"}
             \/ row[d].status = "failed" /\ row[d].meta.retryable]_deliveryVars
    BY CallersAreFew
  <1> QED BY <1>1, <1>2, <1>3, Invariance, PTL DEF DeliverySpec, NoResendOfSettled
=============================================================================
