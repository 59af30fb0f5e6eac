------------------------- MODULE WebhookReplyProofs -------------------------
(***************************************************************************)
(* Proofs about WebhookReply for every set of requests, events and batches *)
(* and every bound on faults.  The argument is one inductive invariant,    *)
(* IInv, proved in the groups it is made of: a group may use the groups    *)
(* before it, and has one step per action of Next.                         *)
(***************************************************************************)
EXTENDS WebhookReply, TLAPS

(* Every step keeps the types. *)
LEMMA TypeStep ==
  ASSUME TypeOK, CurInHand, [Next]_vars
  PROVE  TypeOK'
  <1> USE NoEventAssumption, BatchesAssumption, MaxFaultsAssumption
  <1> USE DEF TypeOK, WebhookStates, Ownership, DeliveryStates, SendOutcomes,
              Points, CurInHand, Working, tables, locals, observed
  <1>1. ASSUME NEW r \in Requests, NEW b \in Batches, Receive(r, b)
        PROVE  TypeOK'
    BY <1>1 DEF Receive
  <1>2. ASSUME NEW r \in Requests, NEW e \in Events, RecordEvent(r, e)
        PROVE  TypeOK'
    BY <1>2 DEF RecordEvent, IsReplay
  <1>3. ASSUME NEW r \in Requests, Respond(r)
        PROVE  TypeOK'
    BY <1>3 DEF Respond, DropRequest, DropEvent
  <1>4. ASSUME NEW r \in Requests, FindConversation(r)
        PROVE  TypeOK'
    BY <1>4 DEF FindConversation, OwnedByOperator
  <1>5. ASSUME NEW r \in Requests, StoreInbound(r)
        PROVE  TypeOK'
    BY <1>5 DEF StoreInbound, Kept
  <1>6. ASSUME NEW r \in Requests, Claim(r)
        PROVE  TypeOK'
    BY <1>6 DEF Claim, ClaimIsFree
  <1>7. ASSUME NEW r \in Requests, Send(r)
        PROVE  TypeOK'
    BY <1>7 DEF Send
  <1>8. ASSUME NEW r \in Requests, StoreOutbound(r)
        PROVE  TypeOK'
    BY <1>8 DEF StoreOutbound
  <1>9. ASSUME NEW r \in Requests, Finalize(r)
        PROVE  TypeOK'
    BY <1>9 DEF Finalize, FinalStatus
  <1>10. ASSUME NEW r \in Requests, LogUsage(r)
         PROVE  TypeOK'
    BY <1>10 DEF LogUsage
  <1>11. ASSUME NEW r \in Requests, MarkProcessed(r)
         PROVE  TypeOK'
    BY <1>11 DEF MarkProcessed, DropEvent
  <1>12. ASSUME NEW r \in Requests, MarkFailed(r)
         PROVE  TypeOK'
    BY <1>12 DEF MarkFailed, DropRequest, DropEvent
  <1>13. ASSUME NEW r \in Requests, Throw(r)
         PROVE  TypeOK'
    BY <1>13 DEF Throw
  <1>14. ASSUME NEW r \in Requests, Crash(r)
         PROVE  TypeOK'
    BY <1>14 DEF Crash, DropRequest, DropEvent
  <1>15. ASSUME TakeOver
         PROVE  TypeOK'
    BY <1>15 DEF TakeOver
  <1>16. ASSUME Release
         PROVE  TypeOK'
    BY <1>16 DEF Release
  <1>17. ASSUME UNCHANGED vars
         PROVE  TypeOK'
    BY <1>17 DEF vars
  <1> QED BY <1>1, <1>2, <1>3, <1>4, <1>5, <1>6, <1>7, <1>8, <1>9, <1>10,
             <1>11, <1>12, <1>13, <1>14, <1>15, <1>16, <1>17 DEF Next, Step
(* Every step keeps the event in hand in line with the point of the request.
   *)
LEMMA HandStep ==
  ASSUME TypeOK, CurInHand, [Next]_vars
  PROVE  CurInHand'
  <1> USE NoEventAssumption
  <1> USE DEF TypeOK, WebhookStates, Ownership, DeliveryStates, SendOutcomes,
              Points, CurInHand, Working, tables, locals, observed
  <1>1. ASSUME NEW r \in Requests, NEW b \in Batches, Receive(r, b)
        PROVE  CurInHand'
    BY <1>1 DEF Receive
  <1>2. ASSUME NEW r \in Requests, NEW e \in Events, RecordEvent(r, e)
        PROVE  CurInHand'
    BY <1>2 DEF RecordEvent, IsReplay
  <1>3. ASSUME NEW r \in Requests, Respond(r)
        PROVE  CurInHand'
    BY <1>3 DEF Respond, DropRequest, DropEvent
  <1>4. ASSUME NEW r \in Requests, FindConversation(r)
        PROVE  CurInHand'
    BY <1>4 DEF FindConversation, OwnedByOperator
  <1>5. ASSUME NEW r \in Requests, StoreInbound(r)
        PROVE  CurInHand'
    BY <1>5 DEF StoreInbound, Kept
  <1>6. ASSUME NEW r \in Requests, Claim(r)
        PROVE  CurInHand'
    BY <1>6 DEF Claim, ClaimIsFree
  <1>7. ASSUME NEW r \in Requests, Send(r)
        PROVE  CurInHand'
    BY <1>7 DEF Send
  <1>8. ASSUME NEW r \in Requests, StoreOutbound(r)
        PROVE  CurInHand'
    BY <1>8 DEF StoreOutbound
  <1>9. ASSUME NEW r \in Requests, Finalize(r)
        PROVE  CurInHand'
    BY <1>9 DEF Finalize, FinalStatus
  <1>10. ASSUME NEW r \in Requests, LogUsage(r)
         PROVE  CurInHand'
    BY <1>10 DEF LogUsage
  <1>11. ASSUME NEW r \in Requests, MarkProcessed(r)
         PROVE  CurInHand'
    BY <1>11 DEF MarkProcessed, DropEvent
  <1>12. ASSUME NEW r \in Requests, MarkFailed(r)
         PROVE  CurInHand'
    BY <1>12 DEF MarkFailed, DropRequest, DropEvent
  <1>13. ASSUME NEW r \in Requests, Throw(r)
         PROVE  CurInHand'
    BY <1>13 DEF Throw
  <1>14. ASSUME NEW r \in Requests, Crash(r)
         PROVE  CurInHand'
    BY <1>14 DEF Crash, DropRequest, DropEvent
  <1>15. ASSUME TakeOver
         PROVE  CurInHand'
    BY <1>15 DEF TakeOver
  <1>16. ASSUME Release
         PROVE  CurInHand'
    BY <1>16 DEF Release
  <1>17. ASSUME UNCHANGED vars
         PROVE  CurInHand'
    BY <1>17 DEF vars
  <1> QED BY <1>1, <1>2, <1>3, <1>4, <1>5, <1>6, <1>7, <1>8, <1>9, <1>10,
             <1>11, <1>12, <1>13, <1>14, <1>15, <1>16, <1>17 DEF Next, Step
(* No step lets a second request hold a claimed row. *)
LEMMA HolderStep ==
  ASSUME TypeOK, CurInHand, OneHolder, [Next]_vars
  PROVE  OneHolder'
  <1> USE NoEventAssumption
  <1> USE DEF TypeOK, WebhookStates, Ownership, DeliveryStates, SendOutcomes,
              Points, CurInHand, Working, OneHolder, Holding, tables, locals,
              observed
  <1>1. ASSUME NEW r \in Requests, NEW b \in Batches, Receive(r, b)
        PROVE  OneHolder'
    BY <1>1 DEF Receive
  <1>2. ASSUME NEW r \in Requests, NEW e \in Events, RecordEvent(r, e)
        PROVE  OneHolder'
    BY <1>2 DEF RecordEvent, IsReplay
  <1>3. ASSUME NEW r \in Requests, Respond(r)
        PROVE  OneHolder'
    BY <1>3 DEF Respond, DropRequest, DropEvent
  <1>4. ASSUME NEW r \in Requests, FindConversation(r)
        PROVE  OneHolder'
    BY <1>4 DEF FindConversation, OwnedByOperator
  <1>5. ASSUME NEW r \in Requests, StoreInbound(r)
        PROVE  OneHolder'
    BY <1>5 DEF StoreInbound, Kept
  <1>6. ASSUME NEW r \in Requests, Claim(r)
        PROVE  OneHolder'
    BY <1>6 DEF Claim, ClaimIsFree
  <1>7. ASSUME NEW r \in Requests, Send(r)
        PROVE  OneHolder'
    BY <1>7 DEF Send
  <1>8. ASSUME NEW r \in Requests, StoreOutbound(r)
        PROVE  OneHolder'
    BY <1>8 DEF StoreOutbound
  <1>9. ASSUME NEW r \in Requests, Finalize(r)
        PROVE  OneHolder'
    BY <1>9 DEF Finalize, FinalStatus
  <1>10. ASSUME NEW r \in Requests, LogUsage(r)
         PROVE  OneHolder'
    BY <1>10 DEF LogUsage
  <1>11. ASSUME NEW r \in Requests, MarkProcessed(r)
         PROVE  OneHolder'
    BY <1>11 DEF MarkProcessed, DropEvent
  <1>12. ASSUME NEW r \in Requests, MarkFailed(r)
         PROVE  OneHolder'
    BY <1>12 DEF MarkFailed, DropRequest, DropEvent
  <1>13. ASSUME NEW r \in Requests, Throw(r)
         PROVE  OneHolder'
    BY <1>13 DEF Throw
  <1>14. ASSUME NEW r \in Requests, Crash(r)
         PROVE  OneHolder'
    BY <1>14 DEF Crash, DropRequest, DropEvent
  <1>15. ASSUME TakeOver
         PROVE  OneHolder'
    BY <1>15 DEF TakeOver
  <1>16. ASSUME Release
         PROVE  OneHolder'
    BY <1>16 DEF Release
  <1>17. ASSUME UNCHANGED vars
         PROVE  OneHolder'
    BY <1>17 DEF vars
  <1> QED BY <1>1, <1>2, <1>3, <1>4, <1>5, <1>6, <1>7, <1>8, <1>9, <1>10,
             <1>11, <1>12, <1>13, <1>14, <1>15, <1>16, <1>17 DEF Next, Step
(* No step does again what the holder of a claim does once. *)
LEMMA CountStep ==
  ASSUME TypeOK, CurInHand, OneHolder, NothingTwice, AtMostOneReply,
         [Next]_vars
  PROVE  NothingTwice' /\ AtMostOneReply'
  <1> USE NoEventAssumption
  <1> USE DEF TypeOK, WebhookStates, Ownership, DeliveryStates, SendOutcomes,
              Points, CurInHand, Working, OneHolder, Holding, NothingTwice,
              AtMostOneReply, tables, locals, observed
  <1>1. ASSUME NEW r \in Requests, NEW b \in Batches, Receive(r, b)
        PROVE  NothingTwice' /\ AtMostOneReply'
    BY <1>1 DEF Receive
  <1>2. ASSUME NEW r \in Requests, NEW e \in Events, RecordEvent(r, e)
        PROVE  NothingTwice' /\ AtMostOneReply'
    BY <1>2 DEF RecordEvent, IsReplay
  <1>3. ASSUME NEW r \in Requests, Respond(r)
        PROVE  NothingTwice' /\ AtMostOneReply'
    BY <1>3 DEF Respond, DropRequest, DropEvent
  <1>4. ASSUME NEW r \in Requests, FindConversation(r)
        PROVE  NothingTwice' /\ AtMostOneReply'
    BY <1>4 DEF FindConversation, OwnedByOperator
  <1>5. ASSUME NEW r \in Requests, StoreInbound(r)
        PROVE  NothingTwice' /\ AtMostOneReply'
    BY <1>5 DEF StoreInbound, Kept
  <1>6. ASSUME NEW r \in Requests, Claim(r)
        PROVE  NothingTwice' /\ AtMostOneReply'
    BY <1>6 DEF Claim, ClaimIsFree
  <1>7. ASSUME NEW r \in Requests, Send(r)
        PROVE  NothingTwice' /\ AtMostOneReply'
    BY <1>7 DEF Send
  <1>8. ASSUME NEW r \in Requests, StoreOutbound(r)
        PROVE  NothingTwice' /\ AtMostOneReply'
    BY <1>8 DEF StoreOutbound
  <1>9. ASSUME NEW r \in Requests, Finalize(r)
        PROVE  NothingTwice' /\ AtMostOneReply'
    BY <1>9 DEF Finalize, FinalStatus
  <1>10. ASSUME NEW r \in Requests, LogUsage(r)
         PROVE  NothingTwice' /\ AtMostOneReply'
    BY <1>10 DEF LogUsage
  <1>11. ASSUME NEW r \in Requests, MarkProcessed(r)
         PROVE  NothingTwice' /\ AtMostOneReply'
    BY <1>11 DEF MarkProcessed, DropEvent
  <1>12. ASSUME NEW r \in Requests, MarkFailed(r)
         PROVE  NothingTwice' /\ AtMostOneReply'
    BY <1>12 DEF MarkFailed, DropRequest, DropEvent
  <1>13. ASSUME NEW r \in Requests, Throw(r)
         PROVE  NothingTwice' /\ AtMostOneReply'
    BY <1>13 DEF Throw
  <1>14. ASSUME NEW r \in Requests, Crash(r)
         PROVE  NothingTwice' /\ AtMostOneReply'
    BY <1>14 DEF Crash, DropRequest, DropEvent
  <1>15. ASSUME TakeOver
         PROVE  NothingTwice' /\ AtMostOneReply'
    BY <1>15 DEF TakeOver
  <1>16. ASSUME Release
         PROVE  NothingTwice' /\ AtMostOneReply'
    BY <1>16 DEF Release
  <1>17. ASSUME UNCHANGED vars
         PROVE  NothingTwice' /\ AtMostOneReply'
    BY <1>17 DEF vars
  <1> QED BY <1>1, <1>2, <1>3, <1>4, <1>5, <1>6, <1>7, <1>8, <1>9, <1>10,
             <1>11, <1>12, <1>13, <1>14, <1>15, <1>16, <1>17 DEF Next, Step
(* Usage is logged only for a finalized row and a stored turn, and neither
   goes back. *)
LEMMA UsageStep ==
  ASSUME TypeOK, CurInHand, OneHolder, NothingTwice, UsageFollowsDelivery,
         [Next]_vars
  PROVE  UsageFollowsDelivery'
  <1> USE NoEventAssumption
  <1> USE DEF TypeOK, WebhookStates, Ownership, DeliveryStates, SendOutcomes,
              Points, CurInHand, Working, OneHolder, Holding, NothingTwice,
              UsageFollowsDelivery, tables, locals, observed
  <1>1. ASSUME NEW r \in Requests, NEW b \in Batches, Receive(r, b)
        PROVE  UsageFollowsDelivery'
    BY <1>1 DEF Receive
  <1>2. ASSUME NEW r \in Requests, NEW e \in Events, RecordEvent(r, e)
        PROVE  UsageFollowsDelivery'
    BY <1>2 DEF RecordEvent, IsReplay
  <1>3. ASSUME NEW r \in Requests, Respond(r)
        PROVE  UsageFollowsDelivery'
    BY <1>3 DEF Respond, DropRequest, DropEvent
  <1>4. ASSUME NEW r \in Requests, FindConversation(r)
        PROVE  UsageFollowsDelivery'
    BY <1>4 DEF FindConversation, OwnedByOperator
  <1>5. ASSUME NEW r \in Requests, StoreInbound(r)
        PROVE  UsageFollowsDelivery'
    BY <1>5 DEF StoreInbound, Kept
  <1>6. ASSUME NEW r \in Requests, Claim(r)
        PROVE  UsageFollowsDelivery'
    BY <1>6 DEF Claim, ClaimIsFree
  <1>7. ASSUME NEW r \in Requests, Send(r)
        PROVE  UsageFollowsDelivery'
    BY <1>7 DEF Send
  <1>8. ASSUME NEW r \in Requests, StoreOutbound(r)
        PROVE  UsageFollowsDelivery'
    BY <1>8 DEF StoreOutbound
  <1>9. ASSUME NEW r \in Requests, Finalize(r)
        PROVE  UsageFollowsDelivery'
    BY <1>9 DEF Finalize, FinalStatus
  <1>10. ASSUME NEW r \in Requests, LogUsage(r)
         PROVE  UsageFollowsDelivery'
    BY <1>10 DEF LogUsage
  <1>11. ASSUME NEW r \in Requests, MarkProcessed(r)
         PROVE  UsageFollowsDelivery'
    BY <1>11 DEF MarkProcessed, DropEvent
  <1>12. ASSUME NEW r \in Requests, MarkFailed(r)
         PROVE  UsageFollowsDelivery'
    BY <1>12 DEF MarkFailed, DropRequest, DropEvent
  <1>13. ASSUME NEW r \in Requests, Throw(r)
         PROVE  UsageFollowsDelivery'
    BY <1>13 DEF Throw
  <1>14. ASSUME NEW r \in Requests, Crash(r)
         PROVE  UsageFollowsDelivery'
    BY <1>14 DEF Crash, DropRequest, DropEvent
  <1>15. ASSUME TakeOver
         PROVE  UsageFollowsDelivery'
    BY <1>15 DEF TakeOver
  <1>16. ASSUME Release
         PROVE  UsageFollowsDelivery'
    BY <1>16 DEF Release
  <1>17. ASSUME UNCHANGED vars
         PROVE  UsageFollowsDelivery'
    BY <1>17 DEF vars
  <1> QED BY <1>1, <1>2, <1>3, <1>4, <1>5, <1>6, <1>7, <1>8, <1>9, <1>10,
             <1>11, <1>12, <1>13, <1>14, <1>15, <1>16, <1>17 DEF Next, Step
(* A request leaves an event behind, or acknowledges its batch, only when the
   event was handled. *)
LEMMA HandledStep ==
  ASSUME TypeOK, CurInHand, OneHolder, HandledSoFar, AckedIsHandled,
         [Next]_vars
  PROVE  HandledSoFar' /\ AckedIsHandled'
  <1> USE NoEventAssumption
  <1> USE DEF TypeOK, WebhookStates, Ownership, DeliveryStates, SendOutcomes,
              Points, CurInHand, Working, OneHolder, Holding, HandledSoFar,
              AckedIsHandled, Handled, tables, locals, observed
  <1>1. ASSUME NEW r \in Requests, NEW b \in Batches, Receive(r, b)
        PROVE  HandledSoFar' /\ AckedIsHandled'
    BY <1>1 DEF Receive
  <1>2. ASSUME NEW r \in Requests, NEW e \in Events, RecordEvent(r, e)
        PROVE  HandledSoFar' /\ AckedIsHandled'
    BY <1>2 DEF RecordEvent, IsReplay
  <1>3. ASSUME NEW r \in Requests, Respond(r)
        PROVE  HandledSoFar' /\ AckedIsHandled'
    BY <1>3 DEF Respond, DropRequest, DropEvent
  <1>4. ASSUME NEW r \in Requests, FindConversation(r)
        PROVE  HandledSoFar' /\ AckedIsHandled'
    BY <1>4 DEF FindConversation, OwnedByOperator
  <1>5. ASSUME NEW r \in Requests, StoreInbound(r)
        PROVE  HandledSoFar' /\ AckedIsHandled'
    BY <1>5 DEF StoreInbound, Kept
  <1>6. ASSUME NEW r \in Requests, Claim(r)
        PROVE  HandledSoFar' /\ AckedIsHandled'
    BY <1>6 DEF Claim, ClaimIsFree
  <1>7. ASSUME NEW r \in Requests, Send(r)
        PROVE  HandledSoFar' /\ AckedIsHandled'
    BY <1>7 DEF Send
  <1>8. ASSUME NEW r \in Requests, StoreOutbound(r)
        PROVE  HandledSoFar' /\ AckedIsHandled'
    BY <1>8 DEF StoreOutbound
  <1>9. ASSUME NEW r \in Requests, Finalize(r)
        PROVE  HandledSoFar' /\ AckedIsHandled'
    BY <1>9 DEF Finalize, FinalStatus
  <1>10. ASSUME NEW r \in Requests, LogUsage(r)
         PROVE  HandledSoFar' /\ AckedIsHandled'
    BY <1>10 DEF LogUsage
  <1>11. ASSUME NEW r \in Requests, MarkProcessed(r)
         PROVE  HandledSoFar' /\ AckedIsHandled'
    BY <1>11 DEF MarkProcessed, DropEvent
  <1>12. ASSUME NEW r \in Requests, MarkFailed(r)
         PROVE  HandledSoFar' /\ AckedIsHandled'
    BY <1>12 DEF MarkFailed, DropRequest, DropEvent
  <1>13. ASSUME NEW r \in Requests, Throw(r)
         PROVE  HandledSoFar' /\ AckedIsHandled'
    BY <1>13 DEF Throw
  <1>14. ASSUME NEW r \in Requests, Crash(r)
         PROVE  HandledSoFar' /\ AckedIsHandled'
    BY <1>14 DEF Crash, DropRequest, DropEvent
  <1>15. ASSUME TakeOver
         PROVE  HandledSoFar' /\ AckedIsHandled'
    BY <1>15 DEF TakeOver
  <1>16. ASSUME Release
         PROVE  HandledSoFar' /\ AckedIsHandled'
    BY <1>16 DEF Release
  <1>17. ASSUME UNCHANGED vars
         PROVE  HandledSoFar' /\ AckedIsHandled'
    BY <1>17 DEF vars
  <1> QED BY <1>1, <1>2, <1>3, <1>4, <1>5, <1>6, <1>7, <1>8, <1>9, <1>10,
             <1>11, <1>12, <1>13, <1>14, <1>15, <1>16, <1>17 DEF Next, Step
(* An event that arrived owned reaches neither a claim nor a send. *)
LEMMA OwnedStep ==
  ASSUME TypeOK, CurInHand, OneHolder, NothingTwice, HandledSoFar,
         OwnedUntouched, TakeoverSilencesArrivals, [Next]_vars
  PROVE  OwnedUntouched' /\ TakeoverSilencesArrivals'
  <1> USE NoEventAssumption
  <1> USE DEF TypeOK, CurInHand, Working, Holding, OwnedUntouched,
              TakeoverSilencesArrivals, tables, locals, observed
  <1>1. ASSUME NEW r \in Requests, NEW b \in Batches, Receive(r, b)
        PROVE  OwnedUntouched' /\ TakeoverSilencesArrivals'
    BY <1>1 DEF Receive
  <1>2. ASSUME NEW r \in Requests, NEW e \in Events, RecordEvent(r, e)
        PROVE  OwnedUntouched' /\ TakeoverSilencesArrivals'
    BY <1>2 DEF RecordEvent, IsReplay, NothingTwice
  <1>3. ASSUME NEW r \in Requests, Respond(r)
        PROVE  OwnedUntouched' /\ TakeoverSilencesArrivals'
    BY <1>3 DEF Respond, DropRequest, DropEvent
  <1>4. ASSUME NEW r \in Requests, FindConversation(r)
        PROVE  OwnedUntouched' /\ TakeoverSilencesArrivals'
    <2>1. OwnedUntouched'
      BY <1>4 DEF FindConversation, OwnedByOperator
    <2>2. TakeoverSilencesArrivals'
      BY <1>4 DEF FindConversation
    <2> QED BY <2>1, <2>2
  <1>5. ASSUME NEW r \in Requests, StoreInbound(r)
        PROVE  OwnedUntouched' /\ TakeoverSilencesArrivals'
    BY <1>5 DEF StoreInbound, Kept
  <1>6. ASSUME NEW r \in Requests, Claim(r)
        PROVE  OwnedUntouched' /\ TakeoverSilencesArrivals'
    BY <1>6 DEF Claim, ClaimIsFree, HandledSoFar
  <1>7. ASSUME NEW r \in Requests, Send(r)
        PROVE  OwnedUntouched' /\ TakeoverSilencesArrivals'
    BY <1>7 DEF Send
  <1>8. ASSUME NEW r \in Requests, StoreOutbound(r)
        PROVE  OwnedUntouched' /\ TakeoverSilencesArrivals'
    BY <1>8 DEF StoreOutbound
  <1>9. ASSUME NEW r \in Requests, Finalize(r)
        PROVE  OwnedUntouched' /\ TakeoverSilencesArrivals'
    BY <1>9 DEF Finalize, FinalStatus, OneHolder
  <1>10. ASSUME NEW r \in Requests, LogUsage(r)
         PROVE  OwnedUntouched' /\ TakeoverSilencesArrivals'
    BY <1>10 DEF LogUsage
  <1>11. ASSUME NEW r \in Requests, MarkProcessed(r)
         PROVE  OwnedUntouched' /\ TakeoverSilencesArrivals'
    BY <1>11 DEF MarkProcessed, DropEvent
  <1>12. ASSUME NEW r \in Requests, MarkFailed(r)
         PROVE  OwnedUntouched' /\ TakeoverSilencesArrivals'
    BY <1>12 DEF MarkFailed, DropRequest, DropEvent
  <1>13. ASSUME NEW r \in Requests, Throw(r)
         PROVE  OwnedUntouched' /\ TakeoverSilencesArrivals'
    BY <1>13 DEF Throw
  <1>14. ASSUME NEW r \in Requests, Crash(r)
         PROVE  OwnedUntouched' /\ TakeoverSilencesArrivals'
    BY <1>14 DEF Crash, DropRequest, DropEvent
  <1>15. ASSUME TakeOver
         PROVE  OwnedUntouched' /\ TakeoverSilencesArrivals'
    BY <1>15 DEF TakeOver
  <1>16. ASSUME Release
         PROVE  OwnedUntouched' /\ TakeoverSilencesArrivals'
    BY <1>16 DEF Release
  <1>17. ASSUME UNCHANGED vars
         PROVE  OwnedUntouched' /\ TakeoverSilencesArrivals'
    BY <1>17 DEF vars
  <1> QED BY <1>1, <1>2, <1>3, <1>4, <1>5, <1>6, <1>7, <1>8, <1>9, <1>10,
             <1>11, <1>12, <1>13, <1>14, <1>15, <1>16, <1>17 DEF Next, Step
-----------------------------------------------------------------------------
LEMMA InitIInv == Init => IInv
  BY NoEventAssumption, MaxFaultsAssumption
  DEF Init, IInv, TypeOK, WebhookStates, Ownership, DeliveryStates,
      SendOutcomes, Points, CurInHand, Working, OneHolder, Holding,
      NothingTwice, AtMostOneReply, UsageFollowsDelivery, HandledSoFar,
      Handled, AckedIsHandled, OwnedUntouched, TakeoverSilencesArrivals

LEMMA NextIInv == IInv /\ [Next]_vars => IInv'
  BY TypeStep, HandStep, HolderStep, CountStep, UsageStep, HandledStep,
     OwnedStep DEF IInv

(* IInv holds in every reachable state of the webhook handler. *)
THEOREM Invariance == Spec => []IInv
  BY InitIInv, NextIInv, PTL DEF Spec

(* The state of the handlers and of the tables is always well typed. *)
THEOREM TypeCorrect == Spec => []TypeOK
  <1>1. IInv => TypeOK
    BY DEF IInv
  <1> QED BY <1>1, Invariance, PTL

(* For any number of overlapping deliveries of an event, exceptions and      *)
(* crashes: at most one automated reply, one assistant turn and one usage    *)
(* record (claimOutboundDelivery and the handler around it).                 *)
THEOREM ReplyOnce == Spec => []AtMostOneReply
  <1>1. IInv => AtMostOneReply
    BY DEF IInv
  <1> QED BY <1>1, Invariance, PTL

(* The provider sees a 2xx only for a batch whose every event was handled.   *)
THEOREM NoEventDropped == Spec => []AckedIsHandled
  <1>1. IInv => AckedIsHandled
    BY DEF IInv
  <1> QED BY <1>1, Invariance, PTL

(* Usage is recorded only after the delivery row is final and the reply is   *)
(* in the conversation.                                                      *)
THEOREM UsageIsEarned == Spec => []UsageFollowsDelivery
  <1>1. IInv => UsageFollowsDelivery
    BY DEF IInv
  <1> QED BY <1>1, Invariance, PTL

(* An event that arrives during a takeover is not answered while it lasts.   *)
THEOREM TakeoverHolds == Spec => []TakeoverSilencesArrivals
  <1>1. IInv => TakeoverSilencesArrivals
    BY DEF IInv
  <1> QED BY <1>1, Invariance, PTL
-----------------------------------------------------------------------------
LEMMA InitContract == Init => Contract!Init
  BY DEF Init, Contract!Init

(* Every step of the handler is a Keep, a Promise or a Reply of the contract *)
(* for the event in hand, or changes nothing the contract sees.              *)
LEMMA StepContract ==
  ASSUME IInv, [Next]_vars
  PROVE  [Contract!Next]_(Contract!contractVars)
  <1> USE DEF tables, locals, observed, Contract!contractVars
  <1> DEFINE Seen == <<inbox, {e \in Events : outbox[e] # "none"}, sends>>
  <1>1. ASSUME NEW r \in Requests, StoreInbound(r)
        PROVE  Contract!Keep(cur[r]) \/ UNCHANGED Seen
    BY <1>1 DEF StoreInbound, Kept, Contract!Keep
  <1>2. ASSUME NEW r \in Requests, Claim(r)
        PROVE  Contract!Promise(cur[r]) \/ UNCHANGED Seen
    BY <1>2 DEF Claim, ClaimIsFree, Contract!Promise, IInv, TypeOK, CurInHand, Working,
                HandledSoFar, Points, DeliveryStates, SendOutcomes
  <1>3. ASSUME NEW r \in Requests, Send(r)
        PROVE  Contract!Reply(cur[r]) \/ UNCHANGED Seen
    BY <1>3 DEF Send, Contract!Reply, IInv, TypeOK, CurInHand, Working,
                OneHolder, Holding, NothingTwice
  <1>4. ASSUME NEW r \in Requests, Finalize(r)
        PROVE  UNCHANGED Seen
    BY <1>4 DEF Finalize, FinalStatus, IInv, TypeOK, CurInHand, Working, OneHolder,
                DeliveryStates, SendOutcomes
  <1>5. ASSUME NEW r \in Requests, pc[r] \notin {"idle", "record"}
        PROVE  cur[r] \in Events
    BY <1>5 DEF IInv, CurInHand, Working
  <1>6. CASE \/ \E r \in Requests : \/ \E e \in Events : RecordEvent(r, e)
                                   \/ Respond(r) \/ FindConversation(r)
                                   \/ StoreOutbound(r) \/ LogUsage(r)
                                   \/ MarkProcessed(r) \/ MarkFailed(r)
                                   \/ Throw(r) \/ Crash(r)
             \/ \E r \in Requests, b \in Batches : Receive(r, b)
             \/ TakeOver \/ Release \/ UNCHANGED vars
    <2>1. UNCHANGED Seen
      BY <1>6 DEF RecordEvent, Respond, FindConversation, StoreOutbound,
                  LogUsage, MarkProcessed, MarkFailed, Throw, Crash, Receive,
                  TakeOver, Release, vars
    <2> QED BY <2>1
  <1>7. CASE \E r \in Requests : \/ StoreInbound(r) \/ Claim(r)
                               \/ Send(r) \/ Finalize(r)
    <2>1. PICK r \in Requests : \/ StoreInbound(r) \/ Claim(r)
                                \/ Send(r) \/ Finalize(r)
      BY <1>7
    <2>2. cur[r] \in Events
      BY <2>1, <1>5 DEF StoreInbound, Claim, Send, Finalize
    <2>3. \/ Contract!Keep(cur[r]) \/ Contract!Promise(cur[r])
          \/ Contract!Reply(cur[r]) \/ UNCHANGED Seen
      BY <2>1, <1>1, <1>2, <1>3, <1>4
    <2>4. CASE UNCHANGED Seen
      BY <2>4
    <2>5. CASE \/ Contract!Keep(cur[r]) \/ Contract!Promise(cur[r])
               \/ Contract!Reply(cur[r])
      <3>1. Contract!Next
        BY <2>2, <2>5 DEF Contract!Next, Contract!Keep, Contract!Promise,
                          Contract!Reply
      <3> QED BY <3>1
    <2> QED BY <2>3, <2>4, <2>5
  <1> QED BY <1>6, <1>7 DEF Next, Step

(* The handler implements ReplyContract: kept before promised, promised      *)
(* before sent, each once.                                                   *)
THEOREM Refinement == Spec => ImplementsContract
  BY InitContract, StepContract, Invariance, PTL
  DEF Spec, ImplementsContract, Contract!Spec
=============================================================================
