CONSTANTS
  r1 = r1
  r2 = r2
  e1 = e1
  e2 = e2
  NoEvent = NoEvent
  Requests <- MCOneRequest
  Events <- MCOneEvent
  Batches <- MCOneBatch
  MaxFaults = 1
SPECIFICATION Spec
INVARIANTS
  ClaimedReplyIsDelivered
