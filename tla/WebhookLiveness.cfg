CONSTANTS
  r1 = r1
  r2 = r2
  e1 = e1
  e2 = e2
  NoEvent = NoEvent
  Requests <- MCOneRequest
  Events <- MCEvents
  Batches <- MCBatches
  MaxFaults = 3
SPECIFICATION FairSpec
INVARIANTS
  AtMostOneReply
  UsageFollowsDelivery
PROPERTIES
  EveryBatchAcked
