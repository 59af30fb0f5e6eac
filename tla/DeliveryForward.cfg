CONSTANTS
  m1 = m1
  m2 = m2
  b1 = b1
  b2 = b2
  w1 = w1
  w2 = w2
  NoDelivery = NoDelivery
  Deliveries <- OneDelivery
  Claimed <- MCClaimed
  Unroutable <- None
  Callbacks <- TwoCallbacks
  Sweepers <- NoSweep
  MaxRetries = 2
  MaxSends = 1
  MaxCrashes = 0
SPECIFICATION DeliverySpec
PROPERTIES
  ForwardOnly
CHECK_DEADLOCK FALSE
