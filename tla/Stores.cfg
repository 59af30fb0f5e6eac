CONSTANTS
  t1 = t1
  t2 = t2
  n1 = n1
  n2 = n2
  r1 = r1
  r2 = r2
  r3 = r3
  c1 = c1
  c2 = c2
  c3 = c3
  l1 = l1
  l2 = l2
  h1 = h1
  h2 = h2
  NoTenant = NoTenant
  NoNumber = NoNumber
  Tenants <- MCTenants
  Handlers <- OneHandler
  Checkouts <- TwoCheckouts
  Payer <- TwoPayers
  Numbers <- OneNumber
  Reservations <- TwoReservations
  Listings <- OneListing
  RowSecurity = TRUE
  MaxPoolFaults = 1
  MaxInventoryEdits = 1
  Deletable <- OneTenant
  m1 = m1
  m2 = m2
  b1 = b1
  b2 = b2
  w1 = w1
  w2 = w2
  NoDelivery = NoDelivery
  Claimed <- MCClaimed
  Deliveries <- TwoDeliveries
  Unroutable <- OperatorReply
  Callbacks <- OneCallback
  Sweepers <- OneSweep
  MaxRetries = 3
  MaxSends = 5
  MaxCrashes = 0
  i1 = i1
  s1 = s1
  e1 = e1
  d1 = d1
  d2 = d2
  NoCopy = NoCopy
  Items <- OneItem
  Syncs <- OneSync
  Erasures <- OneErasure
  Drains <- TwoDrains
  MaxAttempts = 3
  MaxEdits = 1
  MaxFaults = 2
SPECIFICATION StoresSpec

  
PROPERTIES
  PaymentsSettle
  NoResendOfSettled
  RetriesSettle
  KeptInSight
  OutboxSettles
