CONSTANTS
  t1 = t1
  t2 = t2
  n1 = n1
  n2 = n2
  r1 = r1
  r2 = r2
  r3 = r3
  c1 = c1
  c2 = c2
  c3 = c3
  l1 = l1
  l2 = l2
  h1 = h1
  h2 = h2
  NoTenant = NoTenant
  NoNumber = NoNumber
  Tenants <- MCTenants
  Handlers <- OneHandler
  Checkouts <- ThreeCheckouts
  Payer <- ThreePayers
  Numbers <- TwoNumbers
  Reservations <- ThreeReservations
  Listings <- TwoListings
  RowSecurity = FALSE
  MaxPoolFaults = 0
  MaxInventoryEdits = 0
  Deletable <- Nobody
  m1 = m1
  m2 = m2
  b1 = b1
  b2 = b2
  w1 = w1
  w2 = w2
  NoDelivery = NoDelivery
  Claimed <- MCClaimed
  Deliveries <- OneDelivery
  Unroutable <- None
  Callbacks <- TwoCallbacks
  Sweepers <- TwoSweeps
  MaxRetries = 2
  MaxSends = 4
  MaxCrashes = 1
SPECIFICATION RacesSpec
INVARIANTS
  NumbersAgree
  BoughtStaysBought
  RetryBudget
SYMMETRY RacesSymmetry
