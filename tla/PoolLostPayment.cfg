CONSTANTS
  t1 = t1
  t2 = t2
  n1 = n1
  n2 = n2
  r1 = r1
  r2 = r2
  r3 = r3
  c1 = c1
  c2 = c2
  c3 = c3
  l1 = l1
  l2 = l2
  h1 = h1
  h2 = h2
  NoTenant = NoTenant
  NoNumber = NoNumber
  Tenants <- MCTenants
  Numbers <- OneNumber
  Reservations <- TwoReservations
  Checkouts <- OneCheckout
  Payer <- OnePayer
  Listings <- OneListing
  Handlers <- OneHandler
  RowSecurity = FALSE
  MaxPoolFaults = 1
  MaxInventoryEdits = 0
  Deletable <- Nobody
SPECIFICATION PoolSpec
INVARIANTS
  PaidIsActivated
