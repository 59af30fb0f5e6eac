CONSTANTS
  i1 = i1
  s1 = s1
  e1 = e1
  d1 = d1
  d2 = d2
  NoCopy = NoCopy
  Items <- OneItem
  Syncs <- OneSync
  Erasures <- OneErasure
  Drains <- OneDrain
  MaxAttempts = 2
  MaxEdits = 0
  MaxFaults = 0
SPECIFICATION Spec
INVARIANTS
  CopiesAreListed
CHECK_DEADLOCK FALSE
