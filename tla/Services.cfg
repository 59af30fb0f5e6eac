CONSTANTS
  c1 = c1
  c2 = c2
  a1 = a1
  a2 = a2
  a3 = a3
  CallId <- TwoCallIds
  Sessions = 2
  Ports = 2
  MaxSessions = 1
  EarlyMedia = TRUE
  Timer = {"overdue", "unacked"}
  NoSession = NoSession
  Asker <- ThreeAskers
  Nobody = Nobody
  Registrations = 2
  Channel = 2
  Chunks <- TwoTenantsChunks
  BatchSize = 1
  Edits = 1
  MaxDeaths = 1
SPECIFICATION ServicesSpec
INVARIANTS
  
  RegistrationHolds
PROPERTIES
  LinesAreLeased
  AskersAreServed
  
CHECK_DEADLOCK FALSE
