CONSTANTS
  t1 = t1
  a1 = a1
  c1 = c1
  c2 = c2
  o1 = o1
  q1 = q1
  Tenants <- OneTenant
  Strangers <- OneStranger
  Consumers <- TwoConsumers
  Owners <- OneOwner
  EraseEnabled = TRUE
  Ambiguous = FALSE
  MaxSeq = 2
  MaxFaults = 2
  Questions <- OneQuestion
  Scans = 2
  Requests = 3
  Letters = {"a", "b"}
  Notes = {1}
  Sources = {"whatsapp", "messenger", "website", "telephone"}
  Window = 1
  MaxHours = 2
  Rooms = {"x"}
  Asks = 2
  PerRoom = 1
  ListPage = 1
  ReportKinds = {"readiness", "inbox", "export"}
  Workspaces <- EdgeWorkspaces
  MaxWritten = 3
SPECIFICATION OverlapsSpec
INVARIANTS
  TombstonesCovered
  
  RepliesHold
  ReportsAgree
PROPERTIES
  FeedSettles
