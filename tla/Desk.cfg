CONSTANTS
  f1 = f1
  f2 = f2
  o1 = o1
  s1 = s1
  s2 = s2
  ra = ra
  rb = rb
  t1 = t1
  Turns = 2
  MaxAttempts = 2
  Words = {"yes", "no"}
  Checkouts = 2
  Events = 2
  Deliveries = 2
  Reports = 2
  Faqs <- TwoFaqs
  OtherFaqs <- OneOtherFaq
  Applications = 2
  ListLimit = 2
  Checksums <- TwoChecksums
  Uploads = 3
  Answers = {"x", "y"}
  Saves = 3
  Replies <- TwoReplies
  Chats = 2
  Polls = {"p", "q"}
  PageSize = 1
  Milli = 2
  MaxTime = 3
  MaxPolls = 2
  Sends = 2
  Attempts = 2
  MaxFailures = 1
  Talks <- OneTalk
  Emails = {"e"}
  Phones = {"p"}
  ChannelIds = {"i", "j"}
  Unknown = "-"
  Threads = {"t", "u"}
  Visits = 2
  MaxContacts = 2
  Updates = {1, 2}
  Rows = {1, 2}
  Addresses = {"a", "b"}
  Logins = {"k", "l"}
  Offers = {1}
  Calls = {1, 2}
  Roles = {3, 4}
  Links = {1}
  Holders = {1, 2}
  MaxTries = 5
  Firms = {"s", "t"}
  TwilioNumbers = {"n"}
  Area = "area"
  Setups = {1, 2}
  MaxSetups = 4
  Entries = {1, 2}
  Inquiries = {1}
  RowLimit = 1
  MaxChanges = 2
  Projects = {"a", "b"}
  Panels = {"knowledge", "website", "onboarding"}
  Handlers = {"playbook", "website", "import", "reserve"}
  MaxFlights = 3
  MaxSwitches = 3
SPECIFICATION DeskSpec
INVARIANTS
  TurnsAddUp
  
  ImportedOnce
  OneEntryPerAnswer
  
  VisitsAreOne
  
  OneContactPerCustomer
  
  RightsAreGranted
  OneBrainKnowsFirst
  
  
  OnlyStragglersMix

  
CHECK_DEADLOCK FALSE
