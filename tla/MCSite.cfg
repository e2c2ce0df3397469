SPECIFICATION SiteSpec
CONSTANTS
  w1 = w1  w2 = w2  h1 = h1  h2 = h2  h3 = h3  s1 = s1  s2 = s2
  p1 = p1  p2 = p2
  Runners = {w1, w2}
  StaleAfter = 2
  MaxDelay = 1
  MaxVersion = 2
  MaxCrashes = 2
  Handlers <- MCHandlers
  Database <- MCSeats
  Empty = 1
  Refused = Refused
  Effect <- MCEffect
  Attempts = 3
  Mails = 1
  Submissions = {s1, s2}
  Numbers = {1}
  LeadLimit = 1  LeadWindow = 2  EventLimit = 1  EventWindow = 2
  DedupAge = 1
  Statuses = {"NEW"}
  New = "NEW"
  MaxTime = 3  MaxLeads = 2  MaxEvents = 2
  Campaigns <- MCCampaigns
  Ads <- MCAds
  Figures <- MCFigures
  Sessions = {p1, p2}
  LastDay = 2
  Unset = Unset  Any = Any  NoRate = NoRate
  MaxRows = 2
  MaxNotices = 2
  ListLimit = 1
INVARIANTS
  SiteTypeOK
  OneRunAtATime
  RateLimitsHold
  DuplicatesOnlyByRace
  DashboardAddsUp
PROPERTIES
  InsightsNeverGoBack
  LockRecovers
  RequestsAreAtomic
  HandlersAnswer
  BadgeKeepsUp
CHECK_DEADLOCK FALSE
