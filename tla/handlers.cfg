SPECIFICATION HandlersSpec
CONSTANTS
  None = None
  \* AlertRace
  Handlers = {c1, c2}
  Overlapping = FALSE
  Nagging = TRUE
  Reports = {"up", "down", "unknown"}
  ConsecutiveFailures = 2
  MaxResults = 5
  \* Inventory
  Sites = {s1, s2}
  Endpoints = {e1, e2}
  CheckIds = {c1, c2}
  Types <- Kinds6
  MaxChecks = 1
  \* Discovery
  Networks = {"n"}
  Collectors = {e1, e2}
  Works = {c1, c2}
  \* Receivers
  Devices = {"q", "x"}
  Private = {"q"}
  RangeLists <- SomeRanges
  PublicIps <- OfSiteC
  Served <- SitesServed
  Conversations <- TwoNames
  FLOW_TOP_N = 1
  MAX_BUFFERED_EVENTS = 1
  MAX_EVENTS_PER_SOURCE_PER_SEC = 1
  MaxPosted = 1
  MaxEvents = 2
  MaxBytes = 2
  MaxRepeats = 1
  \* CheckForm
  MaxChanges = 5
INVARIANTS
  ClosedAfterRecovery
  
  OneRunner
  ReceivedIsKept
  
PROPERTIES
  MergeKeepsAll
  OneOffsOnce
SYMMETRY Symmetry
CONSTRAINT Bounded
CHECK_DEADLOCK FALSE
