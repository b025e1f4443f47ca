SPECIFICATION Spec
CONSTANTS
  Readings <- SomeReadings
  Items = {a, b}
  Hold = 2
  Paths = {"f", "g"}
  MaxLines = 3
  MaxRead = 4
  None = None
  Hosts <- SomeHosts
  MaxAdded = 2
  MaxReads = 1
  MaxWrites = 2
  Universes <- SomeUniverses
  GroupIds = {"g1"}
  Groupings <- SomeGroupings
  WindowIds = {"w1"}
  Timings <- SomeTimings
  Instants <- SomeInstants
  Addresses = {"h", "w"}
  Rules = {"r"}
  RuleRows <- SomeRules
  Settings <- SomeSettings
  Requests <- SomeRequests
  LockoutThreshold = 2
  MaxLogged = 2
  Subjects <- SomeSubjects
  ListIds = {"l1", "l2"}
  ListRows <- SomeLists
  Memberships <- SomeMemberships
  Things <- SomeThings
  MaxEdits = 3
INVARIANTS
  
  SuggestionsFit
  PagesAgree
  
  
PROPERTIES
  
  
  LinesReadOnce
CONSTRAINT Apart
CHECK_DEADLOCK FALSE
