SPECIFICATION FairSpec
CONSTANTS
  Checks = {c1}
  Slots = {s1, s2}
  MaxBuffered = 1
  Interval = 30
  MaxBackoff = 100
  BackoffAfter = 2
  MaxResults = 2
  MaxRefused = 3
  MaxVersion = 2
INVARIANTS
  NoResultLost
PROPERTIES
  ArrivesInTheEnd
