SPECIFICATION FairSpec
CONSTANTS
  Checks = {c1}
  Rates = {}
  MaxBatch = 2
  MaxBuffered = 3
  Outages = TRUE
PROPERTIES
  AckTakesStored
  OnlyRealRequests
  KnownChecksRun
