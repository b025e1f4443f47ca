SPECIFICATION MCFairSpec
CONSTANTS
  t1 = t1
  t2 = t2
  r1 = r1
  r2 = r2
  r3 = r3
  Types <- MCTypes
  TypeLimit <- MCTypeLimit
  GlobalLimit = 2
  CollectorChecks = {"remote"}
  Checks <- MCChecks
  TypeOf <- MCTypeOf
  Ticks = {t1, t2}
  Requests = {"q1"}
  RunIds = {r1, r2, r3}
INVARIANTS
  OneRunUnlessAsked
PROPERTIES
  DueChecksRun
  
