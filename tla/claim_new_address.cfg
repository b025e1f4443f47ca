SPECIFICATION Spec
CONSTANTS
  Ips = {"a", "b", "c"}
  HoldReports = 3
  MaxReports = 4
INVARIANT NewAddressWarns
CHECK_DEADLOCK FALSE
