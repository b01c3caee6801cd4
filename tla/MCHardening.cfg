\* Every server of MCStart, two fixes, failing commands.
SPECIFICATION Spec
CONSTANTS
  Start <- MCStart
  Params = {"forward", "ipv6"}
  WebPort = "8443"
  MAX_WW = 1
  MaxFixes = 2
  Faults = TRUE
  Sizes = 2
INVARIANTS FixesClear RisksReported RollbackRestores FixesHold
