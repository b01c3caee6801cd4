\* Every server of MCStart, one fix, no command that fails.
SPECIFICATION Spec
CONSTANTS
  Start <- MCStart
  Params = {"forward", "ipv6"}
  WebPort = "8443"
  MAX_WW = 1
  MaxFixes = 1
  Faults = FALSE
  Sizes = 2
INVARIANTS DoorsStayOpen
