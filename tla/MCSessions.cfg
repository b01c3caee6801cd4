CONSTANTS
  Users = {ana, bob}
  Founders = {}
  Jtis = {j1, j2}
  TokenIds = {}
  Requests = {r1, r2}
  Granted = {"admin"}
  Platform = platform
  None = none
  MaxGen = 2
  Faults = TRUE
SPECIFICATION Spec
SYMMETRY Symmetry
INVARIANTS StaleSessionsExplained InactiveUsersClosed
