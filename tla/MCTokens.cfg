CONSTANTS
  Users = {ana, bob}
  Founders = {}
  Jtis = {j1}
  TokenIds = {t1}
  Requests = {r1, r2}
  Granted = {"viewer", "admin"}
  Platform = platform
  None = none
  MaxGen = 1
  Faults = TRUE
SPECIFICATION Spec
SYMMETRY Symmetry
INVARIANTS StaleTokensExplained
PROPERTY AdminsRemain
