CONSTANTS
  Requests = {r1, r2}
  Settings = {s1, s2}
  MaxFixes = 3
  Faults = TRUE
SPECIFICATION Spec
SYMMETRY Symmetry
INVARIANTS UndoneExplained OriginalKept
PROPERTY KeepsPromise
