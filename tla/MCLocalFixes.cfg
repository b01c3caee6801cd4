CONSTANTS
  Requests = {r1, r2}
  Options = {root, x11, tries}
  MaxEntries = 4
  Faults = TRUE
SPECIFICATION Spec
SYMMETRY Symmetry
INVARIANTS SafeOptionsRevertible FixesStand
CHECK_DEADLOCK FALSE
