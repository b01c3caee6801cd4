CONSTANTS
  Requests = {r1, r2}
  Slots = {k1, k2}
  MaxSecret = 2
  MaxStep = 2
  Faults = TRUE
  Attempts = {a1, a2, a3, a4, a5}
  MaxAttempts = 3
  Tier2 = 5
  Tier3 = 7
  Window = 4
  Block1 = 4
  Block2 = 6
  Block3 = 9
  None = none
SPECIFICATION MCSpec
SYMMETRY Symmetry
CONSTRAINT Untorn
INVARIANTS OneTimeUnlessTorn CodesUnlessTorn VerifiedUnlessTorn BlocksHold OvershootBounded
