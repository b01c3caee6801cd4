CONSTANTS
  Slugs = {s1}
  Works = {w1, w2}
  MaxOrgs = 2
  MaxSeconds = 1
  MaxRestarts = 1
  Faults = TRUE
  Order <- MCOrder
  Times <- MCTimes
  Week = 4
  Shift = 1
  MaxTurns = 1
  Unwritable = TRUE
SPECIFICATION MCSpec
SYMMETRY Symmetry
INVARIANTS InheritanceExplained OrganisationsWork ArchivesKeepData
PROPERTIES PlatformRunsExplained
CHECK_DEADLOCK FALSE
