CONSTANTS
  Ids = {i1}
  Tasks = {t1, t2}
  Requests = {r1, r2}
  Week = 2
  New <- MCNew
  Patches <- MCPatches
  MAX_PER_TENANT = 1
  MaxRestarts = 1
  AlwaysOpen = FALSE
  Faults = TRUE
SPECIFICATION FairSpec
INVARIANTS RowsSound
PROPERTIES OncePerMinute RunsAgain Settles
CHECK_DEADLOCK FALSE
