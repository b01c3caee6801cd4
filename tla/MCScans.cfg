CONSTANTS
  Findings = {f1}
  Critical = {f1}
  Devices = {d1}
  Before <- MCBefore
  MaxScans = 3
  MaxStarted = 2
  MaxRestarts = 1
  Faults = TRUE
SPECIFICATION MCSpec
INVARIANTS TicketsExact ResultsSound
PROPERTIES EveryScanEnds
CHECK_DEADLOCK FALSE
