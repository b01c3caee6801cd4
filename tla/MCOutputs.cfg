SPECIFICATION OutputsSpec
CONSTANTS
    Slugs = {"s1"}
    Kinds = {"notifications", "siem", "ticketing"}
    Events = {1}
    Saves = {1}
    MaxOrgs = 3
    MaxChanges = 1
    Refusals = TRUE
    AgentNames = {"a1"}
    Tenants = {"default", "s1"}
    Reports = {1, 2}
    MaxBeats = 1
    MaxRestarts = 1
    Lossy = TRUE
    Origins <- MCStart
    Problems <- MCKinds
    MaxFindings = 2
    MaxAudits = 2
INVARIANTS OutputsPrivate OutputsFollowSettings ReportsStored ScoresMakeSense FallsAreTold ImportsFaithful
CHECK_DEADLOCK FALSE
