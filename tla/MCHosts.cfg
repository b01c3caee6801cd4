SPECIFICATION HostsSpec
CONSTANTS
    Paths = {p1}
    Contents = {c1, c2}
    Names = {n1, n2}
    MaxTime = 2
    Absent = Absent
    Torn = Torn
    Faults = TRUE
    MaxLines = 2
    Readable = {p1}
    Hosts = {"h1"}
    Keys = {"k1", "k2"}
    Jobs = {1, 2}
    Creds = {"c1"}
    Scheds = {1}
    Requests = {1, 2}
    MAX_PER_TENANT = 1
    MaxMoves = 2
    Unreliable = TRUE
INVARIANTS QuarantineKeeps RemoteSettingsKept TrustKept
PROPERTIES AlarmsComplete
CHECK_DEADLOCK FALSE
