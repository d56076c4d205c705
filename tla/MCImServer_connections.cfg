CONSTANTS
    c1 = c1
    c2 = c2
    d1 = d1
    d2 = d2
    u1 = u1
    NoConn = NoConn
    NoDevice = NoDevice
    NoUser = NoUser
    NoRow = NoRow
    Conn = {c1, c2}
    Device = {d1, d2}
    User = {u1}
    MinSessionID = 2
    MaxSessionID = 4
    Garbage = {2}
    Stored = {0}
    ClientTypes = {"login", "clientconnect", "clientdisconnect"}
    Events = {"tick", "close", "reconnect"}
    PingTimeout = 0
    MaxConnections = 2
    MaxJobs = 2
    MaxInFlight = 1
    MaxSend = 2
    DbFaults = 1
    Crashes = 0
SPECIFICATION Spec
SYMMETRY Symmetry
INVARIANTS
    PingSorted
    MappedOwnDevice
PROPERTIES
    OwnDocument
CHECK_DEADLOCK FALSE
