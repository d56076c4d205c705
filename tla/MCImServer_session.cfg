CONSTANTS
    c1 = c1
    d1 = d1
    u1 = u1
    NoConn = NoConn
    NoDevice = NoDevice
    NoUser = NoUser
    NoRow = NoRow
    Conn = {c1}
    Device = {d1}
    User = {u1}
    MinSessionID = 2
    MaxSessionID = 4
    Garbage = {0, 2}
    Stored = {0, 2, 3}
    ClientTypes = {"login", "clientconnect", "ping", "request", "logout", "clientdisconnect", "early"}
    Events = {"tick", "close", "vanish", "writefail", "badlogin", "reconnect"}
    PingTimeout = 1
    MaxConnections = 2
    MaxJobs = 2
    MaxInFlight = 2
    MaxSend = 4
    DbFaults = 1
    Crashes = 1
SPECIFICATION Spec
SYMMETRY Symmetry
INVARIANTS
    TypeOK
    InStep
CHECK_DEADLOCK FALSE
