CONSTANTS
    c1 = c1
    c2 = c2
    d1 = d1
    u1 = u1
    NoConn = NoConn
    NoDevice = NoDevice
    NoUser = NoUser
    NoRow = NoRow
    Conn = {c1, c2}
    Device = {d1}
    User = {u1}
    MinSessionID = 2
    MaxSessionID = 4
    Garbage = {2}
    Stored = {3}
    ClientTypes = {"clientconnect"}
    Events = {"tick", "close", "vanish", "reconnect"}
    PingTimeout = 0
    MaxConnections = 2
    MaxJobs = 2
    MaxInFlight = 1
    MaxSend = 2
    DbFaults = 0
    Crashes = 0
SPECIFICATION LifeSpec
PROPERTIES
    ConnectSettles
    Released
CHECK_DEADLOCK FALSE
