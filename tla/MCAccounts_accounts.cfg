CONSTANTS
    u1 = u1
    d1 = d1
    d2 = d2
    v1 = v1
    v2 = v2
    User = {u1, u2}
    Device = {d1, d2}
    Value = {v1, v2}
    NoUser = NoUser
    NoDevice = NoDevice
    NoDoc = NoDoc
    NoRow = NoRow
    NoCopy = NoCopy
    NoArg = NoArg
    Registered = {u1}
    LoggedIn <- LoggedInOn
    Kinds <- KindsOf
    MaxVersion = 3
    MaxInFlight = 2
    MaxAsks = 5
    Faults = 1
    Crashes = 1
SYMMETRY Symmetry
SPECIFICATION Spec
INVARIANTS TypeOK LoginStands VersionNamesState
PROPERTIES NeverBack
CHECK_DEADLOCK FALSE
