SPECIFICATION Spec
CONSTANTS
    x = x
    y = y
    kz = kz
    c1 = c1
    c2 = c2
    v = v
    w = w
    NUL = NUL
    Conn <- MCConn1
    Key <- MCKey3
    Plain <- RollbackPlain
    Queued <- RollbackQueued
    Unknown <- MCUnknown
    Watchable = {}
    VersionMod = 1
    MaxVersion = 1
    MaxQueue = 3
    MaxLen = 1
INVARIANTS
    AllOrNothing
