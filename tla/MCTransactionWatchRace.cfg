SPECIFICATION Spec
CONSTANTS
    x = x
    y = y
    kz = kz
    c1 = c1
    c2 = c2
    v = v
    w = w
    NUL = NUL
    Conn <- MCConn
    Key <- MCKey
    Plain <- SetX
    Queued <- SetX
    Unknown = {}
    Watchable = {x}
    VersionMod = 8
    MaxVersion = 3
    MaxQueue = 1
    MaxLen = 1
SYMMETRY Symmetry
INVARIANTS
    WatchHolds
