SPECIFICATION Spec
CONSTANTS
    x = x
    y = y
    kz = kz
    c1 = c1
    c2 = c2
    v = v
    w = w
    NUL = NUL
    Conn <- MCConn
    Key <- MCKey
    Plain <- AtomicPlain
    Queued <- AtomicQueued
    Unknown = {}
    Watchable = {x}
    VersionMod = 8
    MaxVersion = 2
    MaxQueue = 2
    MaxLen = 1
SYMMETRY Symmetry
INVARIANTS
    TypeOK
    WatchHolds
PROPERTIES
    Isolation
    ImplementsAtomicStore
