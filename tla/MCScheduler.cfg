SPECIFICATION Spec
CONSTANTS
    j1 = j1
    h1 = h1
    h2 = h2
    g1 = g1
    g2 = g2
    e1 = e1
    e2 = e2
    e3 = e3
    None = None
    Job <- MCJob1
    Handler <- MCHandler
    Routine <- MCRoutine1
    Elem <- MCElem
    Ops <- AllOps
    Types = {"timing", "delay"}
    N = 1
    MaxDelay = 1
    MaxAof = 1
    MaxRestart = 1
INVARIANTS
    TypeOK
    
    WheelIndexed
PROPERTIES
    EveryRequestAnswered
CHECK_DEADLOCK FALSE
