SPECIFICATION Spec
CONSTANTS
    e1 = e1
    e2 = e2
    e3 = e3
    k1 = k1
    g1 = g1
    g2 = g2
    None = None
    EmptyKey = EmptyKey
    N = 2
    MaxDelay = 3
    Elem <- MCElem2
    Key <- MCKey
    Scanner <- MCScanner2
INVARIANTS
    TypeOK
    OnTime
    DispatchWhenDue
PROPERTIES
    EveryTaskEnds
CHECK_DEADLOCK FALSE
