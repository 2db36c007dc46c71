SPECIFICATION Spec
CONSTANTS
    j1 = j1
    h1 = h1
    h2 = h2
    g1 = g1
    g2 = g2
    e1 = e1
    e2 = e2
    e3 = e3
    None = None
    Job <- MCJob1
    Handler <- MCHandler1
    Routine <- MCRoutine
    Elem <- MCElem
    Ops = {"create", "enable", "disable"}
    Types = {"timing"}
    N = 2
    MaxDelay = 1
    MaxAof = 1
    MaxRestart = 0
INVARIANTS
    StoppedNotScheduled
CHECK_DEADLOCK FALSE
