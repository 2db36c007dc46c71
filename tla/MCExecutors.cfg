SPECIFICATION Spec
CONSTANTS
    x = x
    y = y
    v = v
    w = w
    f1 = f1
    f2 = f2
    NUL = NUL
    Key <- MCKey
    Client <- AllCommands
    MaxLen = 2
    MaxNumber = 1
    Later = 2
INVARIANTS
    TypeOK
    NothingEmpty
    WritesDeclared
    FailedChangesNothing
    AofReplays
    UndoRestores
