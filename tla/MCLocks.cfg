SPECIFICATION Spec
CONSTANTS
    a = a
    b = b
    c = c
    t1 = t1
    t2 = t2
    None = None
    Thread <- MCThread2
    Key <- MCKey
    Stripe <- MCStripe
    spread <- MCSpread
INVARIANTS
    TypeOK
    Exclusion
    OrderedAcquisition
    BalancedUnlock
PROPERTIES
    EveryCommandRuns
