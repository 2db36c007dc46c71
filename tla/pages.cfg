SPECIFICATION Spec
CONSTANTS
    Page = {p1, p2}
    Job = {j1}
    Slot = {1, 2}
    Cron = {c1}
    Bad = bad
    None = none
    MaxSent = 4
INVARIANTS
    TypeOK
    RemovedStaysGone
    BlankMeansRemoved
    CreatedListed
PROPERTIES
    TableFilled
CHECK_DEADLOCK FALSE
