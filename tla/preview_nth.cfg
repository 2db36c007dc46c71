SPECIFICATION Spec
CONSTANTS
    Texts <- NthTexts
    Offsets <- MCOffsets
    Begin <- MCBegin
    Stride = 88200
    MaxTicks = 130
    Loads <- MCLoads
    Zones <- MCZones
    MatchCount = 5
    MaxLoop = 400
    Gaps <- MCGaps
    Points = 4
INVARIANTS
    NthDayMatched
CHECK_DEADLOCK FALSE
