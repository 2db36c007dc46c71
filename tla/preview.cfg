SPECIFICATION Spec
CONSTANTS
    Texts <- MCTexts
    Offsets <- MCOffsets
    Begin <- MCBegin
    Stride = 88200
    MaxTicks = 480
    Loads <- MCLoads
    Zones <- MCZones
    MatchCount = 5
    MaxLoop = 400
    Gaps <- MCGaps
    Points = 4
INVARIANTS
    TypeOK
    MatchesSound
    MatchesComplete
    TimesRoundTrip
    LocalTimesFound
    UnitsKept
    MonthsAdded
    DurationsKept
    DifferencesKept
    IntervalsKept
PROPERTIES
    CellShown
CHECK_DEADLOCK FALSE
