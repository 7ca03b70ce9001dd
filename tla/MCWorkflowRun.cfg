SPECIFICATION Spec
CONSTANTS
    Lists <- MostLists
    Body <- MCBody
    Tops <- MCTops
    Kind <- MCKind
    Parts <- MCParts
    Parallel = 2
    JoinAny <- MCJoinAny
    Guarded <- MCGuarded
    Until <- MCUntil
    StopSteps <- MCStop
    Timed <- MCTimed
    Anon <- MCAnon
    MaxTries = 1
    MaxStarts = 2
    MaxHolds = 0
    Fragile <- MCFragile
    Faults = {"crash", "retry", "save"}
INVARIANTS
    TypeOK
    EndIsQuiet
    InOrder
    DoneIsDone
    WritesGoOut
PROPERTIES
    FinishedStays
