SPECIFICATION FairSpec
CONSTANTS
    Lists <- SmallLists
    Body <- MCBody
    Tops <- MCTops
    Kind <- MCKind
    Parts <- MCParts
    Parallel = 2
    JoinAny <- MCJoinAny
    Guarded <- MCGuarded
    Until <- MCUntil
    StopSteps <- MCStop
    Timed <- MCTimed
    Anon <- MCAnon
    MaxTries = 2
    MaxStarts = 1
    MaxHolds = 1
    Fragile <- NoneFragile
    Faults = {"timeout", "cancel"}
PROPERTIES
    CancelEnds
    RunEndsUnlessHeld
