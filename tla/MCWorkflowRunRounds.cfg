SPECIFICATION Spec
CONSTANTS
    Lists <- LoopLists
    Body <- MCBody
    Tops <- MCTops
    Kind <- MCKind
    Parts <- MCParts
    Parallel = 1
    JoinAny <- MCJoinAny
    Guarded <- MCGuarded
    Until <- MCUntil
    StopSteps <- MCStop
    Timed <- MCTimed
    Anon <- MCAnon
    MaxTries = 2
    MaxStarts = 2
    MaxHolds = 0
    Fragile <- NoneFragile
    Faults = {}
INVARIANT
    EveryRoundWrites
