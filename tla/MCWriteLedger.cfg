SPECIFICATION Spec
CONSTANTS
    Writes <- MCWrites
    Marked <- MCMarked
    Commits <- MCMarked
    Blind <- MCBlind
    PartOf <- MCPartOf
    MaxCalls = 4
    MaxUndos = 1
INVARIANTS
    TypeOK
    AtMostOnce
    SavedBeforeSent
PROPERTIES
    UndoneStays
    KeepsContract
