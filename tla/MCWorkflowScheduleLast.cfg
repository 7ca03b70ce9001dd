\* The record of a long fire comes after that of the slots skipped meanwhile.
SPECIFICATION Spec
CONSTANTS
    None = None
    w1 = w1
    Workflows = {w1}
    Slots <- FewSlots
    End = 4
    Window = 1
    Places = 1
    MaxActs = 0
    MaxCrashes = 0
PROPERTIES
    LastRunStays
