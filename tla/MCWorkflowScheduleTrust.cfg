\* A record without a hash takes the trust of unchanged bytes away.
SPECIFICATION Spec
CONSTANTS
    None = None
    w1 = w1
    Workflows = {w1}
    Slots <- FewSlots
    End = 3
    Window = 1
    Places = 1
    MaxActs = 1
    MaxCrashes = 0
PROPERTIES
    TrustStays
