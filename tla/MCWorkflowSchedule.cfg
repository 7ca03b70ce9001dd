\* A workflow with one place for scheduled runs: turned off and on, trusted, run
\* by hand, with a crash and a boot, over three slots.
SPECIFICATION FairSpec
CONSTANTS
    None = None
    w1 = w1
    Workflows = {w1}
    Slots <- FewSlots
    End = 5
    Window = 1
    Places = 1
    MaxActs = 2
    MaxCrashes = 1
INVARIANTS
    OneFire
PROPERTIES
    FireEnds
