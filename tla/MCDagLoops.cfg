\* All DAGs and cyclic graphs over four nodes.
SPECIFICATION Spec
CONSTANTS
    a = a
    b = b
    c = c
    d = d
    RunNodes <- FourNodes
    NodeStates = {"pending", "completed", "failed"}
INVARIANTS
    LayersRight
    CycleFound
    BlockRight
PROPERTIES
    LoopsEnd
