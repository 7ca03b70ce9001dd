\* An edit that leaves out the fix step drops its edge to verify for every
\* later round.
SPECIFICATION Spec
CONSTANTS
    None = None
    a = a
    b = b
    c = c
    p = p
    v = v
    x = x
    y = y
    m1 = m1
    k1 = k1
    k2 = k2
    Ids = {a, v, x, y}
    InitialNodes <- VerifiedNodes
    InitialEdges <- VerifiedEdges
    Kept = {}
    FirstRound = 1
    ApprovedBefore = {}
    Parallel = 2
    Planners = {}
    Plans <- NoPlans
    CLIs = {}
    Writers = {}
    Acting = {x}
    Approval = "ask"
    Edits <- LoopEdits
    Verify = v
    Fix = x
    MaxRounds = 3
    Budget = 0
    Costs = {0}
    Escalating = {}
    MaxNodes = 12
    MaxLayers = 6
    Outcomes = {}
    UserOps = {"approve", "edit"}
    Msgs = {}
    Keys = {}
    MaxClaims = 0
INVARIANTS
    FixBeforeVerify
