\* A planner before a work-until-done loop and another beside it, with every step
\* approved first and edits of the plan.
SPECIFICATION Spec
CONSTANTS
    None = None
    a = a
    b = b
    c = c
    p = p
    v = v
    x = x
    y = y
    m1 = m1
    k1 = k1
    k2 = k2
    Ids = {a, p, v, x, y}
    InitialNodes <- PlanLoopNodes
    InitialEdges <- PlanLoopEdges
    Kept = {}
    FirstRound = 1
    ApprovedBefore = {}
    Parallel = 2
    Planners = {p, a}
    Plans <- OneStepPlan
    CLIs = {}
    Writers = {a, x, y}
    Acting = {}
    Approval = "always"
    Edits <- LoopEdits
    Verify = v
    Fix = x
    MaxRounds = 2
    Budget = 0
    Costs = {0}
    Escalating = {}
    MaxNodes = 12
    MaxLayers = 6
    Outcomes = {"err", "stall", "misfit"}
    UserOps = {"approve", "edit", "stop", "cancel"}
    Msgs = {}
    Keys = {}
    MaxClaims = 0
INVARIANTS
    NeverUnapproved
    FixBeforeVerify
    StaysDag
PROPERTIES
    MeetsContract
    NoStartAfterFailure
    EndedNodesStay
