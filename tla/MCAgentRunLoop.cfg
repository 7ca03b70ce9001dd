\* Work until done, resumed in its second round of three: verify v, fix x, a step beside them, a step after verify that
\* needs approval, a CLI with usage limits, a budget: every question the run
\* asks, and its end.
SPECIFICATION FairSpec
CONSTANTS
    None = None
    a = a
    b = b
    c = c
    p = p
    v = v
    x = x
    y = y
    m1 = m1
    k1 = k1
    k2 = k2
    Ids = {a, b, c, v, x}
    InitialNodes <- LoopNodes
    InitialEdges <- LoopEdges
    Kept = {x}
    FirstRound = 2
    ApprovedBefore = {x}
    Parallel = 2
    Planners = {}
    Plans <- NoPlans
    CLIs = {a}
    Writers = {}
    Acting = {x, b}
    Approval = "ask"
    Edits <- NoEdits
    Verify = v
    Fix = x
    MaxRounds = 3
    Budget = 2
    Costs = {1}
    Escalating = {c}
    MaxNodes = 12
    MaxLayers = 6
    Outcomes = {"err", "limit", "escalate"}
    UserOps = {"cancel", "pause", "continue", "stop", "approve", "deny"}
    Msgs = {}
    Keys = {}
    MaxClaims = 0
INVARIANTS
    TypeOK
    LoopHasVerdict
    NothingLeftOver
    FinalEventIsTrue
PROPERTIES
    NoStartOverBudget
    CancelEnds
    FailureEnds
    AnsweredRunEnds
