\* Plans of one and two steps join a run of three roots (one a CLI) and a step that waits for
\* two of them, whose steps send messages and claim keys, stall and are stopped;
\* no approval.
SPECIFICATION Spec
CONSTANTS
    None = None
    a = a
    b = b
    c = c
    p = p
    v = v
    x = x
    y = y
    m1 = m1
    k1 = k1
    k2 = k2
    Ids = {a, b, c, p, x, y}
    InitialNodes <- PlanRunNodes
    InitialEdges <- PlanRunEdges
    Kept = {}
    FirstRound = 1
    ApprovedBefore = {}
    Parallel = 2
    Planners = {p}
    Plans <- SomePlans
    CLIs = {c}
    Writers = {a, b, x, y}
    Acting = {}
    Approval = "off"
    Edits <- NoEdits
    Verify = None
    Fix = None
    MaxRounds = 0
    Budget = 0
    Costs = {0}
    Escalating = {}
    MaxNodes = 12
    MaxLayers = 6
    Outcomes = {"err", "stall"}
    UserOps = {"stop"}
    Msgs = {m1}
    Keys = {k1, k2}
    MaxClaims = 1
SYMMETRY KeySymmetry
INVARIANTS
    DepsDone
    AtMostParallel
    AfterThePlan
    WritersApart
    ClaimsOfRunning
    MessagesAccounted
    NothingLeftOver
