------------------------------ MODULE AgentRun ------------------------------
(***************************************************************************)
(* The scheduler of an agent run (internal/agentrun): one loop goroutine   *)
(* starts the ready nodes of a DAG, at most Parallel at a time, each in a  *)
(* goroutine of its own, and takes their results from a channel one by     *)
(* one.  The user's calls (Cancel, StopNode, Pause, Continue, Approve,     *)
(* EditPlan, Deny, Send) come from other goroutines at any time and reach  *)
(* the loop through contexts, an atomic flag and two channels of one slot. *)
(*                                                                         *)
(* An action is one critical section, one channel operation, or one turn   *)
(* of the loop between two points where another goroutine can be told      *)
(* apart.  A node's prompt, input text, title, usage and attempt number    *)
(* are left out; of an answer only "is there a text" is kept.              *)
(*                                                                         *)
(* A definition Mutant... is a plausible mistake in the one below it; no   *)
(* action uses it (see AgentDag).                                          *)
(***************************************************************************)
EXTENDS AgentDag, AgentTeam, Functions

CONSTANTS
    InitialNodes,   \* the run's nodes when it starts, in run order
    InitialEdges,
    Kept,           \* nodes completed by an earlier run (retry from a step)
    FirstRound,     \* the loop's round when the run starts: past 1 when resumed
    ApprovedBefore, \* the nodes the user approved in the run it resumes
    Parallel,       \* Options.Parallel
    Planners,       \* nodes with Plan
    Plans,          \* the plans a planner may answer with: [nodes, edges]
    CLIs,           \* nodes with a CLI
    Writers,        \* agentdag.Writes
    Acting,         \* nodes that Options.Acts says write files or run commands
    Approval,       \* Options.Approval: "off", "ask" or "always"
    Edits,          \* the texts a user may send with EditPlan: [steps, deps]
    Verify, Fix,    \* the loop's nodes (None without a loop)
    MaxRounds,      \* Loop.MaxRounds
    Budget,         \* Options.Budget (0: none)
    Costs,          \* what one node's usage may cost
    Escalating,     \* nodes whose category and slot differ from Options.Escalate
    MaxNodes, MaxLayers,
    Outcomes,       \* what may happen to a node: "err", "limit", "stall", "escalate",
                    \* and "misfit": the fix step is not one that Normalize takes
    UserOps         \* the calls the user may make

NoPlan == [nodes |-> <<>>, edges |-> {}]

ASSUME RunAssumption ==
    /\ IsFiniteSet(Ids)
    /\ Parallel \in Nat \ {0}
    /\ InitialNodes \in Seq(Ids)
    /\ InitialEdges \subseteq Ids \X Ids
    /\ Valid(Range(InitialNodes), InitialEdges, MaxNodes, MaxLayers)
    /\ Kept \subseteq Range(InitialNodes)
    /\ ApprovedBefore \subseteq Range(InitialNodes) \cup ({Fix} \ {None})
    /\ \A p \in Plans : p.nodes \in Seq(Ids) /\ p.edges \subseteq Ids \X Ids
    /\ \A d \in Edits : d.steps \in Seq(Ids) /\ d.deps \subseteq Ids \X Ids
    /\ Verify \in Ids \cup {None} /\ Fix \in Ids \cup {None}
    /\ Verify = None <=> Fix = None
    /\ Verify # None => Verify \in Range(InitialNodes) \ Planners /\ Fix \notin Planners \cup {Verify}
    /\ MaxRounds \in Nat /\ FirstRound \in Nat /\ (Verify # None => FirstRound \in 1..MaxRounds)
    /\ Budget \in Nat /\ Costs \subseteq Nat
    /\ MaxNodes \in Nat /\ MaxLayers \in Nat

VARIABLES
    state, order, edges,   \* h.run.Nodes' states and positions, h.run.Edges
    approved, round,       \* h.run.Approved, h.run.Loop.Round
    outputs,               \* h.outputs: "none", "empty" or "text"
    pc,                    \* where the loop goroutine is
    todo,                  \* the rest of the ready list the loop starts
    agents,                \* the goroutines that work: [id, age, fired, cut]
    results,               \* the results channel
    runCtx, denied,        \* the run's context; h.denied
    failErr, stopErr,      \* a node failed / the user stopped a node
    stops, stopped,        \* h.stops, h.stopped
    stalls, escalated,     \* stalls per node; nodes moved to Options.Escalate
    shared,                \* running nodes told that they share their wave
    pause, resume,         \* h.pause; the slot of h.resume
    limited, spent, budget,
    decide,                \* h.decide, a channel of one slot: [kind, text]
    verdict,               \* the loop's verdict
    final                  \* the final event

dagVars  == <<state, order, edges, approved, round, outputs>>
loopVars == <<pc, todo, failErr, stopErr, stalls, escalated, shared, limited, spent, budget,
              verdict, final>>
taskVars == <<agents, results, stops, stopped>>
userVars == <<runCtx, denied, pause, resume, decide>>
vars     == <<dagVars, loopVars, taskVars, userVars, teamVars>>

Nodes     == {n \in Ids : state[n] # "absent"}
Running   == {n \in Ids : state[n] = "running"}
ReadyNow  == Ready(Nodes, edges, state)
HasLoop   == Verify # None
OverBudget == budget > 0 /\ spent >= budget

(* nodeCtx: fail cancels it, and so does the end of the run's context.     *)
MutantFailGoesOn == runCtx = "cancelled"
NodeCtxDone == runCtx = "cancelled" \/ failErr

(* A node that starts again while an earlier goroutine of it still works   *)
(* has two: age counts the later starts, so age 0 is the one h.stops[id]   *)
(* can cancel.  fired: its watchdog stopped it; cut: its context ended by  *)
(* h.stops.                                                                *)
Agents == [id : Ids, age : Nat, fired : BOOLEAN, cut : BOOLEAN]

Aged(n) == {IF g.id = n THEN [g EXCEPT !.age = @ + 1] ELSE g : g \in agents}
Cut(n) == {IF g.id = n /\ g.age = 0 THEN [g EXCEPT !.cut = TRUE] ELSE g : g \in agents}

(* The context of a goroutine, without its watchdog.                       *)
StepCtxDone(g) == NodeCtxDone \/ g.cut

(* The loop's counter running: started and not yet taken from the channel. *)
InWork == Cardinality(agents) + Len(results)

ResultKinds == {"done", "stalled", "escalate", "cancelled", "limit", "err"}

Results == [id : Ids, kind : ResultKinds, plan : Plans \cup {NoPlan}, pass : BOOLEAN, cost : Costs]

(* A decision of the user on the plan; an approval has no text.            *)
NoText    == [steps |-> <<>>, deps |-> {}]
Decisions == [kind : {"approve", "edit"}, text : Edits \cup {NoText}]

(* The types of the variables.                                             *)
TypeOK ==
    /\ TeamTypeOK
    /\ state \in [Ids -> States \cup {"absent"}]
    /\ order \in [Ids -> Nat]
    /\ edges \subseteq Ids \X Ids
    /\ approved \subseteq Ids
    /\ round \in Nat /\ (HasLoop => round <= MaxRounds)
    /\ outputs \in [Ids -> {"none", "empty", "text"}]
    /\ pc \in {"top", "starting", "receiving", "paused", "awaiting", "ended"}
    /\ todo \subseteq Ids
    /\ agents \subseteq Agents /\ IsFiniteSet(agents)
    /\ results \in Seq(Results)
    /\ runCtx \in {"live", "cancelled"}
    /\ {denied, failErr, stopErr, pause, resume, limited} \subseteq BOOLEAN
    /\ stops \subseteq Ids /\ stopped \subseteq Ids
    /\ stalls \in [Ids -> Nat]
    /\ escalated \subseteq Ids /\ shared \subseteq Ids
    /\ spent \in Nat /\ budget \in Nat
    /\ decide \in Seq(Decisions)
    /\ verdict \in {"none", "pass", "fail"}
    /\ final \in {"none", "done", "failed", "cancelled"}

PositionIn(s, n) == CHOOSE i \in DOMAIN s : s[i] = n

(* Start: the given run with what an earlier run left: completed nodes,    *)
(* the loop's round, approved nodes.                                       *)
Init ==
    /\ TeamInit
    /\ state = [n \in Ids |-> IF n \in Kept THEN "completed"
                              ELSE IF n \in Range(InitialNodes) THEN "pending" ELSE "absent"]
    /\ order = [n \in Ids |-> IF n \in Range(InitialNodes) THEN PositionIn(InitialNodes, n) ELSE 0]
    /\ edges = InitialEdges
    /\ approved = ApprovedBefore /\ round = FirstRound
    /\ outputs = [n \in Ids |-> IF n \in Kept THEN "text" ELSE "none"]
    /\ pc = "top" /\ todo = {}
    /\ agents = {} /\ results = <<>>
    /\ runCtx = "live" /\ denied = FALSE /\ failErr = FALSE /\ stopErr = FALSE
    /\ stops = {} /\ stopped = {}
    /\ stalls = [n \in Ids |-> 0] /\ escalated = {} /\ shared = {}
    /\ pause = FALSE /\ resume = FALSE /\ limited = FALSE
    /\ spent = 0 /\ budget = Budget
    /\ decide = <<>> /\ verdict = "none" /\ final = "none"

-----------------------------------------------------------------------------
(* Plan approval (approve.go).                                             *)

MutantLeft == {n \in Nodes : state[n] \notin DoneStates}
Left == {n \in Nodes : state[n] \notin OverStates}

(* gated: n may not start before the user approved it.                     *)
Gated(n) ==
    /\ Approval # "off" /\ n \notin Planners /\ n \notin approved
    /\ Approval = "always" \/ n \in Acting

(* needsApproval: a ready node is gated, or no planner is left to run and  *)
(* any node still to run is gated.                                         *)
MutantAskOnce(ready) ==
    /\ Approval # "off" /\ approved = {}
    /\ \E n \in ready \cup Left : Gated(n)
NeedsApproval(ready) ==
    /\ Approval # "off"
    /\ \/ \E n \in ready : Gated(n)
       \/ (Left \cap Planners = {} /\ \E n \in Left : Gated(n))

(* leftNodes: the steps the card shows; the fix step before it joined too. *)
LeftNodes == Left \cup (IF HasLoop THEN {Fix} \ Nodes ELSE {})

(* Appended nodes come after the run's nodes.                              *)
OrderWith(ns) ==
    [n \in Ids |-> IF n \in Range(ns) \ Nodes THEN Cardinality(Nodes) + PositionIn(ns, n) ELSE order[n]]

(* ApplyPlanEdit: listed steps get the given deps, new ids join, steps     *)
(* that are left out are skipped; edges into steps not listed stay.        *)
EditEdges(steps, deps) == {e \in edges : e[2] \notin steps} \cup deps

MutantFits(steps, deps) ==
    /\ Fix \notin steps
    /\ steps \cap Nodes \subseteq Left
    /\ HasLoop => Verify \in steps \/ state[Verify] \in OverStates
    /\ steps # {}
    /\ \A e \in deps : e[1] \in Nodes \cup steps /\ e[2] \in steps /\ e[1] # e[2]
Fits(steps, deps) ==
    /\ Fix \notin steps
    /\ steps \cap Nodes \subseteq Left
    /\ HasLoop => Verify \in steps \/ state[Verify] \in OverStates
    /\ steps # {}
    /\ \A e \in deps : e[2] \in steps
    /\ Valid(Nodes \cup steps, EditEdges(steps, deps), MaxNodes, MaxLayers)

EditFits(d) == Fits(Range(d.steps), d.deps)

Edited(d) ==
    [n \in Ids |-> IF n \in Range(d.steps) THEN "pending"
                   ELSE IF n \in Left THEN "skipped" ELSE state[n]]

(* awaitApproval, the select: an approval of every step left, ...          *)
TakeApproval ==
    /\ pc = "awaiting" /\ decide # <<>> /\ Head(decide).kind = "approve"
    /\ decide' = Tail(decide)
    /\ approved' = approved \cup LeftNodes
    /\ pc' = "top"
    /\ UNCHANGED <<state, order, edges, round, outputs, todo, failErr, stopErr, stalls, escalated,
                   shared, limited, spent, budget, verdict, final, taskVars, runCtx, denied, pause,
                   resume, teamVars>>

(* ... an edit of the plan (one that does not fit changes nothing; either  *)
(* way the card is shown again), ...                                       *)
TakeEdit ==
    /\ pc = "awaiting" /\ decide # <<>> /\ Head(decide).kind = "edit"
    /\ decide' = Tail(decide)
    /\ LET text == Head(decide).text
       IN IF EditFits(text)
            THEN /\ state' = Edited(text)
                 /\ order' = OrderWith(text.steps)
                 /\ edges' = EditEdges(Range(text.steps), text.deps)
            ELSE UNCHANGED <<state, order, edges>>
    /\ UNCHANGED <<approved, round, outputs, loopVars, taskVars, runCtx, denied, pause, resume,
                   teamVars>>

(* ... or the end of the run.                                              *)
MutantStopAwaiting ==
    /\ pc = "awaiting" /\ NodeCtxDone /\ denied
    /\ pc' = "top"
    /\ UNCHANGED <<dagVars, todo, failErr, stopErr, stalls, escalated, shared, limited, spent,
                   budget, verdict, final, taskVars, userVars, teamVars>>
StopAwaiting ==
    /\ pc = "awaiting" /\ NodeCtxDone
    /\ pc' = "top"
    /\ UNCHANGED <<dagVars, todo, failErr, stopErr, stalls, escalated, shared, limited, spent,
                   budget, verdict, final, taskVars, userVars, teamVars>>

-----------------------------------------------------------------------------
(* The top of the loop: what the ready nodes wait for.                     *)

MayStart == ~NodeCtxDone /\ ReadyNow # {}
WaitsForAnswer == NeedsApproval(ReadyNow)
MutantWaitsForContinue == ~WaitsForAnswer /\ pause
WaitsForContinue == ~WaitsForAnswer /\ (OverBudget \/ pause)
Full == InWork >= Parallel

GoTo(where) ==
    /\ pc' = where
    /\ UNCHANGED <<dagVars, failErr, stopErr, stalls, escalated, shared, limited, spent, budget,
                   verdict, final, taskVars, userVars, teamVars>>

(* The running nodes end first, then the plan is shown.                    *)
Await ==
    /\ pc = "top" /\ MayStart /\ WaitsForAnswer /\ InWork = 0
    /\ todo' = todo /\ GoTo("awaiting")

(* The running nodes end first, then the run pauses.                       *)
PauseRun ==
    /\ pc = "top" /\ MayStart /\ WaitsForContinue /\ InWork = 0
    /\ todo' = todo /\ GoTo("paused")

StartReady ==
    /\ pc = "top" /\ MayStart /\ ~WaitsForAnswer /\ ~WaitsForContinue /\ ~Full
    /\ todo' = ReadyNow /\ GoTo("starting")

(* Nothing starts now: wait for a running node.                            *)
MutantWaitForResult ==
    /\ pc = "top" /\ InWork > 0 /\ ~NodeCtxDone
    /\ ReadyNow = {} \/ WaitsForAnswer \/ WaitsForContinue \/ Full
    /\ todo' = todo /\ GoTo("receiving")
WaitForResult ==
    /\ pc = "top" /\ InWork > 0
    /\ ~MayStart \/ WaitsForAnswer \/ WaitsForContinue \/ Full
    /\ todo' = todo /\ GoTo("receiving")

(* Continue lifts a reached budget, unless a usage limit paused the run.   *)
MutantBudgetStays == budget
MutantLimitLifts == IF OverBudget THEN 0 ELSE budget
BudgetAfterContinue == IF OverBudget /\ ~limited THEN 0 ELSE budget

Resume ==
    /\ pc = "paused" /\ resume
    /\ resume' = FALSE
    /\ budget' = BudgetAfterContinue
    /\ limited' = FALSE /\ pause' = FALSE
    /\ pc' = "top"
    /\ UNCHANGED <<dagVars, todo, failErr, stopErr, stalls, escalated, shared, spent, verdict, final,
                   taskVars, runCtx, denied, decide, teamVars>>

StopPaused ==
    /\ pc = "paused" /\ NodeCtxDone
    /\ todo' = todo /\ GoTo("top")

(* sharesWave: n writes, and so does a node still to end that does not run *)
(* after n.                                                                *)
MutantSharesWave(n) ==
    /\ n \in Writers
    /\ \E o \in Left \cap Writers : state[o] = "pending" /\ o \notin Downstream(Nodes, edges, n)
SharesWave(n) ==
    /\ n \in Writers
    /\ \E o \in Left \cap Writers : o \notin Downstream(Nodes, edges, n)

(* This node takes the last free place.                                    *)
MutantLastPlace == InWork >= Parallel
LastPlace == InWork + 1 >= Parallel

(* The start of the next node of the ready list.                           *)
Start(n) ==
    /\ pc = "starting" /\ n \in todo
    /\ \A m \in todo : order[n] <= order[m]
    /\ state' = [state EXCEPT ![n] = "running"]
    /\ todo' = IF LastPlace THEN {} ELSE todo \ {n}
    /\ pc' = IF todo' = {} THEN "receiving" ELSE "starting"
    /\ stops' = stops \cup {n}
    /\ agents' = Aged(n) \cup {[id |-> n, age |-> 0, fired |-> FALSE, cut |-> FALSE]}
    /\ shared' = IF Parallel > 1 /\ SharesWave(n) THEN shared \cup {n} ELSE shared \ {n}
    /\ IF n \in CLIs THEN UNCHANGED <<open, box>> ELSE OpenNode(n)
    /\ UNCHANGED <<order, edges, approved, round, outputs, failErr, stopErr, stalls, escalated,
                   limited, spent, budget, verdict, final, results, stopped, userVars, fate, claims>>

-----------------------------------------------------------------------------
(* The goroutine of a node (runNode, runCLI).                              *)

(* ParsePlan: one final node, a valid DAG, ids the run does not use.       *)
Parsed(p) ==
    LET ns == Range(p.nodes)
    IN /\ ns \cap (Nodes \cup {Fix}) = {}
       /\ Valid(ns, p.edges, MaxNodes, MaxLayers)
       /\ Cardinality({n \in ns : \A e \in p.edges : e[1] # n}) = 1

Escalates(n) ==
    n \in Escalating \ (escalated \cup Planners \cup CLIs \cup {Verify, Fix})

(* The watchdog stops a silent agent; a CLI has none.                      *)
Stall(g) ==
    /\ "stall" \in Outcomes /\ ~g.fired /\ g.id \notin CLIs
    /\ agents' = (agents \ {g}) \cup {[g EXCEPT !.fired = TRUE]}
    /\ UNCHANGED <<dagVars, loopVars, results, stops, stopped, userVars, teamVars>>

(* How the goroutine may end: a panic becomes an error whatever the        *)
(* context says; else the context is read before the answer.               *)
Kinds(g) ==
    (IF "err" \in Outcomes THEN {"err"} ELSE {}) \cup
    (IF StepCtxDone(g) THEN {"cancelled"}
     ELSE IF g.fired THEN {"stalled"}
     ELSE {"done"} \cup (IF g.id \in CLIs THEN {"limit"} \cap Outcomes ELSE {})
                   \cup (IF Escalates(g.id) THEN {"escalate"} \cap Outcomes ELSE {}))

Answers(n, kind) ==
    IF kind = "done" /\ n \in Planners \ CLIs THEN {p \in Plans : Parsed(p)} ELSE {NoPlan}

SendResult(g) ==
    /\ \E kind \in Kinds(g), cost \in Costs :
       \E plan \in Answers(g.id, kind), pass \in (IF g.id = Verify THEN BOOLEAN ELSE {FALSE}) :
          results' = Append(results, [id |-> g.id, kind |-> kind, plan |-> plan, pass |-> pass,
                                      cost |-> cost])
    /\ agents' = agents \ {g}
    /\ UNCHANGED <<dagVars, loopVars, stops, stopped, userVars, teamVars>>

-----------------------------------------------------------------------------
(* The loop takes a result: what every result does, ...                    *)

(* Past Budget the exact sum tells nothing apart.                          *)
Spend(c) == IF spent + c > Budget THEN Budget ELSE spent + c

Collect(r) ==
    /\ pc = "receiving" /\ results # <<>> /\ r = Head(results)
    /\ results' = Tail(results)
    /\ stops' = stops \ {r.id} /\ stopped' = stopped \ {r.id}
    /\ agents' = IF r.id \in stops THEN Cut(r.id) ELSE agents
    /\ CloseNode(r.id) /\ ReleaseAll(r.id)
    /\ spent' = Spend(r.cost)
    /\ pc' = "top"
    /\ UNCHANGED <<todo, budget, shared, final, runCtx, denied, resume, decide>>

(* fail: the node failed, the pending nodes after it are blocked, and the  *)
(* contexts of all nodes end.                                              *)
Fail(id) ==
    /\ state' = Block(Nodes, edges, [state EXCEPT ![id] = "failed"])
    /\ failErr' = TRUE
    /\ UNCHANGED <<order, edges, approved, round, stopErr, escalated, limited, verdict, pause>>

(* ... and the cases of the switch, in its order.                          *)

(* The first stall: the node starts once more.  The second fails it.       *)
TakeStalled(r) ==
    /\ r.kind = "stalled" /\ ~NodeCtxDone
    /\ stalls' = [stalls EXCEPT ![r.id] = @ + 1]
    /\ IF stalls[r.id] >= 1
         THEN Fail(r.id)
         ELSE /\ state' = [state EXCEPT ![r.id] = "pending"]
              /\ UNCHANGED <<order, edges, approved, round, failErr, stopErr, escalated, limited,
                             verdict, pause>>
    /\ UNCHANGED outputs

TakeEscalate(r) ==
    /\ r.kind = "escalate" /\ ~NodeCtxDone
    /\ state' = [state EXCEPT ![r.id] = "pending"]
    /\ escalated' = escalated \cup {r.id}
    /\ UNCHANGED <<order, edges, approved, round, outputs, failErr, stopErr, stalls, limited,
                   verdict, pause>>

(* A usage limit puts the node back and pauses the run.                    *)
TakeLimit(r) ==
    /\ r.kind = "limit"
    /\ state' = [state EXCEPT ![r.id] = "pending"]
    /\ limited' = TRUE /\ pause' = TRUE
    /\ UNCHANGED <<order, edges, approved, round, outputs, failErr, stopErr, stalls, escalated,
                   verdict>>

(* The user stopped this node: the nodes after it are blocked.             *)
TakeUserStop(r) ==
    /\ r.kind = "cancelled" /\ r.id \in stopped /\ ~NodeCtxDone
    /\ state' = Block(Nodes, edges, [state EXCEPT ![r.id] = "cancelled"])
    /\ stopErr' = TRUE
    /\ UNCHANGED <<order, edges, approved, round, outputs, failErr, stalls, escalated, limited,
                   verdict, pause>>

(* The run ended while the node was running.                               *)
TakeCancelled(r) ==
    /\ r.kind \in {"cancelled", "stalled"}
    /\ NodeCtxDone \/ (r.kind = "cancelled" /\ r.id \notin stopped)
    /\ state' = [state EXCEPT ![r.id] = "cancelled"]
    /\ UNCHANGED <<order, edges, approved, round, outputs, failErr, stopErr, stalls, escalated,
                   limited, verdict, pause>>

TakeErr(r) == r.kind = "err" /\ Fail(r.id) /\ UNCHANGED <<outputs, stalls>>

(* grow: the plan's roots run after the planner; what ran after the        *)
(* planner now runs after the plan's final node.                           *)
MutantGrown(planner, p) ==
    edges \cup {<<planner, n>> : n \in {m \in Range(p.nodes) : \A e \in p.edges : e[2] # m}}
          \cup p.edges
Grown(planner, p) ==
    LET ns == Range(p.nodes)
        sink == CHOOSE n \in ns : \A e \in p.edges : e[1] # n
    IN {<<IF e[1] = planner THEN sink ELSE e[1], e[2]>> : e \in edges}
       \cup {<<planner, n>> : n \in {m \in ns : \A e \in p.edges : e[2] # m}}
       \cup p.edges

(* grown: an id the run got since the plan was read is a duplicate.        *)
GrowFits(r) ==
    /\ Range(r.plan.nodes) \cap Nodes = {}
    /\ Normal(Nodes \cup Range(r.plan.nodes), Grown(r.id, r.plan))

(* The switch's default; an ESCALATE whose run ended comes here too, with  *)
(* its answer cleared.                                                     *)
Completes(r) == r.kind = "done" \/ (r.kind = "escalate" /\ NodeCtxDone)

Answer(r) == IF r.kind = "done" THEN "text" ELSE "empty"

TakeMisfitPlan(r) ==
    /\ Completes(r) /\ r.plan # NoPlan /\ ~GrowFits(r)
    /\ Fail(r.id) /\ UNCHANGED <<outputs, stalls>>

TakePlan(r) ==
    /\ Completes(r) /\ r.plan # NoPlan /\ GrowFits(r)
    /\ state' = [n \in Ids |-> IF n = r.id THEN "completed"
                               ELSE IF n \in Range(r.plan.nodes) THEN "pending" ELSE state[n]]
    /\ order' = OrderWith(r.plan.nodes)
    /\ edges' = Grown(r.id, r.plan)
    /\ outputs' = [outputs EXCEPT ![r.id] = Answer(r)]
    /\ UNCHANGED <<approved, round, failErr, stopErr, stalls, escalated, limited, verdict, pause>>

TakeDone(r) ==
    /\ Completes(r) /\ r.plan = NoPlan /\ r.id # Verify
    /\ state' = [state EXCEPT ![r.id] = "completed"]
    /\ outputs' = [outputs EXCEPT ![r.id] = Answer(r)]
    /\ UNCHANGED <<order, edges, approved, round, failErr, stopErr, stalls, escalated, limited,
                   verdict, pause>>

(* afterVerify: the loop is over when verify passes or the rounds ran out. *)
MutantRoundsOut == round + 1 >= MaxRounds
RoundsOut == round >= MaxRounds

TakeVerdict(r) ==
    /\ Completes(r) /\ r.id = Verify
    /\ r.pass \/ RoundsOut
    /\ state' = [state EXCEPT ![r.id] = "completed"]
    /\ outputs' = [outputs EXCEPT ![r.id] = Answer(r)]
    /\ verdict' = IF r.pass THEN "pass" ELSE "fail"
    /\ UNCHANGED <<order, edges, approved, round, failErr, stopErr, stalls, escalated, limited,
                   pause>>

(* nextRound: fix (which joins the first time) and verify run again.       *)
MutantNextRoundEdges == edges
NextRoundEdges == IF Fix \in Nodes THEN edges ELSE edges \cup {<<Fix, Verify>>}

MutantNextRoundState == [state EXCEPT ![Verify] = "pending"]
NextRoundState == [state EXCEPT ![Verify] = "pending", ![Fix] = "pending"]

MutantTakeNextRound(r) ==
    /\ Completes(r) /\ r.id = Verify
    /\ ~r.pass
    /\ state' = NextRoundState
    /\ order' = OrderWith(<<Fix>>)
    /\ edges' = NextRoundEdges
    /\ outputs' = [outputs EXCEPT ![r.id] = Answer(r)]
    /\ round' = round + 1
    /\ verdict' = "none"
    /\ UNCHANGED <<approved, failErr, stopErr, stalls, escalated, limited, pause>>
TakeNextRound(r) ==
    /\ Completes(r) /\ r.id = Verify
    /\ ~r.pass /\ ~RoundsOut
    /\ state' = NextRoundState
    /\ order' = OrderWith(<<Fix>>)
    /\ edges' = NextRoundEdges
    /\ outputs' = [outputs EXCEPT ![r.id] = Answer(r)]
    /\ round' = round + 1
    /\ verdict' = "none"
    /\ UNCHANGED <<approved, failErr, stopErr, stalls, escalated, limited, pause>>

(* The edge fix -> verify can close no cycle, but a fix step that joins    *)
(* with a category, output, preset or step limit that Normalize refuses    *)
(* fails verify, which has completed and left its answer.                  *)
TakeMisfitFix(r) ==
    /\ Completes(r) /\ r.id = Verify
    /\ ~r.pass /\ ~RoundsOut
    /\ "misfit" \in Outcomes /\ Fix \notin Nodes
    /\ outputs' = [outputs EXCEPT ![r.id] = Answer(r)]
    /\ Fail(r.id) /\ UNCHANGED stalls

Take(r) ==
    Collect(r) /\ (\/ TakeStalled(r)    \/ TakeEscalate(r)   \/ TakeLimit(r) \/ TakeUserStop(r)
                   \/ TakeCancelled(r)  \/ TakeErr(r)        \/ TakeDone(r)
                   \/ TakeMisfitPlan(r) \/ TakePlan(r)
                   \/ TakeVerdict(r)    \/ TakeNextRound(r)  \/ TakeMisfitFix(r))

MutantAfterTheEnd == state
AfterTheEnd == [n \in Ids |-> IF state[n] = "pending" THEN "cancelled" ELSE state[n]]

MutantFinalKind ==
    IF failErr THEN "failed" ELSE IF runCtx = "cancelled" THEN "cancelled" ELSE "done"
FinalKind ==
    IF failErr THEN "failed"
    ELSE IF runCtx = "cancelled" THEN "cancelled"
    ELSE IF stopErr THEN "failed" ELSE "done"

(* Nothing runs and nothing may start: what did not run is cancelled and   *)
(* the final event is sent.                                                *)
End ==
    /\ pc = "top" /\ InWork = 0 /\ ~MayStart
    /\ state' = AfterTheEnd
    /\ final' = FinalKind
    /\ pc' = "ended"
    /\ UNCHANGED <<order, edges, approved, round, outputs, todo, failErr, stopErr, stalls, escalated,
                   shared, limited, spent, budget, verdict, taskVars, userVars, teamVars>>

-----------------------------------------------------------------------------
(* The calls of the user and of the agents' tools.                         *)

Cancel ==
    /\ "cancel" \in UserOps /\ pc # "ended"
    /\ runCtx' = "cancelled"
    /\ UNCHANGED <<dagVars, loopVars, taskVars, denied, pause, resume, decide, teamVars>>

Deny ==
    /\ "deny" \in UserOps /\ pc # "ended"
    /\ runCtx' = "cancelled" /\ denied' = TRUE
    /\ UNCHANGED <<dagVars, loopVars, taskVars, pause, resume, decide, teamVars>>

(* StopNode refuses a node without a cancel function.                      *)
StopNode(n) ==
    /\ "stop" \in UserOps /\ n \in stops
    /\ stopped' = stopped \cup {n}
    /\ agents' = Cut(n)
    /\ UNCHANGED <<dagVars, loopVars, results, stops, userVars, teamVars>>

Pause ==
    /\ "pause" \in UserOps /\ pc # "ended"
    /\ pause' = TRUE
    /\ UNCHANGED <<dagVars, loopVars, taskVars, runCtx, denied, resume, decide, teamVars>>

Continue ==
    /\ "continue" \in UserOps /\ pc # "ended"
    /\ resume' = TRUE
    /\ UNCHANGED <<dagVars, loopVars, taskVars, runCtx, denied, pause, decide, teamVars>>

(* decideAsync: the slot keeps the first answer.                           *)
Decide(kind, text) ==
    /\ pc # "ended" /\ decide = <<>>
    /\ decide' = <<[kind |-> kind, text |-> text]>>
    /\ UNCHANGED <<dagVars, loopVars, taskVars, runCtx, denied, pause, resume, teamVars>>

Approve == "approve" \in UserOps /\ Decide("approve", NoText)

EditPlan(d) == "edit" \in UserOps /\ Decide("edit", d)

SendMessage(n, m) ==
    Send(n, m) /\ UNCHANGED <<dagVars, loopVars, taskVars, userVars>>

(* What an agent does with the mailbox and the claim list, in tool calls.  *)
(* They do not ask whether the step still runs, but its goroutine sends    *)
(* the result only after every call has returned (agent_parallel.go:56).   *)
UseTeam(g) ==
    /\ g.id \notin CLIs
    /\ \/ ReadInbox(g.id)
       \/ Parallel > 1 /\ \E k \in Keys : Claim(g.id, k) \/ Release(g.id, k)
    /\ UNCHANGED <<dagVars, loopVars, taskVars, userVars>>

-----------------------------------------------------------------------------
(* The loop goroutine.                                                     *)
Loop ==
    \/ TakeApproval \/ TakeEdit \/ StopAwaiting
    \/ Await \/ PauseRun \/ StartReady \/ WaitForResult
    \/ Resume \/ StopPaused
    \/ \E n \in Ids : Start(n)
    \/ results # <<>> /\ Take(Head(results))
    \/ End

User ==
    \/ Cancel \/ Deny \/ Pause \/ Continue \/ Approve
    \/ \E d \in Edits : EditPlan(d)
    \/ \E n \in Ids : StopNode(n) \/ \E m \in Msgs : SendMessage(n, m)

Agent(g) == Stall(g) \/ SendResult(g) \/ UseTeam(g)

Ended == pc = "ended" /\ UNCHANGED vars

Next == Loop \/ User \/ (\E g \in agents : Agent(g)) \/ Ended

Spec == Init /\ [][Next]_vars
=============================================================================
