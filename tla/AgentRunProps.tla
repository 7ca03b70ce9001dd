---------------------------- MODULE AgentRunProps ----------------------------
(***************************************************************************)
(* What the scheduler of an agent run promises: safety, action and         *)
(* liveness properties of AgentRun.                                        *)
(***************************************************************************)
EXTENDS AgentRun

(* A node runs only while everything it depends on is done (agentdag.Ready *)
(* read once per turn of the loop, nodes started later in that turn, the   *)
(* DAG grown meanwhile by plans, edits and loop rounds).  The fix node is  *)
(* excepted: a next round may start it again beside a node an edit placed  *)
(* after it.                                                               *)
DepsDone ==
    \A n \in Running : \A d \in Deps(edges, n) \ {Fix} : state[d] \in DoneStates

(* At most Parallel nodes run at once.                                     *)
AtMostParallel == InWork <= Parallel

(* The run stays a DAG without dangling or self edges while plans, edits   *)
(* and loop rounds change it (Layers would otherwise lose nodes).          *)
StaysDag == Normal(Nodes, edges)

(* Of two writing nodes that run at the same time at least one was told so *)
(* (sharesWave) and gets a worktree of its own: two steps never write in   *)
(* the user's tree together, however the DAG grew after the first started. *)
WritersApart ==
    \A a, b \in Running \cap Writers : a # b => a \in shared \/ b \in shared

(* With plan approval on, no step that needs it runs before a card that    *)
(* listed it was answered, whatever joined the run by a plan, an edit or a *)
(* loop round.  The answer may be older than the card: decideAsync keeps   *)
(* one that comes while no card is shown (approve.go:63-68), although      *)
(* approve.go:42-43 calls Approve a no-op then.                            *)
NeverUnapproved ==
    /\ \A n \in Running : ~Gated(n)
    /\ approved \subseteq Nodes \cup {Fix}

(* The pause and the plan card are shown only when nothing runs, and no    *)
(* result is waiting to be taken.                                          *)
QuietWhileAsking ==
    pc \in {"paused", "awaiting"} =>
        Running = {} /\ results = <<>> /\ agents = {}

(* After the final event nothing is left over: every node has an end       *)
(* state, every goroutine's result was taken, no box is open, no message   *)
(* waits and no claim is held.                                             *)
NothingLeftOver ==
    pc = "ended" =>
        /\ \A n \in Nodes : state[n] \in OverStates
        /\ agents = {} /\ results = <<>> /\ stops = {} /\ stopped = {}
        /\ open = {} /\ \A m \in Msgs : fate[m] # "waiting"
        /\ \A k \in Keys : claims[k] = None

(* The final event tells the truth: RunDone only when every node completed *)
(* or was skipped, RunFailed only when a node failed or the user stopped   *)
(* one, RunCancelled only when the run's context ended.                    *)
FinalEventIsTrue ==
    /\ final = "done" => \A n \in Nodes : state[n] \in DoneStates
    /\ final = "failed" => \E n \in Nodes : state[n] \in {"failed", "cancelled"}
    /\ final = "cancelled" => runCtx = "cancelled" /\ \A n \in Nodes : state[n] # "failed"

(* Work until done: a run whose verify node ran ends RunDone only with a   *)
(* verdict, and with a failing one only after all its rounds.              *)
LoopHasVerdict ==
    HasLoop /\ Verify \notin Kept /\ final = "done" =>
        \/ verdict = "pass"
        \/ verdict = "fail" /\ round = MaxRounds

(* What verify checked is what the user gets: fix is never still to run,   *)
(* or running, while verify runs or after it completed.                    *)
FixBeforeVerify ==
    HasLoop /\ state[Verify] \in {"running", "completed"} =>
        state[Fix] \in OverStates \cup {"absent"}

(* What depended on the planner waits for the whole plan: it starts only   *)
(* after every node of the plan is done (grow moves its edges).            *)
AfterThePlan ==
    \A e \in InitialEdges :
        e[1] \in Planners /\ state[e[2]] \in {"running", "completed"} =>
            \A n \in Nodes \ (Range(InitialNodes) \cup {Fix}) : state[n] \in DoneStates

(* A claim is held only by a node that runs, so a step's claims never      *)
(* outlive it.                                                             *)
ClaimsOfRunning == \A k \in Keys : claims[k] # None => claims[k] \in Running

(* A message that was accepted is in the box of a node that has one, until *)
(* it is read or handed back; no other message is in a box, and none is in *)
(* two places.                                                             *)
MessagesAccounted ==
    /\ \A m \in Msgs : fate[m] = "waiting" <=> \E n \in open : m \in Waiting(n)
    /\ \A n, o \in Ids : \A i \in DOMAIN box[n], j \in DOMAIN box[o] :
          box[n][i] = box[o][j] => n = o /\ i = j

-----------------------------------------------------------------------------
(* An ended node stays ended: its state never changes again.  Only the     *)
(* loop's verify and fix run again, in a next round.                       *)
EndedNodesStay ==
    [][\A n \in Ids \ {Verify, Fix} : state[n] \in OverStates => state'[n] = state[n]]_vars

(* After a failure nothing starts.                                         *)
NoStartAfterFailure == [][failErr => Running' \subseteq Running]_vars

(* Over the budget nothing starts until Continue lifted it.                *)
NoStartOverBudget == [][budget > 0 /\ spent >= budget => Running' \subseteq Running]_vars

-----------------------------------------------------------------------------
(* The inductive invariant: what the steps of the run need to know of each *)
(* other to keep the safety properties, for every value of the constants.  *)

(* The nodes a goroutine works for or has sent a result for.               *)
Workers == {g.id : g \in agents} \cup {results[i].id : i \in DOMAIN results}

(* A running node, a cancel function and an open box belong to a worker.   *)
Owned == Running \cup stops \cup open \subseteq Workers

(* Every node but the fix node has at most one goroutine or result, and    *)
(* runs while it has one.                                                  *)
OneWorker ==
    /\ \A g, h \in agents : g.id = h.id /\ g.id # Fix => g = h
    /\ \A i, j \in DOMAIN results : results[i].id = results[j].id /\ results[i].id # Fix => i = j
    /\ \A g \in agents, i \in DOMAIN results : g.id = results[i].id => g.id = Fix
    /\ Workers \ {Fix} \subseteq Running /\ Workers \subseteq Nodes

(* A plan on its way to the loop comes from a planner and is a DAG.        *)
PlansFit ==
    \A i \in DOMAIN results : results[i].plan # NoPlan =>
        /\ results[i].id \in Planners
        /\ Normal(Range(results[i].plan.nodes), results[i].plan.edges)

(* What the loop saw at the start of its turn still holds when it starts   *)
(* the last node of the turn.                                              *)
TurnHolds ==
    pc = "starting" =>
        /\ InWork < Parallel /\ ~failErr /\ ~OverBudget
        /\ \A n \in todo : /\ state[n] = "pending" /\ ~Gated(n)
                           /\ \A d \in Deps(edges, n) : state[d] \in DoneStates

(* Nothing is at work while the loop waits for the user or has ended.      *)
NothingAtWork == pc \in {"paused", "awaiting", "ended"} => InWork = 0

IInv ==
    /\ TypeOK
    /\ Owned /\ OneWorker /\ PlansFit /\ TurnHolds /\ NothingAtWork
    /\ AtMostParallel /\ NeverUnapproved /\ StaysDag /\ DepsDone

-----------------------------------------------------------------------------
(* How a run ends.  An edit of the plan that leaves the fix step out drops *)
(* its edge to verify; fix may then run beside verify and have two         *)
(* goroutines after the next round.  What follows holds while no edit      *)
(* dropped that edge.                                                      *)
LoopEdge == HasLoop /\ Fix \in Nodes => <<Fix, Verify>> \in edges

(* The loop's order at the start (a retry keeps fix when it keeps verify)  *)
(* and its edge at all times.                                              *)
LoopKept == FixBeforeVerify /\ []LoopEdge

(* A run whose plan is never edited: no approval is asked, or the user     *)
(* sends no edit.                                                          *)
NeverEdited == Approval = "off" \/ Edits = {}

(* What a retried run brings of an earlier loop: the fix step with its     *)
(* edge, kept when verify is.                                              *)
LoopAtStart ==
    /\ Fix \in Range(InitialNodes) => <<Fix, Verify>> \in InitialEdges
    /\ Verify \in Kept /\ Fix \in Range(InitialNodes) => Fix \in Kept

(* The fix step leads to verify alone, and a node that an earlier run      *)
(* completed came after completed ones.                                    *)
OrderAtStart ==
    \A e \in InitialEdges : (e[2] \in Kept => e[1] \in Kept) /\ (e[1] = Fix => e[2] = Verify)

(* The run goes down its DAG: what a running or done node depends on is    *)
(* done.  (An edit may skip a step before the steps it waits for are done, *)
(* or put a step after the fix step that runs again.)                      *)
InRunOrder ==
    \A e \in edges :
        state[e[2]] \in DoneStates \cup {"running"} => state[e[1]] \in DoneStates

(* Verify runs and completes only after fix, and fix joins the run only in *)
(* a next round.                                                           *)
FixFirst ==
    /\ HasLoop /\ state[Verify] \in {"running", "completed"} =>
           state[Fix] \in DoneStates \cup {"absent"}
    /\ \A i \in DOMAIN results :
           results[i].plan # NoPlan => Fix \notin Range(results[i].plan.nodes)

(* Every node, the fix node too, has at most one goroutine or result, and  *)
(* runs while it has one.                                                  *)
Alone ==
    /\ \A g, h \in agents : g.id = h.id => g = h
    /\ \A i, j \in DOMAIN results : results[i].id = results[j].id => i = j
    /\ \A g \in agents, i \in DOMAIN results : g.id # results[i].id
    /\ Workers \subseteq Running

(* A step ends "cancelled" only because of the run or of the user's stop.  *)
CutsKnown ==
    /\ stopped \subseteq stops
    /\ \A g \in agents : g.cut => g.id \in stopped
    /\ \A i \in DOMAIN results :
           results[i].kind = "cancelled" => NodeCtxDone \/ results[i].id \in stopped

(* A failed node is known to the loop, and so is a stopped one.            *)
StopsKnown ==
    /\ failErr <=> \E n \in Ids : state[n] = "failed"
    /\ stopErr => \E n \in Ids : state[n] = "cancelled"
    /\ pc # "ended" /\ (\E n \in Ids : state[n] \in StopStates) => NodeCtxDone \/ stopErr

(* A verify step cannot be left out, and has a verdict when it completed.  *)
VerdictKnown ==
    HasLoop =>
        /\ state[Verify] \notin {"absent", "skipped"}
        /\ state[Verify] = "completed" /\ Verify \notin Kept =>
              verdict = "pass" \/ (verdict = "fail" /\ round = MaxRounds)

(* A claim belongs to a worker, a box with messages to an open one.        *)
TeamOfWorkers ==
    /\ \A k \in Keys : claims[k] # None => claims[k] \in Workers
    /\ \A n \in Ids : box[n] # <<>> => n \in open

(* No code assigns two of the states; the final event is sent at the end.  *)
EndsOnce ==
    /\ \A n \in Ids : state[n] \notin {"scheduled", "paused"}
    /\ pc # "ended" => final = "none"
    /\ pc = "ended" => \A n \in Nodes : state[n] \in OverStates

(* A plan on its way has one final node.                                   *)
OneFinal(p) ==
    \E last \in Range(p.nodes) :
        \A n \in Range(p.nodes) : (\A e \in p.edges : e[1] # n) <=> n = last

PlansEnd == \A i \in DOMAIN results : results[i].plan # NoPlan => OneFinal(results[i].plan)

(* Nothing but verify runs after the fix step.                             *)
FixLeads == \A e \in edges : e[1] = Fix => e[2] = Verify

(* The nodes of the plan of a run with one planner: every one but the last *)
(* leads to another, and the last to what waited for the planner.          *)
OnePlanner == \A p, q \in Planners \cap Ids : p = q

Added == Nodes \ (Range(InitialNodes) \cup {Fix})

PlanInPlace ==
    /\ Range(InitialNodes) \subseteq Nodes
    /\ Added = {} => InitialEdges \subseteq edges
    /\ Added # {} =>
          /\ \A p \in Planners \cap Ids : state[p] = "completed"
          /\ \E last \in Added :
                /\ \A n \in Added \ {last} : \E m \in Added : <<n, m>> \in edges
                /\ \A e \in InitialEdges : e[1] \in Planners => <<last, e[2]>> \in edges

(* What of NothingLeftOver holds whatever was edited: all but the messages *)
(* of a fix step that had two goroutines (run.go:488-492, 654-665).        *)
NobodyLeftOver ==
    pc = "ended" =>
        /\ \A n \in Nodes : state[n] \in OverStates
        /\ agents = {} /\ results = <<>> /\ stops = {} /\ stopped = {} /\ open = {}
        /\ \A k \in Keys : claims[k] = None

EInv ==
    /\ FixFirst /\ Alone /\ CutsKnown /\ StopsKnown /\ VerdictKnown
    /\ TeamOfWorkers /\ MessagesAccounted /\ EndsOnce /\ FinalEventIsTrue

-----------------------------------------------------------------------------
(* The scheduler implements the contract of DagContract, the user's view   *)
(* of a run.                                                               *)
PhaseOf(s) ==
    IF s \in DoneStates THEN "finished"
    ELSE IF s \in StopStates THEN "stopped"
    ELSE IF s = "running" THEN "working"
    ELSE IF s = "absent" THEN "absent" ELSE "waiting"

Contract == INSTANCE DagContract
    WITH Again  <- {Verify, Fix} \ {None},
         phase  <- [n \in Ids |-> PhaseOf(state[n])],
         before <- edges,
         over   <- pc = "ended"

(* Every behaviour of the scheduler is one of the contract.                *)
MeetsContract == Contract!Spec

-----------------------------------------------------------------------------
(* Fairness: the Go runtime runs the loop and the node goroutines as long  *)
(* as they can go on; an agent or CLI answers, fails or sees its context   *)
(* end (providers and CLIs carry a context and time limits).               *)
Fairness ==
    WF_vars(Loop) /\ \A n \in Ids : WF_vars(\E g \in agents : g.id = n /\ SendResult(g))

FairSpec == Spec /\ Fairness

(* A user who answers what the run asks and does not pause it for ever,    *)
(* with CLIs whose usage limits are met finitely often.                    *)
Answering ==
    /\ WF_vars(pc = "paused" /\ Continue)
    /\ WF_vars(pc = "awaiting" /\ Approve)
    /\ <>[][(pause' => pause) /\ (limited' => limited)]_vars

(* Cancel and Deny end the run, also while it is paused or waits for the   *)
(* user's answer on its plan.                                              *)
CancelEnds == runCtx = "cancelled" ~> pc = "ended"

(* A failed node ends the run without the user's help.                     *)
FailureEnds == failErr ~> pc = "ended"

(* A run whose questions are answered ends.                                *)
AnsweredRunEnds == Answering => <>(pc = "ended")

=============================================================================
