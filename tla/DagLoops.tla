------------------------------ MODULE DagLoops ------------------------------
(***************************************************************************)
(* The two loops of internal/agentdag/dag.go as the code runs them: the    *)
(* Kahn layering that finds cycles (layers) and then the sweeps of Block.  *)
(* AgentDag states their results as sets; here the loops are shown to      *)
(* compute them.  The maps from node ids are functions; a round of the     *)
(* layering and a visit of a sweep is one step.                            *)
(*                                                                         *)
(* A definition Mutant... is a plausible mistake in the one below it; no   *)
(* action uses it (see AgentDag).                                          *)
(***************************************************************************)
EXTENDS AgentDag, Sequences

CONSTANTS RunNodes,     \* r.Nodes, in run order
          NodeStates    \* the states a node may have when Block is called

VARIABLES edges, st,    \* the run: normalized edges, node states
          pc,
          indeg, cur,   \* layers: edges from unplaced nodes; the layer to place
          out, placed,  \* layers: the layers so far; how many nodes they hold
          i, more, bst  \* Block: the node to visit; the sweep's flag; its states

vars == <<edges, st, pc, indeg, cur, out, placed, i, more, bst>>

Nodes == {RunNodes[k] : k \in DOMAIN RunNodes}

ASSUME LoopsAssumption ==
    /\ RunNodes \in Seq(Nodes) /\ Cardinality(Nodes) = Len(RunNodes) /\ RunNodes # <<>>
    /\ NodeStates \subseteq States

EdgesInto(n, from, es) == {e \in es : e[2] = n /\ e[1] \in from}

(* Normalize has dropped self edges before it calls layers.                *)
Init ==
    /\ edges \in SUBSET {e \in Nodes \X Nodes : e[1] # e[2]}
    /\ st \in [Nodes -> NodeStates]
    /\ pc = "layers"
    /\ indeg = [n \in Nodes |-> Cardinality(EdgesInto(n, Nodes, edges))]
    /\ cur = {n \in Nodes : indeg[n] = 0}
    /\ out = <<>> /\ placed = 0
    /\ i = 1 /\ more = FALSE /\ bst = st

-----------------------------------------------------------------------------
(* A round: the edges out of the layer go, and the nodes that lose their   *)
(* last one are the next layer.                                            *)
Decremented == [n \in Nodes |-> indeg[n] - Cardinality(EdgesInto(n, cur, edges))]

MutantNextLayer == {n \in Nodes : Decremented[n] < indeg[n]}
NextLayer == {n \in Nodes : Decremented[n] = 0 /\ indeg[n] > 0}

PlaceLayer ==
    /\ pc = "layers" /\ cur # {}
    /\ out' = Append(out, cur)
    /\ placed' = placed + Cardinality(cur)
    /\ indeg' = Decremented
    /\ cur' = NextLayer
    /\ UNCHANGED <<edges, st, pc, i, more, bst>>

MutantCycleLeft == placed = 0
CycleLeft == placed < Len(RunNodes)

LayersEnd ==
    /\ pc = "layers" /\ cur = {}
    /\ pc' = IF CycleLeft THEN "cycle" ELSE "sweep"
    /\ UNCHANGED <<edges, st, indeg, cur, out, placed, i, more, bst>>

-----------------------------------------------------------------------------
(* Block visits the nodes in run order; a node it blocks blocks the nodes  *)
(* visited after it in the same sweep, others wait for the next sweep.     *)
Stopped(n) == bst[n] = "pending" /\ \E d \in Deps(edges, n) : bst[d] \in StopStates

Visit ==
    /\ pc = "sweep" /\ i <= Len(RunNodes)
    /\ LET n == RunNodes[i]
       IN /\ bst' = IF Stopped(n) THEN [bst EXCEPT ![n] = "blocked"] ELSE bst
          /\ more' = (more \/ Stopped(n))
    /\ i' = i + 1
    /\ UNCHANGED <<edges, st, pc, indeg, cur, out, placed>>

MutantSweepAgain ==
    /\ pc = "sweep" /\ i > Len(RunNodes) /\ more
    /\ i' = 1 /\ more' = more
    /\ UNCHANGED <<edges, st, pc, indeg, cur, out, placed, bst>>
SweepAgain ==
    /\ pc = "sweep" /\ i > Len(RunNodes) /\ more
    /\ i' = 1 /\ more' = FALSE
    /\ UNCHANGED <<edges, st, pc, indeg, cur, out, placed, bst>>

MutantSweepsEnd ==
    /\ pc = "sweep" /\ i > Len(RunNodes)
    /\ pc' = "done"
    /\ UNCHANGED <<edges, st, indeg, cur, out, placed, i, more, bst>>
SweepsEnd ==
    /\ pc = "sweep" /\ i > Len(RunNodes) /\ ~more
    /\ pc' = "done"
    /\ UNCHANGED <<edges, st, indeg, cur, out, placed, i, more, bst>>

Step == PlaceLayer \/ LayersEnd \/ Visit \/ SweepAgain \/ SweepsEnd

Returned == pc \in {"cycle", "done"} /\ UNCHANGED vars

Next == Step \/ Returned

Spec == Init /\ [][Next]_vars /\ WF_vars(Step)

-----------------------------------------------------------------------------
(* The layers placed so far are the first layers of AgentDag, also on a    *)
(* run with a cycle, and so Validate's count of them is AgentDag's.        *)
LayersRight ==
    /\ \A k \in 0..Len(out) : UNION {out[j] : j \in 1..k} = Layered(Nodes, edges, k)
    /\ pc \in {"sweep", "done"} =>
          \A k \in 1..Len(RunNodes) : Len(out) <= k <=> Layered(Nodes, edges, k) = Nodes

(* layers reports a cycle exactly when there is one.                       *)
CycleFound ==
    /\ pc = "cycle" => ~Acyclic(Nodes, edges)
    /\ pc \in {"sweep", "done"} => Acyclic(Nodes, edges)

(* The sweeps block exactly the pending nodes downstream of a stopped one, *)
(* whatever the order of the nodes in the run.                             *)
BlockRight ==
    /\ \A n \in Nodes : bst[n] # st[n] => n \in Blocked(Nodes, edges, st)
    /\ pc = "done" => bst = Block(Nodes, edges, st)

(* Both loops end.                                                         *)
LoopsEnd == <>(pc \in {"cycle", "done"})
=============================================================================
