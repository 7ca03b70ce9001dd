------------------------------ MODULE AgentDag ------------------------------
(***************************************************************************)
(* The pure data model of an agent run (internal/agentdag/dag.go): nodes,  *)
(* edges <<a, b>> ("b runs after a") and the functions that check a run    *)
(* and pick the nodes that may run.  A run is given here by its set of     *)
(* nodes, its set of edges (Normalize drops duplicate edges) and a         *)
(* function st from node ids to node states.                               *)
(*                                                                         *)
(* Fixpoints are written as least closed sets, without recursion, so that  *)
(* modules that use them can be proved about; DagLoops compares them with  *)
(* the loops of the code.                                                  *)
(*                                                                         *)
(* A definition Mutant... is a plausible mistake in the one below it.  No  *)
(* action uses it: put in that one's place it breaks a property of a run.  *)
(***************************************************************************)
EXTENDS Naturals, FiniteSets

(* "scheduled" and "paused" exist in the code's list but no code of the    *)
(* scheduler ever assigns them.                                            *)
States == {"pending", "blocked", "scheduled", "running", "paused",
           "completed", "failed", "cancelled", "skipped"}

(* State.Done: a node in this state satisfies its dependents.              *)
DoneStates == {"completed", "skipped"}

(* State.Stops: a node in this state stops its dependents.                 *)
StopStates == {"failed", "cancelled", "blocked"}

OverStates == DoneStates \cup StopStates

Deps(edges, n) == {e[1] : e \in {f \in edges : f[2] = n}}

(* Ready: the pending nodes whose dependencies are all done.               *)
MutantReady(nodes, edges, st) ==
    {n \in nodes : /\ st[n] = "pending"
                   /\ Deps(edges, n) = {} \/ \E d \in Deps(edges, n) : st[d] \in DoneStates}
Ready(nodes, edges, st) ==
    {n \in nodes : st[n] = "pending" /\ \A d \in Deps(edges, n) : st[d] \in DoneStates}

(* B contains every pending node that has a stopped dependency or one in B. *)
BlockClosed(B, nodes, edges, st) ==
    \A e \in edges :
        (e[2] \in nodes /\ st[e[2]] = "pending" /\ (st[e[1]] \in StopStates \/ e[1] \in B))
            => e[2] \in B

(* The ids Block changes: the pending nodes downstream of a stopped one.   *)
Blocked(nodes, edges, st) ==
    {n \in nodes : /\ st[n] = "pending"
                   /\ \A B \in SUBSET nodes : BlockClosed(B, nodes, edges, st) => n \in B}

(* Block: st after the pending nodes downstream of a stopped one became    *)
(* blocked.                                                                *)
Block(nodes, edges, st) ==
    [n \in DOMAIN st |-> IF n \in Blocked(nodes, edges, st) THEN "blocked" ELSE st[n]]

(* The nodes that run after n, directly or not, and n itself.              *)
Downstream(nodes, edges, n) ==
    {m \in nodes : \A S \in SUBSET nodes :
        n \in S /\ (\A e \in edges : e[1] \in S /\ e[2] \in nodes => e[2] \in S) => m \in S}

(* Kahn layering: every non-empty set of nodes has one without a           *)
(* dependency in the set, so every node gets a layer.                      *)
Acyclic(nodes, edges) ==
    \A S \in SUBSET nodes : S # {} => {n \in S : Deps(edges, n) \cap S = {}} # {}

(* The nodes of the first k layers.                                        *)
Layered(nodes, edges, k) ==
    LET upTo[i \in 0..k] ==
            IF i = 0 THEN {}
            ELSE LET before == upTo[i - 1]
                 IN {n \in nodes : Deps(edges, n) \subseteq before}
    IN upTo[k]

(* Normalize: edges join two different nodes of the run and form no cycle. *)
Normal(nodes, edges) ==
    /\ nodes # {}
    /\ \A e \in edges : e[1] \in nodes /\ e[2] \in nodes /\ e[1] # e[2]
    /\ Acyclic(nodes, edges)

(* Validate without the loop: a normal run within the limits.              *)
Valid(nodes, edges, maxNodes, maxLayers) ==
    /\ Normal(nodes, edges)
    /\ Cardinality(nodes) <= maxNodes
    /\ Layered(nodes, edges, maxLayers) = nodes
=============================================================================
