----------------------------- MODULE MCAgentRun -----------------------------
(***************************************************************************)
(* Small instances of AgentRun: one run per question.                      *)
(***************************************************************************)
EXTENDS AgentRunProps, TLC

CONSTANTS a, b, c, p, v, x, y,   \* nodes
          m1, k1, k2             \* a message, claimed keys

KeySymmetry == Permutations({k1, k2})

NoPlans == {}
NoEdits == {}

(* Work, verify and a report after verify, a step beside them, and the fix *)
(* step of an earlier round.                                               *)
LoopNodes == <<a, c, v, b, x>>
LoopEdges == {<<a, v>>, <<v, b>>, <<x, v>>}

(* Work and verify.                                                        *)
VerifiedNodes == <<a, v>>
VerifiedEdges == {<<a, v>>}

(* A planner and the step that waits for it, beside another step.          *)
PlanRunNodes == <<a, p, b, c>>
PlanRunEdges == {<<p, b>>, <<a, b>>}
SomePlans == {[nodes |-> <<x>>, edges |-> {}],
              [nodes |-> <<x, y>>, edges |-> {<<x, y>>}]}

(* A planner, a verify step after its plan, and a planner beside them      *)
(* whose plan has the same step.                                           *)
PlanLoopNodes == <<p, v, a>>
PlanLoopEdges == {<<p, v>>}
OneStepPlan == {[nodes |-> <<y>>, edges |-> {}]}

(* Edits that leave steps out, add one, put it before or after verify      *)
(* (after one another they would close a cycle) or after another step.     *)
LoopEdits == {[steps |-> <<v>>, deps |-> {}],
              [steps |-> <<v>>, deps |-> {<<y, v>>}],
              [steps |-> <<v, y>>, deps |-> {<<v, y>>}],
              [steps |-> <<a, y>>, deps |-> {<<y, a>>}]}
=============================================================================
