---------------------------- MODULE AgentRunOrder ----------------------------
(***************************************************************************)
(* The order of the steps of an agent run, for every value of the          *)
(* constants of AgentRun: which writing steps may run together, what waits *)
(* for a whole plan, and the contract of DagContract.                      *)
(***************************************************************************)
EXTENDS AgentRunEnds, WellFoundedInduction

(* What runs does not come after a step still to run.                      *)
LEMMA NotBelow ==
    ASSUME IInv, InRunOrder, NEW n \in Nodes, state[n] = "pending", NEW m \in Running
    PROVE  m \notin Downstream(Nodes, edges, n)
<1> DEFINE S == {o \in Nodes : state[o] \notin DoneStates \cup {"running"}}
<1>1. n \in S /\ m \notin S
    BY DEF DoneStates, Running
<1>2. \A e \in edges : e[1] \in S /\ e[2] \in Nodes => e[2] \in S
    BY DEF InRunOrder
<1>3. QED
    BY <1>1, <1>2 DEF Downstream

(* A writing step that starts beside another is told so.                   *)
LEMMA WritersStep ==
    ASSUME IInv, InRunOrder, WritersApart, [Next]_vars
    PROVE  WritersApart'
<1>1. CASE ~\E n \in Ids : Start(n)
    <2>1. Running' \subseteq Running
        BY <1>1, OnlyStart
    <2>2. CASE Take(Head(results))
        BY <2>1, <2>2, TakeKinds DEF WritersApart, Collect
    <2>3. CASE shared' = shared
        BY <2>1, <2>3 DEF WritersApart
    <2>4. QED
        BY <1>1, <2>2, <2>3, StepKinds
           DEF Still, TakeEdit, End, StopNode, SendMessage, Stall, SendResult, UseTeam, loopVars
<1>2. ASSUME NEW n \in Ids, Start(n) PROVE WritersApart'
    <2>1. state[n] = "pending" /\ InWork < Parallel
        BY <1>2 DEF Start, IInv, TurnHolds
    <2>2. /\ state' = [state EXCEPT ![n] = "running"]
          /\ shared' = IF Parallel > 1 /\ SharesWave(n) THEN shared \cup {n} ELSE shared \ {n}
        BY <1>2 DEF Start
    <2>3. Running' = Running \cup {n} /\ n \in Nodes
        BY <2>1, <2>2 DEF IInv, TypeOK, Running, Nodes
    <2>4. \A m \in Ids \ {n} : m \in shared' <=> m \in shared
        BY <2>2
    <2>5. ASSUME NEW m \in Running \cap Writers, m # n, n \in Writers PROVE n \in shared'
        <3>1. m \in Left \cap Writers /\ m \notin Downstream(Nodes, edges, n)
            BY <2>1, <2>3, <2>5, NotBelow DEF Left, Running, Nodes, OverStates, DoneStates, StopStates
        <3>2. InWork # 0
            BY <2>5, WorkCounts DEF IInv, Owned
        <3>3. Parallel > 1
            BY <2>1, <3>2, WorkCounts, RunAssumption DEF IInv
        <3>4. QED
            BY <2>2, <2>5, <3>1, <3>3 DEF SharesWave
    <2>6. ASSUME NEW a \in Running' \cap Writers, NEW b \in Running' \cap Writers, a # b
          PROVE  a \in shared' \/ b \in shared'
        <3>1. CASE a = n
            BY <2>3, <2>5, <2>6, <3>1
        <3>2. CASE b = n
            BY <2>3, <2>5, <2>6, <3>2
        <3>3. CASE a # n /\ b # n
            BY <2>3, <2>4, <2>6, <3>3 DEF WritersApart, Running
        <3>4. QED
            BY <3>1, <3>2, <3>3
    <2>7. QED
        BY <2>6 DEF WritersApart
<1>3. QED
    BY <1>1, <1>2

(* Two writing steps never run unshared in a run that keeps its order.     *)
THEOREM WritersKeptApart == Spec /\ []InRunOrder => []WritersApart
<1>1. Init => WritersApart
    BY DEF Init, WritersApart, Running
<1>2. QED
    BY <1>1, WritersStep, Invariant, PTL DEF Spec

-----------------------------------------------------------------------------
(* Every set in a family of finite sets has a smallest one.                *)
LEMMA Smallest ==
    ASSUME NEW C, C # {}, \A S \in C : IsFiniteSet(S)
    PROVE  \E T \in C : \A S \in C : Cardinality(T) <= Cardinality(S)
<1> DEFINE sizes == {Cardinality(S) : S \in C}
<1>1. sizes \subseteq Nat /\ sizes # {}
    BY FS_CardinalityType
<1> HIDE DEF sizes
<1>2. \E x \in sizes : \A y \in sizes : ~(<<y, x>> \in OpToRel(<, Nat))
    BY <1>1, NatLessThanWellFounded, WFMin
<1>3. PICK x \in sizes : \A y \in sizes : ~(<<y, x>> \in OpToRel(<, Nat))
    BY <1>2
<1>4. \A y \in sizes : ~(y < x)
    BY <1>1, <1>3 DEF OpToRel
<1>5. \A y \in sizes : x <= y
    BY <1>1, <1>4
<1>6. QED
    BY <1>5 DEF sizes

(* A finite set of nodes of a DAG in which every node has a successor is   *)
(* empty: there is no way to go on for ever.                               *)
LEMMA LastNode ==
    ASSUME NEW ns, NEW es, Acyclic(ns, es), NEW S, S \subseteq ns, IsFiniteSet(S), S # {}
    PROVE  \E n \in S : \A m \in S : <<n, m>> \notin es
<1> SUFFICES ASSUME \A n \in S : \E m \in S : <<n, m>> \in es PROVE FALSE
    OBVIOUS
<1> DEFINE next == [n \in S |-> CHOOSE m \in S : <<n, m>> \in es]
           C == {T \in SUBSET S : T # {} /\ \A n \in T : next[n] \in T}
<1>1. \A n \in S : next[n] \in S /\ <<n, next[n]>> \in es
    OBVIOUS
<1> HIDE DEF next
<1>2. S \in C
    BY <1>1
<1>3. \A T \in C : IsFiniteSet(T)
    BY FS_Subset
<1>4. PICK T \in C : \A U \in C : Cardinality(T) <= Cardinality(U)
    <2> HIDE DEF C
    <2>1. QED
        BY <1>2, <1>3, Smallest
<1>5. T \subseteq S /\ T # {} /\ IsFiniteSet(T) /\ \A n \in T : next[n] \in T
    BY <1>3, <1>4
<1> DEFINE U == {next[n] : n \in T}
<1>6. U \in C /\ U \subseteq T
    BY <1>5
<1>7. U = T
    <2>1. Cardinality(T) <= Cardinality(U)
        BY <1>4, <1>6
    <2>2. Cardinality(U) <= Cardinality(T) /\ Cardinality(U) \in Nat /\ Cardinality(T) \in Nat
        BY <1>5, <1>6, FS_Subset, FS_CardinalityType
    <2> HIDE DEF U
    <2>3. Cardinality(T) = Cardinality(U)
        BY <2>1, <2>2
    <2>4. QED
        BY <1>5, <1>6, <2>3, FS_Subset
<1>8. PICK n \in T : Deps(es, n) \cap T = {}
    <2>1. T \subseteq ns
        BY <1>5
    <2>2. {n \in T : Deps(es, n) \cap T = {}} # {}
        BY <1>5, <2>1 DEF Acyclic
    <2>3. QED
        BY <2>2
<1>9. PICK m \in T : n = next[m]
    BY <1>7
<1>10. m \in Deps(es, n)
    <2>1. <<m, n>> \in es
        BY <1>1, <1>5, <1>9
    <2>2. QED
        BY <2>1 DEF Deps
<1>11. QED
    BY <1>8, <1>10

-----------------------------------------------------------------------------
(* What a plan that joins the run changes.                                 *)
LEMMA PlanTaken ==
    ASSUME IInv, Alone, FixFirst, PlansEnd, NEW r, Take(r), TakePlan(r)
    PROVE  LET ns == Range(r.plan.nodes) IN
           /\ r.id \in Planners /\ state[r.id] = "running" /\ state'[r.id] = "completed"
           /\ ns \subseteq Ids /\ ns # {} /\ ns \cap Nodes = {} /\ Fix \notin ns /\ Nodes' = Nodes \cup ns
           /\ \A n \in ns : state'[n] = "pending"
           /\ \A n \in Ids \ (ns \cup {r.id}) : state'[n] = state[n]
           /\ \A e \in r.plan.edges : e[1] \in ns /\ e[2] \in ns
           /\ \E last \in ns :
                 /\ \A n \in ns \ {last} : \E e \in r.plan.edges : e[1] = n
                 /\ edges' = {<<IF e[1] = r.id THEN last ELSE e[1], e[2]>> : e \in edges}
                             \cup {<<r.id, n>> : n \in {m \in ns : \A e \in r.plan.edges : e[2] # m}}
                             \cup r.plan.edges
<1> DEFINE ns == Range(r.plan.nodes)
<1>1. r \in Results /\ r.id \in Ids /\ state[r.id] = "running" /\ r = results[1] /\ 1 \in DOMAIN results
    BY TakeKinds, TakenAlone
<1>2. /\ r.plan # NoPlan /\ ns \cap Nodes = {} /\ edges' = Grown(r.id, r.plan)
      /\ state' = [n \in Ids |-> IF n = r.id THEN "completed"
                                 ELSE IF n \in ns THEN "pending" ELSE state[n]]
    BY DEF TakePlan, GrowFits
<1>3. /\ r.id \in Planners /\ Fix \notin ns /\ OneFinal(r.plan)
      /\ Normal(ns, r.plan.edges)
    BY <1>1, <1>2 DEF IInv, PlansFit, FixFirst, PlansEnd
<1>4. ns \subseteq Ids
    <2>1. r.plan \in Plans \cup {NoPlan}
        BY <1>1 DEF Results
    <2>2. r.plan.nodes \in Seq(Ids)
        BY <1>2, <2>1, RunAssumption
    <2>3. QED
        BY <2>2 DEF Range
<1>5. r.id \notin ns
    BY <1>1, <1>2 DEF Nodes
<1>6. Nodes' = Nodes \cup ns
    BY <1>1, <1>2, <1>4 DEF Nodes
<1>7. ns # {} /\ \A e \in r.plan.edges : e[1] \in ns /\ e[2] \in ns
    BY <1>3 DEF Normal
<1>8. PICK last \in ns : \A n \in ns : (\A e \in r.plan.edges : e[1] # n) <=> n = last
    BY <1>3 DEF OneFinal
<1>9. (CHOOSE n \in ns : \A e \in r.plan.edges : e[1] # n) = last
    BY <1>8
<1>10. edges' = {<<IF e[1] = r.id THEN last ELSE e[1], e[2]>> : e \in edges}
                \cup {<<r.id, n>> : n \in {m \in ns : \A e \in r.plan.edges : e[2] # m}}
                \cup r.plan.edges
    BY <1>2, <1>9 DEF Grown
<1>11. \A n \in ns \ {last} : \E e \in r.plan.edges : e[1] = n
    BY <1>8
<1>12. \A n \in ns : state'[n] = "pending"
    BY <1>2, <1>4, <1>5
<1>13. state'[r.id] = "completed" /\ \A n \in Ids \ (ns \cup {r.id}) : state'[n] = state[n]
    BY <1>1, <1>2
<1> HIDE DEF ns
<1>14. \E l \in ns :
          /\ \A n \in ns \ {l} : \E e \in r.plan.edges : e[1] = n
          /\ edges' = {<<IF e[1] = r.id THEN l ELSE e[1], e[2]>> : e \in edges}
                      \cup {<<r.id, n>> : n \in {m \in ns : \A e \in r.plan.edges : e[2] # m}}
                      \cup r.plan.edges
    BY <1>10, <1>11
<1>15. QED
    BY <1>1, <1>2, <1>3, <1>4, <1>6, <1>7, <1>12, <1>13, <1>14 DEF ns

(* A plan keeps its one final node on its way to the loop.                 *)
LEMMA PlansEndStep ==
    ASSUME IInv, EInv, PlansEnd, [Next]_vars
    PROVE  PlansEnd'
<1>1. CASE results' = results
    BY <1>1 DEF PlansEnd
<1>2. ASSUME NEW g \in agents, SendResult(g) PROVE PlansEnd'
    <2>1. PICK kind \in Kinds(g), cost \in Costs :
            \E plan \in Answers(g.id, kind), pass \in (IF g.id = Verify THEN BOOLEAN ELSE {FALSE}) :
              results' = Append(results, [id |-> g.id, kind |-> kind, plan |-> plan, pass |-> pass,
                                          cost |-> cost])
        BY <1>2 DEF SendResult
    <2>2. PICK plan \in Answers(g.id, kind), pass \in (IF g.id = Verify THEN BOOLEAN ELSE {FALSE}) :
              results' = Append(results, [id |-> g.id, kind |-> kind, plan |-> plan, pass |-> pass,
                                          cost |-> cost])
        BY <2>1
    <2> DEFINE r == [id |-> g.id, kind |-> kind, plan |-> plan, pass |-> pass, cost |-> cost]
               ns == Range(plan.nodes)
               ends == {n \in ns : \A e \in plan.edges : e[1] # n}
    <2>3. r.plan = plan /\ results' = Append(results, r) /\ results \in Seq(Results)
        BY <2>2 DEF IInv, TypeOK
    <2>4. plan # NoPlan => OneFinal(plan)
        <3>1. SUFFICES ASSUME plan # NoPlan PROVE OneFinal(plan)
            OBVIOUS
        <3>2. plan \in Plans /\ Parsed(plan)
            BY <2>2, <3>1 DEF Answers
        <3>3. plan.nodes \in Seq(Ids)
            BY <3>2, RunAssumption
        <3>4. ends \subseteq Ids
            BY <3>3 DEF Range
        <3>5. IsFiniteSet(ends) /\ Cardinality(ends) = 1
            BY <3>2, <3>4, FS_Subset, RunAssumption DEF Parsed
        <3> HIDE DEF ends
        <3>6. PICK x : ends = {x}
            BY <3>5, FS_Singleton
        <3>7. x \in ns /\ \A n \in ns : (\A e \in plan.edges : e[1] # n) <=> n = x
            BY <3>6 DEF ends
        <3>8. QED
            BY <3>7 DEF OneFinal
    <2> HIDE DEF r
    <2>5. /\ DOMAIN results' = DOMAIN results \cup {Len(results) + 1}
          /\ results'[Len(results) + 1] = r /\ \A i \in DOMAIN results : results'[i] = results[i]
        BY <2>3
    <2>6. QED
        BY <2>3, <2>4, <2>5 DEF PlansEnd
<1>3. ASSUME Take(Head(results)) PROVE PlansEnd'
    <2>1. Collect(Head(results))
        BY <1>3 DEF Take
    <2>2. \A i \in DOMAIN results' : i + 1 \in DOMAIN results /\ results'[i] = results[i + 1]
        BY <2>1, TakenAlone DEF EInv
    <2>3. QED
        BY <2>2 DEF PlansEnd
<1>4. QED
    BY <1>1, <1>2, <1>3, StepKinds
       DEF Still, Start, TakeEdit, End, StopNode, SendMessage, Stall, UseTeam, taskVars

(* The fix step's only edge is kept.                                       *)
LEMMA FixLeadsStep ==
    ASSUME IInv, EInv, PlansEnd, FixLeads, [Next]_vars,
           TakeEdit => UNCHANGED <<state, order, edges>>
    PROVE  FixLeads'
<1>1. CASE edges' = edges
    BY <1>1 DEF FixLeads
<1>2. ASSUME Take(Head(results)) PROVE FixLeads'
    <2> DEFINE r == Head(results)
    <2> HIDE DEF r
    <2>1. Take(r) /\ Collect(r)
        BY <1>2, TakeKinds DEF r
    <2>2. CASE TakePlan(r)
        <3>1. LET ns == Range(r.plan.nodes) IN
              /\ r.id \in Planners /\ Fix \notin ns
              /\ \A e \in r.plan.edges : e[1] \in ns /\ e[2] \in ns
              /\ \E last \in ns :
                    edges' = {<<IF e[1] = r.id THEN last ELSE e[1], e[2]>> : e \in edges}
                             \cup {<<r.id, n>> : n \in {m \in ns : \A e \in r.plan.edges : e[2] # m}}
                             \cup r.plan.edges
            BY <2>1, <2>2, PlanTaken DEF EInv
        <3>2. r.id # Fix
            BY <3>1, RunAssumption, TeamAssumption, TakenAlone, <2>1 DEF EInv
        <3>3. QED
            BY <3>1, <3>2 DEF FixLeads
    <2>3. CASE TakeNextRound(r)
        BY <2>3 DEF TakeNextRound, NextRoundEdges, FixLeads
    <2>4. CASE ~TakePlan(r) /\ ~TakeNextRound(r)
        <3>1. edges' = edges
            BY <2>1, <2>4, TakeKinds
               DEF Back, Fail, TakeUserStop, TakeCancelled, TakeDone, TakeVerdict
        <3>2. QED
            BY <1>1, <3>1
    <2>5. QED
        BY <2>2, <2>3, <2>4
<1>3. QED
    BY <1>1, <1>2, StepKinds
       DEF Still, Start, End, StopNode, SendMessage, Stall, SendResult, UseTeam, dagVars

(* The run goes down its DAG.                                              *)
LEMMA RunOrderStep ==
    ASSUME IInv, EInv, PlansEnd, FixLeads, InRunOrder, [Next]_vars,
           TakeEdit => UNCHANGED <<state, order, edges>>
    PROVE  InRunOrder'
<1> DEFINE Past == DoneStates \cup {"running"}
<1>1. state \in [Ids -> States \cup {"absent"}] /\ \A e \in edges : e[1] \in Ids /\ e[2] \in Ids
    BY DEF IInv, TypeOK
<1>2. \A e \in edges : state[e[2]] \in Past => state[e[1]] \in DoneStates
    BY DEF InRunOrder
<1>3. ASSUME edges' = edges, NEW n \in Ids,
             \A m \in Ids \ {n} : state'[m] \in Past => state'[m] = state[m],
             \A m \in Ids \ {n} : state[m] \in DoneStates => state'[m] = state[m],
             state[n] \notin DoneStates, state'[n] \in Past => \A d \in Deps(edges, n) : state[d] \in DoneStates
      PROVE  InRunOrder'
    <2>1. ASSUME NEW e \in edges, state'[e[2]] \in Past PROVE state'[e[1]] \in DoneStates
        <3>1. state[e[1]] \in DoneStates
            <4>1. CASE e[2] = n
                BY <1>3, <2>1, <4>1 DEF Deps
            <4>2. CASE e[2] # n
                BY <1>1, <1>2, <1>3, <2>1, <4>2
            <4>3. QED
                BY <4>1, <4>2
        <3>2. QED
            BY <1>1, <1>3, <3>1
    <2>2. QED
        BY <1>3, <2>1 DEF InRunOrder
<1>4. CASE UNCHANGED <<state, edges>>
    BY <1>4 DEF InRunOrder
<1>5. CASE End
    <2>1. edges' = edges /\ state' = AfterTheEnd
        BY <1>5 DEF End
    <2>2. \A m \in Ids : /\ state'[m] \in Past => state'[m] = state[m]
                         /\ state[m] \in DoneStates => state'[m] = state[m]
        BY <2>1 DEF AfterTheEnd, DoneStates
    <2>3. QED
        BY <1>1, <1>2, <2>1, <2>2 DEF InRunOrder
<1>6. ASSUME NEW n \in Ids, Start(n) PROVE InRunOrder'
    <2>1. /\ state[n] = "pending" /\ state' = [state EXCEPT ![n] = "running"] /\ edges' = edges
          /\ \A d \in Deps(edges, n) : state[d] \in DoneStates
        BY <1>6, StartAlone DEF EInv
    <2>2. state[n] \notin DoneStates /\ \A m \in Ids \ {n} : state'[m] = state[m]
        BY <1>1, <2>1 DEF DoneStates
    <2>3. QED
        BY <1>3, <2>1, <2>2
<1>7. ASSUME Take(Head(results)) PROVE InRunOrder'
    <2> DEFINE r == Head(results)
    <2> HIDE DEF r
    <2>1. Take(r) /\ Collect(r)
        BY <1>7, TakeKinds DEF r
    <2>2. r.id \in Ids /\ state[r.id] = "running"
        BY <2>1, TakenAlone DEF EInv
    <2>3. \A d \in Deps(edges, r.id) : state[d] \in DoneStates
        BY <1>2, <2>2 DEF Deps
    <2>4. \A e \in edges : e[1] = r.id => state[e[2]] \notin Past
        BY <1>2, <2>2 DEF DoneStates
    <2>5. CASE TakePlan(r)
        <3> DEFINE ns == Range(r.plan.nodes)
        <3>1. /\ ns \subseteq Ids /\ ns \cap Nodes = {} /\ state'[r.id] = "completed"
              /\ \A n \in ns : state'[n] = "pending"
              /\ \A n \in Ids \ (ns \cup {r.id}) : state'[n] = state[n]
              /\ \A e \in r.plan.edges : e[1] \in ns /\ e[2] \in ns
            BY <2>1, <2>5, PlanTaken DEF EInv
        <3>2. PICK last \in ns :
                 edges' = {<<IF e[1] = r.id THEN last ELSE e[1], e[2]>> : e \in edges}
                          \cup {<<r.id, n>> : n \in {m \in ns : \A e \in r.plan.edges : e[2] # m}}
                          \cup r.plan.edges
            BY <2>1, <2>5, PlanTaken DEF EInv
        <3>3. \A n \in ns : state[n] = "absent"
            BY <3>1 DEF Nodes
        <3> HIDE DEF ns
        <3>4. ASSUME NEW e \in edges', state'[e[2]] \in Past PROVE state'[e[1]] \in DoneStates
            <4>1. e[2] \notin ns
                BY <3>1, <3>4 DEF DoneStates
            <4>2. PICK o \in edges : e = <<IF o[1] = r.id THEN last ELSE o[1], o[2]>>
                BY <3>1, <3>2, <4>1
            <4>3. state[o[2]] \in Past
                <5>1. CASE o[2] = r.id
                    BY <2>2, <5>1
                <5>2. CASE o[2] # r.id
                    BY <1>1, <3>1, <3>4, <4>1, <4>2, <5>2
                <5>3. QED
                    BY <5>1, <5>2
            <4>4. o[1] # r.id
                BY <2>4, <4>3
            <4>5. state[o[1]] \in DoneStates /\ o[1] \in Ids
                BY <1>1, <1>2, <4>3
            <4>6. o[1] \notin ns
                BY <3>3, <4>5 DEF DoneStates
            <4>7. QED
                BY <3>1, <4>2, <4>4, <4>5, <4>6
        <3>5. QED
            BY <3>4 DEF InRunOrder
    <2>6. CASE TakeNextRound(r)
        <3>1. /\ r.id = Verify /\ edges' = NextRoundEdges
              /\ state' = [state EXCEPT ![Verify] = "pending", ![Fix] = "pending"]
            BY <2>6 DEF TakeNextRound, NextRoundState
        <3>2. Fix \in Ids /\ Fix # Verify /\ Verify \in Ids
            BY <2>2, <3>1, RunAssumption, TeamAssumption
        <3>3. state'[Verify] = "pending" /\ state'[Fix] = "pending"
            BY <1>1, <3>1, <3>2
        <3>4. \A n \in Ids \ {Verify, Fix} : state'[n] = state[n]
            BY <1>1, <3>1
        <3>5. ASSUME NEW e \in edges', state'[e[2]] \in Past PROVE state'[e[1]] \in DoneStates
            <4>1. e[2] # Verify /\ e[2] # Fix
                BY <3>3, <3>5 DEF DoneStates
            <4>2. e \in edges
                BY <3>1, <4>1 DEF NextRoundEdges
            <4>3. state[e[2]] \in Past
                BY <1>1, <3>4, <3>5, <4>1, <4>2
            <4>4. state[e[1]] \in DoneStates /\ e[1] # Verify
                BY <1>2, <2>4, <3>1, <4>2, <4>3
            <4>5. e[1] # Fix
                BY <4>1, <4>2 DEF FixLeads
            <4>6. QED
                BY <1>1, <3>4, <4>2, <4>4, <4>5
        <3>6. QED
            BY <3>5 DEF InRunOrder
    <2>7. CASE ~TakePlan(r) /\ ~TakeNextRound(r)
        <3>1. edges' = edges
            BY <2>1, <2>7, TakeKinds
               DEF Back, Fail, TakeUserStop, TakeCancelled, TakeDone, TakeVerdict
        <3>2. \A m \in Ids \ {r.id} : /\ state'[m] \in Past => state'[m] = state[m]
                                      /\ state[m] \in DoneStates => state'[m] = state[m]
            BY <2>1, <2>7, TakeStates DEF EInv, DoneStates
        <3>3. state[r.id] \notin DoneStates
            BY <2>2 DEF DoneStates
        <3>4. QED
            BY <1>3, <2>2, <2>3, <3>1, <3>2, <3>3
    <2>8. QED
        BY <2>5, <2>6, <2>7
<1>8. QED
    BY <1>4, <1>5, <1>6, <1>7, StepKinds
       DEF Still, StopNode, SendMessage, Stall, SendResult, UseTeam, dagVars

(* The nodes of the only plan stand between the planner and what waited.   *)
LEMMA PlanStep ==
    ASSUME IInv, EInv, PlansEnd, OnePlanner, PlanInPlace, [Next]_vars,
           TakeEdit => UNCHANGED <<state, order, edges>>
    PROVE  PlanInPlace'
<1>1. state \in [Ids -> States \cup {"absent"}]
    BY DEF IInv, TypeOK
<1>2. \A q \in Planners \cap Ids : q \notin {Verify, Fix}
    BY RunAssumption, TeamAssumption
<1>3. ASSUME Nodes' = Nodes \/ Nodes' = Nodes \cup {Fix}, edges \subseteq edges',
             \A n \in Nodes : state[n] = "completed" /\ n \notin {Verify, Fix} => state'[n] = "completed"
      PROVE  PlanInPlace'
    <2>1. Added' = Added
        BY <1>3 DEF Added
    <2>2. Range(InitialNodes) \subseteq Nodes'
        BY <1>3 DEF PlanInPlace
    <2>3. \A q \in Planners \cap Ids : state[q] = "completed" => state'[q] = "completed"
        BY <1>1, <1>2, <1>3 DEF Nodes, PlanInPlace
    <2>4. QED
        BY <1>3, <2>1, <2>2, <2>3 DEF PlanInPlace
<1>4. CASE UNCHANGED <<state, edges>>
    BY <1>3, <1>4 DEF Nodes
<1>5. CASE End
    <2>1. edges' = edges /\ state' = AfterTheEnd
        BY <1>5 DEF End
    <2>2. Nodes' = Nodes /\ \A n \in Nodes : state[n] = "completed" => state'[n] = "completed"
        BY <2>1 DEF AfterTheEnd, Nodes
    <2>3. QED
        BY <1>3, <2>1, <2>2
<1>6. ASSUME NEW n \in Ids, Start(n) PROVE PlanInPlace'
    <2>1. state[n] = "pending" /\ state' = [state EXCEPT ![n] = "running"] /\ edges' = edges
        BY <1>6, StartAlone DEF EInv
    <2>2. Nodes' = Nodes /\ \A m \in Nodes : state[m] = "completed" => state'[m] = "completed"
        BY <1>1, <2>1 DEF Nodes
    <2>3. QED
        BY <1>3, <2>1, <2>2
<1>7. ASSUME Take(Head(results)) PROVE PlanInPlace'
    <2> DEFINE r == Head(results)
    <2> HIDE DEF r
    <2>1. Take(r) /\ Collect(r)
        BY <1>7, TakeKinds DEF r
    <2>2. r.id \in Ids /\ state[r.id] = "running"
        BY <2>1, TakenAlone DEF EInv
    <2>3. CASE TakePlan(r)
        <3> DEFINE ns == Range(r.plan.nodes)
        <3>1. /\ r.id \in Planners /\ state'[r.id] = "completed"
              /\ ns # {} /\ ns \cap Nodes = {} /\ Fix \notin ns /\ Nodes' = Nodes \cup ns
              /\ \A e \in r.plan.edges : e[1] \in ns /\ e[2] \in ns
            BY <2>1, <2>3, PlanTaken DEF EInv
        <3>2. PICK last \in ns :
                 /\ \A n \in ns \ {last} : \E e \in r.plan.edges : e[1] = n
                 /\ edges' = {<<IF e[1] = r.id THEN last ELSE e[1], e[2]>> : e \in edges}
                             \cup {<<r.id, n>> : n \in {m \in ns : \A e \in r.plan.edges : e[2] # m}}
                             \cup r.plan.edges
            BY <2>1, <2>3, PlanTaken DEF EInv
        <3> HIDE DEF ns
        <3>3. Added = {}
            BY <2>2, <3>1 DEF PlanInPlace
        <3>4. InitialEdges \subseteq edges /\ Range(InitialNodes) \subseteq Nodes
            BY <3>3 DEF PlanInPlace
        <3>5. Added' = ns
            BY <3>1, <3>3, <3>4 DEF Added
        <3>6. \A q \in Planners \cap Ids : q = r.id
            BY <2>2, <3>1 DEF OnePlanner
        <3>7. ASSUME NEW n \in ns \ {last} PROVE \E m \in ns : <<n, m>> \in edges'
            <4>1. PICK e \in r.plan.edges : e[1] = n
                BY <3>2
            <4>2. r.plan.edges \subseteq Ids \X Ids
                <5>1. r.plan # NoPlan /\ r \in Results
                    BY <2>1, <2>3, TakenAlone DEF EInv, TakePlan
                <5>2. QED
                    BY <5>1, RunAssumption DEF Results
            <4>3. e = <<n, e[2]>> /\ e[2] \in ns
                BY <3>1, <4>1, <4>2
            <4>4. QED
                BY <3>2, <4>3
        <3>8. ASSUME NEW e \in InitialEdges, e[1] \in Planners PROVE <<last, e[2]>> \in edges'
            BY <3>2, <3>4, <3>6, <3>8, RunAssumption
        <3>9. QED
            BY <3>1, <3>4, <3>5, <3>6, <3>7, <3>8 DEF PlanInPlace
    <2>4. CASE TakeNextRound(r)
        <3>1. /\ edges' = NextRoundEdges
              /\ state' = [state EXCEPT ![Verify] = "pending", ![Fix] = "pending"]
            BY <2>4 DEF TakeNextRound, NextRoundState
        <3>2. r.id = Verify /\ Verify \in Ids /\ Fix \in Ids
            BY <2>2, <2>4, RunAssumption, TeamAssumption DEF TakeNextRound
        <3>3. Nodes' = Nodes \cup {Fix}
            BY <1>1, <2>2, <3>1, <3>2 DEF Nodes
        <3>4. edges \subseteq edges'
            BY <3>1 DEF NextRoundEdges
        <3>5. \A n \in Nodes : n \notin {Verify, Fix} => state'[n] = state[n]
            BY <1>1, <3>1 DEF Nodes
        <3>6. QED
            BY <1>3, <3>3, <3>4, <3>5
    <2>5. CASE ~TakePlan(r) /\ ~TakeNextRound(r)
        <3>1. edges' = edges
            BY <2>1, <2>5, TakeKinds
               DEF Back, Fail, TakeUserStop, TakeCancelled, TakeDone, TakeVerdict
        <3>2. Nodes' = Nodes
            <4>1. CASE Back(r) \/ TakeDone(r) \/ TakeVerdict(r) \/ TakeCancelled(r)
                BY <1>1, <2>2, <4>1 DEF Back, TakeDone, TakeVerdict, TakeCancelled, Nodes
            <4>2. ASSUME NEW s \in {"failed", "cancelled"},
                         state' = Block(Nodes, edges, [state EXCEPT ![r.id] = s])
                  PROVE  Nodes' = Nodes
                <5> DEFINE st == [state EXCEPT ![r.id] = s]
                <5>1. /\ st \in [Ids -> States \cup {"absent"}] /\ st[r.id] = s
                      /\ \A n \in Ids \ {r.id} : st[n] = state[n]
                    BY <1>1, <2>2 DEF States
                <5>2. state' = Block(Nodes, edges, st)
                    BY <4>2
                <5> HIDE DEF st
                <5>3. \A n \in Ids : state'[n] = st[n] \/ (st[n] = "pending" /\ state'[n] = "blocked")
                    BY <5>1, <5>2, BlockTyped
                <5>4. QED
                    BY <2>2, <5>1, <5>3 DEF Nodes
            <4>3. QED
                BY <2>1, <2>5, <4>1, <4>2, TakeKinds DEF Fail, TakeUserStop
        <3>3. \A n \in Nodes : state[n] = "completed" => state'[n] = "completed"
            BY <2>1, <2>2, <2>5, TakeStates DEF EInv, Nodes
        <3>4. QED
            BY <1>3, <3>1, <3>2, <3>3
    <2>6. QED
        BY <2>3, <2>4, <2>5
<1>8. QED
    BY <1>4, <1>5, <1>6, <1>7, StepKinds
       DEF Still, StopNode, SendMessage, Stall, SendResult, UseTeam, dagVars

-----------------------------------------------------------------------------
(* Runs whose plan is never edited.                                        *)

LEMMA InitOrder ==
    ASSUME Init, OrderAtStart
    PROVE  PlansEnd /\ FixLeads /\ InRunOrder /\ PlanInPlace
<1>1. \A n \in Ids : state[n] = IF n \in Kept THEN "completed"
                                ELSE IF n \in Range(InitialNodes) THEN "pending" ELSE "absent"
    BY DEF Init
<1>2. edges = InitialEdges /\ results = <<>>
    BY DEF Init
<1>3. Range(InitialNodes) \subseteq Ids /\ Kept \subseteq Range(InitialNodes)
    BY RunAssumption DEF Range
<1>4. \A e \in InitialEdges : e[1] \in Ids /\ e[2] \in Ids
    BY RunAssumption
<1>5. PlansEnd /\ FixLeads
    BY <1>2 DEF PlansEnd, FixLeads, OrderAtStart
<1>6. InRunOrder
    BY <1>1, <1>2, <1>4 DEF InRunOrder, OrderAtStart, DoneStates
<1>7. PlanInPlace
    <2>1. Nodes = Range(InitialNodes)
        BY <1>1, <1>3 DEF Nodes
    <2>2. Added = {}
        BY <2>1 DEF Added
    <2>3. QED
        BY <1>2, <2>1, <2>2 DEF PlanInPlace
<1>8. QED
    BY <1>5, <1>6, <1>7

(* No answer on the plan of such a run changes it.                         *)
LEMMA PlanStays ==
    ASSUME NeverEdited
    PROVE  Spec => [][TakeEdit => UNCHANGED <<state, order, edges>>]_vars
<1> DEFINE Never == Approval = "off" => pc # "awaiting"
<1>1. Init => Never
    BY DEF Init
<1>2. Never /\ [Next]_vars => Never'
    BY NeverAwaits
<1>3. IInv /\ Never => (TakeEdit => UNCHANGED <<state, order, edges>>)
    BY EditSent DEF NeverEdited
<1>4. QED
    BY <1>1, <1>2, <1>3, Invariant, PTL DEF Spec

(* A step that leaves the run alone is no edit that changes it.            *)
LEMMA EditsNothing ==
    [TakeEdit => UNCHANGED <<state, order, edges>>]_vars <=> (TakeEdit => UNCHANGED <<state, order, edges>>)
    BY DEF vars, dagVars

(* A run whose plan is never edited goes down its DAG.                     *)
THEOREM UneditedKeepsOrder ==
    ASSUME NeverEdited, LoopAtStart, OrderAtStart
    PROVE  Spec => []InRunOrder
<1>1. Init => PlansEnd /\ FixLeads /\ InRunOrder
    BY InitOrder
<1>2. IInv /\ EInv /\ PlansEnd /\ FixLeads /\ InRunOrder /\ [Next]_vars
      /\ [TakeEdit => UNCHANGED <<state, order, edges>>]_vars => PlansEnd' /\ FixLeads' /\ InRunOrder'
    BY PlansEndStep, FixLeadsStep, RunOrderStep, EditsNothing
<1>3. Spec => LoopKept
    BY UneditedKeepsLoop
<1>4. QED
    BY <1>1, <1>2, <1>3, PlanStays, Invariant, Endings, PTL DEF Spec

(* In a run in order, what comes after the plan waits for all its nodes.   *)
LEMMA PlanFirst ==
    ASSUME IInv, InRunOrder, PlanInPlace
    PROVE  AfterThePlan
<1> SUFFICES ASSUME NEW e \in InitialEdges, e[1] \in Planners, state[e[2]] \in {"running", "completed"}
             PROVE  \A n \in Added : state[n] \in DoneStates
    BY DEF AfterThePlan, Added
<1> DEFINE S == {n \in Added : state[n] \notin DoneStates}
<1>1. SUFFICES ASSUME S # {} PROVE FALSE
    OBVIOUS
<1>2. Added \subseteq Nodes /\ S \subseteq Nodes /\ S \subseteq Ids
    BY DEF Added, Nodes
<1>3. IsFiniteSet(S)
    BY <1>2, FS_Subset, RunAssumption
<1>4. Acyclic(Nodes, edges)
    BY DEF IInv, StaysDag, Normal
<1>5. PICK n \in S : \A m \in S : <<n, m>> \notin edges
    <2> HIDE DEF S
    <2>1. QED
        BY <1>1, <1>2, <1>3, <1>4, LastNode
<1>6. PICK last \in Added :
         /\ \A o \in Added \ {last} : \E m \in Added : <<o, m>> \in edges
         /\ \A i \in InitialEdges : i[1] \in Planners => <<last, i[2]>> \in edges
    BY <1>1 DEF PlanInPlace
<1>7. CASE n = last
    <2>1. <<last, e[2]>> \in edges
        BY <1>6
    <2>2. state[last] \in DoneStates
        BY <2>1 DEF InRunOrder, DoneStates
    <2>3. QED
        BY <1>7, <2>2
<1>8. CASE n # last
    <2>1. PICK m \in Added : <<n, m>> \in edges
        BY <1>6, <1>8
    <2>2. state[m] \in DoneStates
        BY <1>5, <2>1
    <2>3. state[n] \in DoneStates
        BY <2>1, <2>2 DEF InRunOrder
    <2>4. QED
        BY <2>3
<1>9. QED
    BY <1>7, <1>8

(* The nodes of the only planner's plan stay in place.                     *)
THEOREM PlanKept ==
    ASSUME NeverEdited, LoopAtStart, OrderAtStart, OnePlanner
    PROVE  Spec => []PlanInPlace
<1>1. Init => PlansEnd /\ PlanInPlace
    BY InitOrder
<1>2. IInv /\ EInv /\ PlansEnd /\ PlanInPlace /\ [Next]_vars
      /\ [TakeEdit => UNCHANGED <<state, order, edges>>]_vars => PlansEnd' /\ PlanInPlace'
    BY PlansEndStep, PlanStep, EditsNothing
<1>3. Spec => LoopKept
    BY UneditedKeepsLoop
<1>4. QED
    BY <1>1, <1>2, <1>3, PlanStays, Invariant, Endings, PTL DEF Spec

(* What depended on the planner starts only after the whole plan is done.  *)
THEOREM PlanBeforeDependents ==
    ASSUME NeverEdited, LoopAtStart, OrderAtStart, OnePlanner
    PROVE  Spec => []AfterThePlan
<1>1. IInv /\ InRunOrder /\ PlanInPlace => AfterThePlan
    BY PlanFirst
<1>2. QED
    BY <1>1, Invariant, UneditedKeepsOrder, PlanKept, PTL

(* In a run that is never edited no two writing steps run unshared.        *)
THEOREM WritersApartUnedited ==
    ASSUME NeverEdited, LoopAtStart, OrderAtStart
    PROVE  Spec => []WritersApart
BY UneditedKeepsOrder, WritersKeptApart, PTL

-----------------------------------------------------------------------------
(* The contract: initial states map to initial states and every step to a  *)
(* step of DagContract or to none (the calls of the user, messages,        *)
(* stalls, results on their way).                                          *)

(* What the user sees of each state that the code assigns.                 *)
LEMMA PhaseKinds ==
    ASSUME NEW s \in States \cup {"absent"}, s \notin {"scheduled", "paused"}
    PROVE  /\ PhaseOf(s) = "waiting" <=> s = "pending"
           /\ PhaseOf(s) = "working" <=> s = "running"
           /\ PhaseOf(s) = "finished" <=> s \in DoneStates
           /\ PhaseOf(s) = "stopped" <=> s \in StopStates
           /\ PhaseOf(s) = "absent" <=> s = "absent"
           /\ PhaseOf(s) \in Contract!Phases
BY DEF PhaseOf, States, DoneStates, StopStates, Contract!Phases

(* The same for the phases of the contract, before and after a step.       *)
LEMMA Seen ==
    ASSUME TypeOK, EndsOnce
    PROVE  /\ \A n \in Ids : /\ PhaseOf(state[n]) = "waiting" <=> state[n] = "pending"
                             /\ PhaseOf(state[n]) = "working" <=> state[n] = "running"
                             /\ PhaseOf(state[n]) = "finished" <=> state[n] \in DoneStates
                             /\ PhaseOf(state[n]) = "stopped" <=> state[n] \in StopStates
                             /\ PhaseOf(state[n]) = "absent" <=> state[n] = "absent"
           /\ Contract!Working = Running
<1>1. \A n \in Ids : state[n] \in States \cup {"absent"} /\ state[n] \notin {"scheduled", "paused"}
    BY DEF TypeOK, EndsOnce
<1>2. \A n \in Ids : /\ PhaseOf(state[n]) = "waiting" <=> state[n] = "pending"
                     /\ PhaseOf(state[n]) = "working" <=> state[n] = "running"
                     /\ PhaseOf(state[n]) = "finished" <=> state[n] \in DoneStates
                     /\ PhaseOf(state[n]) = "stopped" <=> state[n] \in StopStates
                     /\ PhaseOf(state[n]) = "absent" <=> state[n] = "absent"
    BY <1>1, PhaseKinds
<1>3. Contract!Working = Running
    BY <1>2 DEF Contract!Working, Running
<1>4. QED
    BY <1>2, <1>3

-----------------------------------------------------------------------------
(* The image of a finite set is not larger than the set.                   *)
LEMMA ImageSize ==
    ASSUME NEW S, IsFiniteSet(S), NEW f, f \in [S -> {f[x] : x \in S}]
    PROVE  LET T == {f[x] : x \in S} IN
           IsFiniteSet(T) /\ Cardinality(T) <= Cardinality(S)
<1> DEFINE T == {f[x] : x \in S}
<1>1. f \in Surjection(S, T)
    BY DEF Surjection
<1> HIDE DEF T
<1>2. IsFiniteSet(T) /\ Cardinality(T) <= Cardinality(S)
    BY <1>1, FS_Surjection
<1>3. QED
    BY <1>2 DEF T

(* There are no more running nodes than the loop has counted.              *)
LEMMA RunningCounted ==
    ASSUME IInv
    PROVE  IsFiniteSet(Running) /\ Cardinality(Running) <= InWork
           /\ Cardinality(Running) \in Nat /\ InWork \in Nat
<1> DEFINE gs == {g.id : g \in agents}
           rs == {results[i].id : i \in DOMAIN results}
<1>1. IsFiniteSet(gs) /\ Cardinality(gs) <= Cardinality(agents)
    <2> DEFINE f == [g \in agents |-> g.id]
    <2>1. gs = {f[g] : g \in agents}
        OBVIOUS
    <2>2. f \in [agents -> {f[g] : g \in agents}]
        OBVIOUS
    <2>3. IsFiniteSet(agents)
        BY DEF IInv, TypeOK
    <2> HIDE DEF f, gs
    <2>4. QED
        BY <2>1, <2>2, <2>3, ImageSize
<1>2. IsFiniteSet(rs) /\ Cardinality(rs) <= Len(results)
    <2> DEFINE f == [i \in DOMAIN results |-> results[i].id]
    <2>1. rs = {f[i] : i \in DOMAIN results}
        OBVIOUS
    <2>2. f \in [DOMAIN results -> {f[i] : i \in DOMAIN results}]
        OBVIOUS
    <2>3. IsFiniteSet(DOMAIN results) /\ Cardinality(DOMAIN results) = Len(results)
        <3>1. DOMAIN results = 1 .. Len(results) /\ Len(results) \in Nat
            BY DEF IInv, TypeOK
        <3>2. ASSUME NEW k \in Nat
              PROVE  IsFiniteSet(1 .. k) /\ Cardinality(1 .. k) = k
            <4>1. IsFiniteSet(1 .. k) /\ Cardinality(1 .. k) = IF 1 > k THEN 0 ELSE k - 1 + 1
                BY FS_Interval
            <4>2. QED
                BY <4>1
        <3>3. QED
            BY <3>1, <3>2
    <2> HIDE DEF f, rs
    <2>4. QED
        BY <2>1, <2>2, <2>3, ImageSize
<1>3. Workers = gs \cup rs
    BY DEF Workers
<1>4. Running \subseteq Workers
    BY DEF IInv, Owned
<1> HIDE DEF gs, rs
<1>5. /\ IsFiniteSet(Workers) /\ Cardinality(Workers) \in Nat
      /\ Cardinality(gs) \in Nat /\ Cardinality(rs) \in Nat
      /\ Cardinality(Workers) <= Cardinality(gs) + Cardinality(rs)
    <2>1. /\ IsFiniteSet(gs \cup rs)
          /\ Cardinality(gs \cup rs) = Cardinality(gs) + Cardinality(rs) - Cardinality(gs \cap rs)
        BY <1>1, <1>2, FS_Union
    <2>2. IsFiniteSet(gs \cap rs)
        BY <1>1, FS_Intersection
    <2>3. /\ Cardinality(gs \cup rs) \in Nat /\ Cardinality(gs) \in Nat /\ Cardinality(rs) \in Nat
          /\ Cardinality(gs \cap rs) \in Nat
        BY <1>1, <1>2, <2>1, <2>2, FS_CardinalityType
    <2>4. QED
        BY <1>3, <2>1, <2>3
<1>6. IsFiniteSet(Running) /\ Cardinality(Running) <= Cardinality(Workers)
      /\ Cardinality(Running) \in Nat
    BY <1>4, <1>5, FS_Subset, FS_CardinalityType
<1>7. Cardinality(agents) \in Nat /\ Len(results) \in Nat /\ InWork \in Nat
    BY WorkCounts DEF IInv
<1>8. QED
    BY <1>1, <1>2, <1>5, <1>6, <1>7 DEF InWork

-----------------------------------------------------------------------------
(* A node is blocked only for a stopped node before it.                    *)
LEMMA BlockReason ==
    ASSUME NEW ns, NEW es, NEW st, ns \subseteq DOMAIN st,
           \A e \in es : e[1] \in DOMAIN st /\ e[2] \in DOMAIN st,
           NEW m \in Blocked(ns, es, st)
    PROVE  \E e \in es : e[2] = m /\ Block(ns, es, st)[e[1]] \in StopStates
<1> SUFFICES ASSUME \A e \in es : e[2] = m => Block(ns, es, st)[e[1]] \notin StopStates
             PROVE  FALSE
    OBVIOUS
<1> DEFINE all == Blocked(ns, es, st)
           B == all \ {m}
<1>1. all \subseteq ns /\ \A n \in all : st[n] = "pending"
    BY DEF Blocked
<1>2. \A n \in DOMAIN st : Block(ns, es, st)[n] = IF n \in all THEN "blocked" ELSE st[n]
    BY DEF Block
<1>3. ASSUME NEW e \in es, e[2] \in ns, st[e[2]] = "pending", st[e[1]] \in StopStates \/ e[1] \in all
      PROVE  e[2] \in all
    <2>1. ASSUME NEW C \in SUBSET ns, BlockClosed(C, ns, es, st) PROVE e[2] \in C
        <3>1. e[1] \in all => e[1] \in C
            BY <2>1 DEF Blocked
        <3>2. QED
            BY <1>3, <2>1, <3>1 DEF BlockClosed
    <2>2. QED
        BY <1>3, <2>1 DEF Blocked
<1> HIDE DEF all
<1>4. ASSUME NEW e \in es, e[2] \in ns, st[e[2]] = "pending", st[e[1]] \in StopStates \/ e[1] \in B
      PROVE  e[2] \in B
    <2>1. e[2] \in all
        BY <1>3, <1>4
    <2>2. Block(ns, es, st)[e[1]] \in StopStates
        BY <1>1, <1>2, <1>4 DEF StopStates
    <2>3. QED
        BY <2>1, <2>2
<1>5. BlockClosed(B, ns, es, st)
    BY <1>4 DEF BlockClosed
<1>6. B \in SUBSET ns
    BY <1>1
<1>7. m \in B
    BY <1>5, <1>6 DEF Blocked
<1>8. QED
    BY <1>7

-----------------------------------------------------------------------------
(* What the scheduler changes, seen as the contract's steps.               *)

(* A step that changes neither states nor edges nor ends the run.          *)
LEMMA Unseen ==
    ASSUME UNCHANGED <<state, edges>>, pc' = "ended" <=> pc = "ended"
    PROVE  UNCHANGED Contract!vars
BY DEF Contract!vars

(* A node starts as the contract says.                                     *)
LEMMA StartSeen ==
    ASSUME IInv, EInv, EInv', TypeOK', NEW n \in Ids, Start(n)
    PROVE  Contract!Start(n)
<1>1. /\ state[n] = "pending" /\ state' = [state EXCEPT ![n] = "running"] /\ edges' = edges
      /\ \A d \in Deps(edges, n) : state[d] \in DoneStates
    BY StartAlone DEF EInv
<1>2. TypeOK /\ EndsOnce /\ state \in [Ids -> States \cup {"absent"}]
      /\ \A e \in edges : e[1] \in Ids /\ e[2] \in Ids
    BY DEF IInv, TypeOK, EInv
<1>3. [k \in Ids |-> PhaseOf(state[k])][n] = "waiting"
    BY <1>1, <1>2, Seen
<1>4. ASSUME NEW m \in Contract!Earlier(n)
      PROVE  [k \in Ids |-> PhaseOf(state[k])][m] = "finished"
    <2>1. m \in Deps(edges, n) /\ m \in Ids
        BY <1>2, <1>4 DEF Contract!Earlier, Deps
    <2>2. QED
        BY <1>1, <1>2, <2>1, Seen
<1>5. Cardinality(Contract!Working) < Parallel
    <2>1. InWork < Parallel
        BY DEF Start, IInv, TurnHolds
    <2>2. Contract!Working = Running
        BY <1>2, Seen
    <2>3. QED
        BY <2>1, <2>2, RunningCounted, RunAssumption
<1>6. \A k \in Ids : state'[k] = IF k = n THEN "running" ELSE state[k]
    BY <1>1, <1>2
<1>7. [k \in Ids |-> PhaseOf(state[k])]' = [[k \in Ids |-> PhaseOf(state[k])] EXCEPT ![n] = "working"]
    BY <1>6 DEF PhaseOf, DoneStates, StopStates
<1>8. Contract!Cardinality(Contract!Working) < Parallel
    BY <1>5 DEF Cardinality, Contract!Cardinality
<1>9. QED
    BY <1>1, <1>3, <1>4, <1>8, <1>7 DEF Contract!Start

(* A node that goes back waits once more.                                  *)
LEMMA BackSeen ==
    ASSUME IInv, EInv, NEW r, Collect(r), Back(r)
    PROVE  Contract!Requeue(r.id)
<1>1. r.id \in Ids /\ state[r.id] = "running"
    BY TakenAlone DEF EInv
<1>2. TypeOK /\ EndsOnce /\ state \in [Ids -> States \cup {"absent"}]
    BY DEF IInv, TypeOK, EInv
<1>3. \A k \in Ids : state'[k] = IF k = r.id THEN "pending" ELSE state[k]
    BY <1>1, <1>2 DEF Back
<1>4. [k \in Ids |-> PhaseOf(state[k])][r.id] = "working"
    BY <1>1, <1>2, Seen
<1>5. [k \in Ids |-> PhaseOf(state[k])]' = [[k \in Ids |-> PhaseOf(state[k])] EXCEPT ![r.id] = "waiting"]
    BY <1>3 DEF PhaseOf, DoneStates, StopStates
<1>6. QED
    BY <1>4, <1>5 DEF Contract!Requeue, Back

(* A node that fails or is stopped stops only what comes after it.         *)
LEMMA StopSeen ==
    ASSUME IInv, EInv, TypeOK', EndsOnce', NEW r, Collect(r),
           Fail(r.id) \/ TakeUserStop(r) \/ TakeCancelled(r)
    PROVE  Contract!Stop(r.id)
<1>1. r.id \in Ids /\ state[r.id] = "running"
    BY TakenAlone DEF EInv
<1>2. /\ TypeOK /\ EndsOnce /\ state \in [Ids -> States \cup {"absent"}]
      /\ edges' = edges /\ \A e \in edges : e[1] \in Ids /\ e[2] \in Ids
    BY DEF IInv, TypeOK, EInv, Fail, TakeUserStop, TakeCancelled
<1>3. /\ state'[r.id] \in {"failed", "cancelled"}
      /\ \A m \in Ids \ {r.id} :
            \/ state'[m] = state[m]
            \/ /\ state[m] = "pending" /\ state'[m] = "blocked"
               /\ \E e \in edges : e[2] = m /\ state'[e[1]] \in StopStates
    <2>1. CASE TakeCancelled(r)
        BY <1>1, <1>2, <2>1 DEF TakeCancelled
    <2>2. CASE ~TakeCancelled(r)
        <3>1. PICK s \in {"failed", "cancelled"} :
                state' = Block(Nodes, edges, [state EXCEPT ![r.id] = s])
            BY <2>2 DEF Fail, TakeUserStop
        <3> DEFINE st == [state EXCEPT ![r.id] = s]
        <3>2. /\ st \in [Ids -> States \cup {"absent"}] /\ st[r.id] = s
              /\ \A n \in Ids \ {r.id} : st[n] = state[n]
            BY <1>1, <1>2 DEF States
        <3>3. state' = Block(Nodes, edges, st)
            BY <3>1
        <3> HIDE DEF st
        <3>4. \A n \in Ids : \/ n \notin Blocked(Nodes, edges, st) /\ state'[n] = st[n]
                             \/ /\ n \in Blocked(Nodes, edges, st)
                                /\ st[n] = "pending" /\ state'[n] = "blocked"
            BY <3>2, <3>3 DEF Block, Blocked
        <3>5. \A m \in Blocked(Nodes, edges, st) :
                \E e \in edges : e[2] = m /\ state'[e[1]] \in StopStates
            <4>1. Nodes \subseteq DOMAIN st /\ \A e \in edges : e[1] \in DOMAIN st /\ e[2] \in DOMAIN st
                BY <1>2, <3>2 DEF Nodes
            <4>2. QED
                BY <3>3, <4>1, BlockReason
        <3>6. QED
            BY <1>1, <3>2, <3>4, <3>5
    <2>3. QED
        BY <2>1, <2>2
<1>4. PhaseOf(state[r.id]) = "working" /\ PhaseOf(state'[r.id]) = "stopped"
    BY <1>1, <1>3 DEF PhaseOf, DoneStates, StopStates
<1>5. ASSUME NEW m \in Ids \ {r.id}
      PROVE  \/ PhaseOf(state'[m]) = PhaseOf(state[m])
             \/ /\ PhaseOf(state[m]) = "waiting" /\ PhaseOf(state'[m]) = "stopped"
                /\ \E k \in Contract!Earlier(m) : k \in Ids /\ PhaseOf(state'[k]) = "stopped"
    <2>1. CASE state'[m] = state[m]
        BY <2>1
    <2>2. CASE state'[m] # state[m]
        <3>1. state[m] = "pending" /\ state'[m] = "blocked"
            BY <1>3, <1>5, <2>2
        <3>2. PICK e \in edges : e[2] = m /\ state'[e[1]] \in StopStates
            BY <1>3, <1>5, <2>2
        <3>3. e[1] \in Contract!Earlier(m) /\ e[1] \in Ids
            BY <1>2, <3>2 DEF Contract!Earlier
        <3>4. PhaseOf(state'[e[1]]) = "stopped"
            BY <3>2 DEF PhaseOf, DoneStates, StopStates
        <3>5. PhaseOf(state[m]) = "waiting" /\ PhaseOf(state'[m]) = "stopped"
            BY <3>1 DEF PhaseOf, DoneStates, StopStates
        <3>6. QED
            BY <3>3, <3>4, <3>5
    <2>3. QED
        BY <2>1, <2>2
<1>6. QED
    BY <1>1, <1>2, <1>4, <1>5 DEF Contract!Stop

(* A node finishes.                                                        *)
LEMMA FinishSeen ==
    ASSUME IInv, EInv, NEW r, Collect(r), TakeDone(r) \/ TakeVerdict(r)
    PROVE  Contract!Finish(r.id)
<1>1. r.id \in Ids /\ state[r.id] = "running"
    BY TakenAlone DEF EInv
<1>2. state \in [Ids -> States \cup {"absent"}]
    BY DEF IInv, TypeOK
<1>3. state' = [state EXCEPT ![r.id] = "completed"] /\ edges' = edges
    BY DEF TakeDone, TakeVerdict
<1>4. state'[r.id] = "completed" /\ \A n \in Ids \ {r.id} : state'[n] = state[n]
    BY <1>1, <1>2, <1>3
<1>5. PhaseOf(state[r.id]) = "working" /\ PhaseOf(state'[r.id]) = "finished"
    BY <1>1, <1>4 DEF PhaseOf, DoneStates, StopStates
<1>6. Contract!OthersStay({r.id})
    BY <1>4 DEF Contract!OthersStay
<1>7. Contract!Regrow
    BY <1>3 DEF Contract!Regrow
<1>8. QED
    BY <1>1, <1>5, <1>6, <1>7 DEF Contract!Finish

(* A planner finishes and its plan joins; what works keeps its edges.      *)
LEMMA PlanSeen ==
    ASSUME IInv, EInv, PlansEnd, NEW r, Take(r), TakePlan(r)
    PROVE  Contract!Finish(r.id)
<1> DEFINE ns == Range(r.plan.nodes)
<1>1. /\ r.id \in Planners /\ state[r.id] = "running" /\ state'[r.id] = "completed"
      /\ ns \subseteq Ids /\ ns \cap Nodes = {}
      /\ \A n \in ns : state'[n] = "pending"
      /\ \A n \in Ids \ (ns \cup {r.id}) : state'[n] = state[n]
      /\ \A e \in r.plan.edges : e[1] \in ns /\ e[2] \in ns
    BY PlanTaken DEF EInv
<1>2. PICK last \in ns :
         edges' = {<<IF e[1] = r.id THEN last ELSE e[1], e[2]>> : e \in edges}
                  \cup {<<r.id, n>> : n \in {m \in ns : \A e \in r.plan.edges : e[2] # m}}
                  \cup r.plan.edges
    BY PlanTaken DEF EInv
<1> HIDE DEF ns
<1>3. r.id \in Ids /\ r.id # Fix
    BY <1>1, TakenAlone, RunAssumption, TeamAssumption DEF EInv, Take
<1>4. \A n \in ns : state[n] = "absent"
    BY <1>1 DEF Nodes
<1>5. PhaseOf(state[r.id]) = "working" /\ PhaseOf(state'[r.id]) = "finished"
    BY <1>1 DEF PhaseOf, DoneStates, StopStates
<1>6. Contract!OthersStay({r.id})
    <2>1. ASSUME NEW n \in Ids \ {r.id}
          PROVE  \/ PhaseOf(state'[n]) = PhaseOf(state[n])
                 \/ PhaseOf(state[n]) = "absent" /\ PhaseOf(state'[n]) = "waiting"
        <3>1. CASE n \in ns
            BY <1>1, <1>4, <3>1 DEF PhaseOf, DoneStates, StopStates
        <3>2. CASE n \notin ns
            BY <1>1, <3>2
        <3>3. QED
            BY <3>1, <3>2
    <2>2. QED
        BY <2>1 DEF Contract!OthersStay
<1>7. Contract!Regrow
    <2>1. ASSUME NEW e \in Ids \X Ids, state'[e[2]] = "running"
          PROVE  e \in edges <=> e \in edges'
        <3>1. e[2] \in Ids /\ e = <<e[1], e[2]>>
            OBVIOUS
        <3>2. e[2] \notin ns /\ state[e[2]] = "running"
            BY <1>1, <2>1, <3>1
        <3>3. \A o \in edges : o[2] = e[2] => o[1] # r.id
            <4>1. ASSUME NEW o \in edges, o[2] = e[2], o[1] = r.id PROVE FALSE
                <5>1. r.id \in Deps(edges, e[2]) \ {Fix}
                    BY <1>3, <4>1 DEF Deps
                <5>2. state[r.id] \in DoneStates
                    BY <3>1, <3>2, <5>1 DEF IInv, DepsDone, Running
                <5>3. QED
                    BY <1>1, <5>2 DEF DoneStates
            <4>2. QED
                BY <4>1
        <3>4. ASSUME e \in edges PROVE e \in edges'
            BY <1>2, <3>1, <3>3, <3>4
        <3>5. ASSUME e \in edges' PROVE e \in edges
            <4>1. PICK o \in edges : e = <<IF o[1] = r.id THEN last ELSE o[1], o[2]>>
                BY <1>1, <1>2, <3>2, <3>5
            <4>2. o[1] # r.id
                BY <3>3, <4>1
            <4>3. o = <<o[1], o[2]>>
                BY DEF IInv, TypeOK
            <4>4. QED
                BY <4>1, <4>2, <4>3
        <3>6. QED
            BY <3>4, <3>5
    <2>2. ASSUME NEW e \in Ids \X Ids, PhaseOf(state'[e[2]]) = "working"
          PROVE  e \in edges <=> e \in edges'
        BY <2>1, <2>2 DEF PhaseOf
    <2>3. QED
        BY <2>2 DEF Contract!Regrow
<1>8. QED
    BY <1>3, <1>5, <1>6, <1>7 DEF Contract!Finish

(* The next round: fix and verify wait, and nothing else changes.          *)
LEMMA RoundSeen ==
    ASSUME IInv, EInv, NEW r, Take(r), TakeNextRound(r)
    PROVE  Contract!NextRound
<1>1. r.id \in Ids /\ state[r.id] = "running" /\ r.id = Verify
    BY TakenAlone DEF EInv, Take, TakeNextRound
<1>2. Fix \in Ids /\ Verify \in Ids /\ Fix # Verify
    BY <1>1, RunAssumption, TeamAssumption
<1>3. state' = [state EXCEPT ![Verify] = "pending", ![Fix] = "pending"] /\ edges' = NextRoundEdges
    BY DEF TakeNextRound, NextRoundState
<1>4. state \in [Ids -> States \cup {"absent"}]
    BY DEF IInv, TypeOK
<1>5. /\ state'[Verify] = "pending" /\ state'[Fix] = "pending"
      /\ \A n \in Ids \ {Verify, Fix} : state'[n] = state[n]
    BY <1>2, <1>3, <1>4
<1>6. {Verify, Fix} \ {None} = {Verify, Fix}
    BY <1>2, TeamAssumption
<1>7. PhaseOf(state[Verify]) = "working"
    BY <1>1 DEF PhaseOf, DoneStates, StopStates
<1>8. PhaseOf("pending") = "waiting"
    BY DEF PhaseOf, DoneStates, StopStates
<1>9. Contract!OthersStay({Verify, Fix})
    BY <1>5 DEF Contract!OthersStay
<1>10. Contract!Regrow
    <2>1. ASSUME NEW e \in Ids \X Ids, PhaseOf(state'[e[2]]) = "working"
          PROVE  e \in edges <=> e \in edges'
        <3>1. e[2] # Verify
            BY <1>5, <1>8, <2>1
        <3>2. QED
            BY <1>3, <3>1 DEF NextRoundEdges
    <2>2. QED
        BY <2>1 DEF Contract!Regrow
<1>11. QED
    BY <1>2, <1>5, <1>6, <1>7, <1>8, <1>9, <1>10 DEF Contract!NextRound

(* An edit changes only steps that wait or join, while nothing works.      *)
LEMMA EditSeen ==
    ASSUME IInv, EInv, TakeEdit
    PROVE  Contract!Edit
<1> DEFINE text == Head(decide).text
<1>1. Contract!Working = {}
    <2>1. Workers = {}
        BY WorkCounts DEF TakeEdit, IInv, NothingAtWork
    <2>2. Running = {}
        BY <2>1 DEF IInv, Owned
    <2>3. QED
        BY <2>2, Seen DEF IInv, EInv
<1>2. Running = {} /\ state \in [Ids -> States \cup {"absent"}]
    BY <1>1, Seen DEF IInv, EInv, TypeOK
<1>3. ASSUME NEW n \in Ids
      PROVE  \/ state'[n] = state[n]
             \/ state[n] \in {"absent", "pending"} /\ state'[n] = "pending"
             \/ state[n] = "pending" /\ state'[n] = "skipped"
    <2>1. CASE ~EditFits(text)
        BY <2>1 DEF TakeEdit
    <2>2. CASE EditFits(text)
        <3>1. state' = Edited(text) /\ Range(text.steps) \cap Nodes \subseteq Left
            BY <2>2 DEF TakeEdit, EditFits, Fits
        <3>2. \A m \in Left : state[m] = "pending"
            BY <1>2 DEF Left, Nodes, Running, EInv, EndsOnce, OverStates, DoneStates, StopStates, States
        <3>3. n \in Range(text.steps) => state[n] \in {"absent", "pending"}
            BY <3>1, <3>2 DEF Nodes
        <3>4. QED
            BY <3>1, <3>2, <3>3 DEF Edited
    <2>3. QED
        BY <2>1, <2>2
<1>4. ASSUME NEW n \in Ids
      PROVE  \/ PhaseOf(state'[n]) = PhaseOf(state[n])
             \/ PhaseOf(state[n]) = "absent" /\ PhaseOf(state'[n]) = "waiting"
             \/ PhaseOf(state[n]) = "waiting" /\ PhaseOf(state'[n]) = "finished"
    BY <1>3 DEF PhaseOf, DoneStates, StopStates
<1>5. QED
    BY <1>1, <1>4 DEF Contract!Edit

(* The end of the run stops what still waited, when nothing works.         *)
LEMMA EndSeen ==
    ASSUME IInv, EInv, End
    PROVE  Contract!End
<1>1. InWork = 0 /\ state' = AfterTheEnd /\ edges' = edges
    BY DEF End
<1>2. Running = {} /\ TypeOK /\ EndsOnce /\ state \in [Ids -> States \cup {"absent"}]
    BY <1>1, WorkCounts DEF IInv, Owned, EInv, TypeOK
<1>3. Contract!Working = {}
    BY <1>2, Seen
<1>4. ASSUME NEW n \in Ids
      PROVE  PhaseOf(state'[n]) = IF PhaseOf(state[n]) = "waiting" THEN "stopped" ELSE PhaseOf(state[n])
    <2>1. state'[n] = IF state[n] = "pending" THEN "cancelled" ELSE state[n]
        BY <1>1 DEF AfterTheEnd
    <2>2. PhaseOf(state[n]) = "waiting" <=> state[n] = "pending"
        BY <1>2, Seen
    <2>3. PhaseOf("cancelled") = "stopped"
        BY DEF PhaseOf, DoneStates, StopStates
    <2>4. QED
        BY <2>1, <2>2, <2>3
<1>5. QED
    BY <1>1, <1>3, <1>4 DEF Contract!End

-----------------------------------------------------------------------------
(* Every step of the scheduler is one of the contract or none.             *)
LEMMA StepSeen ==
    ASSUME IInv, EInv, PlansEnd, IInv', EInv', [Next]_vars
    PROVE  [Contract!Next]_Contract!vars
<1>1. TypeOK' /\ EndsOnce'
    BY DEF IInv, EInv
<1>2. ASSUME Still PROVE UNCHANGED Contract!vars
    BY <1>2, Unseen DEF Still
<1>3. CASE TakeEdit
    <2>1. Contract!Edit /\ pc # "ended" /\ pc' # "ended"
        BY <1>3, EditSeen DEF TakeEdit, loopVars
    <2>2. QED
        BY <2>1 DEF Contract!Next
<1>4. ASSUME NEW n \in Ids, Start(n) PROVE Contract!Next
    <2>1. Contract!Start(n)
        BY <1>1, <1>4, StartSeen
    <2>2. pc # "ended" /\ pc' # "ended"
        BY <1>4 DEF Start
    <2>3. QED
        BY <2>1, <2>2 DEF Contract!Next
<1>5. ASSUME Take(Head(results)) PROVE Contract!Next
    <2> DEFINE r == Head(results)
    <2> HIDE DEF r
    <2>1. Take(r) /\ Collect(r)
        BY <1>5, TakeKinds DEF r
    <2>2. r.id \in Ids
        BY <2>1, TakenAlone DEF EInv
    <2>3. \/ Contract!Requeue(r.id) \/ Contract!Stop(r.id) \/ Contract!Finish(r.id)
          \/ Contract!NextRound
        BY <1>1, <2>1, TakeKinds, BackSeen, StopSeen, FinishSeen, PlanSeen, RoundSeen
    <2>4. pc # "ended" /\ pc' # "ended"
        BY <2>1 DEF Collect
    <2>5. QED
        BY <2>2, <2>3, <2>4 DEF Contract!Next
<1>6. CASE End
    <2>1. Contract!End /\ pc # "ended" /\ pc' = "ended"
        BY <1>6, EndSeen DEF End
    <2>2. QED
        BY <2>1 DEF Contract!Next
<1>7. CASE \/ \E n \in Ids : StopNode(n)
           \/ \E n \in Ids, m \in Msgs : SendMessage(n, m)
           \/ \E g \in agents : Stall(g) \/ SendResult(g) \/ UseTeam(g)
    <2>1. UNCHANGED <<state, edges>> /\ pc' = pc
        BY <1>7 DEF StopNode, SendMessage, Stall, SendResult, UseTeam, dagVars, loopVars
    <2>2. QED
        BY <2>1, Unseen
<1>8. QED
    BY <1>2, <1>3, <1>4, <1>5, <1>6, <1>7, StepKinds

(* The scheduler keeps what DagContract promises its user.                 *)
THEOREM KeepsItsContract == Spec /\ LoopKept => MeetsContract
<1>1. Init => Contract!Init
    <2> SUFFICES ASSUME Init PROVE Contract!Init
        OBVIOUS
    <2>1. \A n \in Ids : state[n] = IF n \in Kept THEN "completed"
                                    ELSE IF n \in Range(InitialNodes) THEN "pending" ELSE "absent"
        BY DEF Init
    <2>2. \A n \in Ids : PhaseOf(state[n]) \in {"absent", "waiting", "finished"}
        BY <2>1 DEF PhaseOf, DoneStates, StopStates
    <2>3. edges \in SUBSET (Ids \X Ids) /\ pc # "ended"
        BY RunAssumption DEF Init
    <2>4. QED
        BY <2>2, <2>3 DEF Contract!Init
<1>2. Init => PlansEnd
    BY DEF Init, PlansEnd
<1>3. IInv /\ EInv /\ PlansEnd /\ [Next]_vars => PlansEnd'
    BY PlansEndStep
<1>4. IInv /\ EInv /\ PlansEnd /\ IInv' /\ EInv' /\ [Next]_vars => [Contract!Next]_Contract!vars
    BY StepSeen
<1>5. QED
    BY <1>1, <1>2, <1>3, <1>4, Invariant, Endings, PTL DEF Spec, MeetsContract, Contract!Spec
=============================================================================
