--------------------------- MODULE AgentRunSafety ---------------------------
(***************************************************************************)
(* The safety properties of AgentRun that hold for every value of its      *)
(* constants: IInv is inductive, and the properties follow from it.        *)
(***************************************************************************)
EXTENDS AgentRunProofs

(* The counter of the loop is a number, and at zero nobody works.          *)
LEMMA WorkCounts ==
    ASSUME TypeOK
    PROVE  /\ Cardinality(agents) \in Nat /\ Len(results) \in Nat /\ InWork \in Nat
           /\ InWork = 0 => agents = {} /\ results = <<>> /\ Workers = {}
<1>1. Cardinality(agents) \in Nat /\ Len(results) \in Nat
    BY FS_CardinalityType DEF TypeOK
<1>2. InWork = 0 => Cardinality(agents) = 0 /\ Len(results) = 0
    BY <1>1 DEF InWork
<1>3. Cardinality(agents) = 0 => agents = {}
    BY FS_EmptySet DEF TypeOK
<1>4. Len(results) = 0 => results = <<>> /\ DOMAIN results = {}
    BY DEF TypeOK
<1>5. InWork = 0 => agents = {} /\ results = <<>> /\ Workers = {}
    BY <1>2, <1>3, <1>4 DEF Workers
<1>6. InWork \in Nat
    BY <1>1 DEF InWork
<1>7. QED
    BY <1>1, <1>5, <1>6

(* The goroutines of any node but the fix node are one.                    *)
Unique(S) == \A g, h \in S : g.id = h.id /\ g.id # Fix => g = h

(* A cancel function that is called changes no goroutine's node.           *)
LEMMA CutWorkers ==
    ASSUME TypeOK, NEW n
    PROVE  {g.id : g \in Cut(n)} = {g.id : g \in agents} /\ (Unique(agents) => Unique(Cut(n)))
<1> DEFINE f(g) == IF g.id = n /\ g.age = 0 THEN [g EXCEPT !.cut = TRUE] ELSE g
<1>1. ASSUME NEW g \in agents PROVE f(g).id = g.id
    BY DEF TypeOK, Agents
<1>2. Cut(n) = {f(g) : g \in agents}
    BY DEF Cut
<1> HIDE DEF f
<1>3. QED
    BY <1>1, <1>2 DEF Unique

(* Neither does a new start of a node.                                     *)
LEMMA AgedWorkers ==
    ASSUME TypeOK, NEW n
    PROVE  {g.id : g \in Aged(n)} = {g.id : g \in agents} /\ (Unique(agents) => Unique(Aged(n)))
<1> DEFINE f(g) == IF g.id = n THEN [g EXCEPT !.age = g.age + 1] ELSE g
<1>1. ASSUME NEW g \in agents PROVE f(g).id = g.id
    BY DEF TypeOK, Agents
<1>2. Aged(n) = {f(g) : g \in agents}
    BY DEF Aged
<1> HIDE DEF f
<1>3. QED
    BY <1>1, <1>2 DEF Unique

(* What an unchanged DAG with unchanged goroutines keeps.                  *)
LEMMA WorkStays ==
    ASSUME IInv, UNCHANGED <<state, edges, agents, results, stops, open>>
    PROVE  Owned' /\ OneWorker' /\ PlansFit' /\ AtMostParallel' /\ StaysDag' /\ DepsDone'
<1> USE DEF IInv, Running, Nodes, Workers
<1>1. Owned'
    BY DEF Owned
<1>2. OneWorker'
    BY DEF OneWorker
<1>3. PlansFit'
    BY DEF PlansFit
<1>4. AtMostParallel'
    BY DEF AtMostParallel, InWork
<1>5. StaysDag'
    BY DEF StaysDag
<1>6. DepsDone'
    BY DEF DepsDone
<1>7. QED
    BY <1>1, <1>2, <1>3, <1>4, <1>5, <1>6

(* A step that leaves the loop and its nodes alone keeps the invariant.    *)
LEMMA InvStays ==
    ASSUME IInv, TypeOK',
           UNCHANGED <<state, edges, agents, results, stops, open, approved, pc, todo, failErr,
                       spent, budget>>
    PROVE  IInv'
<1>1. Owned' /\ OneWorker' /\ PlansFit' /\ AtMostParallel' /\ StaysDag' /\ DepsDone'
    BY WorkStays
<1>2. NothingAtWork'
    BY DEF IInv, NothingAtWork, InWork
<1>3. NeverUnapproved'
    BY DEF IInv, NeverUnapproved, Gated, Running, Nodes
<1>4. TurnHolds'
    BY DEF IInv, TurnHolds, InWork, OverBudget, Gated
<1>5. QED
    BY <1>1, <1>2, <1>3, <1>4 DEF IInv

(* Start establishes the invariant.                                        *)
LEMMA InitInv == Init => IInv
<1> SUFFICES ASSUME Init PROVE IInv
    OBVIOUS
<1>1. TypeOK
    BY InitTyped
<1>2. Running = {} /\ Nodes = Range(InitialNodes)
    BY RunAssumption DEF Init, Running, Nodes, Range
<1>3. agents = {} /\ results = <<>> /\ DOMAIN results = {} /\ stops = {} /\ open = {}
    BY DEF Init, TeamInit
<1>4. Workers = {} /\ InWork = 0
    BY <1>3, FS_EmptySet DEF Workers, InWork
<1>5. Owned /\ OneWorker /\ PlansFit
    BY <1>2, <1>3, <1>4 DEF Owned, OneWorker, PlansFit
<1>6. TurnHolds /\ NothingAtWork
    BY <1>4 DEF Init, TurnHolds, NothingAtWork
<1>7. AtMostParallel /\ DepsDone /\ NeverUnapproved
    BY <1>2, <1>4, RunAssumption DEF Init, AtMostParallel, DepsDone, NeverUnapproved
<1>8. StaysDag
    BY <1>2, RunAssumption DEF Init, StaysDag, Valid
<1>9. QED
    BY <1>1, <1>5, <1>6, <1>7, <1>8 DEF IInv

-----------------------------------------------------------------------------
(* A step only of the loop's place keeps what does not depend on it.       *)
LEMMA GoToInv ==
    ASSUME IInv, Await \/ PauseRun \/ StartReady \/ WaitForResult \/ StopPaused, TypeOK'
    PROVE  IInv'
<1>1. /\ UNCHANGED <<state, edges, agents, results, stops, open, approved>>
      /\ UNCHANGED <<failErr, spent, budget>>
    BY DEF Await, PauseRun, StartReady, WaitForResult, StopPaused, GoTo, dagVars, taskVars, teamVars
<1>2. Owned' /\ OneWorker' /\ PlansFit' /\ AtMostParallel' /\ StaysDag' /\ DepsDone'
    BY <1>1, WorkStays
<1>3. NeverUnapproved'
    BY <1>1 DEF IInv, NeverUnapproved, Gated, Running, Nodes
<1>4. InWork' = InWork
    BY <1>1 DEF InWork
<1>5. NothingAtWork'
    <2>1. pc' \in {"awaiting", "paused"} => InWork = 0
        BY DEF Await, PauseRun, StartReady, WaitForResult, StopPaused, GoTo
    <2>2. pc' # "ended"
        BY DEF Await, PauseRun, StartReady, WaitForResult, StopPaused, GoTo
    <2>3. QED
        BY <1>4, <2>1, <2>2 DEF NothingAtWork
<1>6. TurnHolds'
    <2>1. SUFFICES ASSUME pc' = "starting" PROVE TurnHolds'
        BY DEF TurnHolds
    <2>2. StartReady
        BY <2>1 DEF Await, PauseRun, StartReady, WaitForResult, StopPaused, GoTo
    <2>3. todo' = ReadyNow /\ ~failErr
        BY <2>2 DEF StartReady, MayStart, NodeCtxDone
    <2>4. InWork < Parallel
        BY <2>2, WorkCounts, RunAssumption DEF StartReady, Full, IInv
    <2>5. ~OverBudget /\ \A n \in ReadyNow : ~Gated(n)
        BY <2>2 DEF StartReady, WaitsForAnswer, WaitsForContinue, NeedsApproval, Gated
    <2>6. \A n \in ReadyNow : state[n] = "pending" /\ \A d \in Deps(edges, n) : state[d] \in DoneStates
        BY DEF ReadyNow, Ready
    <2>7. QED
        BY <1>1, <1>4, <2>3, <2>4, <2>5, <2>6 DEF TurnHolds, OverBudget, Gated
<1>7. QED
    BY <1>2, <1>3, <1>5, <1>6 DEF IInv

(* The loop goes back to its top from where the user answered.             *)
LEMMA ToTopInv ==
    ASSUME IInv, TakeApproval \/ StopAwaiting \/ Resume, TypeOK'
    PROVE  IInv'
<1>1. UNCHANGED <<state, edges, agents, results, stops, open>> /\ pc' = "top"
    BY DEF TakeApproval, StopAwaiting, Resume, dagVars, taskVars, teamVars
<1>2. Owned' /\ OneWorker' /\ PlansFit' /\ AtMostParallel' /\ StaysDag' /\ DepsDone'
    BY <1>1, WorkStays
<1>3. NeverUnapproved'
    <2>1. approved \subseteq approved' /\ approved' \subseteq Nodes \cup {Fix}
        BY DEF TakeApproval, StopAwaiting, Resume, LeftNodes, Left, dagVars, IInv, NeverUnapproved
    <2>2. QED
        BY <1>1, <2>1 DEF IInv, NeverUnapproved, Gated, Running, Nodes
<1>4. TurnHolds' /\ NothingAtWork'
    BY <1>1 DEF TurnHolds, NothingAtWork
<1>5. QED
    BY <1>2, <1>3, <1>4 DEF IInv

-----------------------------------------------------------------------------
(* The start of a node: it had no worker, and what it depends on is done.  *)
LEMMA StartInv ==
    ASSUME IInv, NEW n \in Ids, Start(n), TypeOK'
    PROVE  IInv'
<1> DEFINE new == [id |-> n, age |-> 0, fired |-> FALSE, cut |-> FALSE]
<1>1. /\ pc = "starting" /\ n \in todo /\ state' = [state EXCEPT ![n] = "running"]
      /\ agents' = Aged(n) \cup {new} /\ stops' = stops \cup {n} /\ open' \subseteq open \cup {n}
      /\ UNCHANGED <<edges, approved, failErr, spent, budget, results>>
    BY DEF Start, OpenNode, userVars
<1>2. /\ state[n] = "pending" /\ ~Gated(n) /\ InWork < Parallel /\ ~failErr /\ ~OverBudget
      /\ \A m \in todo : /\ state[m] = "pending" /\ ~Gated(m)
                         /\ \A d \in Deps(edges, m) : state[d] \in DoneStates
    BY <1>1 DEF IInv, TurnHolds
<1>3. TypeOK /\ state \in [Ids -> States \cup {"absent"}]
    BY DEF IInv, TypeOK
<1>4. Nodes' = Nodes /\ Running' = Running \cup {n} /\ n \notin Running
    BY <1>1, <1>2, <1>3 DEF Nodes, Running
<1>5. Workers' = Workers \cup {n}
    <2>1. {g.id : g \in Aged(n)} = {g.id : g \in agents}
        BY <1>3, AgedWorkers
    <2>2. new.id = n
        OBVIOUS
    <2> HIDE DEF new
    <2>3. {g.id : g \in Aged(n) \cup {new}} = {g.id : g \in Aged(n)} \cup {n}
        BY <2>2
    <2>4. {g.id : g \in agents'} = {g.id : g \in agents} \cup {n}
        BY <1>1, <2>1, <2>3
    <2>5. {results'[i].id : i \in DOMAIN results'} = {results[i].id : i \in DOMAIN results}
        BY <1>1
    <2>6. QED
        BY <2>4, <2>5 DEF Workers
<1>6. Owned'
    BY <1>1, <1>4, <1>5 DEF IInv, Owned
<1>7. OneWorker'
    <2>1. n # Fix => n \notin Workers
        BY <1>4 DEF IInv, OneWorker
    <2>2. Unique(Aged(n)) /\ {g.id : g \in Aged(n)} = {g.id : g \in agents}
        BY <1>3, AgedWorkers DEF IInv, OneWorker, Unique
    <2>3. \A g \in Aged(n) : g.id \in {h.id : h \in agents}
        BY <2>2
    <2>4. \A g, h \in agents' : g.id = h.id /\ g.id # Fix => g = h
        <3>1. new.id = n
            OBVIOUS
        <3>2. n # Fix => n \notin {h.id : h \in agents}
            BY <2>1 DEF Workers
        <3> HIDE DEF new
        <3>3. ASSUME NEW g \in Aged(n), g.id = n PROVE n = Fix
            BY <2>3, <3>2, <3>3
        <3>4. QED
            BY <1>1, <2>2, <3>1, <3>3 DEF Unique
    <2>5. \A g \in agents', i \in DOMAIN results' : g.id = results'[i].id => g.id = Fix
        <3>1. ASSUME NEW g \in Aged(n), NEW i \in DOMAIN results, g.id = results[i].id
              PROVE  g.id = Fix
            BY <2>3, <3>1 DEF IInv, OneWorker
        <3>2. ASSUME NEW i \in DOMAIN results, n = results[i].id
              PROVE  n = Fix
            BY <2>1, <3>2 DEF Workers
        <3>3. QED
            BY <1>1, <3>1, <3>2
    <2>6. Workers' \ {Fix} \subseteq Running'
        BY <1>4, <1>5 DEF IInv, OneWorker
    <2>7. Workers' \subseteq Nodes'
        BY <1>2, <1>4, <1>5 DEF IInv, OneWorker, Nodes
    <2>8. QED
        BY <1>1, <2>4, <2>5, <2>6, <2>7 DEF IInv, OneWorker
<1>8. PlansFit'
    BY <1>1 DEF IInv, PlansFit
<1>9. InWork' <= InWork + 1
    <2>1. Cardinality(agents') <= Cardinality(agents) + 1
        <3>1. IsFiniteSet(Aged(n)) /\ Cardinality(Aged(n)) <= Cardinality(agents)
            BY <1>3, AgedTyped
        <3>2. Cardinality(Aged(n)) \in Nat /\ Cardinality(agents) \in Nat
            BY <1>3, <3>1, FS_CardinalityType, WorkCounts
        <3>3. Cardinality(Aged(n) \cup {new}) <= Cardinality(Aged(n)) + 1
            <4> DEFINE S == Aged(n)
            <4> HIDE DEF S, new
            <4>1. IsFiniteSet(S) /\ Cardinality(S) \in Nat
                BY <3>1, <3>2 DEF S
            <4>2. Cardinality(S \cup {new}) = IF new \in S THEN Cardinality(S) ELSE Cardinality(S) + 1
                BY <4>1, FS_AddElement
            <4>3. Cardinality(S \cup {new}) <= Cardinality(S) + 1
                BY <4>1, <4>2
            <4>4. QED
                BY <4>3 DEF S
        <3>4. Cardinality(Aged(n) \cup {new}) \in Nat
            BY <3>1, FS_AddElement, FS_CardinalityType
        <3>5. QED
            BY <1>1, <3>1, <3>2, <3>3, <3>4
    <2>2. Cardinality(agents) \in Nat /\ Cardinality(agents') \in Nat /\ Len(results) \in Nat
        BY <1>3, WorkCounts, FS_CardinalityType DEF TypeOK
    <2>3. results' = results
        BY <1>1
    <2>4. QED
        BY <2>1, <2>2, <2>3 DEF InWork
<1>10. InWork \in Nat /\ InWork' \in Nat /\ Parallel \in Nat
    <2>1. Cardinality(agents') \in Nat /\ Len(results') \in Nat
        BY FS_CardinalityType DEF TypeOK
    <2>2. InWork' \in Nat
        BY <2>1 DEF InWork
    <2>3. QED
        BY <1>3, <2>2, WorkCounts, RunAssumption
<1>11. AtMostParallel'
    BY <1>2, <1>9, <1>10 DEF AtMostParallel
<1>12. NeverUnapproved'
    BY <1>1, <1>2, <1>4 DEF IInv, NeverUnapproved, Gated
<1>13. StaysDag'
    BY <1>1, <1>4 DEF IInv, StaysDag
<1>14. ASSUME NEW d, state[d] \in DoneStates PROVE state'[d] \in DoneStates
    BY <1>1, <1>2, <1>14 DEF DoneStates
<1>15. DepsDone'
    BY <1>1, <1>2, <1>4, <1>14 DEF IInv, DepsDone
<1>16. NothingAtWork'
    BY DEF Start, NothingAtWork
<1>17. TurnHolds'
    <2>1. SUFFICES ASSUME pc' = "starting" PROVE TurnHolds'
        BY DEF TurnHolds
    <2>2. todo' = todo \ {n} /\ ~LastPlace
        BY <2>1 DEF Start
    <2>3. InWork' < Parallel
        BY <1>9, <1>10, <2>2 DEF LastPlace
    <2>4. ~failErr' /\ ~OverBudget'
        BY <1>1, <1>2 DEF OverBudget
    <2>5. ASSUME NEW m \in todo'
          PROVE  /\ state'[m] = "pending" /\ ~Gated(m)'
                 /\ \A d \in Deps(edges, m)' : state'[d] \in DoneStates
        BY <1>1, <1>2, <1>14, <2>2 DEF Gated
    <2>6. QED
        BY <2>3, <2>4, <2>5 DEF TurnHolds
<1>18. QED
    BY <1>6, <1>7, <1>8, <1>11, <1>12, <1>13, <1>15, <1>16, <1>17 DEF IInv

-----------------------------------------------------------------------------
(* A change of goroutines that keeps their nodes keeps the invariant.      *)
LEMMA SameWorkers ==
    ASSUME IInv, TypeOK',
           UNCHANGED <<state, edges, results, stops, open, approved, pc, todo, failErr, spent, budget>>,
           {g.id : g \in agents'} = {g.id : g \in agents},
           Unique(agents) => Unique(agents'),
           Cardinality(agents') <= Cardinality(agents)
    PROVE  IInv'
<1>1. Workers' = Workers /\ Running' = Running /\ Nodes' = Nodes
    BY DEF Workers, Running, Nodes
<1>2. Owned' /\ PlansFit' /\ StaysDag' /\ DepsDone' /\ NeverUnapproved'
    BY <1>1 DEF IInv, Owned, PlansFit, StaysDag, DepsDone, NeverUnapproved, Gated
<1>3. OneWorker'
    <2>1. Unique(agents')
        BY DEF IInv, OneWorker, Unique
    <2>2. \A g \in agents' : \E h \in agents : g.id = h.id
        OBVIOUS
    <2>3. \A g \in agents', i \in DOMAIN results' : g.id = results'[i].id => g.id = Fix
        BY <2>2 DEF IInv, OneWorker
    <2>4. QED
        BY <1>1, <2>1, <2>3 DEF IInv, OneWorker, Unique
<1>4. InWork' <= InWork /\ InWork \in Nat /\ InWork' \in Nat /\ Parallel \in Nat
    <2>1. Cardinality(agents) \in Nat /\ Cardinality(agents') \in Nat /\ Len(results) \in Nat
        BY FS_CardinalityType, WorkCounts DEF IInv, TypeOK
    <2>2. QED
        BY <2>1, RunAssumption DEF InWork
<1>5. AtMostParallel' /\ NothingAtWork'
    BY <1>4 DEF IInv, AtMostParallel, NothingAtWork
<1>6. TurnHolds'
    BY <1>4 DEF IInv, TurnHolds, OverBudget, Gated
<1>7. QED
    BY <1>2, <1>3, <1>5, <1>6 DEF IInv

(* The watchdog keeps it.                                                  *)
LEMMA StallInv ==
    ASSUME IInv, NEW g \in agents, Stall(g), TypeOK'
    PROVE  IInv'
<1> DEFINE late == [g EXCEPT !.fired = TRUE]
           f == [h \in agents |-> IF h = g THEN late ELSE h]
<1>1. agents' = (agents \ {g}) \cup {late}
    BY DEF Stall
<1>2. late.id = g.id
    BY DEF IInv, TypeOK, Agents
<1> HIDE DEF late
<1>3. {h.id : h \in agents'} = {h.id : h \in agents} /\ (Unique(agents) => Unique(agents'))
    BY <1>1, <1>2 DEF Unique
<1>4. f \in Surjection(agents, agents')
    BY <1>1 DEF Surjection
<1>5. Cardinality(agents') <= Cardinality(agents)
    BY <1>4, FS_Surjection DEF IInv, TypeOK
<1>6. UNCHANGED <<state, edges, results, stops, open, approved, pc, todo, failErr, spent, budget>>
    BY DEF Stall, dagVars, loopVars, teamVars
<1>7. QED
    BY <1>3, <1>5, <1>6, SameWorkers

(* StopNode calls one cancel function and keeps it.                        *)
LEMMA StopNodeInv ==
    ASSUME IInv, NEW n \in Ids, StopNode(n), TypeOK'
    PROVE  IInv'
<1>1. agents' = Cut(n)
    BY DEF StopNode
<1>2. UNCHANGED <<state, edges, results, stops, open, approved, pc, todo, failErr, spent, budget>>
    BY DEF StopNode, dagVars, loopVars, teamVars
<1>3. TypeOK
    BY DEF IInv
<1>4. {g.id : g \in agents'} = {g.id : g \in agents} /\ (Unique(agents) => Unique(agents'))
    BY <1>1, <1>3, CutWorkers
<1>5. Cardinality(agents') <= Cardinality(agents)
    BY <1>1, <1>3, CutTyped
<1>6. QED
    BY <1>2, <1>4, <1>5, SameWorkers

(* A goroutine's result takes its place.                                   *)
LEMMA SendResultInv ==
    ASSUME IInv, NEW g \in agents, SendResult(g), TypeOK'
    PROVE  IInv'
<1>1. PICK r : /\ results' = Append(results, r) /\ r.id = g.id
               /\ r.plan # NoPlan => g.id \in Planners /\ Parsed(r.plan)
    <2>1. PICK kind \in Kinds(g), cost \in Costs :
            \E plan \in Answers(g.id, kind), pass \in (IF g.id = Verify THEN BOOLEAN ELSE {FALSE}) :
              results' = Append(results, [id |-> g.id, kind |-> kind, plan |-> plan, pass |-> pass,
                                          cost |-> cost])
        BY DEF SendResult
    <2>2. PICK plan \in Answers(g.id, kind), pass \in (IF g.id = Verify THEN BOOLEAN ELSE {FALSE}) :
              results' = Append(results, [id |-> g.id, kind |-> kind, plan |-> plan, pass |-> pass,
                                          cost |-> cost])
        BY <2>1
    <2>3. plan # NoPlan => g.id \in Planners /\ Parsed(plan)
        BY <2>2 DEF Answers
    <2>4. QED
        BY <2>2, <2>3
<1>2. /\ agents' = agents \ {g}
      /\ UNCHANGED <<state, edges, stops, open, approved, pc, todo, failErr, spent, budget>>
    BY DEF SendResult, dagVars, loopVars, teamVars
<1>3. results \in Seq(Results) /\ Len(results) \in Nat /\ Cardinality(agents) \in Nat
    BY WorkCounts DEF IInv, TypeOK
<1>4. /\ DOMAIN results' = DOMAIN results \cup {Len(results) + 1} /\ Len(results) + 1 \notin DOMAIN results
      /\ results'[Len(results) + 1] = r /\ \A i \in DOMAIN results : results'[i] = results[i]
      /\ Len(results') = Len(results) + 1
    BY <1>1, <1>3
<1> DEFINE last == Len(results) + 1
<1> HIDE DEF last
<1>5. /\ DOMAIN results' = DOMAIN results \cup {last} /\ last \notin DOMAIN results
      /\ results'[last] = r /\ \A i \in DOMAIN results : results'[i] = results[i]
    BY <1>4 DEF last
<1>6. Workers' = Workers
    BY <1>1, <1>2, <1>5 DEF Workers
<1>7. Running' = Running /\ Nodes' = Nodes
    BY <1>2 DEF Running, Nodes
<1>8. OneWorker'
    <2>1. \A h \in agents' : h.id = g.id => h.id = Fix
        BY <1>2 DEF IInv, OneWorker
    <2>2. \A i \in DOMAIN results : results[i].id = g.id => g.id = Fix
        BY DEF IInv, OneWorker
    <2>3. \A h, k \in agents' : h.id = k.id /\ h.id # Fix => h = k
        BY <1>2 DEF IInv, OneWorker
    <2>4. \A i, j \in DOMAIN results' : results'[i].id = results'[j].id /\ results'[i].id # Fix => i = j
        BY <1>1, <1>5, <2>2 DEF IInv, OneWorker
    <2>5. \A h \in agents', i \in DOMAIN results' : h.id = results'[i].id => h.id = Fix
        BY <1>1, <1>2, <1>5, <2>1 DEF IInv, OneWorker
    <2>6. QED
        BY <1>6, <1>7, <2>3, <2>4, <2>5 DEF IInv, OneWorker
<1>9. PlansFit'
    <2>1. r.plan # NoPlan => r.id \in Planners /\ Normal(Range(r.plan.nodes), r.plan.edges)
        BY <1>1 DEF Parsed, Valid
    <2>2. QED
        BY <1>5, <2>1 DEF IInv, PlansFit
<1>10. InWork' = InWork
    <2>1. Cardinality(agents \ {g}) = Cardinality(agents) - 1
        BY FS_RemoveElement DEF IInv, TypeOK
    <2>2. QED
        BY <1>2, <1>3, <1>4, <2>1 DEF InWork
<1>11. Owned' /\ StaysDag' /\ DepsDone' /\ NeverUnapproved'
    BY <1>2, <1>6, <1>7 DEF IInv, Owned, StaysDag, DepsDone, NeverUnapproved, Gated
<1>12. AtMostParallel' /\ NothingAtWork' /\ TurnHolds'
    BY <1>2, <1>10 DEF IInv, AtMostParallel, NothingAtWork, TurnHolds, OverBudget, Gated
<1>13. QED
    BY <1>8, <1>9, <1>11, <1>12 DEF IInv

-----------------------------------------------------------------------------
(* A step of the loop while nothing is at work.                            *)
LEMMA IdleInv ==
    ASSUME IInv, TypeOK', InWork = 0, UNCHANGED <<agents, results, stops, open, approved>>,
           Running' \subseteq Running, Nodes \subseteq Nodes', StaysDag', pc' # "starting"
    PROVE  IInv'
<1>1. Workers = {} /\ results = <<>>
    BY WorkCounts DEF IInv
<1>2. Running' = {} /\ stops' = {} /\ open' = {} /\ Workers' = {} /\ agents' = {} /\ DOMAIN results' = {}
    BY <1>1, WorkCounts DEF IInv, Owned, Workers
<1>3. Owned' /\ DepsDone' /\ NeverUnapproved'
    BY <1>2 DEF IInv, Owned, DepsDone, NeverUnapproved
<1>4. OneWorker' /\ PlansFit'
    BY <1>2 DEF OneWorker, PlansFit
<1>5. InWork' = 0
    BY DEF InWork
<1>6. AtMostParallel' /\ NothingAtWork' /\ TurnHolds'
    BY <1>5, RunAssumption DEF AtMostParallel, NothingAtWork, TurnHolds
<1>7. QED
    BY <1>3, <1>4, <1>6 DEF IInv

(* An edit of the plan keeps the run a DAG.                                *)
LEMMA TakeEditInv ==
    ASSUME IInv, TakeEdit, TypeOK'
    PROVE  IInv'
<1> DEFINE text == Head(decide).text
<1>1. InWork = 0 /\ pc' = "awaiting" /\ UNCHANGED <<agents, results, stops, open, approved>>
    BY DEF TakeEdit, loopVars, taskVars, teamVars, IInv, NothingAtWork
<1>2. CASE ~EditFits(text)
    <2>1. UNCHANGED <<state, edges>>
        BY <1>2 DEF TakeEdit
    <2>2. QED
        BY <1>1, <2>1, IdleInv DEF Running, Nodes, IInv, StaysDag
<1>3. CASE EditFits(text)
    <2>1. state' = Edited(text) /\ edges' = EditEdges(Range(text.steps), text.deps)
        BY <1>3 DEF TakeEdit
    <2>2. Range(text.steps) \subseteq Ids
        BY DecisionTyped DEF TakeEdit, IInv, Range
    <2>3. Nodes' = Nodes \cup Range(text.steps)
        BY <2>1, <2>2 DEF Edited, Nodes, Left
    <2>4. StaysDag'
        BY <1>3, <2>1, <2>3 DEF EditFits, Fits, Valid, StaysDag
    <2>5. Running' \subseteq Running
        BY <2>1 DEF Edited, Running
    <2>6. QED
        BY <1>1, <2>3, <2>4, <2>5, IdleInv
<1>4. QED
    BY <1>2, <1>3

(* What did not run is cancelled at the end; nothing is at work then.      *)
LEMMA EndInv ==
    ASSUME IInv, End, TypeOK'
    PROVE  IInv'
<1>1. /\ InWork = 0 /\ pc' = "ended" /\ state' = AfterTheEnd
      /\ UNCHANGED <<agents, results, stops, open, approved, edges>>
    BY DEF End, taskVars, teamVars
<1>2. Nodes' = Nodes /\ Running' \subseteq Running
    BY <1>1 DEF AfterTheEnd, Nodes, Running
<1>3. StaysDag'
    BY <1>1, <1>2 DEF IInv, StaysDag
<1>4. QED
    BY <1>1, <1>2, <1>3, IdleInv

-----------------------------------------------------------------------------
(* What a taken result leaves: its node has no worker (but perhaps the fix *)
(* node), every other worker is still one.                                 *)
LEMMA CollectWorkers ==
    ASSUME IInv, TypeOK', NEW r, Collect(r)
    PROVE  /\ r.id \in Workers /\ Workers \ {r.id} \subseteq Workers' /\ Workers' \subseteq Workers
           /\ r.id # Fix => r.id \notin Workers'
           /\ \A g, h \in agents' : g.id = h.id /\ g.id # Fix => g = h
           /\ \A i, j \in DOMAIN results' : results'[i].id = results'[j].id /\ results'[i].id # Fix => i = j
           /\ \A g \in agents', i \in DOMAIN results' : g.id = results'[i].id => g.id = Fix
           /\ PlansFit' /\ InWork' < InWork /\ InWork \in Nat /\ InWork' \in Nat
<1>1. results # <<>> /\ results \in Seq(Results) /\ r = Head(results) /\ results' = Tail(results)
    BY DEF Collect, IInv, TypeOK
<1>2. /\ r = results[1] /\ 1 \in DOMAIN results /\ Len(results') = Len(results) - 1
      /\ Len(results) \in Nat /\ Len(results') \in Nat
      /\ \A i \in DOMAIN results' : i + 1 \in DOMAIN results /\ results'[i] = results[i + 1] /\ i + 1 # 1
      /\ \A i \in DOMAIN results : i # 1 => i - 1 \in DOMAIN results' /\ results'[i - 1] = results[i]
    BY <1>1
<1>3. DOMAIN results \subseteq Nat /\ DOMAIN results' \subseteq Nat
    BY <1>1
<1>4. /\ {g.id : g \in agents'} = {g.id : g \in agents} /\ (Unique(agents) => Unique(agents'))
      /\ Cardinality(agents') <= Cardinality(agents)
    <2>1. r.id \in Ids
        BY CollectTyped DEF IInv, Results
    <2>2. CASE r.id \in stops
        BY <2>1, <2>2, CutWorkers, CutTyped DEF Collect, IInv
    <2>3. CASE r.id \notin stops
        <3>1. agents' = agents
            BY <2>3 DEF Collect
        <3>2. Cardinality(agents) \in Nat
            BY WorkCounts DEF IInv
        <3>3. QED
            BY <3>1, <3>2
    <2>4. QED
        BY <2>2, <2>3
<1>5. \A g \in agents' : \E h \in agents : g.id = h.id
    BY <1>4
<1> DEFINE old == {results[i].id : i \in DOMAIN results}
           rest == {results'[i].id : i \in DOMAIN results'}
<1>6. r.id \in old /\ old \ {r.id} \subseteq rest /\ rest \subseteq old
    BY <1>2
<1>7. r.id # Fix => r.id \notin rest /\ r.id \notin {g.id : g \in agents}
    BY <1>2, <1>3 DEF IInv, OneWorker
<1>8. Workers = {g.id : g \in agents} \cup old /\ Workers' = {g.id : g \in agents} \cup rest
    BY <1>4 DEF Workers
<1> HIDE DEF old, rest
<1>9. /\ r.id \in Workers /\ Workers \ {r.id} \subseteq Workers' /\ Workers' \subseteq Workers
      /\ r.id # Fix => r.id \notin Workers'
    BY <1>6, <1>7, <1>8
<1>10. \A g, h \in agents' : g.id = h.id /\ g.id # Fix => g = h
    BY <1>4 DEF IInv, OneWorker, Unique
<1>11. \A i, j \in DOMAIN results' : results'[i].id = results'[j].id /\ results'[i].id # Fix => i = j
    <2>1. ASSUME NEW i \in DOMAIN results', NEW j \in DOMAIN results',
                 results'[i].id = results'[j].id, results'[i].id # Fix
          PROVE  i = j
        <3>1. i + 1 = j + 1
            BY <1>2, <2>1 DEF IInv, OneWorker
        <3>2. QED
            BY <1>3, <3>1
    <2>2. QED
        BY <2>1
<1>12. \A g \in agents', i \in DOMAIN results' : g.id = results'[i].id => g.id = Fix
    BY <1>2, <1>5 DEF IInv, OneWorker
<1>13. PlansFit'
    BY <1>2 DEF IInv, PlansFit
<1>14. InWork' < InWork /\ InWork \in Nat /\ InWork' \in Nat
    <2>1. Cardinality(agents) \in Nat /\ Cardinality(agents') \in Nat
        BY WorkCounts, FS_CardinalityType DEF IInv, TypeOK
    <2>2. QED
        BY <1>2, <1>4, <2>1 DEF InWork
<1>15. QED
    BY <1>9, <1>10, <1>11, <1>12, <1>13, <1>14

(* What a case of the switch has to show.                                  *)
LEMMA TakenInv ==
    ASSUME IInv, TypeOK', NEW r, Collect(r), approved' = approved,
           Running' \subseteq Running \ {r.id}, Running \ {r.id, Fix} \subseteq Running',
           Nodes \subseteq Nodes', StaysDag', DepsDone'
    PROVE  IInv'
<1>1. /\ stops' = stops \ {r.id} /\ open' = open \ {r.id} /\ pc' = "top"
    BY DEF Collect, CloseNode
<1>2. Owned'
    BY <1>1, CollectWorkers DEF IInv, Owned
<1>3. Workers' \ {Fix} \subseteq Running'
    BY CollectWorkers DEF IInv, OneWorker
<1>4. OneWorker' /\ PlansFit'
    BY <1>3, CollectWorkers DEF IInv, OneWorker
<1>5. AtMostParallel'
    BY CollectWorkers, RunAssumption DEF IInv, AtMostParallel
<1>6. TurnHolds' /\ NothingAtWork'
    BY <1>1 DEF TurnHolds, NothingAtWork
<1>7. NeverUnapproved'
    BY DEF IInv, NeverUnapproved, Gated
<1>8. QED
    BY <1>2, <1>4, <1>5, <1>6, <1>7 DEF IInv

(* A case of the switch that changes no edge and adds no node.             *)
LEMMA SettledInv ==
    ASSUME IInv, TypeOK', NEW r, Collect(r), UNCHANGED <<edges, approved>>,
           state'[r.id] \notin {"running", "absent"},
           \A n \in Ids \ {r.id} :
               state'[n] = state[n] \/ (state[n] = "pending" /\ state'[n] = "blocked")
    PROVE  IInv'
<1>1. r.id \in Workers /\ Workers \subseteq Ids
    <2>1. \A g \in agents : g.id \in Ids
        BY DEF IInv, TypeOK, Agents
    <2>2. \A i \in DOMAIN results : results[i] \in Results
        BY DEF IInv, TypeOK
    <2>3. \A i \in DOMAIN results : results[i].id \in Ids
        BY <2>2 DEF Results
    <2>4. QED
        BY <2>1, <2>3, CollectWorkers DEF Workers
<1>2. Running' = Running \ {r.id}
    BY <1>1 DEF Running
<1>3. Nodes' = Nodes
    BY <1>1, CollectWorkers DEF IInv, OneWorker, Nodes
<1>4. r.id # Fix => state[r.id] = "running"
    BY <1>1, CollectWorkers DEF IInv, OneWorker, Running
<1>5. StaysDag'
    BY <1>3 DEF IInv, StaysDag
<1>6. DepsDone'
    <2>1. ASSUME NEW n \in Running', NEW d \in Deps(edges', n) \ {Fix}
          PROVE  state'[d] \in DoneStates
        <3>1. state[d] \in DoneStates
            BY <1>2, <2>1 DEF IInv, DepsDone
        <3>2. d \in Ids
            <4>1. edges' \in SUBSET (Ids \X Ids)
                BY DEF TypeOK
            <4>2. PICK e \in edges' : d = e[1]
                BY <2>1 DEF Deps
            <4> QED
                BY <4>1, <4>2
        <3>3. d # r.id
            BY <1>4, <2>1, <3>1 DEF DoneStates
        <3>4. QED
            BY <3>1, <3>2, <3>3 DEF DoneStates
    <2>2. QED
        BY <2>1 DEF DepsDone
<1>7. QED
    BY <1>2, <1>3, <1>5, <1>6, TakenInv

(* Block changes a pending node to blocked, or nothing.                    *)
LEMMA StoppedInv ==
    ASSUME IInv, TypeOK', NEW r, Collect(r), UNCHANGED <<edges, approved>>,
           NEW s \in {"failed", "cancelled"},
           state' = Block(Nodes, edges, [state EXCEPT ![r.id] = s])
    PROVE  IInv'
<1> DEFINE st == [state EXCEPT ![r.id] = s]
<1>1. r.id \in Ids /\ state \in [Ids -> States \cup {"absent"}]
    <2>1. r \in Results
        BY CollectTyped DEF IInv
    <2>2. QED
        BY <2>1 DEF IInv, TypeOK, Results
<1>2. st \in [Ids -> States \cup {"absent"}] /\ st[r.id] = s /\ \A n \in Ids \ {r.id} : st[n] = state[n]
    BY <1>1 DEF States
<1> HIDE DEF st
<1>3. \A n \in Ids : state'[n] = st[n] \/ (st[n] = "pending" /\ state'[n] = "blocked")
    <2>1. state' = Block(Nodes, edges, st)
        BY DEF st
    <2>2. QED
        BY <1>2, <2>1, BlockTyped
<1>4. state'[r.id] \notin {"running", "absent"}
    BY <1>1, <1>2, <1>3
<1>5. \A n \in Ids \ {r.id} : state'[n] = state[n] \/ (state[n] = "pending" /\ state'[n] = "blocked")
    BY <1>2, <1>3
<1>6. QED
    BY <1>4, <1>5, SettledInv

(* A new first node before one of a DAG keeps it a DAG.                    *)
LEMMA NewFirst ==
    ASSUME NEW ns, NEW es, NEW f, NEW v \in ns, f \notin ns, Normal(ns, es)
    PROVE  Normal(ns \cup {f}, es \cup {<<f, v>>})
<1> DEFINE es2 == es \cup {<<f, v>>}
<1>1. \A e \in es2 : e[1] \in ns \cup {f} /\ e[2] \in ns \cup {f} /\ e[1] # e[2]
    BY DEF Normal
<1>2. ASSUME NEW S \in SUBSET (ns \cup {f}), S # {}
      PROVE  {n \in S : Deps(es2, n) \cap S = {}} # {}
    <2>1. CASE f \in S
        <3>1. Deps(es2, f) = {}
            BY DEF Deps, Normal
        <3>2. QED
            BY <2>1, <3>1
    <2>2. CASE f \notin S
        <3>1. PICK n \in S : Deps(es, n) \cap S = {}
            BY <1>2, <2>2 DEF Normal, Acyclic
        <3>2. Deps(es2, n) \subseteq Deps(es, n) \cup {f}
            BY DEF Deps
        <3>3. QED
            BY <2>2, <3>1, <3>2
    <2>3. QED
        BY <2>1, <2>2
<1>3. Acyclic(ns \cup {f}, es2)
    BY <1>2 DEF Acyclic
<1>4. QED
    BY <1>1, <1>3 DEF Normal

(* A plan joins the run: nothing that runs comes after it.                 *)
LEMMA TakePlanInv ==
    ASSUME IInv, TypeOK', NEW r, Collect(r), TakePlan(r)
    PROVE  IInv'
<1> DEFINE ns == Range(r.plan.nodes)
<1>1. r \in Results /\ r.plan \in Plans
    BY CollectTyped DEF IInv, TakePlan, Results
<1>2. r.id \in Ids /\ r.plan.nodes \in Seq(Ids)
    BY <1>1, RunAssumption DEF Results
<1>3. 1 \in DOMAIN results /\ results[1] = r
    BY DEF Collect, IInv, TypeOK
<1>4. r.id \in Planners /\ Normal(ns, r.plan.edges)
    BY <1>3 DEF IInv, PlansFit, TakePlan
<1>5. r.id # Fix
    BY <1>2, <1>4, RunAssumption, TeamAssumption
<1>6. state[r.id] = "running"
    BY <1>5, CollectWorkers DEF IInv, OneWorker, Running
<1>7. ns \subseteq Ids /\ ns \cap Nodes = {}
    BY <1>2 DEF TakePlan, GrowFits, Range
<1>8. state' = [n \in Ids |-> IF n = r.id THEN "completed" ELSE IF n \in ns THEN "pending" ELSE state[n]]
    BY DEF TakePlan
<1> HIDE DEF ns
<1>9. Running' = Running \ {r.id}
    BY <1>7, <1>8 DEF Running, Nodes
<1>10. Nodes' = Nodes \cup ns
    BY <1>2, <1>6, <1>7, <1>8 DEF Nodes
<1>11. edges' = Grown(r.id, r.plan) /\ Normal(Nodes \cup ns, Grown(r.id, r.plan))
    BY DEF TakePlan, GrowFits, ns
<1>12. StaysDag'
    BY <1>10, <1>11 DEF StaysDag
<1>13. DepsDone'
    <2>1. ASSUME NEW n \in Running', NEW d \in Deps(edges', n) \ {Fix}
          PROVE  state'[d] \in DoneStates
        <3>1. n \in Running /\ n \notin ns
            BY <1>7, <1>9 DEF Running, Nodes
        <3>2. PICK e \in Grown(r.id, r.plan) : e[2] = n /\ e[1] = d
            BY <1>11, <2>1 DEF Deps
        <3>3. e \notin r.plan.edges
            BY <1>4, <3>1, <3>2 DEF Normal
        <3>4. PICK o \in edges : /\ e[2] = o[2]
                                 /\ o[1] # r.id => e[1] = o[1]
            BY <3>1, <3>2, <3>3 DEF Grown, ns
        <3>5. o[1] \in Deps(edges, n)
            BY <3>2, <3>4 DEF Deps
        <3>6. o[1] # r.id
            BY <1>5, <1>6, <3>1, <3>5 DEF IInv, DepsDone, DoneStates
        <3>7. state[d] \in DoneStates
            BY <2>1, <3>1, <3>2, <3>4, <3>5, <3>6 DEF IInv, DepsDone
        <3>8. d \in Nodes
            BY <3>2, <3>4, <3>6 DEF IInv, StaysDag, Normal
        <3>9. QED
            BY <1>7, <1>8, <3>2, <3>4, <3>6, <3>7, <3>8 DEF Nodes
    <2>2. QED
        BY <2>1 DEF DepsDone
<1>14. approved' = approved
    BY DEF TakePlan
<1>15. QED
    BY <1>9, <1>10, <1>12, <1>13, <1>14, TakenInv

(* Fix and verify run again; nothing that runs comes after verify.         *)
LEMMA TakeNextRoundInv ==
    ASSUME IInv, TypeOK', NEW r, Collect(r), TakeNextRound(r)
    PROVE  IInv'
<1>1. r.id = Verify /\ r.id \in Ids /\ approved' = approved
    BY CollectTyped DEF IInv, TakeNextRound, Results
<1>2. Fix \in Ids /\ Fix # Verify
    BY <1>1, RunAssumption, TeamAssumption
<1>3. state[Verify] = "running"
    BY <1>1, <1>2, CollectWorkers DEF IInv, OneWorker, Running
<1>4. state' = [state EXCEPT ![Verify] = "pending", ![Fix] = "pending"] /\ edges' = NextRoundEdges
    BY DEF TakeNextRound, NextRoundState
<1>5. state \in [Ids -> States \cup {"absent"}]
    BY DEF IInv, TypeOK
<1>6. Running' = Running \ {Verify, Fix} /\ Nodes' = Nodes \cup {Fix}
    BY <1>1, <1>2, <1>3, <1>4, <1>5 DEF Running, Nodes
<1>7. StaysDag'
    <2>1. CASE Fix \in Nodes
        BY <1>4, <1>6, <2>1 DEF NextRoundEdges, IInv, StaysDag
    <2>2. CASE Fix \notin Nodes
        <3>1. Verify \in Nodes
            BY <1>1, <1>3 DEF Nodes
        <3>2. Normal(Nodes \cup {Fix}, edges \cup {<<Fix, Verify>>})
            BY <2>2, <3>1, NewFirst DEF IInv, StaysDag
        <3>3. QED
            BY <1>4, <1>6, <2>2, <3>2 DEF NextRoundEdges, StaysDag
    <2>3. QED
        BY <2>1, <2>2
<1>8. DepsDone'
    <2>1. ASSUME NEW n \in Running', NEW d \in Deps(edges', n) \ {Fix}
          PROVE  state'[d] \in DoneStates
        <3>1. n \in Running /\ n # Verify
            BY <1>6
        <3>2. d \in Deps(edges, n)
            BY <1>4, <2>1, <3>1 DEF Deps, NextRoundEdges
        <3>3. state[d] \in DoneStates
            BY <2>1, <3>1, <3>2 DEF IInv, DepsDone
        <3>4. d # Verify
            BY <1>3, <3>3 DEF DoneStates
        <3>5. d \in Ids
            <4>1. edges \in SUBSET (Ids \X Ids)
                BY DEF IInv, TypeOK
            <4> QED
                BY <3>2, <4>1 DEF Deps
        <3>6. state'[d] = state[d]
            BY <1>4, <1>5, <2>1, <3>4, <3>5
        <3>7. QED
            BY <3>3, <3>6
    <2>2. QED
        BY <2>1 DEF DepsDone
<1>9. QED
    BY <1>1, <1>6, <1>7, <1>8, TakenInv

(* Every case of the switch over a result keeps the invariant.             *)
LEMMA TakeInv ==
    ASSUME IInv, TypeOK', NEW r, Take(r)
    PROVE  IInv'
<1>1. Collect(r)
    BY DEF Take
<1>2. r.id \in Ids /\ state \in [Ids -> States \cup {"absent"}]
    <2>1. r \in Results
        BY <1>1, CollectTyped DEF IInv
    <2>2. QED
        BY <2>1 DEF IInv, TypeOK, Results
<1>3. ASSUME Fail(r.id) PROVE IInv'
    BY <1>1, <1>3, StoppedInv DEF Fail
<1>4. ASSUME NEW s \in {"pending", "cancelled", "completed"}, state' = [state EXCEPT ![r.id] = s],
             UNCHANGED <<edges, approved>>
      PROVE  IInv'
    BY <1>1, <1>2, <1>4, SettledInv
<1>5. CASE TakeStalled(r)
    BY <1>3, <1>4, <1>5 DEF TakeStalled
<1>6. CASE TakeEscalate(r)
    BY <1>4, <1>6 DEF TakeEscalate
<1>7. CASE TakeLimit(r)
    BY <1>4, <1>7 DEF TakeLimit
<1>8. CASE TakeUserStop(r)
    BY <1>1, <1>8, StoppedInv DEF TakeUserStop
<1>9. CASE TakeCancelled(r)
    BY <1>4, <1>9 DEF TakeCancelled
<1>10. CASE TakeErr(r)
    BY <1>3, <1>10 DEF TakeErr
<1>11. CASE TakeDone(r)
    BY <1>4, <1>11 DEF TakeDone
<1>12. CASE TakeMisfitPlan(r)
    BY <1>3, <1>12 DEF TakeMisfitPlan
<1>13. CASE TakePlan(r)
    BY <1>1, <1>13, TakePlanInv
<1>14. CASE TakeVerdict(r)
    BY <1>4, <1>14 DEF TakeVerdict
<1>15. CASE TakeNextRound(r)
    BY <1>1, <1>15, TakeNextRoundInv
<1>16. CASE TakeMisfitFix(r)
    BY <1>3, <1>16 DEF TakeMisfitFix
<1>17. QED
    BY <1>5, <1>6, <1>7, <1>8, <1>9, <1>10, <1>11, <1>12, <1>13, <1>14, <1>15, <1>16 DEF Take

-----------------------------------------------------------------------------
(* So does every step of the system: the invariant is inductive.           *)
LEMMA StepInv == IInv /\ [Next]_vars => IInv'
<1> SUFFICES ASSUME IInv, [Next]_vars PROVE IInv'
    OBVIOUS
<1> DEFINE core == <<state, edges, agents, results, stops, open, approved, pc, todo, failErr,
                     spent, budget>>
<1>1. TypeOK'
    BY StepTyped DEF IInv
<1>2. ASSUME UNCHANGED core PROVE IInv'
    BY <1>1, <1>2, InvStays
<1>3. CASE UNCHANGED vars
    BY <1>2, <1>3 DEF vars, dagVars, loopVars, taskVars, teamVars
<1>4. CASE Await \/ PauseRun \/ StartReady \/ WaitForResult \/ StopPaused
    BY <1>1, <1>4, GoToInv
<1>5. CASE TakeApproval \/ StopAwaiting \/ Resume
    BY <1>1, <1>5, ToTopInv
<1>6. CASE TakeEdit
    BY <1>1, <1>6, TakeEditInv
<1>7. ASSUME NEW n \in Ids, Start(n) PROVE IInv'
    BY <1>1, <1>7, StartInv
<1>8. CASE Take(Head(results))
    BY <1>1, <1>8, TakeInv
<1>9. CASE End
    BY <1>1, <1>9, EndInv
<1>10. CASE Cancel \/ Deny \/ Pause \/ Continue
    BY <1>2, <1>10 DEF Cancel, Deny, Pause, Continue, dagVars, loopVars, taskVars, teamVars
<1>11. ASSUME NEW kind, NEW text, Decide(kind, text) PROVE IInv'
    BY <1>2, <1>11 DEF Decide, dagVars, loopVars, taskVars, teamVars
<1>12. ASSUME NEW n \in Ids, StopNode(n) PROVE IInv'
    BY <1>1, <1>12, StopNodeInv
<1>13. ASSUME NEW n \in Ids, NEW m \in Msgs, SendMessage(n, m) PROVE IInv'
    BY <1>2, <1>13 DEF SendMessage, Send, dagVars, loopVars, taskVars
<1>14. ASSUME NEW g \in agents, Stall(g) PROVE IInv'
    BY <1>1, <1>14, StallInv
<1>15. ASSUME NEW g \in agents, SendResult(g) PROVE IInv'
    BY <1>1, <1>15, SendResultInv
<1>16. ASSUME NEW g \in agents, UseTeam(g) PROVE IInv'
    <2>1. open' = open
        BY <1>16 DEF UseTeam, ReadInbox, Claim, Release
    <2>2. QED
        BY <1>2, <1>16, <2>1 DEF UseTeam, dagVars, loopVars, taskVars
<1>17. QED
    BY <1>3, <1>4, <1>5, <1>6, <1>7, <1>8, <1>9, <1>10, <1>11, <1>12, <1>13, <1>14, <1>15, <1>16
       DEF Next, Loop, User, Agent, Ended, Approve, EditPlan

(* Every reachable state satisfies the inductive invariant.                *)
THEOREM Invariant == Spec => []IInv
BY InitInv, StepInv, PTL DEF Spec

-----------------------------------------------------------------------------
(* The safety properties.                                                  *)

(* A node runs only while what it depends on is done.                      *)
THEOREM DependenciesFirst == Spec => []DepsDone
BY Invariant, PTL DEF IInv

(* Never more than Parallel nodes are at work, whatever is stopped,        *)
(* started again or not yet taken from the channel.                        *)
THEOREM ParallelLimit == Spec => []AtMostParallel
BY Invariant, PTL DEF IInv

(* No step that needs the user's approval runs without it.                 *)
THEOREM ApprovedFirst == Spec => []NeverUnapproved
BY Invariant, PTL DEF IInv

(* Plans, edits and loop rounds keep the run a DAG.                        *)
THEOREM DagForever == Spec => []StaysDag
BY Invariant, PTL DEF IInv

(* The run asks the user only when nothing is at work.                     *)
THEOREM AsksWhenQuiet == Spec => []QuietWhileAsking
<1>1. IInv => QuietWhileAsking
    <2>1. SUFFICES ASSUME IInv, pc \in {"paused", "awaiting"}
                   PROVE  Running = {} /\ results = <<>> /\ agents = {}
        BY DEF QuietWhileAsking
    <2>2. InWork = 0
        BY <2>1 DEF IInv, NothingAtWork
    <2>3. agents = {} /\ results = <<>> /\ Workers = {}
        BY <2>1, <2>2, WorkCounts DEF IInv
    <2>4. QED
        BY <2>1, <2>3 DEF IInv, Owned
<1>2. QED
    BY <1>1, Invariant, PTL

-----------------------------------------------------------------------------
(* What a taken result changes: its node, nodes that become blocked or     *)
(* join the run, verify and fix.                                           *)
LEMMA TakeChanges ==
    ASSUME IInv, NEW r, Take(r), NEW n \in Ids
    PROVE  \/ n = r.id /\ state'[n] # "running"
           \/ state'[n] = state[n]
           \/ state[n] \in {"pending", "absent"} /\ state'[n] \in {"pending", "blocked"}
           \/ n \in {Verify, Fix} /\ state'[n] = "pending"
<1>1. state \in [Ids -> States \cup {"absent"}]
    BY DEF IInv, TypeOK
<1>2. ASSUME NEW s \in {"failed", "cancelled"},
             state' = Block(Nodes, edges, [state EXCEPT ![r.id] = s])
      PROVE  \/ n = r.id /\ state'[n] # "running"
             \/ state'[n] = state[n]
             \/ state[n] \in {"pending", "absent"} /\ state'[n] \in {"pending", "blocked"}
    <2> DEFINE st == [state EXCEPT ![r.id] = s]
    <2>1. st \in [Ids -> States \cup {"absent"}] /\ st[n] = IF n = r.id THEN s ELSE state[n]
        BY <1>1 DEF States
    <2>2. state' = Block(Nodes, edges, st)
        BY <1>2
    <2> HIDE DEF st
    <2>3. state'[n] = st[n] \/ (st[n] = "pending" /\ state'[n] = "blocked")
        BY <2>1, <2>2, BlockTyped
    <2>4. QED
        BY <2>1, <2>3
<1>3. ASSUME Fail(r.id)
      PROVE  \/ n = r.id /\ state'[n] # "running"
             \/ state'[n] = state[n]
             \/ state[n] \in {"pending", "absent"} /\ state'[n] \in {"pending", "blocked"}
    BY <1>2, <1>3 DEF Fail
<1>4. ASSUME NEW s \in {"pending", "cancelled", "completed"}, state' = [state EXCEPT ![r.id] = s]
      PROVE  \/ n = r.id /\ state'[n] # "running"
             \/ state'[n] = state[n]
    BY <1>1, <1>4
<1>5. CASE TakeStalled(r)
    BY <1>3, <1>4, <1>5 DEF TakeStalled
<1>6. CASE TakeEscalate(r) \/ TakeLimit(r) \/ TakeCancelled(r) \/ TakeDone(r) \/ TakeVerdict(r)
    BY <1>4, <1>6 DEF TakeEscalate, TakeLimit, TakeCancelled, TakeDone, TakeVerdict
<1>7. CASE TakeUserStop(r)
    BY <1>2, <1>7 DEF TakeUserStop
<1>8. CASE TakeErr(r) \/ TakeMisfitPlan(r) \/ TakeMisfitFix(r)
    BY <1>3, <1>8 DEF TakeErr, TakeMisfitPlan, TakeMisfitFix
<1>9. CASE TakePlan(r)
    <2>1. state'[n] = IF n = r.id THEN "completed"
                      ELSE IF n \in Range(r.plan.nodes) THEN "pending" ELSE state[n]
        BY <1>9 DEF TakePlan
    <2>2. n \in Range(r.plan.nodes) => state[n] = "absent"
        BY <1>9 DEF TakePlan, GrowFits, Nodes
    <2>3. QED
        BY <2>1, <2>2
<1>10. CASE TakeNextRound(r)
    BY <1>1, <1>10 DEF TakeNextRound, NextRoundState
<1>11. QED
    BY <1>5, <1>6, <1>7, <1>8, <1>9, <1>10 DEF Take

(* A node that begins to run begins by Start.                              *)
LEMMA OnlyStart ==
    ASSUME IInv, [Next]_vars, ~\E n \in Ids : Start(n)
    PROVE  Running' \subseteq Running
<1>1. CASE UNCHANGED state
    BY <1>1 DEF Running
<1>2. CASE TakeEdit
    BY <1>2 DEF TakeEdit, Edited, Running
<1>3. CASE End
    BY <1>3 DEF End, AfterTheEnd, Running
<1>4. CASE Take(Head(results))
    BY <1>4, TakeChanges DEF Running
<1>5. QED
    BY <1>1, <1>2, <1>3, <1>4
       DEF Next, Loop, User, Agent, Ended, vars, dagVars, TakeApproval, StopAwaiting, Await, PauseRun,
           StartReady, WaitForResult, GoTo, Resume, StopPaused, Cancel, Deny, Pause, Continue, Approve,
           EditPlan, Decide, StopNode, SendMessage, Stall, SendResult, UseTeam

(* Nothing starts after a failure.                                         *)
THEOREM FailureStopsStarts == Spec => NoStartAfterFailure
<1>1. IInv /\ [Next]_vars => [failErr => Running' \subseteq Running]_vars
    BY OnlyStart DEF Start, IInv, TurnHolds
<1>2. QED
    BY <1>1, Invariant, PTL DEF Spec, NoStartAfterFailure

(* Nothing starts while the budget is spent.                               *)
THEOREM BudgetStopsStarts == Spec => NoStartOverBudget
<1>1. IInv /\ [Next]_vars => [budget > 0 /\ spent >= budget => Running' \subseteq Running]_vars
    BY OnlyStart DEF Start, IInv, TurnHolds, OverBudget
<1>2. QED
    BY <1>1, Invariant, PTL DEF Spec, NoStartOverBudget

(* A node that ended keeps its state, but for the loop's verify and fix.   *)
THEOREM EndsStay == Spec => EndedNodesStay
<1> DEFINE A == \A n \in Ids \ {Verify, Fix} : state[n] \in OverStates => state'[n] = state[n]
<1>1. ASSUME IInv, [Next]_vars PROVE A
    <2>1. CASE UNCHANGED state
        BY <2>1
    <2>2. CASE TakeEdit
        <3> DEFINE text == Head(decide).text
        <3>1. CASE EditFits(text)
            <4>1. state' = Edited(text) /\ Range(text.steps) \cap Nodes \subseteq Left
                BY <2>2, <3>1 DEF TakeEdit, EditFits, Fits
            <4>2. QED
                BY <4>1 DEF Edited, Left, Nodes, OverStates, DoneStates, StopStates
        <3>2. CASE ~EditFits(text)
            BY <2>2, <3>2 DEF TakeEdit
        <3>3. QED
            BY <3>1, <3>2
    <2>3. CASE End
        BY <2>3 DEF End, AfterTheEnd, OverStates, DoneStates, StopStates
    <2>4. CASE Take(Head(results))
        <3> DEFINE r == Head(results)
        <3>1. Collect(r)
            BY <2>4 DEF Take
        <3>2. TypeOK'
            BY <1>1, StepTyped DEF IInv
        <3>3. r.id # Fix => r.id \in Running
            BY <1>1, <3>1, <3>2, CollectWorkers DEF IInv, OneWorker
        <3>4. QED
            BY <1>1, <2>4, <3>3, TakeChanges DEF Running, OverStates, DoneStates, StopStates
    <2>5. ASSUME NEW m \in Ids, Start(m) PROVE A
        BY <1>1, <2>5 DEF Start, IInv, TurnHolds, TypeOK, OverStates, DoneStates, StopStates
    <2>6. QED
        BY <1>1, <2>1, <2>2, <2>3, <2>4, <2>5
           DEF Next, Loop, User, Agent, Ended, vars, dagVars, TakeApproval, StopAwaiting, Await,
               PauseRun, StartReady, WaitForResult, GoTo, Resume, StopPaused, Cancel, Deny, Pause,
               Continue, Approve, EditPlan, Decide, StopNode, SendMessage, Stall, SendResult, UseTeam
<1>2. IInv /\ [Next]_vars => [A]_vars
    BY <1>1
<1>3. QED
    BY <1>2, Invariant, PTL DEF Spec, EndedNodesStay
=============================================================================
