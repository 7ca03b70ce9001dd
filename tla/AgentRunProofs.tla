--------------------------- MODULE AgentRunProofs ---------------------------
(***************************************************************************)
(* Type correctness of AgentRun for every value of its constants: one      *)
(* lemma per part of a step that builds a value, then one case per action. *)
(***************************************************************************)
EXTENDS AgentRunProps, FiniteSetTheorems, SequenceTheorems, TLAPS

(* The place of a node of a run is a number (index).                       *)
LEMMA PositionTyped ==
    ASSUME NEW S, NEW s \in Seq(S), NEW n \in Range(s)
    PROVE  PositionIn(s, n) \in Nat
BY DEF PositionIn, Range

(* Start sets every variable to a value of its type.                       *)
LEMMA InitTyped == Init => TypeOK
<1> SUFFICES ASSUME Init PROVE TypeOK
    OBVIOUS
<1>1. TeamTypeOK
    BY DEF Init, TeamInit, TeamTypeOK, Fates
<1>2. state \in [Ids -> States \cup {"absent"}]
    BY DEF Init, States
<1>3. order \in [Ids -> Nat]
    BY RunAssumption, PositionTyped DEF Init
<1>4. round \in Nat /\ (HasLoop => round <= MaxRounds)
    BY RunAssumption DEF Init, HasLoop
<1>5. results \in Seq(Results) /\ decide \in Seq(Decisions)
    BY DEF Init
<1>6. edges \subseteq Ids \X Ids /\ spent \in Nat /\ budget \in Nat
    BY RunAssumption DEF Init
<1>7. {denied, failErr, stopErr, pause, resume, limited} \subseteq BOOLEAN
    BY DEF Init
<1>8. stalls \in [Ids -> Nat] /\ agents \subseteq Agents /\ IsFiniteSet(agents)
    BY FS_EmptySet DEF Init
<1>9. outputs \in [Ids -> {"none", "empty", "text"}]
    BY DEF Init
<1>10. approved \subseteq Ids
    <2>1. approved \subseteq Range(InitialNodes) \cup ({Fix} \ {None}) /\ InitialNodes \in Seq(Ids)
        BY RunAssumption DEF Init
    <2>2. Range(InitialNodes) \subseteq Ids
        BY <2>1 DEF Range
    <2>3. Fix \in Ids \cup {None}
        BY RunAssumption
    <2>4. QED
        BY <2>1, <2>2, <2>3
<1>11. QED
    BY <1>1, <1>2, <1>3, <1>4, <1>5, <1>6, <1>7, <1>8, <1>9, <1>10 DEF Init, TypeOK

(* openNode keeps the types of the boxes.                                  *)
LEMMA OpenTyped ==
    ASSUME TeamTypeOK, NEW n \in Ids, OpenNode(n)
    PROVE  open' \subseteq Ids /\ box' \in [Ids -> Seq(Msgs)]
<1>1. <<>> \in Seq(Msgs)
    BY EmptySeq
<1>2. QED
    BY <1>1 DEF TeamTypeOK, OpenNode

(* Send keeps the types of the boxes, whether it accepts the message or not. *)
LEMMA SendTyped ==
    ASSUME TeamTypeOK, NEW n \in Ids, NEW m \in Msgs, Send(n, m)
    PROVE  TeamTypeOK'
<1>1. CASE n \in open
    <2>1. Append(box[n], m) \in Seq(Msgs)
        BY AppendProperties DEF TeamTypeOK
    <2>2. box' \in [Ids -> Seq(Msgs)]
        BY <1>1, <2>1 DEF TeamTypeOK, Send
    <2>3. fate' \in [Msgs -> Fates]
        BY <1>1 DEF TeamTypeOK, Send, Fates
    <2>4. QED
        BY <2>2, <2>3 DEF TeamTypeOK, Send
<1>2. CASE n \notin open
    BY <1>2 DEF TeamTypeOK, Send, Fates
<1>3. QED
    BY <1>1, <1>2

(* The tools of a running step (claim, release, send, read) keep the types. *)
LEMMA UseTyped ==
    ASSUME TeamTypeOK, NEW n \in Ids, ReadInbox(n) \/ \E k \in Keys : Claim(n, k) \/ Release(n, k)
    PROVE  TeamTypeOK'
<1>1. CASE ReadInbox(n)
    <2>1. box' \in [Ids -> Seq(Msgs)]
        <3>1. <<>> \in Seq(Msgs)
            BY EmptySeq
        <3>2. QED
            BY <1>1, <3>1 DEF ReadInbox, TeamTypeOK
    <2>2. fate' \in [Msgs -> Fates]
        BY <1>1 DEF ReadInbox, TeamTypeOK, Fates
    <2>3. QED
        BY <1>1, <2>1, <2>2 DEF ReadInbox, TeamTypeOK
<1>2. ASSUME NEW k \in Keys, Claim(n, k) \/ Release(n, k) PROVE TeamTypeOK'
    BY <1>2 DEF Claim, Release, TeamTypeOK
<1>3. QED
    BY <1>1, <1>2

(* closeNode and releaseAll keep the types.                                *)
LEMMA CloseTyped ==
    ASSUME TeamTypeOK, NEW n \in Ids, CloseNode(n), ReleaseAll(n)
    PROVE  TeamTypeOK'
<1>1. <<>> \in Seq(Msgs)
    BY EmptySeq
<1>2. box' \in [Ids -> Seq(Msgs)] /\ open' \subseteq Ids
    BY <1>1 DEF CloseNode, TeamTypeOK
<1>3. fate' \in [Msgs -> Fates]
    BY DEF CloseNode, TeamTypeOK, Fates
<1>4. claims' \in [Keys -> Ids \cup {None}]
    BY DEF ReleaseAll, TeamTypeOK
<1>5. QED
    BY <1>2, <1>3, <1>4 DEF TeamTypeOK

(* A new order of the nodes is a sequence of ids.                          *)
LEMMA OrderTyped ==
    ASSUME TypeOK, NEW ns \in Seq(Ids)
    PROVE  OrderWith(ns) \in [Ids -> Nat]
<1>1. Cardinality(Nodes) \in Nat
    BY RunAssumption, FS_Subset, FS_CardinalityType DEF Nodes
<1>2. \A n \in Range(ns) : PositionIn(ns, n) \in Nat
    BY PositionTyped
<1>3. order \in [Ids -> Nat]
    BY DEF TypeOK
<1> DEFINE place(n) == IF n \in Range(ns) \ Nodes
                        THEN Cardinality(Nodes) + PositionIn(ns, n) ELSE order[n]
<1>4. ASSUME NEW n \in Ids PROVE place(n) \in Nat
    <2>1. CASE n \in Range(ns) \ Nodes
        <3>1. PositionIn(ns, n) \in Nat
            BY <1>2, <2>1
        <3>2. QED
            BY <1>1, <2>1, <3>1
    <2>2. CASE n \notin Range(ns) \ Nodes
        BY <1>3, <2>2
    <2>3. QED
        BY <2>1, <2>2
<1>5. OrderWith(ns) = [n \in Ids |-> place(n)]
    BY DEF OrderWith
<1> HIDE DEF place
<1>6. QED
    BY <1>4, <1>5

(* The steps an edit may touch are nodes.                                  *)
LEMMA LeftTyped == Left \subseteq Ids /\ LeftNodes \subseteq Ids
BY RunAssumption DEF Left, LeftNodes, Nodes, HasLoop

(* What a user may send is a decision.                                     *)
LEMMA DecisionTyped ==
    ASSUME TypeOK, decide # <<>>
    PROVE  /\ Head(decide).text.steps \in Seq(Ids)
           /\ Head(decide).text.deps \subseteq Ids \X Ids
           /\ Tail(decide) \in Seq(Decisions)
<1>1. Head(decide) \in Decisions /\ Tail(decide) \in Seq(Decisions)
    BY HeadTailProperties DEF TypeOK
<1>2. Head(decide).text \in Edits \cup {NoText}
    BY <1>1 DEF Decisions
<1>3. \A d \in Edits : d.steps \in Seq(Ids) /\ d.deps \subseteq Ids \X Ids
    BY RunAssumption
<1>4. NoText.steps \in Seq(Ids) /\ NoText.deps \subseteq Ids \X Ids
    BY EmptySeq DEF NoText
<1>5. QED
    BY <1>1, <1>2, <1>3, <1>4

(* An edit that fits leaves states and edges of known nodes.               *)
LEMMA EditTyped ==
    ASSUME TypeOK, NEW text, text.steps \in Seq(Ids), text.deps \subseteq Ids \X Ids
    PROVE  /\ Edited(text) \in [Ids -> States \cup {"absent"}]
           /\ EditEdges(Range(text.steps), text.deps) \subseteq Ids \X Ids
BY DEF TypeOK, Edited, EditEdges, States

(* A second start of a node leaves finitely many goroutines.               *)
LEMMA AgedTyped ==
    ASSUME TypeOK, NEW n \in Ids
    PROVE  /\ Aged(n) \subseteq Agents /\ IsFiniteSet(Aged(n))
           /\ Cardinality(Aged(n)) <= Cardinality(agents)
<1> DEFINE f == [g \in agents |-> IF g.id = n THEN [g EXCEPT !.age = @ + 1] ELSE g]
<1>1. f \in Surjection(agents, Aged(n))
    BY DEF Surjection, Aged
<1>2. IsFiniteSet(agents)
    BY DEF TypeOK
<1>3. Aged(n) \subseteq Agents
    <2>1. ASSUME NEW g \in agents PROVE g.age + 1 \in Nat
        BY DEF TypeOK, Agents
    <2>2. ASSUME NEW g \in agents PROVE [g EXCEPT !.age = g.age + 1] \in Agents
        BY <2>1 DEF TypeOK, Agents
    <2>3. QED
        BY <2>2 DEF TypeOK, Aged
<1>4. QED
    BY <1>1, <1>2, <1>3, FS_Surjection

(* So does a call of a cancel function.                                    *)
LEMMA CutTyped ==
    ASSUME TypeOK, NEW n \in Ids
    PROVE  /\ Cut(n) \subseteq Agents /\ IsFiniteSet(Cut(n))
           /\ Cardinality(Cut(n)) <= Cardinality(agents)
<1> DEFINE f == [g \in agents |-> IF g.id = n /\ g.age = 0 THEN [g EXCEPT !.cut = TRUE] ELSE g]
<1>1. f \in Surjection(agents, Cut(n))
    BY DEF Surjection, Cut
<1>2. IsFiniteSet(agents)
    BY DEF TypeOK
<1>3. Cut(n) \subseteq Agents
    BY DEF TypeOK, Cut, Agents
<1>4. QED
    BY <1>1, <1>2, <1>3, FS_Surjection

(* A goroutine puts a result of a known kind in the channel.               *)
LEMMA ResultTyped ==
    ASSUME TypeOK, NEW g \in agents, SendResult(g)
    PROVE  results' \in Seq(Results)
<1>1. PICK kind \in Kinds(g), cost \in Costs :
      \E plan \in Answers(g.id, kind), pass \in (IF g.id = Verify THEN BOOLEAN ELSE {FALSE}) :
          results' = Append(results, [id |-> g.id, kind |-> kind, plan |-> plan, pass |-> pass,
                                      cost |-> cost])
    BY DEF SendResult
<1>2. PICK plan \in Answers(g.id, kind), pass \in (IF g.id = Verify THEN BOOLEAN ELSE {FALSE}) :
          results' = Append(results, [id |-> g.id, kind |-> kind, plan |-> plan, pass |-> pass,
                                      cost |-> cost])
    BY <1>1
<1>3. kind \in ResultKinds
    BY DEF Kinds, ResultKinds
<1>4. plan \in Plans \cup {NoPlan}
    BY DEF Answers
<1>5. pass \in BOOLEAN
    OBVIOUS
<1>6. [id |-> g.id, kind |-> kind, plan |-> plan, pass |-> pass, cost |-> cost] \in Results
    <2>1. g.id \in Ids
        BY DEF TypeOK, Agents
    <2>2. QED
        BY <1>3, <1>4, <1>5, <2>1 DEF Results
<1>7. QED
    BY <1>2, <1>6, AppendProperties DEF TypeOK

(* Taking a result keeps the types of all it changes.                      *)
LEMMA CollectTyped ==
    ASSUME TypeOK, NEW r, Collect(r)
    PROVE  /\ r \in Results /\ results' \in Seq(Results)
           /\ TeamTypeOK'
           /\ agents' \subseteq Agents /\ IsFiniteSet(agents')
           /\ stops' \subseteq Ids /\ stopped' \subseteq Ids
           /\ spent' \in Nat
           /\ pc' = "top"
           /\ UNCHANGED <<todo, budget, shared, final, runCtx, denied, resume, decide>>
<1>1. results # <<>> /\ r = Head(results) /\ results' = Tail(results)
    BY DEF Collect
<1>2. r \in Results /\ results' \in Seq(Results)
    BY <1>1, HeadTailProperties DEF TypeOK
<1>3. r.id \in Ids /\ r.cost \in Nat
    BY <1>2, RunAssumption DEF Results
<1>4. TeamTypeOK'
    BY <1>3, CloseTyped DEF Collect, TypeOK
<1>5. spent' \in Nat
    BY <1>3, RunAssumption DEF Collect, Spend, TypeOK
<1>6. agents' \subseteq Agents /\ IsFiniteSet(agents')
    <2>1. CASE r.id \in stops
        BY <1>3, <2>1, CutTyped DEF Collect
    <2>2. CASE r.id \notin stops
        BY <2>2 DEF Collect, TypeOK
    <2>3. QED
        BY <2>1, <2>2
<1>7. QED
    BY <1>2, <1>3, <1>4, <1>5, <1>6 DEF Collect, TypeOK

(* Block changes only states, and those to "blocked". *)
LEMMA BlockTyped ==
    ASSUME NEW ns, NEW es, NEW st \in [Ids -> States \cup {"absent"}]
    PROVE  /\ Block(ns, es, st) \in [Ids -> States \cup {"absent"}]
           /\ \A n \in Ids : Block(ns, es, st)[n] = st[n]
                             \/ (st[n] = "pending" /\ Block(ns, es, st)[n] = "blocked")
BY DEF Block, Blocked, States

(* The edges after a plan joined are between known nodes.                  *)
LEMMA GrownTyped ==
    ASSUME TypeOK, NEW r, r.plan.nodes \in Seq(Ids), r.plan.edges \subseteq Ids \X Ids, GrowFits(r)
    PROVE  Grown(r.id, r.plan) \subseteq Ids \X Ids
<1>1. \A e \in Grown(r.id, r.plan) : e[1] \in Ids /\ e[2] \in Ids
    BY DEF GrowFits, Normal, Nodes, Range
<1>2. \A e \in Grown(r.id, r.plan) : e = <<e[1], e[2]>>
    BY DEF Grown, TypeOK
<1>3. QED
    BY <1>1, <1>2

(* Every step of the loop, a goroutine or the user keeps the types.        *)
LEMMA StepTyped == TypeOK /\ [Next]_vars => TypeOK'
<1> SUFFICES ASSUME TypeOK, [Next]_vars PROVE TypeOK'
    OBVIOUS
<1> USE DEF TypeOK, TeamTypeOK, vars, dagVars, loopVars, taskVars, userVars, teamVars
<1>1. CASE UNCHANGED vars
    BY <1>1
<1>2. CASE TakeApproval
    BY <1>2, DecisionTyped, LeftTyped DEF TakeApproval
<1>3. CASE TakeEdit
    <2> DEFINE text == Head(decide).text
    <2>1. /\ text.steps \in Seq(Ids) /\ text.deps \subseteq Ids \X Ids
          /\ decide' \in Seq(Decisions)
        BY <1>3, DecisionTyped DEF TakeEdit
    <2>2. /\ Edited(text) \in [Ids -> States \cup {"absent"}]
          /\ EditEdges(Range(text.steps), text.deps) \subseteq Ids \X Ids
        BY <2>1, EditTyped
    <2>3. OrderWith(text.steps) \in [Ids -> Nat]
        BY <2>1, OrderTyped
    <2>4. QED
        BY <1>3, <2>1, <2>2, <2>3 DEF TakeEdit
<1>4. CASE StopAwaiting
    BY <1>4 DEF StopAwaiting
<1>5. CASE Await
    BY <1>5 DEF Await, GoTo
<1>6. CASE PauseRun
    BY <1>6 DEF PauseRun, GoTo
<1>7. CASE StartReady
    BY <1>7 DEF StartReady, GoTo, ReadyNow, Ready, Nodes
<1>8. CASE WaitForResult
    BY <1>8 DEF WaitForResult, GoTo
<1>9. CASE Resume
    BY <1>9 DEF Resume, BudgetAfterContinue
<1>10. CASE StopPaused
    BY <1>10 DEF StopPaused, GoTo
<1>11. ASSUME NEW n \in Ids, Start(n) PROVE TypeOK'
    <2>1. open' \subseteq Ids /\ box' \in [Ids -> Seq(Msgs)]
        <3>1. CASE n \in CLIs
            BY <1>11, <3>1 DEF Start
        <3>2. CASE n \notin CLIs
            BY <1>11, <3>2, OpenTyped DEF Start
        <3>3. QED
            BY <3>1, <3>2
    <2>2. state' \in [Ids -> States \cup {"absent"}]
        BY <1>11 DEF Start, States
    <2>3. shared' \subseteq Ids /\ stops' \subseteq Ids /\ todo' \subseteq Ids
        BY <1>11 DEF Start
    <2>4. pc' \in {"starting", "receiving"} 
        BY <1>11 DEF Start
    <2>5. agents' \subseteq Agents /\ IsFiniteSet(agents')
        <3>1. [id |-> n, age |-> 0, fired |-> FALSE, cut |-> FALSE] \in Agents
            BY DEF Agents
        <3>2. QED
            BY <1>11, <3>1, AgedTyped, FS_AddElement DEF Start
    <2>6. QED
        BY <1>11, <2>1, <2>2, <2>3, <2>4, <2>5 DEF Start
<1>12. CASE End
    BY <1>12 DEF End, AfterTheEnd, FinalKind, States
<1>13. CASE Cancel
    BY <1>13 DEF Cancel
<1>14. CASE Deny
    BY <1>14 DEF Deny
<1>15. CASE Pause
    BY <1>15 DEF Pause
<1>16. CASE Continue
    BY <1>16 DEF Continue
<1>17. CASE Approve
    BY <1>17, AppendProperties DEF Approve, Decide, Decisions
<1>18. ASSUME NEW d \in Edits, EditPlan(d) PROVE TypeOK'
    BY <1>18, AppendProperties DEF EditPlan, Decide, Decisions
<1>19. ASSUME NEW n \in Ids, StopNode(n) PROVE TypeOK'
    BY <1>19, CutTyped DEF StopNode
<1>20. ASSUME NEW n \in Ids, NEW m \in Msgs, SendMessage(n, m) PROVE TypeOK'
    <2>1. TeamTypeOK'
        BY <1>20, SendTyped DEF SendMessage
    <2>2. QED
        BY <1>20, <2>1 DEF SendMessage
<1>21. ASSUME NEW g \in agents, Stall(g) PROVE TypeOK'
    <2>1. [g EXCEPT !.fired = TRUE] \in Agents
        BY DEF Agents
    <2>2. IsFiniteSet(agents \ {g})
        BY FS_RemoveElement
    <2>3. IsFiniteSet(agents')
        BY <1>21, <2>2, FS_AddElement DEF Stall
    <2>4. QED
        BY <1>21, <2>1, <2>3 DEF Stall
<1>22. ASSUME NEW g \in agents, UseTeam(g) PROVE TypeOK'
    <2>1. TeamTypeOK'
        BY <1>22, UseTyped DEF UseTeam, Agents
    <2>2. QED
        BY <1>22, <2>1 DEF UseTeam
<1>23. ASSUME NEW g \in agents, SendResult(g) PROVE TypeOK'
    <2>1. results' \in Seq(Results)
        BY <1>23, ResultTyped
    <2>2. IsFiniteSet(agents')
        BY <1>23, FS_RemoveElement DEF SendResult
    <2>3. QED
        BY <1>23, <2>1, <2>2 DEF SendResult
<1>24. ASSUME NEW r, Take(r) PROVE TypeOK'
    <2>1. Collect(r)
        BY <1>24 DEF Take
    <2>2. /\ r \in Results /\ results' \in Seq(Results)
          /\ TeamTypeOK'
          /\ agents' \subseteq Agents /\ IsFiniteSet(agents')
          /\ stops' \subseteq Ids /\ stopped' \subseteq Ids
          /\ spent' \in Nat
          /\ pc' = "top"
          /\ UNCHANGED <<todo, budget, shared, final, runCtx, denied, resume, decide>>
        BY <2>1, CollectTyped
    <2>3. r.id \in Ids /\ r.plan \in Plans \cup {NoPlan}
        BY <2>2 DEF Results
    <2>4. ASSUME Fail(r.id), stalls' \in [Ids -> Nat], outputs' \in [Ids -> {"none", "empty", "text"}]
          PROVE  TypeOK'
        <3>1. [state EXCEPT ![r.id] = "failed"] \in [Ids -> States \cup {"absent"}]
            BY DEF States
        <3>2. state' = Block(Nodes, edges, [state EXCEPT ![r.id] = "failed"])
            BY <2>4 DEF Fail
        <3>3. state' \in [Ids -> States \cup {"absent"}]
            BY <3>1, <3>2, BlockTyped
        <3>4. QED
            BY <2>2, <2>4, <3>3 DEF Fail
    <2>5. CASE TakeStalled(r)
        <3>1. stalls' \in [Ids -> Nat]
            BY <2>3, <2>5 DEF TakeStalled
        <3>2. CASE stalls[r.id] >= 1
            BY <2>4, <2>5, <3>1, <3>2 DEF TakeStalled
        <3>3. CASE ~(stalls[r.id] >= 1)
            BY <2>2, <2>3, <2>5, <3>1, <3>3 DEF TakeStalled, States
        <3>4. QED
            BY <3>2, <3>3
    <2>6. CASE TakeEscalate(r)
        BY <2>2, <2>3, <2>6 DEF TakeEscalate, States
    <2>7. CASE TakeLimit(r)
        BY <2>2, <2>3, <2>7 DEF TakeLimit, States
    <2>8. CASE TakeUserStop(r)
        <3>1. [state EXCEPT ![r.id] = "cancelled"] \in [Ids -> States \cup {"absent"}]
            BY DEF States
        <3>2. Block(Nodes, edges, [state EXCEPT ![r.id] = "cancelled"]) \in [Ids -> States \cup {"absent"}]
            BY <3>1, BlockTyped
        <3>3. QED
            BY <2>2, <2>8, <3>2 DEF TakeUserStop
    <2>9. CASE TakeCancelled(r)
        BY <2>2, <2>3, <2>9 DEF TakeCancelled, States
    <2>10. CASE TakeErr(r)
        BY <2>4, <2>10 DEF TakeErr
    <2>11. CASE TakeDone(r)
        BY <2>2, <2>3, <2>11 DEF TakeDone, Answer, States
    <2>12. CASE TakeMisfitPlan(r)
        BY <2>4, <2>12 DEF TakeMisfitPlan
    <2>13. CASE TakePlan(r)
        <3>1. r.plan \in Plans
            BY <2>3, <2>13 DEF TakePlan
        <3>2. r.plan.nodes \in Seq(Ids) /\ r.plan.edges \subseteq Ids \X Ids
            BY <3>1, RunAssumption
        <3>3. order' \in [Ids -> Nat]
            BY <2>13, <3>2, OrderTyped DEF TakePlan
        <3>4. edges' \subseteq Ids \X Ids
            BY <2>13, <3>2, GrownTyped DEF TakePlan
        <3>5. state' \in [Ids -> States \cup {"absent"}]
            BY <2>13 DEF TakePlan, States
        <3>6. outputs' \in [Ids -> {"none", "empty", "text"}]
            BY <2>13 DEF TakePlan, Answer
        <3>7. QED
            BY <2>2, <2>13, <3>3, <3>4, <3>5, <3>6 DEF TakePlan
    <2>14. CASE TakeVerdict(r)
        BY <2>2, <2>3, <2>14 DEF TakeVerdict, Answer, States
    <2>15. CASE TakeNextRound(r)
        <3>1. HasLoop /\ Fix \in Ids /\ Verify \in Ids
            BY <2>3, <2>15, RunAssumption, TeamAssumption DEF TakeNextRound, HasLoop
        <3>2. round' \in Nat /\ round' <= MaxRounds
            BY <2>15, <3>1, RunAssumption DEF TakeNextRound, RoundsOut
        <3>3. <<Fix>> \in Seq(Ids) /\ <<Fix, Verify>> \in Ids \X Ids
            BY <3>1
        <3>4. OrderWith(<<Fix>>) \in [Ids -> Nat]
            BY <3>3, OrderTyped
        <3>7. NextRoundEdges \subseteq Ids \X Ids
            BY <3>3 DEF NextRoundEdges
        <3>8. NextRoundState \in [Ids -> States \cup {"absent"}]
            BY DEF NextRoundState, States
        <3>5. outputs' \in [Ids -> {"none", "empty", "text"}]
            BY <2>15 DEF TakeNextRound, Answer
        <3>6. QED
            BY <2>2, <2>15, <3>2, <3>4, <3>5, <3>7, <3>8 DEF TakeNextRound
    <2>16. CASE TakeMisfitFix(r)
        <3>1. outputs' \in [Ids -> {"none", "empty", "text"}]
            BY <2>3, <2>16 DEF TakeMisfitFix, Answer
        <3>2. QED
            BY <2>4, <2>16, <3>1 DEF TakeMisfitFix
    <2>17. QED
        BY <1>24, <2>5, <2>6, <2>7, <2>8, <2>9, <2>10, <2>11, <2>12, <2>13, <2>14, <2>15, <2>16
           DEF Take
<1>25. QED
    BY <1>1, <1>2, <1>3, <1>4, <1>5, <1>6, <1>7, <1>8, <1>9, <1>10, <1>11, <1>12, <1>13, <1>14,
       <1>15, <1>16, <1>17, <1>18, <1>19, <1>20, <1>21, <1>22, <1>23, <1>24
       DEF Next, Loop, User, Agent, Ended

(* The variables have their types. *)
THEOREM TypeCorrect == Spec => []TypeOK
BY InitTyped, StepTyped, PTL DEF Spec
=============================================================================
