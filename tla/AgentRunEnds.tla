---------------------------- MODULE AgentRunEnds ----------------------------
(***************************************************************************)
(* How a run ends, for every value of the constants of AgentRun: what is   *)
(* left over, what the final event says, what a verify step proves and     *)
(* what became of messages and claims.                                     *)
(*                                                                         *)
(* With a work-until-done loop these hold while no edit of the plan drops  *)
(* the fix step's edge to verify (LoopKept).  EInv is inductive together   *)
(* with IInv and LoopEdge.                                                 *)
(***************************************************************************)
EXTENDS AgentRunSafety

-----------------------------------------------------------------------------
(* A step that leaves the nodes, the goroutines and the team alone.        *)
Still ==
    /\ UNCHANGED <<state, edges, round, failErr, stopErr, verdict, final, shared>>
    /\ UNCHANGED taskVars /\ UNCHANGED teamVars
    /\ pc' = "ended" <=> pc = "ended"
    /\ runCtx' = runCtx \/ (runCtx' = "cancelled" /\ pc # "ended")

(* The kinds of steps.                                                     *)
LEMMA StepKinds ==
    ASSUME [Next]_vars
    PROVE  \/ Still
           \/ TakeEdit
           \/ \E n \in Ids : Start(n)
           \/ results # <<>> /\ Take(Head(results))
           \/ End
           \/ \E n \in Ids : StopNode(n)
           \/ \E n \in Ids, m \in Msgs : SendMessage(n, m)
           \/ \E g \in agents : Stall(g) \/ SendResult(g) \/ UseTeam(g)
<1> USE DEF Still
<1>1. CASE UNCHANGED vars \/ Ended
    BY <1>1 DEF vars, dagVars, loopVars, userVars, Ended
<1>2. CASE TakeApproval
    BY <1>2 DEF TakeApproval
<1>3. CASE StopAwaiting
    BY <1>3 DEF StopAwaiting, dagVars, userVars
<1>4. CASE Await \/ PauseRun \/ StartReady \/ WaitForResult \/ StopPaused
    BY <1>4 DEF Await, PauseRun, StartReady, WaitForResult, StopPaused, GoTo, dagVars, userVars
<1>5. CASE Resume
    BY <1>5 DEF Resume, dagVars
<1>6. CASE Cancel \/ Deny \/ Pause \/ Continue
    BY <1>6 DEF Cancel, Deny, Pause, Continue, dagVars, loopVars
<1>7. ASSUME NEW kind, NEW text, Decide(kind, text) PROVE Still
    BY <1>7 DEF Decide, dagVars, loopVars
<1>8. CASE Next
    BY <1>1, <1>2, <1>3, <1>4, <1>5, <1>6, <1>7, <1>8
       DEF Next, Loop, User, Agent, Approve, EditPlan
<1>9. QED
    BY <1>1, <1>8

-----------------------------------------------------------------------------
(* The node of a taken result is put back, ...                             *)
Back(r) ==
    /\ state' = [state EXCEPT ![r.id] = "pending"]
    /\ UNCHANGED <<edges, round, failErr, stopErr, verdict>>

(* ... or it is one of the other cases of the switch.                      *)
LEMMA TakeKinds ==
    ASSUME NEW r, Take(r)
    PROVE  /\ Collect(r)
           /\ \/ Back(r) \/ Fail(r.id) \/ TakeUserStop(r) \/ TakeCancelled(r)
              \/ TakeDone(r) \/ TakePlan(r) \/ TakeVerdict(r) \/ TakeNextRound(r)
<1>1. TakeStalled(r) => Back(r) \/ Fail(r.id)
    BY DEF TakeStalled, Back
<1>2. TakeEscalate(r) \/ TakeLimit(r) => Back(r)
    BY DEF TakeEscalate, TakeLimit, Back
<1>3. TakeErr(r) \/ TakeMisfitPlan(r) \/ TakeMisfitFix(r) => Fail(r.id)
    BY DEF TakeErr, TakeMisfitPlan, TakeMisfitFix
<1>4. QED
    BY <1>1, <1>2, <1>3 DEF Take

(* What a taken result leaves of the goroutines when every node has one.   *)
LEMMA TakenAlone ==
    ASSUME IInv, Alone, NEW r, Collect(r)
    PROVE  /\ r \in Results /\ r.id \in Ids /\ state[r.id] = "running"
           /\ results # <<>> /\ r = results[1] /\ 1 \in DOMAIN results
           /\ agents' = agents /\ \A g \in agents : g.id # r.id
           /\ Workers' = Workers \ {r.id}
           /\ \A i \in DOMAIN results' : /\ i + 1 \in DOMAIN results /\ results'[i] = results[i + 1]
                                         /\ i \in Nat /\ results'[i].id # r.id
<1>1. results # <<>> /\ results \in Seq(Results) /\ r = Head(results) /\ results' = Tail(results)
    BY DEF Collect, IInv, TypeOK
<1>2. /\ r = results[1] /\ 1 \in DOMAIN results /\ r \in Results
      /\ \A i \in DOMAIN results' : i + 1 \in DOMAIN results /\ results'[i] = results[i + 1] /\ i \in Nat
                                    /\ i + 1 # 1
      /\ \A i \in DOMAIN results : i # 1 => i - 1 \in DOMAIN results' /\ results'[i - 1] = results[i]
    BY <1>1
<1>3. r.id \in Ids
    BY <1>2 DEF Results
<1>4. state[r.id] = "running"
    <2>1. r.id \in Workers
        BY <1>2 DEF Workers
    <2>2. QED
        BY <2>1 DEF Alone, Running
<1>5. \A g \in agents : g.id # r.id
    BY <1>2 DEF Alone
<1>6. agents' = agents
    <2>1. Cut(r.id) = {g : g \in agents}
        BY <1>5 DEF Cut
    <2>2. QED
        BY <2>1 DEF Collect
<1>7. \A i \in DOMAIN results' : results'[i].id # r.id
    <2>1. ASSUME NEW i \in DOMAIN results', results'[i].id = r.id PROVE FALSE
        <3>1. results[i + 1].id = results[1].id /\ i + 1 # 1 /\ i + 1 \in DOMAIN results
            BY <1>2, <2>1
        <3>2. QED
            BY <1>2, <3>1 DEF Alone
    <2>2. QED
        BY <2>1
<1>8. Workers' = Workers \ {r.id}
    <2> DEFINE old == {results[i].id : i \in DOMAIN results}
               rest == {results'[i].id : i \in DOMAIN results'}
               gs == {g.id : g \in agents}
    <2>1. rest = old \ {r.id}
        <3>1. \A i \in DOMAIN results' : results'[i].id \in old
            BY <1>2
        <3>2. \A i \in DOMAIN results : results[i].id # r.id => results[i].id \in rest
            BY <1>2
        <3>3. QED
            BY <1>7, <3>1, <3>2
    <2>2. r.id \notin gs
        BY <1>5
    <2>3. Workers = gs \cup old /\ Workers' = gs \cup rest
        BY <1>6 DEF Workers
    <2> HIDE DEF old, rest, gs
    <2>4. QED
        BY <2>1, <2>2, <2>3
<1>9. QED
    BY <1>1, <1>2, <1>3, <1>4, <1>5, <1>6, <1>7, <1>8

(* What happens to the states when a result is taken.                      *)
LEMMA TakeStates ==
    ASSUME IInv, Alone, FixFirst, NEW r, Take(r)
    PROVE  /\ state'[r.id] \in {"pending", "failed", "cancelled", "completed"}
           /\ state'[r.id] = "failed" <=> Fail(r.id)
           /\ state'[r.id] = "cancelled" <=> TakeUserStop(r) \/ TakeCancelled(r)
           /\ \A n \in Ids \ {r.id} :
                 \/ state'[n] = state[n]
                 \/ state[n] = "absent" /\ state'[n] = "pending" /\ n # Fix
                 \/ state[n] = "pending" /\ state'[n] = "blocked" /\ (Fail(r.id) \/ TakeUserStop(r))
                 \/ /\ n = Fix /\ r.id = Verify /\ TakeNextRound(r)
                    /\ state[n] \in DoneStates \cup {"absent"} /\ state'[n] = "pending"
<1>1. Collect(r)
    BY TakeKinds
<1>2. r.id \in Ids /\ state[r.id] = "running" /\ r = results[1] /\ 1 \in DOMAIN results
    BY <1>1, TakenAlone
<1>3. state \in [Ids -> States \cup {"absent"}]
    BY DEF IInv, TypeOK
<1>4. ASSUME NEW s \in {"failed", "cancelled"},
             state' = Block(Nodes, edges, [state EXCEPT ![r.id] = s])
      PROVE  /\ state'[r.id] = s
             /\ \A n \in Ids \ {r.id} : \/ state'[n] = state[n]
                                        \/ state[n] = "pending" /\ state'[n] = "blocked"
    <2> DEFINE st == [state EXCEPT ![r.id] = s]
    <2>1. /\ st \in [Ids -> States \cup {"absent"}] /\ st[r.id] = s
          /\ \A n \in Ids \ {r.id} : st[n] = state[n]
        BY <1>2, <1>3 DEF States
    <2>2. state' = Block(Nodes, edges, st)
        BY <1>4
    <2> HIDE DEF st
    <2>3. \A n \in Ids : state'[n] = st[n] \/ (st[n] = "pending" /\ state'[n] = "blocked")
        BY <2>1, <2>2, BlockTyped
    <2>4. QED
        BY <1>2, <2>1, <2>3
<1>5. CASE Fail(r.id)
    <2>1. state' = Block(Nodes, edges, [state EXCEPT ![r.id] = "failed"])
        BY <1>5 DEF Fail
    <2>2. state'[r.id] = "failed"
        BY <1>4, <2>1
    <2>3. ~TakeUserStop(r) /\ ~TakeCancelled(r)
        BY <1>2, <1>3, <1>4, <2>2 DEF TakeUserStop, TakeCancelled
    <2>4. QED
        BY <1>4, <1>5, <2>1, <2>2, <2>3
<1>6. CASE TakeUserStop(r)
    <2>1. state' = Block(Nodes, edges, [state EXCEPT ![r.id] = "cancelled"])
        BY <1>6 DEF TakeUserStop
    <2>2. state'[r.id] = "cancelled"
        BY <1>4, <2>1
    <2>3. ~Fail(r.id)
        BY <1>4, <2>2 DEF Fail
    <2>4. QED
        BY <1>4, <1>6, <2>1, <2>2, <2>3
<1>7. ASSUME state'[r.id] \in {"pending", "completed"}
      PROVE  ~Fail(r.id) /\ ~TakeUserStop(r) /\ ~TakeCancelled(r)
    BY <1>2, <1>3, <1>4, <1>7 DEF Fail, TakeUserStop, TakeCancelled
<1>8. ASSUME NEW s \in {"pending", "completed"}, state' = [state EXCEPT ![r.id] = s]
      PROVE  /\ state'[r.id] = s
             /\ \A n \in Ids \ {r.id} : state'[n] = state[n]
    BY <1>2, <1>3, <1>8
<1>9. CASE TakeCancelled(r)
    <2>1. state'[r.id] = "cancelled" /\ \A n \in Ids \ {r.id} : state'[n] = state[n]
        BY <1>2, <1>3, <1>9 DEF TakeCancelled
    <2>2. ~Fail(r.id)
        BY <1>4, <2>1 DEF Fail
    <2>3. QED
        BY <1>9, <2>1, <2>2
<1>10. CASE Back(r)
    BY <1>7, <1>8, <1>10 DEF Back
<1>11. CASE TakeDone(r) \/ TakeVerdict(r)
    BY <1>7, <1>8, <1>11 DEF TakeDone, TakeVerdict
<1>12. CASE TakePlan(r)
    <2>1. /\ state'[r.id] = "completed"
          /\ \A n \in Ids \ {r.id} : state'[n] = IF n \in Range(r.plan.nodes) THEN "pending" ELSE state[n]
        BY <1>2, <1>12 DEF TakePlan
    <2>2. \A n \in Ids : n \in Range(r.plan.nodes) => state[n] = "absent" /\ n # Fix
        BY <1>2, <1>12 DEF TakePlan, GrowFits, Nodes, FixFirst
    <2>3. QED
        BY <1>7, <2>1, <2>2
<1>13. CASE TakeNextRound(r)
    <2>1. r.id = Verify /\ HasLoop /\ Fix \in Ids /\ Fix # Verify
        BY <1>2, <1>13, RunAssumption, TeamAssumption DEF TakeNextRound, HasLoop
    <2>2. state[Fix] \in DoneStates \cup {"absent"}
        BY <1>2, <2>1 DEF FixFirst
    <2>3. state' = [state EXCEPT ![Verify] = "pending", ![Fix] = "pending"]
        BY <1>13 DEF TakeNextRound, NextRoundState
    <2>4. /\ state'[r.id] = "pending" /\ state'[Fix] = "pending"
          /\ \A n \in Ids \ {r.id} : n = Fix \/ state'[n] = state[n]
        <3>1. Verify \in Ids
            BY <1>2, <2>1
        <3>2. state'[Verify] = "pending" /\ state'[Fix] = "pending"
            BY <1>3, <2>1, <2>3, <3>1
        <3>3. ASSUME NEW n \in Ids, n # Verify, n # Fix PROVE state'[n] = state[n]
            BY <1>3, <2>3, <3>3
        <3>4. QED
            BY <2>1, <3>2, <3>3
    <2>5. QED
        BY <1>7, <1>13, <2>1, <2>2, <2>4
<1>14. QED
    BY <1>5, <1>6, <1>9, <1>10, <1>11, <1>12, <1>13, TakeKinds

(* What a started node finds: no goroutine, no box and no cancel function. *)
LEMMA StartAlone ==
    ASSUME IInv, Alone, NEW n \in Ids, Start(n)
    PROVE  /\ state[n] = "pending" /\ state' = [state EXCEPT ![n] = "running"]
           /\ \A d \in Deps(edges, n) : state[d] \in DoneStates
           /\ n \notin Workers /\ n \notin open /\ n \notin stops
           /\ agents' = agents \cup {[id |-> n, age |-> 0, fired |-> FALSE, cut |-> FALSE]}
           /\ UNCHANGED <<edges, results, stopped>> /\ stops' = stops \cup {n}
           /\ Workers' = Workers \cup {n} /\ Running' = Running \cup {n}
<1> DEFINE new == [id |-> n, age |-> 0, fired |-> FALSE, cut |-> FALSE]
<1>1. /\ state[n] = "pending" /\ state' = [state EXCEPT ![n] = "running"]
      /\ \A d \in Deps(edges, n) : state[d] \in DoneStates
    BY DEF Start, IInv, TurnHolds
<1>2. n \notin Workers /\ n \notin open /\ n \notin stops
    BY <1>1 DEF IInv, Alone, Owned, Running
<1>3. /\ agents' = Aged(n) \cup {new} /\ stops' = stops \cup {n}
      /\ UNCHANGED <<edges, results, stopped>>
    BY DEF Start, userVars
<1>4. \A g \in agents : g.id # n
    BY <1>2 DEF Workers
<1>5. Aged(n) = {g : g \in agents}
    BY <1>4 DEF Aged
<1>6. agents' = agents \cup {new} /\ new.id = n
    BY <1>3, <1>5
<1>7. Running' = Running \cup {n}
    BY <1>1 DEF IInv, TypeOK, Running
<1>8. Workers' = Workers \cup {n}
    <2> HIDE DEF new
    <2>1. {g.id : g \in agents'} = {g.id : g \in agents} \cup {n}
        BY <1>6
    <2>2. {results'[i].id : i \in DOMAIN results'} = {results[i].id : i \in DOMAIN results}
        BY <1>3
    <2>3. QED
        BY <2>1, <2>2 DEF Workers
<1>9. QED
    BY <1>1, <1>2, <1>3, <1>6, <1>7, <1>8

(* What a sent result changes.                                             *)
LEMMA SentAlone ==
    ASSUME IInv, NEW g \in agents, SendResult(g)
    PROVE  \E r, last :
              /\ r.id = g.id /\ (r.kind = "cancelled" => StepCtxDone(g))
              /\ r.plan # NoPlan => Fix \notin Range(r.plan.nodes)
              /\ DOMAIN results' = DOMAIN results \cup {last} /\ last \notin DOMAIN results
              /\ results'[last] = r /\ \A i \in DOMAIN results : results'[i] = results[i]
              /\ agents' = agents \ {g} /\ Workers' = Workers
<1>1. PICK kind \in Kinds(g), cost \in Costs :
        \E plan \in Answers(g.id, kind), pass \in (IF g.id = Verify THEN BOOLEAN ELSE {FALSE}) :
          results' = Append(results, [id |-> g.id, kind |-> kind, plan |-> plan, pass |-> pass,
                                      cost |-> cost])
    BY DEF SendResult
<1>2. PICK plan \in Answers(g.id, kind), pass \in (IF g.id = Verify THEN BOOLEAN ELSE {FALSE}) :
          results' = Append(results, [id |-> g.id, kind |-> kind, plan |-> plan, pass |-> pass,
                                      cost |-> cost])
    BY <1>1
<1> DEFINE r == [id |-> g.id, kind |-> kind, plan |-> plan, pass |-> pass, cost |-> cost]
           last == Len(results) + 1
<1>3. r.id = g.id /\ r.kind = kind /\ r.plan = plan
    OBVIOUS
<1>4. kind = "cancelled" => StepCtxDone(g)
    BY <1>1 DEF Kinds
<1>5. plan # NoPlan => Fix \notin Range(plan.nodes)
    BY <1>2 DEF Answers, Parsed
<1>6. results \in Seq(Results) /\ results' = Append(results, r)
    BY <1>2 DEF IInv, TypeOK
<1> HIDE DEF r
<1>7. /\ DOMAIN results' = DOMAIN results \cup {last} /\ last \notin DOMAIN results
      /\ results'[last] = r /\ \A i \in DOMAIN results : results'[i] = results[i]
    BY <1>6
<1> HIDE DEF last
<1>8. agents' = agents \ {g}
    BY DEF SendResult
<1>9. Workers' = Workers
    BY <1>3, <1>7, <1>8 DEF Workers
<1>10. QED
    BY <1>3, <1>4, <1>5, <1>7, <1>8, <1>9

(* What the watchdog changes.                                              *)
LEMMA StallAlone ==
    ASSUME IInv, NEW g \in agents, Stall(g)
    PROVE  \E late : /\ agents' = (agents \ {g}) \cup {late} /\ late.id = g.id /\ late.cut = g.cut
                     /\ Workers' = Workers
<1> DEFINE late == [g EXCEPT !.fired = TRUE]
<1>1. agents' = (agents \ {g}) \cup {late}
    BY DEF Stall
<1>2. late.id = g.id /\ late.cut = g.cut
    BY DEF IInv, TypeOK, Agents
<1> HIDE DEF late
<1>3. {h.id : h \in agents'} = {h.id : h \in agents}
    BY <1>1, <1>2
<1>4. Workers' = Workers
    BY <1>3 DEF Stall, Workers
<1>5. QED
    BY <1>1, <1>2, <1>4

(* Nobody is at work when the user edits the plan and when the run ends.   *)
LEMMA QuietSteps ==
    ASSUME IInv, TakeEdit \/ End
    PROVE  /\ agents = {} /\ results = <<>> /\ DOMAIN results = {} /\ Workers = {} /\ Running = {}
           /\ stops = {} /\ open = {}
           /\ UNCHANGED taskVars /\ UNCHANGED teamVars /\ runCtx' = runCtx
           /\ UNCHANGED <<round, failErr, stopErr, verdict, shared>>
           /\ Workers' = {}
<1>1. InWork = 0
    BY DEF TakeEdit, End, IInv, NothingAtWork
<1>2. agents = {} /\ results = <<>> /\ Workers = {}
    BY <1>1, WorkCounts DEF IInv
<1>3. UNCHANGED taskVars /\ UNCHANGED teamVars /\ runCtx' = runCtx
      /\ UNCHANGED <<round, failErr, stopErr, verdict, shared>>
    BY DEF TakeEdit, End, loopVars, userVars
<1>4. Workers' = Workers
    BY <1>3 DEF Workers, taskVars
<1>5. QED
    BY <1>2, <1>3, <1>4 DEF IInv, Owned

(* Every node keeps to one goroutine.                                      *)
LEMMA AloneStep ==
    ASSUME IInv, FixFirst, Alone, [Next]_vars
    PROVE  Alone'
<1>1. CASE Still
    BY <1>1 DEF Still, Alone, Workers, Running, taskVars
<1>2. CASE TakeEdit \/ End
    <2>1. agents' = {} /\ DOMAIN results' = {} /\ Workers' = {}
        BY <1>2, QuietSteps DEF taskVars
    <2>2. QED
        BY <2>1 DEF Alone
<1>3. ASSUME NEW n \in Ids, Start(n) PROVE Alone'
    <2> DEFINE new == [id |-> n, age |-> 0, fired |-> FALSE, cut |-> FALSE]
    <2>1. /\ n \notin Workers /\ agents' = agents \cup {new} /\ results' = results
          /\ Workers' = Workers \cup {n} /\ Running' = Running \cup {n}
        BY <1>3, StartAlone
    <2>2. new.id = n
        OBVIOUS
    <2> HIDE DEF new
    <2>3. (\A g \in agents : g.id # n) /\ (\A i \in DOMAIN results : results[i].id # n)
        BY <2>1 DEF Workers
    <2>4. QED
        BY <2>1, <2>2, <2>3 DEF Alone
<1>4. ASSUME Take(Head(results)) PROVE Alone'
    <2> DEFINE r == Head(results)
    <2> HIDE DEF r
    <2>1. Take(r) /\ Collect(r)
        BY <1>4, TakeKinds DEF r
    <2>2. /\ r.id \in Ids /\ agents' = agents /\ Workers' = Workers \ {r.id}
          /\ \A i \in DOMAIN results' : /\ i + 1 \in DOMAIN results /\ results'[i] = results[i + 1]
                                        /\ i \in Nat
        BY <2>1, TakenAlone
    <2>3. \A i, j \in DOMAIN results' : results'[i].id = results'[j].id => i = j
        <3>1. ASSUME NEW i \in DOMAIN results', NEW j \in DOMAIN results',
                     results'[i].id = results'[j].id
              PROVE  i = j
            <4>1. i + 1 = j + 1
                BY <2>2, <3>1 DEF Alone
            <4>2. QED
                BY <2>2, <4>1
        <3>2. QED
            BY <3>1
    <2>4. \A g \in agents', i \in DOMAIN results' : g.id # results'[i].id
        BY <2>2 DEF Alone
    <2>5. Workers' \subseteq Running'
        <3>1. \A n \in Ids \ {r.id} : state[n] = "running" => state'[n] = "running"
            BY <2>1, TakeStates DEF DoneStates
        <3>2. QED
            BY <2>2, <3>1 DEF Alone, Running
    <2>6. QED
        BY <2>2, <2>3, <2>4, <2>5 DEF Alone
<1>5. ASSUME NEW n \in Ids, StopNode(n) PROVE Alone'
    <2>1. agents' = Cut(n) /\ UNCHANGED <<state, results>>
        BY <1>5 DEF StopNode, dagVars
    <2>2. {g.id : g \in Cut(n)} = {g.id : g \in agents}
        BY CutWorkers DEF IInv
    <2>3. \A g \in agents' : \E h \in agents : g.id = h.id
        BY <2>1, <2>2
    <2>4. \A g, h \in agents' : g.id = h.id => g = h
        <3> DEFINE f(g) == IF g.id = n /\ g.age = 0 THEN [g EXCEPT !.cut = TRUE] ELSE g
        <3>1. ASSUME NEW g \in agents PROVE f(g).id = g.id
            BY DEF IInv, TypeOK, Agents
        <3>2. agents' = {f(g) : g \in agents}
            BY <2>1 DEF Cut
        <3> HIDE DEF f
        <3>3. QED
            BY <3>1, <3>2 DEF Alone
    <2>5. Workers' = Workers /\ Running' = Running
        BY <2>1, <2>2 DEF Workers, Running
    <2>6. QED
        BY <2>1, <2>3, <2>4, <2>5 DEF Alone
<1>6. ASSUME NEW n \in Ids, NEW m \in Msgs, SendMessage(n, m) PROVE Alone'
    BY <1>6 DEF SendMessage, Alone, Workers, Running, dagVars, taskVars
<1>7. ASSUME NEW g \in agents, UseTeam(g) PROVE Alone'
    BY <1>7 DEF UseTeam, Alone, Workers, Running, dagVars, taskVars
<1>8. ASSUME NEW g \in agents, Stall(g) PROVE Alone'
    <2>1. PICK late : /\ agents' = (agents \ {g}) \cup {late} /\ late.id = g.id /\ Workers' = Workers
        BY <1>8, StallAlone
    <2>2. UNCHANGED <<state, results>>
        BY <1>8 DEF Stall, dagVars
    <2>3. QED
        BY <2>1, <2>2 DEF Alone, Running
<1>9. ASSUME NEW g \in agents, SendResult(g) PROVE Alone'
    <2>1. PICK r, last :
            /\ r.id = g.id
            /\ DOMAIN results' = DOMAIN results \cup {last} /\ last \notin DOMAIN results
            /\ results'[last] = r /\ \A i \in DOMAIN results : results'[i] = results[i]
            /\ agents' = agents \ {g} /\ Workers' = Workers
        BY <1>9, SentAlone
    <2>2. Running' = Running
        BY <1>9 DEF SendResult, dagVars, Running
    <2>3. QED
        BY <2>1, <2>2 DEF Alone
<1>10. QED
    BY <1>1, <1>2, <1>3, <1>4, <1>5, <1>6, <1>7, <1>8, <1>9, StepKinds

(* Verify waits for fix, and a fix step that is done stays done until the  *)
(* next round, which only the running verify step begins.                  *)
LEMMA FixFirstStep ==
    ASSUME IInv, LoopEdge, FixFirst, Alone, [Next]_vars
    PROVE  FixFirst'
<1> DEFINE Order == HasLoop /\ state[Verify] \in {"running", "completed"} =>
                        state[Fix] \in DoneStates \cup {"absent"}
           NotPlanned == \A i \in DOMAIN results :
                             results[i].plan # NoPlan => Fix \notin Range(results[i].plan.nodes)
<1> USE DEF HasLoop
<1>1. HasLoop => Verify \in Ids /\ Fix \in Ids /\ Fix # Verify /\ Verify \notin Planners
    BY RunAssumption, TeamAssumption
<1>2. Order /\ NotPlanned
    BY DEF FixFirst
<1>3. state \in [Ids -> States \cup {"absent"}]
    BY DEF IInv, TypeOK
<1>4. CASE UNCHANGED <<state, results>>
    BY <1>2, <1>4 DEF FixFirst
<1>5. CASE TakeEdit
    <2>1. DOMAIN results' = {} /\ Running = {}
        BY <1>5, QuietSteps DEF taskVars
    <2> DEFINE text == Head(decide).text
    <2>2. CASE ~EditFits(text)
        BY <1>2, <1>5, <2>1, <2>2 DEF TakeEdit, FixFirst
    <2>3. CASE EditFits(text)
        <3>1. state' = Edited(text) /\ Fix \notin Range(text.steps)
            BY <1>5, <2>3 DEF TakeEdit, EditFits, Fits
        <3>2. \A n \in Ids : state[n] \in DoneStates => n \notin Left
            BY DEF Left, OverStates
        <3>3. \A n \in Ids : state[n] = "absent" => n \notin Left
            BY DEF Left, Nodes
        <3>4. ASSUME HasLoop, state'[Verify] \in {"running", "completed"}
              PROVE  state'[Fix] \in DoneStates \cup {"absent"}
            <4>1. state[Verify] = state'[Verify]
                BY <1>1, <3>1, <3>4 DEF Edited
            <4>2. state[Fix] \in DoneStates \cup {"absent"}
                BY <1>2, <3>4, <4>1
            <4>3. QED
                BY <1>1, <3>1, <3>2, <3>3, <3>4, <4>2 DEF Edited
        <3>5. QED
            BY <2>1, <3>4 DEF FixFirst
    <2>4. QED
        BY <2>2, <2>3
<1>6. CASE End
    <2>1. DOMAIN results' = {}
        BY <1>6, QuietSteps DEF taskVars
    <2>2. state' = AfterTheEnd
        BY <1>6 DEF End
    <2>3. ASSUME HasLoop, state'[Verify] \in {"running", "completed"}
          PROVE  state'[Fix] \in DoneStates \cup {"absent"}
        <3>1. state[Verify] = state'[Verify]
            BY <1>1, <2>2, <2>3 DEF AfterTheEnd
        <3>2. QED
            BY <1>1, <1>2, <2>2, <2>3, <3>1 DEF AfterTheEnd, DoneStates
    <2>4. QED
        BY <2>1, <2>3 DEF FixFirst
<1>7. ASSUME NEW n \in Ids, Start(n) PROVE FixFirst'
    <2>1. /\ state[n] = "pending" /\ state' = [state EXCEPT ![n] = "running"]
          /\ results' = results /\ \A d \in Deps(edges, n) : state[d] \in DoneStates
        BY <1>7, StartAlone
    <2>2. ASSUME HasLoop, state'[Verify] \in {"running", "completed"}
          PROVE  state'[Fix] \in DoneStates \cup {"absent"}
        <3>1. CASE n = Verify
            <4>1. Fix \in Nodes => Fix \in Deps(edges, n)
                BY <2>2, <3>1 DEF LoopEdge, Deps
            <4>2. state[Fix] \in DoneStates \cup {"absent"}
                BY <1>1, <2>1, <2>2, <4>1 DEF Nodes
            <4>3. QED
                BY <1>1, <1>3, <2>1, <2>2, <3>1, <4>2
        <3>2. CASE n # Verify
            <4>1. state[Fix] \in DoneStates \cup {"absent"}
                BY <1>1, <1>2, <1>3, <2>1, <2>2, <3>2
            <4>2. n # Fix
                BY <2>1, <4>1 DEF DoneStates
            <4>3. QED
                BY <1>1, <1>3, <2>1, <2>2, <4>1, <4>2
        <3>3. QED
            BY <3>1, <3>2
    <2>3. QED
        BY <1>2, <2>1, <2>2 DEF FixFirst
<1>8. ASSUME Take(Head(results)) PROVE FixFirst'
    <2> DEFINE r == Head(results)
    <2> HIDE DEF r
    <2>1. Take(r) /\ Collect(r)
        BY <1>8, TakeKinds DEF r
    <2>2. /\ r = results[1] /\ 1 \in DOMAIN results /\ r.id \in Ids /\ state[r.id] = "running"
          /\ \A i \in DOMAIN results' : i + 1 \in DOMAIN results /\ results'[i] = results[i + 1]
        BY <2>1, TakenAlone
    <2>3. NotPlanned'
        BY <1>2, <2>2
    <2>4. ASSUME HasLoop, state'[Verify] \in {"running", "completed"}
          PROVE  state'[Fix] \in DoneStates \cup {"absent"}
        <3>1. CASE r.id = Verify
            <4>1. state'[Verify] = "completed"
                BY <2>1, <2>4, <3>1, TakeStates
            <4>2. state[Fix] \in DoneStates \cup {"absent"}
                BY <1>2, <2>2, <2>4, <3>1
            <4>3. Fix \in Ids \ {r.id}
                BY <1>1, <2>4, <3>1
            <4>4. ~TakeNextRound(r)
                BY <1>1, <1>3, <2>4, <4>1 DEF TakeNextRound, NextRoundState
            <4>5. QED
                BY <2>1, <4>2, <4>3, <4>4, TakeStates DEF DoneStates
        <3>2. CASE r.id # Verify
            <4>1. Verify \in Ids \ {r.id}
                BY <1>1, <2>4, <3>2
            <4>2. state'[Verify] = state[Verify]
                BY <2>1, <2>4, <4>1, TakeStates
            <4>3. state[Fix] \in DoneStates \cup {"absent"}
                BY <1>2, <2>4, <4>2
            <4>4. Fix \in Ids \ {r.id}
                BY <1>1, <2>2, <2>4, <4>3 DEF DoneStates
            <4>5. QED
                BY <2>1, <3>2, <4>3, <4>4, TakeStates DEF DoneStates
        <3>3. QED
            BY <3>1, <3>2
    <2>5. QED
        BY <2>3, <2>4 DEF FixFirst
<1>9. ASSUME NEW g \in agents, SendResult(g) PROVE FixFirst'
    <2>1. PICK r, last :
            /\ r.plan # NoPlan => Fix \notin Range(r.plan.nodes)
            /\ DOMAIN results' = DOMAIN results \cup {last}
            /\ results'[last] = r /\ \A i \in DOMAIN results : results'[i] = results[i]
        BY <1>9, SentAlone
    <2>2. state' = state
        BY <1>9 DEF SendResult, dagVars
    <2>3. NotPlanned'
        BY <1>2, <2>1
    <2>4. QED
        BY <1>2, <2>2, <2>3 DEF FixFirst
<1>10. QED
    BY <1>4, <1>5, <1>6, <1>7, <1>8, <1>9, StepKinds
       DEF Still, StopNode, SendMessage, Stall, UseTeam, dagVars, taskVars

-----------------------------------------------------------------------------
(* An ended context stays ended.                                           *)
LEMMA CtxStays ==
    ASSUME [Next]_vars
    PROVE  /\ NodeCtxDone => NodeCtxDone'
           /\ pc = "ended" => (NodeCtxDone' = NodeCtxDone /\ runCtx' = runCtx)
<1>1. CASE Still
    BY <1>1 DEF Still, NodeCtxDone
<1>2. CASE Take(Head(results))
    BY <1>2, TakeKinds DEF Collect, NodeCtxDone, Back, Fail, TakeUserStop, TakeCancelled, TakeDone,
       TakePlan, TakeVerdict, TakeNextRound
<1>3. CASE UNCHANGED <<runCtx, failErr>>
    BY <1>3 DEF NodeCtxDone
<1>4. QED
    BY <1>1, <1>2, <1>3, StepKinds
       DEF TakeEdit, End, Start, StopNode, SendMessage, Stall, SendResult, UseTeam, loopVars, userVars

(* The reason of a cancelled step is kept until the loop takes its result. *)
LEMMA CutsStep ==
    ASSUME IInv, Alone, CutsKnown, [Next]_vars
    PROVE  CutsKnown'
<1> DEFINE Known(i) == results[i].kind = "cancelled" => NodeCtxDone \/ results[i].id \in stopped
<1>1. NodeCtxDone => NodeCtxDone'
    BY CtxStays
<1>2. ASSUME UNCHANGED taskVars PROVE CutsKnown'
    BY <1>1, <1>2 DEF CutsKnown, taskVars
<1>3. ASSUME NEW n \in Ids, Start(n) PROVE CutsKnown'
    <2> DEFINE new == [id |-> n, age |-> 0, fired |-> FALSE, cut |-> FALSE]
    <2>1. /\ agents' = agents \cup {new} /\ UNCHANGED <<results, stopped>>
          /\ stops' = stops \cup {n}
        BY <1>3, StartAlone
    <2>2. ~new.cut
        OBVIOUS
    <2> HIDE DEF new
    <2>3. QED
        BY <1>1, <2>1, <2>2 DEF CutsKnown
<1>4. ASSUME Take(Head(results)) PROVE CutsKnown'
    <2> DEFINE r == Head(results)
    <2> HIDE DEF r
    <2>1. Collect(r)
        BY <1>4, TakeKinds DEF r
    <2>2. /\ agents' = agents /\ \A g \in agents : g.id # r.id
          /\ \A i \in DOMAIN results' : /\ i + 1 \in DOMAIN results /\ results'[i] = results[i + 1]
                                        /\ results'[i].id # r.id
        BY <2>1, TakenAlone
    <2>3. stops' = stops \ {r.id} /\ stopped' = stopped \ {r.id}
        BY <2>1 DEF Collect
    <2>4. QED
        BY <1>1, <2>2, <2>3 DEF CutsKnown
<1>5. ASSUME NEW n \in Ids, StopNode(n) PROVE CutsKnown'
    <2>1. agents' = Cut(n) /\ stopped' = stopped \cup {n} /\ n \in stops /\ UNCHANGED <<results, stops>>
        BY <1>5 DEF StopNode
    <2>2. \A g \in agents' : g.cut => g.id \in stopped'
        <3> DEFINE f(g) == IF g.id = n /\ g.age = 0 THEN [g EXCEPT !.cut = TRUE] ELSE g
        <3>1. ASSUME NEW g \in agents PROVE f(g).id = g.id /\ (f(g).cut => g.cut \/ g.id = n)
            BY DEF IInv, TypeOK, Agents
        <3>2. agents' = {f(g) : g \in agents}
            BY <2>1 DEF Cut
        <3> HIDE DEF f
        <3>3. QED
            BY <2>1, <3>1, <3>2 DEF CutsKnown
    <2>3. QED
        BY <1>1, <2>1, <2>2 DEF CutsKnown
<1>6. ASSUME NEW g \in agents, Stall(g) PROVE CutsKnown'
    <2>1. PICK late : agents' = (agents \ {g}) \cup {late} /\ late.id = g.id /\ late.cut = g.cut
        BY <1>6, StallAlone
    <2>2. UNCHANGED <<results, stops, stopped>>
        BY <1>6 DEF Stall
    <2>3. QED
        BY <1>1, <2>1, <2>2 DEF CutsKnown
<1>7. ASSUME NEW g \in agents, SendResult(g) PROVE CutsKnown'
    <2>1. PICK r, last :
            /\ r.id = g.id /\ (r.kind = "cancelled" => StepCtxDone(g))
            /\ DOMAIN results' = DOMAIN results \cup {last}
            /\ results'[last] = r /\ \A i \in DOMAIN results : results'[i] = results[i]
            /\ agents' = agents \ {g}
        BY <1>7, SentAlone
    <2>2. UNCHANGED <<stops, stopped>>
        BY <1>7 DEF SendResult
    <2>3. r.kind = "cancelled" => NodeCtxDone' \/ r.id \in stopped
        BY <1>1, <2>1 DEF StepCtxDone, CutsKnown
    <2>4. QED
        BY <1>1, <2>1, <2>2, <2>3 DEF CutsKnown
<1>8. QED
    BY <1>2, <1>3, <1>4, <1>5, <1>6, <1>7, StepKinds
       DEF Still, TakeEdit, End, SendMessage, UseTeam

-----------------------------------------------------------------------------
(* A step that stops no node.                                              *)
LEMMA SameStops ==
    ASSUME StopsKnown, UNCHANGED <<failErr, stopErr>>, NodeCtxDone => NodeCtxDone',
           pc' # "ended" => pc # "ended",
           \A n \in Ids : state[n] \in StopStates \/ state'[n] \in StopStates => state'[n] = state[n]
    PROVE  StopsKnown'
<1>1. \A n \in Ids : state'[n] \in StopStates <=> state[n] \in StopStates
    OBVIOUS
<1>2. \A n \in Ids : (state'[n] = "failed" <=> state[n] = "failed")
                     /\ (state'[n] = "cancelled" <=> state[n] = "cancelled")
    BY DEF StopStates
<1>3. QED
    BY <1>1, <1>2 DEF StopsKnown

(* An edit and the end of the run leave a stopped node stopped; an edit    *)
(* stops none.                                                             *)
LEMMA EditStates ==
    ASSUME IInv, TakeEdit, NEW n \in Ids
    PROVE  \/ state'[n] = state[n]
           \/ state[n] \notin OverStates /\ state'[n] \in {"pending", "skipped"}
<1> DEFINE text == Head(decide).text
<1>1. CASE ~EditFits(text)
    BY <1>1 DEF TakeEdit
<1>2. CASE EditFits(text)
    <2>1. state' = Edited(text) /\ Range(text.steps) \cap Nodes \subseteq Left
        BY <1>2 DEF TakeEdit, EditFits, Fits
    <2>2. \A m \in Left : state[m] \notin OverStates
        BY DEF Left
    <2>3. n \in Range(text.steps) => state[n] \notin OverStates
        BY <2>1, <2>2 DEF Nodes, OverStates, DoneStates, StopStates
    <2>4. QED
        BY <2>1, <2>2, <2>3 DEF Edited
<1>3. QED
    BY <1>1, <1>2

(* The loop knows of every stop and its reason.                            *)
LEMMA StopsStep ==
    ASSUME IInv, FixFirst, Alone, CutsKnown, StopsKnown, [Next]_vars
    PROVE  StopsKnown'
<1>1. NodeCtxDone => NodeCtxDone'
    BY CtxStays
<1>2. ASSUME UNCHANGED <<state, failErr, stopErr>>, pc' # "ended" => pc # "ended" PROVE StopsKnown'
    BY <1>1, <1>2, SameStops
<1>3. CASE TakeEdit
    <2>1. UNCHANGED <<failErr, stopErr>> /\ pc # "ended"
        BY <1>3 DEF TakeEdit, loopVars
    <2>2. \A n \in Ids : state[n] \in StopStates \/ state'[n] \in StopStates => state'[n] = state[n]
        BY <1>3, EditStates DEF OverStates, StopStates
    <2>3. QED
        BY <1>1, <2>1, <2>2, SameStops
<1>4. CASE End
    <2>1. state' = AfterTheEnd /\ pc' = "ended" /\ UNCHANGED <<failErr, stopErr>>
        BY <1>4 DEF End
    <2>2. \A n \in Ids : (state'[n] = "failed" <=> state[n] = "failed")
                         /\ (state[n] = "cancelled" => state'[n] = "cancelled")
        BY <2>1 DEF AfterTheEnd
    <2>3. QED
        BY <2>1, <2>2 DEF StopsKnown
<1>5. ASSUME NEW n \in Ids, Start(n) PROVE StopsKnown'
    <2>1. state[n] = "pending" /\ state' = [state EXCEPT ![n] = "running"]
        BY <1>5, StartAlone
    <2>2. state \in [Ids -> States \cup {"absent"}]
        BY DEF IInv, TypeOK
    <2>3. UNCHANGED <<failErr, stopErr>> /\ pc # "ended"
        BY <1>5 DEF Start
    <2>4. \A m \in Ids : state[m] \in StopStates \/ state'[m] \in StopStates => state'[m] = state[m]
        BY <2>1, <2>2 DEF StopStates
    <2>5. QED
        BY <1>1, <2>3, <2>4, SameStops
<1>6. ASSUME Take(Head(results)) PROVE StopsKnown'
    <2> DEFINE r == Head(results)
    <2> HIDE DEF r
    <2>1. Take(r) /\ Collect(r)
        BY <1>6, TakeKinds DEF r
    <2>2. /\ r = results[1] /\ 1 \in DOMAIN results /\ r.id \in Ids /\ state[r.id] = "running"
        BY <2>1, TakenAlone
    <2>3. pc # "ended" /\ runCtx' = runCtx
        BY <2>1 DEF Collect
    <2>4. \A n \in Ids \ {r.id} :
             \/ state'[n] = state[n]
             \/ state[n] \in {"pending", "absent"} \cup DoneStates /\ state'[n] = "pending"
             \/ state[n] = "pending" /\ state'[n] = "blocked" /\ (Fail(r.id) \/ TakeUserStop(r))
        BY <2>1, TakeStates
    <2>5. state'[r.id] \in {"pending", "completed"} =>
            ~Fail(r.id) /\ ~TakeUserStop(r) /\ ~TakeCancelled(r)
        BY <2>1, TakeStates
    <2>6. ASSUME ~Fail(r.id), ~TakeUserStop(r), ~TakeCancelled(r) PROVE StopsKnown'
        <3>1. UNCHANGED <<failErr, stopErr>>
            BY <2>1, <2>6, TakeKinds DEF Back, TakeDone, TakePlan, TakeVerdict, TakeNextRound
        <3>2. state'[r.id] \in {"pending", "completed"}
            BY <2>1, <2>6, TakeStates
        <3>3. \A n \in Ids : state[n] \in StopStates \/ state'[n] \in StopStates => state'[n] = state[n]
            BY <2>2, <2>4, <2>6, <3>2 DEF StopStates, DoneStates
        <3>4. QED
            BY <1>1, <2>3, <3>1, <3>3, SameStops
    <2>7. CASE Fail(r.id)
        <3>1. failErr' = TRUE /\ stopErr' = stopErr /\ state'[r.id] = "failed"
            BY <2>1, <2>7, TakeStates DEF Fail
        <3>2. \A n \in Ids : state[n] = "cancelled" => state'[n] = "cancelled"
            BY <2>2, <2>4 DEF DoneStates
        <3>3. QED
            BY <2>2, <3>1, <3>2 DEF StopsKnown, NodeCtxDone
    <2>8. CASE TakeUserStop(r)
        <3>1. failErr' = failErr /\ stopErr' = TRUE /\ state'[r.id] = "cancelled"
            BY <2>1, <2>8, TakeStates DEF TakeUserStop
        <3>2. \A n \in Ids : state[n] = "failed" <=> state'[n] = "failed"
            BY <2>2, <2>4, <3>1 DEF DoneStates
        <3>3. QED
            BY <2>2, <3>1, <3>2 DEF StopsKnown
    <2>9. CASE TakeCancelled(r)
        <3>1. UNCHANGED <<failErr, stopErr>> /\ state'[r.id] = "cancelled"
            BY <2>1, <2>9, TakeStates DEF TakeCancelled
        <3>2. NodeCtxDone
            BY <2>2, <2>9 DEF TakeCancelled, CutsKnown
        <3>3. \A n \in Ids : (state[n] = "failed" <=> state'[n] = "failed")
                             /\ (state[n] = "cancelled" => state'[n] = "cancelled")
            BY <2>2, <2>4, <3>1 DEF DoneStates
        <3>4. QED
            BY <1>1, <3>1, <3>2, <3>3 DEF StopsKnown
    <2>10. QED
        BY <2>6, <2>7, <2>8, <2>9
<1>7. QED
    BY <1>2, <1>3, <1>4, <1>5, <1>6, StepKinds
       DEF Still, StopNode, SendMessage, Stall, SendResult, UseTeam, dagVars, loopVars

(* Only the result of the running verify step changes the verdict or the   *)
(* round.                                                                  *)
LEMMA VerdictStep ==
    ASSUME IInv, FixFirst, Alone, VerdictKnown, [Next]_vars
    PROVE  VerdictKnown'
<1> SUFFICES ASSUME HasLoop
             PROVE  /\ state'[Verify] \notin {"absent", "skipped"}
                    /\ state'[Verify] = "completed" /\ Verify \notin Kept =>
                         verdict' = "pass" \/ (verdict' = "fail" /\ round' = MaxRounds)
    BY DEF VerdictKnown, HasLoop
<1>1. Verify \in Ids /\ Fix \in Ids /\ Fix # Verify /\ Verify \notin Planners
    BY RunAssumption, TeamAssumption DEF HasLoop
<1>2. /\ state[Verify] \notin {"absent", "skipped"}
      /\ state[Verify] = "completed" /\ Verify \notin Kept =>
           verdict = "pass" \/ (verdict = "fail" /\ round = MaxRounds)
    BY DEF VerdictKnown
<1>3. CASE UNCHANGED <<state, verdict, round>>
    BY <1>2, <1>3
<1>4. CASE TakeEdit
    <2>1. UNCHANGED <<verdict, round>>
        BY <1>4 DEF TakeEdit, loopVars
    <2>2. state'[Verify] = state[Verify] \/ state'[Verify] = "pending"
        <3> DEFINE text == Head(decide).text
        <3>1. CASE ~EditFits(text)
            BY <1>4, <3>1 DEF TakeEdit
        <3>2. CASE EditFits(text)
            <4>1. /\ state' = Edited(text)
                  /\ Verify \in Range(text.steps) \/ state[Verify] \in OverStates
                BY <1>4, <3>2 DEF TakeEdit, EditFits, Fits
            <4>2. QED
                BY <1>1, <4>1 DEF Edited, Left
        <3>3. QED
            BY <3>1, <3>2
    <2>3. QED
        BY <1>2, <2>1, <2>2
<1>5. CASE End
    BY <1>1, <1>2, <1>5 DEF End, AfterTheEnd
<1>6. ASSUME NEW n \in Ids, Start(n)
      PROVE  /\ state'[Verify] \notin {"absent", "skipped"}
             /\ state'[Verify] = "completed" /\ Verify \notin Kept =>
                  verdict' = "pass" \/ (verdict' = "fail" /\ round' = MaxRounds)
    <2>1. state' = [state EXCEPT ![n] = "running"] /\ UNCHANGED <<verdict, round>>
        BY <1>6 DEF Start
    <2>2. state \in [Ids -> States \cup {"absent"}]
        BY DEF IInv, TypeOK
    <2>3. QED
        BY <1>1, <1>2, <2>1, <2>2
<1>7. ASSUME Take(Head(results))
      PROVE  /\ state'[Verify] \notin {"absent", "skipped"}
             /\ state'[Verify] = "completed" /\ Verify \notin Kept =>
                  verdict' = "pass" \/ (verdict' = "fail" /\ round' = MaxRounds)
    <2> DEFINE r == Head(results)
    <2> HIDE DEF r
    <2>1. Take(r) /\ Collect(r)
        BY <1>7, TakeKinds DEF r
    <2>2. r = results[1] /\ 1 \in DOMAIN results /\ r.id \in Ids /\ state[r.id] = "running"
        BY <2>1, TakenAlone
    <2>3. CASE r.id = Verify
        <3>1. state'[Verify] \in {"pending", "failed", "cancelled", "completed"}
            BY <2>1, <2>3, TakeStates
        <3>2. CASE TakeVerdict(r)
            <4>1. verdict' = (IF r.pass THEN "pass" ELSE "fail") /\ (r.pass \/ round >= MaxRounds)
                  /\ round' = round
                BY <3>2 DEF TakeVerdict, RoundsOut
            <4>2. round \in Nat /\ round <= MaxRounds /\ MaxRounds \in Nat
                BY RunAssumption DEF IInv, TypeOK
            <4>3. QED
                BY <3>1, <4>1, <4>2
        <3>3. CASE ~TakeVerdict(r)
            <4>1. ~TakeDone(r)
                BY <2>3 DEF TakeDone
            <4>2. ~TakePlan(r)
                BY <1>1, <2>2, <2>3 DEF TakePlan, IInv, PlansFit
            <4>3. Back(r) \/ Fail(r.id) \/ TakeUserStop(r) \/ TakeCancelled(r) \/ TakeNextRound(r)
                BY <2>1, <3>3, <4>1, <4>2, TakeKinds
            <4>4. state'[Verify] # "completed"
                <5>1. state \in [Ids -> States \cup {"absent"}]
                    BY DEF IInv, TypeOK
                <5>2. Back(r) \/ TakeNextRound(r) => state'[Verify] = "pending"
                    BY <1>1, <2>3, <5>1 DEF Back, TakeNextRound, NextRoundState
                <5>3. Fail(r.id) => state'[Verify] = "failed"
                    BY <2>1, <2>3, TakeStates
                <5>4. TakeUserStop(r) \/ TakeCancelled(r) => state'[Verify] = "cancelled"
                    BY <2>1, <2>3, TakeStates
                <5>5. QED
                    BY <4>3, <5>2, <5>3, <5>4
            <4>5. QED
                BY <3>1, <4>4
        <3>4. QED
            BY <3>2, <3>3
    <2>4. CASE r.id # Verify
        <3>1. UNCHANGED <<verdict, round>>
            BY <2>1, <2>4, TakeKinds DEF Back, Fail, TakeUserStop, TakeCancelled, TakeDone, TakePlan,
               TakeVerdict, TakeNextRound
        <3>2. state'[Verify] = state[Verify] \/ state'[Verify] \in {"pending", "blocked"}
            BY <1>1, <2>1, <2>4, TakeStates
        <3>3. QED
            BY <1>2, <3>1, <3>2
    <2>5. QED
        BY <2>3, <2>4
<1>8. QED
    BY <1>3, <1>4, <1>5, <1>6, <1>7, StepKinds
       DEF Still, StopNode, SendMessage, Stall, SendResult, UseTeam, dagVars, loopVars

-----------------------------------------------------------------------------
(* The mailbox keeps every message in one place: when a node's box closes  *)
(* or is read, and when a message is sent.                                 *)
Boxed == MessagesAccounted /\ \A n \in Ids : box[n] # <<>> => n \in open

LEMMA EmptyBox ==
    ASSUME TypeOK, Boxed, NEW n \in Ids, box' = [box EXCEPT ![n] = <<>>],
           open' \in {open, open \ {n}}, NEW f \in Fates \ {"waiting"},
           fate' = [m \in Msgs |-> IF m \in Waiting(n) THEN f ELSE fate[m]]
    PROVE  Boxed'
<1>1. box \in [Ids -> Seq(Msgs)] /\ fate \in [Msgs -> Fates] /\ open \subseteq Ids
    BY DEF TypeOK, TeamTypeOK
<1>2. box'[n] = <<>> /\ \A o \in Ids \ {n} : box'[o] = box[o]
    BY <1>1
<1>3. Waiting(n)' = {} /\ \A o \in Ids \ {n} : Waiting(o)' = Waiting(o)
    BY <1>2 DEF Waiting
<1>4. \A o \in Ids \ {n} : Waiting(o) \cap Waiting(n) = {}
    BY DEF Boxed, MessagesAccounted, Waiting
<1>5. \A o \in Ids : Waiting(o) # {} => o \in open
    BY DEF Boxed, Waiting
<1>6. ASSUME NEW m \in Msgs
      PROVE  fate'[m] = "waiting" <=> \E o \in open' : m \in Waiting(o)'
    <2>1. fate[m] = "waiting" <=> \E o \in open : m \in Waiting(o)
        BY DEF Boxed, MessagesAccounted
    <2>2. CASE m \in Waiting(n)
        <3>1. fate'[m] # "waiting"
            BY <2>2
        <3>2. \A o \in open' : m \notin Waiting(o)'
            BY <1>1, <1>3, <1>4, <2>2
        <3>3. QED
            BY <3>1, <3>2
    <2>3. CASE m \notin Waiting(n)
        <3>1. fate'[m] = fate[m]
            BY <2>3
        <3>2. (\E o \in open : m \in Waiting(o)) <=> (\E o \in open' : m \in Waiting(o)')
            BY <1>1, <1>3, <2>3
        <3>3. QED
            BY <2>1, <3>1, <3>2
    <2>4. QED
        BY <2>2, <2>3
<1>7. \A o, q \in Ids : \A i \in DOMAIN box'[o], j \in DOMAIN box'[q] :
          box'[o][i] = box'[q][j] => o = q /\ i = j
    BY <1>2 DEF Boxed, MessagesAccounted
<1>8. \A o \in Ids : box'[o] # <<>> => o \in open'
    BY <1>2 DEF Boxed
<1>9. QED
    BY <1>6, <1>7, <1>8 DEF Boxed, MessagesAccounted

LEMMA SendBoxed ==
    ASSUME TypeOK, Boxed, NEW n \in Ids, NEW m \in Msgs, Send(n, m)
    PROVE  Boxed'
<1>1. box \in [Ids -> Seq(Msgs)] /\ fate \in [Msgs -> Fates] /\ open \subseteq Ids
    BY DEF TypeOK, TeamTypeOK
<1>2. fate[m] = "unsent" /\ open' = open
    BY DEF Send
<1>3. \A o \in Ids : m \notin Waiting(o)
    <2>1. \A o \in open : m \notin Waiting(o)
        BY <1>2 DEF Boxed, MessagesAccounted
    <2>2. \A o \in Ids \ open : Waiting(o) = {}
        BY DEF Boxed, Waiting
    <2>3. QED
        BY <2>1, <2>2
<1>4. CASE n \notin open
    <2>1. box' = box /\ fate' = [fate EXCEPT ![m] = "refused"]
        BY <1>4 DEF Send
    <2>2. \A o \in Ids : Waiting(o)' = Waiting(o)
        BY <2>1 DEF Waiting
    <2>3. QED
        BY <1>1, <1>2, <1>3, <2>1, <2>2 DEF Boxed, MessagesAccounted
<1>5. CASE n \in open
    <2>1. box' = [box EXCEPT ![n] = Append(@, m)] /\ fate' = [fate EXCEPT ![m] = "waiting"]
        BY <1>5 DEF Send
    <2> DEFINE last == Len(box[n]) + 1
    <2>2. box[n] \in Seq(Msgs)
        BY <1>1
    <2>3. box'[n] = Append(box[n], m) /\ \A o \in Ids \ {n} : box'[o] = box[o]
        BY <1>1, <2>1
    <2>4. /\ DOMAIN box'[n] = DOMAIN box[n] \cup {last} /\ last \notin DOMAIN box[n]
          /\ box'[n][last] = m /\ \A i \in DOMAIN box[n] : box'[n][i] = box[n][i]
        BY <2>2, <2>3
    <2> HIDE DEF last
    <2>5. Waiting(n)' = Waiting(n) \cup {m} /\ \A o \in Ids \ {n} : Waiting(o)' = Waiting(o)
        BY <2>3, <2>4 DEF Waiting
    <2>6. \A o \in Msgs : fate'[o] = "waiting" <=> \E q \in open' : o \in Waiting(q)'
        <3>1. ASSUME NEW o \in Msgs, o # m
              PROVE  fate'[o] = "waiting" <=> \E q \in open' : o \in Waiting(q)'
            <4>1. fate'[o] = fate[o]
                BY <1>1, <2>1, <3>1
            <4>2. \A q \in Ids : o \in Waiting(q)' <=> o \in Waiting(q)
                BY <2>5, <3>1
            <4>3. fate[o] = "waiting" <=> \E q \in open : o \in Waiting(q)
                BY DEF Boxed, MessagesAccounted
            <4>4. QED
                BY <1>1, <1>2, <4>1, <4>2, <4>3
        <3>2. fate'[m] = "waiting" /\ m \in Waiting(n)' /\ n \in open'
            BY <1>1, <1>2, <1>5, <2>1, <2>5
        <3>3. QED
            BY <3>1, <3>2
    <2>7. ASSUME NEW o \in Ids, NEW q \in Ids,
                 NEW i \in DOMAIN box'[o], NEW j \in DOMAIN box'[q], box'[o][i] = box'[q][j]
          PROVE  o = q /\ i = j
        <3>1. box'[o][i] = m => o = n /\ i = last
            BY <1>3, <2>3, <2>4 DEF Waiting
        <3>2. box'[q][j] = m => q = n /\ j = last
            BY <1>3, <2>3, <2>4 DEF Waiting
        <3>3. CASE box'[o][i] # m
            <4>1. i \in DOMAIN box[o] /\ j \in DOMAIN box[q] /\ box[o][i] = box[q][j]
                BY <2>3, <2>4, <2>7, <3>3
            <4>2. QED
                BY <4>1 DEF Boxed, MessagesAccounted
        <3>4. QED
            BY <2>7, <3>1, <3>2, <3>3
    <2>8. \A o \in Ids : box'[o] # <<>> => o \in open'
        BY <1>2, <1>5, <2>3 DEF Boxed
    <2>9. QED
        BY <2>6, <2>7, <2>8 DEF Boxed, MessagesAccounted
<1>6. QED
    BY <1>4, <1>5

(* Claims and boxes belong to workers, and no message is lost.             *)
LEMMA TeamStep ==
    ASSUME IInv, Alone, TeamOfWorkers, MessagesAccounted, [Next]_vars
    PROVE  TeamOfWorkers' /\ MessagesAccounted'
<1> DEFINE Holders == \A k \in Keys : claims[k] # None => claims[k] \in Workers
<1>1. Boxed /\ Holders
    BY DEF Boxed, TeamOfWorkers
<1>2. SUFFICES Boxed' /\ Holders'
    BY DEF Boxed, TeamOfWorkers
<1>3. TypeOK
    BY DEF IInv
<1>4. claims \in [Keys -> Ids \cup {None}]
    BY <1>3 DEF TypeOK, TeamTypeOK
<1>5. ASSUME UNCHANGED <<open, box, fate>> PROVE Boxed'
    BY <1>1, <1>5 DEF Boxed, MessagesAccounted, Waiting
<1>6. CASE UNCHANGED teamVars /\ Workers' = Workers
    BY <1>1, <1>5, <1>6 DEF teamVars
<1>7. CASE Still
    BY <1>6, <1>7 DEF Still, Workers, taskVars
<1>8. CASE TakeEdit \/ End
    BY <1>6, <1>8, QuietSteps
<1>9. ASSUME NEW n \in Ids, Start(n) PROVE Boxed' /\ Holders'
    <2>1. Workers' = Workers \cup {n} /\ n \notin open
        BY <1>9, StartAlone
    <2>2. fate' = fate /\ claims' = claims
        BY <1>9 DEF Start
    <2>3. CASE n \in CLIs
        BY <1>1, <1>5, <1>9, <2>1, <2>2, <2>3 DEF Start
    <2>4. CASE n \notin CLIs
        <3>1. open' = open \cup {n} /\ box' = [box EXCEPT ![n] = <<>>]
            BY <1>9, <2>4 DEF Start, OpenNode
        <3>2. box[n] = <<>>
            BY <1>1, <2>1 DEF Boxed
        <3>3. box' = box
            <4>1. box \in [Ids -> Seq(Msgs)]
                BY <1>3 DEF TypeOK, TeamTypeOK
            <4>2. QED
                BY <3>1, <3>2, <4>1
        <3>4. \A o \in Ids : Waiting(o)' = Waiting(o)
            BY <3>3 DEF Waiting
        <3>5. Waiting(n) = {}
            BY <3>2 DEF Waiting
        <3>6. open \subseteq Ids
            BY <1>3 DEF TypeOK, TeamTypeOK
        <3>7. \A m \in Msgs : fate'[m] = "waiting" <=> \E o \in open' : m \in Waiting(o)'
            BY <1>1, <2>2, <3>1, <3>4, <3>5, <3>6 DEF Boxed, MessagesAccounted
        <3>8. Boxed'
            BY <1>1, <3>1, <3>3, <3>7 DEF Boxed, MessagesAccounted
        <3>9. QED
            BY <1>1, <2>1, <2>2, <3>8
    <2>5. QED
        BY <2>3, <2>4
<1>10. ASSUME Take(Head(results)) PROVE Boxed' /\ Holders'
    <2> DEFINE r == Head(results)
    <2> HIDE DEF r
    <2>1. Collect(r)
        BY <1>10, TakeKinds DEF r
    <2>2. r.id \in Ids /\ Workers' = Workers \ {r.id}
        BY <2>1, TakenAlone
    <2>3. CloseNode(r.id) /\ ReleaseAll(r.id)
        BY <2>1 DEF Collect
    <2>4. Boxed'
        BY <1>1, <1>3, <2>2, <2>3, EmptyBox DEF CloseNode, Fates
    <2>5. Holders'
        BY <1>1, <2>2, <2>3 DEF ReleaseAll
    <2>6. QED
        BY <2>4, <2>5
<1>11. ASSUME NEW n \in Ids, StopNode(n) PROVE Boxed' /\ Holders'
    <2>1. UNCHANGED teamVars /\ agents' = Cut(n) /\ results' = results
        BY <1>11 DEF StopNode
    <2>2. Workers' = Workers
        BY <1>3, <2>1, CutWorkers DEF Workers
    <2>3. QED
        BY <1>6, <2>1, <2>2
<1>12. ASSUME NEW n \in Ids, NEW m \in Msgs, SendMessage(n, m) PROVE Boxed' /\ Holders'
    <2>1. Send(n, m) /\ UNCHANGED taskVars
        BY <1>12 DEF SendMessage
    <2>2. Workers' = Workers /\ claims' = claims
        BY <2>1 DEF Workers, taskVars, Send
    <2>3. QED
        BY <1>1, <1>3, <2>1, <2>2, SendBoxed
<1>13. ASSUME NEW g \in agents, Stall(g) \/ SendResult(g) PROVE Boxed' /\ Holders'
    <2>1. Workers' = Workers
        BY <1>13, StallAlone, SentAlone
    <2>2. UNCHANGED teamVars
        BY <1>13 DEF Stall, SendResult
    <2>3. QED
        BY <1>6, <2>1, <2>2
<1>14. ASSUME NEW g \in agents, UseTeam(g) PROVE Boxed' /\ Holders'
    <2>1. g.id \in Ids /\ g.id \in Workers
        BY <1>3 DEF TypeOK, Agents, Workers
    <2>2. Workers' = Workers
        BY <1>14 DEF UseTeam, Workers, taskVars
    <2>3. CASE ReadInbox(g.id)
        <3>1. Boxed'
            BY <1>1, <1>3, <2>1, <2>3, EmptyBox DEF ReadInbox, Fates
        <3>2. QED
            BY <1>1, <2>2, <2>3, <3>1 DEF ReadInbox
    <2>4. ASSUME NEW k \in Keys, Claim(g.id, k) \/ Release(g.id, k) PROVE Boxed' /\ Holders'
        <3>1. UNCHANGED <<open, box, fate>>
            BY <2>4 DEF Claim, Release
        <3>2. Holders'
            BY <1>1, <1>4, <2>1, <2>2, <2>4 DEF Claim, Release
        <3>3. QED
            BY <1>5, <3>1, <3>2
    <2>5. QED
        BY <1>14, <2>3, <2>4 DEF UseTeam
<1>15. QED
    BY <1>7, <1>8, <1>9, <1>10, <1>11, <1>12, <1>13, <1>14, StepKinds

-----------------------------------------------------------------------------
(* A run whose nodes did not stop, with none running and none ready, is    *)
(* done: the first of the nodes still pending would be ready.              *)
LEMMA NothingPending ==
    ASSUME IInv, ReadyNow = {}, Running = {}, \A n \in Ids : state[n] \notin {"scheduled", "paused"},
           \A n \in Ids : state[n] \notin StopStates
    PROVE  \A n \in Nodes : state[n] \in DoneStates
<1> DEFINE S == {n \in Nodes : state[n] = "pending"}
<1>1. \A n \in Nodes : n \in S \/ state[n] \in DoneStates
    <2>1. \A n \in Nodes : n \in Ids /\ state[n] \in States /\ state[n] # "running"
        BY DEF Nodes, Running, IInv, TypeOK, States
    <2>2. QED
        BY <2>1 DEF States, StopStates, DoneStates
<1>2. CASE S # {}
    <2>1. {n \in S : Deps(edges, n) \cap S = {}} # {}
        BY <1>2 DEF IInv, StaysDag, Normal, Acyclic
    <2>2. PICK n \in S : Deps(edges, n) \cap S = {}
        BY <2>1
    <2>3. Deps(edges, n) \subseteq Nodes
        BY DEF Deps, IInv, StaysDag, Normal
    <2>4. \A d \in Deps(edges, n) : state[d] \in DoneStates
        BY <1>1, <2>2, <2>3
    <2>5. n \in ReadyNow
        BY <2>4 DEF ReadyNow, Ready
    <2>6. QED
        BY <2>5
<1>3. QED
    BY <1>1, <1>2

(* The final event is sent once, and nothing changes after it.             *)
LEMMA EndsStep ==
    ASSUME IInv, FixFirst, Alone, StopsKnown, EndsOnce, FinalEventIsTrue, [Next]_vars
    PROVE  EndsOnce' /\ FinalEventIsTrue'
<1>1. state \in [Ids -> States \cup {"absent"}]
    BY DEF IInv, TypeOK
<1>2. NodeCtxDone => NodeCtxDone'
    BY CtxStays
<1>3. ASSUME UNCHANGED <<state, final>>, pc' = "ended" <=> pc = "ended",
             pc = "ended" => runCtx' = runCtx
      PROVE  EndsOnce' /\ FinalEventIsTrue'
    <2>1. EndsOnce' /\ Nodes' = Nodes
        BY <1>3 DEF EndsOnce, Nodes
    <2>2. final' # "none" => runCtx' = runCtx
        BY <1>3 DEF EndsOnce
    <2>3. QED
        BY <1>3, <2>1, <2>2 DEF FinalEventIsTrue
<1>4. ASSUME pc # "ended", pc' # "ended", final' = final,
             \A n \in Ids : state'[n] \notin {"scheduled", "paused"}
      PROVE  EndsOnce' /\ FinalEventIsTrue'
    BY <1>4 DEF EndsOnce, FinalEventIsTrue
<1>5. CASE TakeEdit
    <2>1. pc # "ended" /\ pc' # "ended" /\ final' = final
        BY <1>5 DEF TakeEdit, loopVars
    <2>2. \A n \in Ids : state'[n] \notin {"scheduled", "paused"}
        BY <1>5, EditStates DEF EndsOnce
    <2>3. QED
        BY <1>4, <2>1, <2>2
<1>6. ASSUME NEW n \in Ids, Start(n) PROVE EndsOnce' /\ FinalEventIsTrue'
    <2>1. pc # "ended" /\ pc' # "ended" /\ final' = final /\ state' = [state EXCEPT ![n] = "running"]
        BY <1>6 DEF Start
    <2>2. QED
        BY <1>1, <1>4, <2>1 DEF EndsOnce
<1>7. ASSUME Take(Head(results)) PROVE EndsOnce' /\ FinalEventIsTrue'
    <2> DEFINE r == Head(results)
    <2> HIDE DEF r
    <2>1. Take(r) /\ Collect(r)
        BY <1>7, TakeKinds DEF r
    <2>2. pc # "ended" /\ pc' # "ended" /\ final' = final
        BY <2>1 DEF Collect
    <2>3. \A n \in Ids : state'[n] \in {state[n], "pending", "blocked", "failed", "cancelled", "completed"}
        BY <2>1, TakeStates
    <2>4. QED
        BY <1>4, <2>2, <2>3 DEF EndsOnce
<1>8. CASE End
    <2>1. /\ pc = "top" /\ ~MayStart /\ state' = AfterTheEnd /\ final' = FinalKind /\ pc' = "ended"
          /\ UNCHANGED <<runCtx, failErr>>
        BY <1>8 DEF End, userVars
    <2>2. Running = {}
        BY <1>8, QuietSteps
    <2>3. \A n \in Ids : /\ state'[n] = (IF state[n] = "pending" THEN "cancelled" ELSE state[n])
                         /\ state[n] \in OverStates \cup {"pending", "absent"}
        <3>1. \A n \in Ids : state[n] # "running"
            BY <2>2 DEF Running
        <3>2. QED
            BY <1>1, <2>1, <3>1 DEF EndsOnce, AfterTheEnd, States, OverStates, DoneStates, StopStates
    <2>4. Nodes' = Nodes
        BY <2>3 DEF Nodes
    <2>5. EndsOnce'
        BY <2>1, <2>3 DEF EndsOnce, Nodes, OverStates, DoneStates, StopStates
    <2>6. ASSUME final' = "done" PROVE \A n \in Nodes' : state'[n] \in DoneStates
        <3>1. ~NodeCtxDone /\ ~stopErr
            BY <2>1, <2>6 DEF FinalKind, NodeCtxDone
        <3>2. ReadyNow = {}
            BY <2>1, <3>1 DEF MayStart
        <3>3. \A n \in Ids : state[n] \notin StopStates
            BY <2>1, <3>1 DEF StopsKnown
        <3>4. \A n \in Nodes : state[n] \in DoneStates
            BY <2>2, <3>2, <3>3, NothingPending DEF EndsOnce
        <3>5. QED
            BY <2>3, <2>4, <3>4 DEF Nodes, DoneStates
    <2>7. ASSUME final' = "failed" PROVE \E n \in Nodes' : state'[n] \in {"failed", "cancelled"}
        <3>1. failErr \/ stopErr
            BY <2>1, <2>7 DEF FinalKind
        <3>2. PICK n \in Ids : state[n] \in {"failed", "cancelled"}
            BY <3>1 DEF StopsKnown
        <3>3. QED
            BY <2>3, <2>4, <3>2 DEF Nodes
    <2>8. ASSUME final' = "cancelled"
          PROVE  runCtx' = "cancelled" /\ \A n \in Nodes' : state'[n] # "failed"
        <3>1. ~failErr /\ runCtx = "cancelled"
            BY <2>1, <2>8 DEF FinalKind
        <3>2. \A n \in Ids : state[n] # "failed"
            BY <3>1 DEF StopsKnown
        <3>3. QED
            BY <2>1, <2>3, <2>4, <3>1, <3>2 DEF Nodes
    <2>9. QED
        BY <2>5, <2>6, <2>7, <2>8 DEF FinalEventIsTrue
<1>9. QED
    BY <1>3, <1>5, <1>6, <1>7, <1>8, StepKinds
       DEF Still, StopNode, SendMessage, Stall, SendResult, UseTeam, dagVars, loopVars, userVars

-----------------------------------------------------------------------------
(* The invariant of the ends.                                              *)
LEMMA InitEnds == Init /\ FixBeforeVerify => EInv
<1> SUFFICES ASSUME Init, FixBeforeVerify PROVE EInv
    OBVIOUS
<1>1. /\ \A n \in Ids : state[n] = IF n \in Kept THEN "completed"
                                   ELSE IF n \in Range(InitialNodes) THEN "pending" ELSE "absent"
      /\ pc = "top" /\ final = "none" /\ agents = {} /\ results = <<>>
      /\ stops = {} /\ stopped = {} /\ failErr = FALSE /\ stopErr = FALSE
    BY DEF Init
<1>2. DOMAIN results = {} /\ Workers = {}
    BY <1>1 DEF Workers
<1>3. HasLoop => Verify \in Ids /\ Fix \in Ids /\ Verify \in Range(InitialNodes)
    BY RunAssumption, TeamAssumption DEF HasLoop
<1>4. FixFirst
    BY <1>1, <1>2, <1>3 DEF FixFirst, FixBeforeVerify, DoneStates, StopStates, OverStates
<1>5. Alone /\ CutsKnown
    BY <1>1, <1>2 DEF Alone, CutsKnown
<1>6. StopsKnown
    BY <1>1 DEF StopsKnown, StopStates
<1>7. VerdictKnown
    BY <1>1, <1>3 DEF VerdictKnown
<1>8. open = {} /\ (\A n \in Ids : box[n] = <<>>) /\ (\A m \in Msgs : fate[m] = "unsent")
      /\ \A k \in Keys : claims[k] = None
    BY DEF Init, TeamInit
<1>9. TeamOfWorkers /\ MessagesAccounted
    BY <1>8 DEF TeamOfWorkers, MessagesAccounted
<1>10. EndsOnce /\ FinalEventIsTrue
    BY <1>1 DEF EndsOnce, FinalEventIsTrue
<1>11. QED
    BY <1>4, <1>5, <1>6, <1>7, <1>9, <1>10 DEF EInv

LEMMA StepEnds == IInv /\ LoopEdge /\ EInv /\ [Next]_vars => EInv'
BY FixFirstStep, AloneStep, CutsStep, StopsStep, VerdictStep, TeamStep, EndsStep DEF EInv

(* While the loop keeps its edge, every reachable state satisfies it.      *)
THEOREM Endings == Spec /\ LoopKept => []EInv
BY Invariant, InitEnds, StepEnds, PTL DEF Spec, LoopKept

(* What verify checked is what the user gets.                              *)
THEOREM VerifiedLast == Spec /\ LoopKept => []FixBeforeVerify
<1>1. EInv => FixBeforeVerify
    BY DEF EInv, FixFirst, FixBeforeVerify, OverStates
<1>2. QED
    BY <1>1, Endings, PTL

(* A step's claims never outlive it.                                       *)
THEOREM ClaimsEndWithSteps == Spec /\ LoopKept => []ClaimsOfRunning
<1>1. EInv => ClaimsOfRunning
    BY DEF EInv, TeamOfWorkers, Alone, ClaimsOfRunning
<1>2. QED
    BY <1>1, Endings, PTL

(* No message is lost or delivered twice.                                  *)
THEOREM NoMessageLost == Spec /\ LoopKept => []MessagesAccounted
BY Endings, PTL DEF EInv

(* After the final event nothing is left over.                             *)
THEOREM CleanEnd == Spec /\ LoopKept => []NothingLeftOver
<1>1. IInv /\ EInv => NothingLeftOver
    <2> SUFFICES ASSUME IInv, EInv, pc = "ended"
                 PROVE  /\ \A n \in Nodes : state[n] \in OverStates
                        /\ agents = {} /\ results = <<>> /\ stops = {} /\ stopped = {}
                        /\ open = {} /\ \A m \in Msgs : fate[m] # "waiting"
                        /\ \A k \in Keys : claims[k] = None
        BY DEF NothingLeftOver
    <2>1. InWork = 0
        BY DEF IInv, NothingAtWork
    <2>2. agents = {} /\ results = <<>> /\ Workers = {}
        BY <2>1, WorkCounts DEF IInv
    <2>3. stops = {} /\ open = {} /\ stopped = {}
        BY <2>2 DEF IInv, Owned, EInv, CutsKnown
    <2>4. \A m \in Msgs : fate[m] # "waiting"
        BY <2>3 DEF EInv, MessagesAccounted
    <2>5. \A k \in Keys : claims[k] = None
        BY <2>2 DEF EInv, TeamOfWorkers
    <2>6. QED
        BY <2>2, <2>3, <2>4, <2>5 DEF EInv, EndsOnce
<1>2. QED
    BY <1>1, Endings, Invariant, PTL

(* The final event tells the truth.                                        *)
THEOREM TrueEnd == Spec /\ LoopKept => []FinalEventIsTrue
BY Endings, PTL DEF EInv

(* A run that is done has the verdict of its verify step.                  *)
THEOREM VerdictAtTheEnd == Spec /\ LoopKept => []LoopHasVerdict
<1>1. EInv => LoopHasVerdict
    <2> SUFFICES ASSUME EInv, HasLoop, Verify \notin Kept, final = "done"
                 PROVE  verdict = "pass" \/ (verdict = "fail" /\ round = MaxRounds)
        BY DEF LoopHasVerdict
    <2>1. Verify \in Ids
        BY RunAssumption DEF HasLoop
    <2>2. state[Verify] \notin {"absent", "skipped"}
        BY DEF EInv, VerdictKnown
    <2>3. state[Verify] \in DoneStates
        BY <2>1, <2>2 DEF EInv, FinalEventIsTrue, Nodes
    <2>4. QED
        BY <2>2, <2>3 DEF EInv, VerdictKnown, DoneStates
<1>2. QED
    BY <1>1, Endings, PTL

-----------------------------------------------------------------------------
(* What needs no premise on the edits of the plan.                         *)
Owners ==
    /\ EndsOnce /\ stopped \subseteq stops
    /\ \A k \in Keys : claims[k] # None => claims[k] \in Workers

LEMMA TakeValues ==
    ASSUME IInv, NEW r, Take(r), NEW n \in Ids
    PROVE  state'[n] \in {state[n], "pending", "blocked", "failed", "cancelled", "completed"}
<1>1. state \in [Ids -> States \cup {"absent"}]
    BY DEF IInv, TypeOK
<1>2. ASSUME NEW s \in {"pending", "failed", "cancelled", "completed"}
      PROVE  /\ [state EXCEPT ![r.id] = s][n] \in {state[n], s}
             /\ Block(Nodes, edges, [state EXCEPT ![r.id] = s])[n] \in {state[n], s, "blocked"}
    <2> DEFINE st == [state EXCEPT ![r.id] = s]
    <2>1. st \in [Ids -> States \cup {"absent"}] /\ st[n] \in {state[n], s}
        BY <1>1 DEF States
    <2> HIDE DEF st
    <2>2. Block(Nodes, edges, st)[n] \in {st[n], "blocked"}
        BY <2>1, BlockTyped
    <2>3. QED
        BY <2>1, <2>2 DEF st
<1>3. CASE Fail(r.id) \/ TakeUserStop(r)
    BY <1>2, <1>3 DEF Fail, TakeUserStop
<1>4. CASE Back(r) \/ TakeCancelled(r) \/ TakeDone(r) \/ TakeVerdict(r)
    BY <1>2, <1>4 DEF Back, TakeCancelled, TakeDone, TakeVerdict
<1>5. CASE TakePlan(r)
    BY <1>1, <1>5 DEF TakePlan
<1>6. CASE TakeNextRound(r)
    <2>1. state' = [state EXCEPT ![Verify] = "pending", ![Fix] = "pending"]
        BY <1>6 DEF TakeNextRound, NextRoundState
    <2>2. QED
        BY <1>1, <2>1
<1>7. QED
    BY <1>3, <1>4, <1>5, <1>6, TakeKinds

LEMMA OwnersStep ==
    ASSUME IInv, Owners, [Next]_vars
    PROVE  Owners'
<1> DEFINE Holders == \A k \in Keys : claims[k] # None => claims[k] \in Workers
<1> USE DEF Owners
<1>1. TypeOK /\ TypeOK'
    BY StepInv DEF IInv
<1>2. claims \in [Keys -> Ids \cup {None}] /\ state \in [Ids -> States \cup {"absent"}]
    BY <1>1 DEF TypeOK, TeamTypeOK
<1>3. ASSUME UNCHANGED <<state, final>>, pc' = "ended" <=> pc = "ended" PROVE EndsOnce'
    BY <1>3 DEF EndsOnce, Nodes
<1>4. ASSUME pc # "ended", pc' # "ended", final' = final,
             \A n \in Ids : state'[n] \notin {"scheduled", "paused"}
      PROVE  EndsOnce'
    BY <1>4 DEF EndsOnce
<1>5. ASSUME UNCHANGED <<claims, stops, stopped>>, Workers' = Workers
      PROVE  Holders' /\ stopped' \subseteq stops'
    BY <1>5
<1>6. CASE Still
    <2>1. Workers' = Workers /\ UNCHANGED <<claims, stops, stopped>>
        BY <1>6 DEF Still, Workers, taskVars, teamVars
    <2>2. QED
        BY <1>3, <1>5, <1>6, <2>1 DEF Still
<1>7. CASE TakeEdit
    <2>1. pc # "ended" /\ pc' # "ended" /\ final' = final
        BY <1>7 DEF TakeEdit, loopVars
    <2>2. \A n \in Ids : state'[n] \notin {"scheduled", "paused"}
        BY <1>7, EditStates DEF EndsOnce
    <2>3. Workers' = Workers /\ UNCHANGED <<claims, stops, stopped>>
        BY <1>7, QuietSteps DEF taskVars, teamVars
    <2>4. QED
        BY <1>4, <1>5, <2>1, <2>2, <2>3
<1>8. CASE End
    <2>1. state' = AfterTheEnd /\ pc' = "ended" /\ Running = {}
        BY <1>8, QuietSteps DEF End
    <2>2. \A n \in Ids : state[n] # "running"
        BY <2>1 DEF Running
    <2>3. \A n \in Ids : state'[n] \in OverStates \cup {"absent"}
        BY <1>2, <2>1, <2>2 DEF EndsOnce, AfterTheEnd, States, OverStates, DoneStates, StopStates
    <2>4. EndsOnce'
        BY <2>1, <2>3 DEF EndsOnce, Nodes, OverStates, DoneStates, StopStates
    <2>5. Workers' = Workers /\ UNCHANGED <<claims, stops, stopped>>
        BY <1>8, QuietSteps DEF taskVars, teamVars
    <2>6. QED
        BY <1>5, <2>4, <2>5
<1>9. ASSUME NEW n \in Ids, Start(n) PROVE Owners'
    <2>1. pc # "ended" /\ pc' # "ended" /\ final' = final /\ state' = [state EXCEPT ![n] = "running"]
        BY <1>9 DEF Start
    <2>2. EndsOnce'
        BY <1>2, <1>4, <2>1 DEF EndsOnce
    <2>3. UNCHANGED <<claims, stopped, results>> /\ stops \subseteq stops' /\ Aged(n) \subseteq agents'
        BY <1>9 DEF Start
    <2>4. \A g \in agents : \E h \in agents' : h.id = g.id
        <3>1. ASSUME NEW g \in agents PROVE \E h \in agents' : h.id = g.id
            <4>1. (IF g.id = n THEN [g EXCEPT !.age = @ + 1] ELSE g) \in agents'
                BY <2>3 DEF Aged
            <4>2. (IF g.id = n THEN [g EXCEPT !.age = @ + 1] ELSE g).id = g.id
                BY <1>1 DEF TypeOK, Agents
            <4>3. QED
                BY <4>1, <4>2
        <3>2. QED
            BY <3>1
    <2>5. Workers \subseteq Workers'
        BY <2>3, <2>4 DEF Workers
    <2>6. QED
        BY <2>2, <2>3, <2>5
<1>10. ASSUME Take(Head(results)) PROVE Owners'
    <2> DEFINE r == Head(results)
    <2> HIDE DEF r
    <2>1. Take(r) /\ Collect(r)
        BY <1>10, TakeKinds DEF r
    <2>2. pc # "ended" /\ pc' # "ended" /\ final' = final
        BY <2>1 DEF Collect
    <2>3. \A n \in Ids : state'[n] \notin {"scheduled", "paused"}
        BY <2>1, TakeValues DEF EndsOnce
    <2>4. Workers \ {r.id} \subseteq Workers'
        BY <1>1, <2>1, CollectWorkers
    <2>5. Holders' /\ stopped' \subseteq stops'
        BY <2>1, <2>4 DEF Collect, ReleaseAll
    <2>6. QED
        BY <1>4, <2>2, <2>3, <2>5
<1>11. ASSUME NEW n \in Ids, StopNode(n) PROVE Owners'
    <2>1. /\ agents' = Cut(n) /\ n \in stops /\ stopped' = stopped \cup {n}
          /\ UNCHANGED <<state, final, pc, claims, stops, results>>
        BY <1>11 DEF StopNode, dagVars, loopVars, teamVars
    <2>2. Workers' = Workers
        BY <1>1, <2>1, CutWorkers DEF Workers
    <2>3. QED
        BY <1>3, <2>1, <2>2
<1>12. ASSUME NEW n \in Ids, NEW m \in Msgs, SendMessage(n, m) PROVE Owners'
    <2>1. Workers' = Workers /\ UNCHANGED <<state, final, pc, claims, stops, stopped>>
        BY <1>12 DEF SendMessage, Send, Workers, taskVars, dagVars, loopVars
    <2>2. QED
        BY <1>3, <1>5, <2>1
<1>13. ASSUME NEW g \in agents, Stall(g) \/ SendResult(g) PROVE Owners'
    <2>1. Workers' = Workers
        BY <1>13, StallAlone, SentAlone
    <2>2. UNCHANGED <<state, final, pc, claims, stops, stopped>>
        BY <1>13 DEF Stall, SendResult, dagVars, loopVars, teamVars
    <2>3. QED
        BY <1>3, <1>5, <2>1, <2>2
<1>14. ASSUME NEW g \in agents, UseTeam(g) PROVE Owners'
    <2>1. g.id \in Ids /\ g.id \in Workers
        BY <1>1 DEF TypeOK, Agents, Workers
    <2>2. Workers' = Workers /\ UNCHANGED <<state, final, pc, stops, stopped>>
        BY <1>14 DEF UseTeam, Workers, taskVars, dagVars, loopVars
    <2>3. \A k \in Keys : claims'[k] # None => claims'[k] = claims[k] \/ claims'[k] = g.id
        BY <1>2, <1>14 DEF UseTeam, ReadInbox, Claim, Release
    <2>4. Holders'
        BY <2>1, <2>2, <2>3
    <2>5. QED
        BY <1>3, <2>2, <2>4
<1>15. QED
    BY <1>6, <1>7, <1>8, <1>9, <1>10, <1>11, <1>12, <1>13, <1>14, StepKinds

(* After the final event no step, goroutine, result, stop, box or claim is *)
(* left over, whatever was edited and however many rounds there were.      *)
THEOREM NobodyLeft == Spec => []NobodyLeftOver
<1>1. Init => Owners
    <2> SUFFICES ASSUME Init PROVE Owners
        OBVIOUS
    <2>1. /\ \A n \in Ids : state[n] \in {"completed", "pending", "absent"}
          /\ pc = "top" /\ final = "none" /\ stopped = {}
        BY DEF Init
    <2>2. \A k \in Keys : claims[k] = None
        BY DEF Init, TeamInit
    <2>3. QED
        BY <2>1, <2>2 DEF Owners, EndsOnce
<1>2. IInv /\ Owners /\ [Next]_vars => Owners'
    BY OwnersStep
<1>3. IInv /\ Owners => NobodyLeftOver
    <2> SUFFICES ASSUME IInv, Owners, pc = "ended"
                 PROVE  /\ \A n \in Nodes : state[n] \in OverStates
                        /\ agents = {} /\ results = <<>> /\ stops = {} /\ stopped = {} /\ open = {}
                        /\ \A k \in Keys : claims[k] = None
        BY DEF NobodyLeftOver
    <2>1. InWork = 0
        BY DEF IInv, NothingAtWork
    <2>2. agents = {} /\ results = <<>> /\ Workers = {}
        BY <2>1, WorkCounts DEF IInv
    <2>3. QED
        BY <2>2 DEF IInv, Owned, Owners, EndsOnce
<1>4. QED
    BY <1>1, <1>2, <1>3, Invariant, PTL DEF Spec

-----------------------------------------------------------------------------
(* Runs that keep the loop's edge.                                         *)

(* An edit that changes the plan is one the user sent.                     *)
LEMMA EditSent ==
    ASSUME IInv, TakeEdit, ~UNCHANGED <<state, order, edges>>
    PROVE  pc = "awaiting" /\ Edits # {}
<1>1. EditFits(Head(decide).text) /\ pc = "awaiting" /\ decide # <<>>
    BY DEF TakeEdit
<1>2. Head(decide) \in Decisions
    BY <1>1, HeadTailProperties DEF IInv, TypeOK
<1>3. CASE Head(decide).text = NoText
    <2>1. Range(<<>>) = {}
        BY DEF Range
    <2>2. QED
        BY <1>1, <1>3, <2>1 DEF NoText, EditFits, Fits
<1>4. CASE Head(decide).text # NoText
    BY <1>1, <1>2, <1>4 DEF Decisions
<1>5. QED
    BY <1>3, <1>4

(* Without plan approval the run never waits for an answer on its plan.    *)
LEMMA NeverAwaits ==
    ASSUME Approval = "off", pc # "awaiting", [Next]_vars
    PROVE  pc' # "awaiting"
<1>1. CASE Take(Head(results))
    BY <1>1 DEF Take, Collect
<1>2. QED
    BY <1>1 DEF Next, Loop, User, Agent, Ended, vars, dagVars, loopVars, TakeApproval, TakeEdit,
       StopAwaiting, Await, WaitsForAnswer, NeedsApproval, PauseRun, StartReady, WaitForResult, GoTo,
       Resume, StopPaused, Start, End, Cancel, Deny, Pause, Continue, Approve, EditPlan, Decide,
       StopNode, SendMessage, Stall, SendResult, UseTeam

(* No plan and no next round drops the fix step's edge.                    *)
LEMMA LoopEdgeStep ==
    ASSUME IInv, EInv, LoopEdge, [Next]_vars, TakeEdit => UNCHANGED <<state, order, edges>>
    PROVE  LoopEdge'
<1>1. CASE Nodes' = Nodes /\ edges' = edges
    BY <1>1 DEF LoopEdge, HasLoop
<1>2. CASE UNCHANGED <<state, edges>>
    BY <1>1, <1>2 DEF Nodes
<1>3. state \in [Ids -> States \cup {"absent"}]
    BY DEF IInv, TypeOK
<1>4. ASSUME NEW n \in Ids, Start(n) PROVE LoopEdge'
    <2>1. state[n] = "pending" /\ state' = [state EXCEPT ![n] = "running"] /\ edges' = edges
        BY <1>4, StartAlone DEF EInv
    <2>2. Nodes' = Nodes
        BY <1>3, <2>1 DEF Nodes
    <2>3. QED
        BY <1>1, <2>1, <2>2
<1>5. CASE End
    <2>1. Nodes' = Nodes /\ edges' = edges
        BY <1>5 DEF End, AfterTheEnd, Nodes
    <2>2. QED
        BY <1>1, <2>1
<1>6. ASSUME Take(Head(results)) PROVE LoopEdge'
    <2> DEFINE r == Head(results)
    <2> HIDE DEF r
    <2>1. Take(r) /\ Collect(r)
        BY <1>6, TakeKinds DEF r
    <2>2. r = results[1] /\ 1 \in DOMAIN results /\ r.id \in Ids /\ state[r.id] = "running"
        BY <2>1, TakenAlone DEF EInv
    <2>3. Nodes' \subseteq Nodes \/ TakePlan(r) \/ TakeNextRound(r)
        <3>1. CASE TakePlan(r) \/ TakeNextRound(r)
            BY <3>1
        <3>2. CASE Back(r) \/ TakeDone(r) \/ TakeVerdict(r) \/ TakeCancelled(r)
            BY <1>3, <2>2, <3>2 DEF Back, TakeDone, TakeVerdict, TakeCancelled, Nodes
        <3>3. CASE Fail(r.id) \/ TakeUserStop(r)
            <4>1. PICK s \in {"failed", "cancelled"} :
                    state' = Block(Nodes, edges, [state EXCEPT ![r.id] = s])
                BY <3>3 DEF Fail, TakeUserStop
            <4> DEFINE st == [state EXCEPT ![r.id] = s]
            <4>2. st \in [Ids -> States \cup {"absent"}] /\ \A n \in Ids \ {r.id} : st[n] = state[n]
                BY <1>3, <2>2 DEF States
            <4>3. state' = Block(Nodes, edges, st)
                BY <4>1
            <4> HIDE DEF st
            <4>4. \A n \in Ids : state'[n] = st[n] \/ st[n] = "pending"
                BY <4>2, <4>3, BlockTyped
            <4>5. QED
                BY <2>2, <4>2, <4>4 DEF Nodes
        <3>4. QED
            BY <2>1, <3>1, <3>2, <3>3, TakeKinds
    <2>4. CASE TakePlan(r)
        <3>1. r.id \in Planners /\ r.id # Fix
            BY <2>2, <2>4, RunAssumption, TeamAssumption DEF TakePlan, IInv, PlansFit
        <3>2. SUFFICES ASSUME HasLoop, Fix \in Nodes' PROVE <<Fix, Verify>> \in edges'
            BY DEF LoopEdge, HasLoop
        <3>3. Fix \notin Range(r.plan.nodes)
            BY <2>2, <2>4 DEF TakePlan, EInv, FixFirst
        <3>4. Fix \in Nodes
            BY <2>2, <2>4, <3>2, <3>3 DEF TakePlan, Nodes
        <3>5. <<Fix, Verify>> \in edges
            BY <3>2, <3>4 DEF LoopEdge
        <3>6. edges' = Grown(r.id, r.plan)
            BY <2>4 DEF TakePlan
        <3>7. QED
            BY <3>1, <3>5, <3>6 DEF Grown
    <2>5. CASE TakeNextRound(r)
        <3>1. edges' = NextRoundEdges
            BY <2>5 DEF TakeNextRound
        <3>2. CASE Fix \in Nodes
            BY <3>1, <3>2 DEF NextRoundEdges, LoopEdge, HasLoop
        <3>3. CASE Fix \notin Nodes
            BY <3>1, <3>3 DEF NextRoundEdges, LoopEdge, HasLoop
        <3>4. QED
            BY <3>2, <3>3
    <2>6. CASE ~TakePlan(r) /\ ~TakeNextRound(r)
        <3>1. edges' = edges
            BY <2>1, <2>6, TakeKinds
               DEF Back, Fail, TakeUserStop, TakeCancelled, TakeDone, TakeVerdict
        <3>2. QED
            BY <2>3, <2>6, <3>1 DEF LoopEdge, HasLoop
    <2>7. QED
        BY <2>4, <2>5, <2>6
<1>7. QED
    BY <1>2, <1>4, <1>5, <1>6, StepKinds
       DEF Still, StopNode, SendMessage, Stall, SendResult, UseTeam, dagVars

(* A run whose plan is never edited keeps the loop's edge and order.       *)
THEOREM UneditedKeepsLoop ==
    ASSUME NeverEdited, LoopAtStart
    PROVE  Spec => LoopKept
<1> DEFINE Never == Approval = "off" => pc # "awaiting"
<1>1. Init => Never
    BY DEF Init
<1>2. Never /\ [Next]_vars => Never'
    BY NeverAwaits
<1>3. Init => FixBeforeVerify /\ LoopEdge
    <2> SUFFICES ASSUME Init PROVE FixBeforeVerify /\ LoopEdge
        OBVIOUS
    <2>1. \A n \in Ids : state[n] = IF n \in Kept THEN "completed"
                                    ELSE IF n \in Range(InitialNodes) THEN "pending" ELSE "absent"
        BY DEF Init
    <2>2. HasLoop => Verify \in Ids /\ Fix \in Ids
        BY RunAssumption, TeamAssumption DEF HasLoop
    <2>3. FixBeforeVerify
        BY <2>1, <2>2, RunAssumption DEF FixBeforeVerify, LoopAtStart, OverStates, DoneStates
    <2>4. LoopEdge
        BY <2>1, <2>2, RunAssumption DEF Init, LoopEdge, LoopAtStart, Nodes
    <2>5. QED
        BY <2>3, <2>4
<1>4. ASSUME IInv, Never, TakeEdit PROVE UNCHANGED <<state, order, edges>>
    BY <1>4, EditSent DEF NeverEdited
<1>5. IInv /\ EInv /\ LoopEdge /\ Never /\ [Next]_vars => LoopEdge' /\ EInv'
    BY <1>4, LoopEdgeStep, StepEnds
<1>6. Init => EInv
    BY <1>3, InitEnds
<1>7. QED
    BY <1>1, <1>2, <1>3, <1>5, <1>6, Invariant, PTL DEF Spec, LoopKept

(* A run without a loop has no edge to keep.                               *)
THEOREM NoLoopToKeep ==
    ASSUME Verify = None
    PROVE  LoopKept
<1>1. FixBeforeVerify /\ LoopEdge
    BY DEF FixBeforeVerify, LoopEdge, HasLoop
<1>2. QED
    BY <1>1, PTL DEF LoopKept
=============================================================================
