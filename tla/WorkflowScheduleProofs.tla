----------------------- MODULE WorkflowScheduleProofs -----------------------
(***************************************************************************)
(* Types and concurrency 1 of the scheduler, for every set of workflows    *)
(* and slots, every window, number of places and bound.                    *)
(***************************************************************************)
EXTENDS WorkflowSchedule, WellFoundedInduction, TLAPS

(* A non-empty set of times has a first.                                   *)
LEMMA First ==
    ASSUME NEW S \in SUBSET Nat, S # {}
    PROVE  \E x \in S : \A y \in S : x <= y
<1> DEFINE R == OpToRel(<, Nat)
<1>1. PICK x \in S : \A y \in S : <<y, x>> \notin R
    <2>1. IsWellFoundedOn(R, Nat)
        BY NatLessThanWellFounded
    <2> HIDE DEF R
    <2> QED
        BY <2>1, S \subseteq Nat, WFMin, Zenon
<1>2. \A y \in Nat : y < x => <<y, x>> \in R
    BY DEF OpToRel
<1> HIDE DEF R
<1>3. x \in Nat /\ \A y \in S : y \in Nat /\ ~(y < x)
    BY <1>1, <1>2
<1> QED
    BY <1>3

(* NextSlot is the zero time or a slot after t.                            *)
LEMMA NextIsLater ==
    ASSUME NEW t \in Nat
    PROVE  NextSlot(t) = 0 \/ (NextSlot(t) \in Slots /\ NextSlot(t) > t)
<1>1. Later(t) \in SUBSET Nat
    BY ScheduleAssumption DEF Later
<1>2. CASE Later(t) = {}
    BY <1>2 DEF NextSlot
<1>3. CASE Later(t) # {}
    <2>1. \E x \in Later(t) : \A y \in Later(t) : x <= y
        BY <1>1, <1>3, First
    <2>2. NextSlot(t) \in Later(t)
        BY <1>3, <2>1 DEF NextSlot
    <2> QED
        BY <2>2 DEF Later
<1> QED
    BY <1>2, <1>3

(* The latest of the slots in the window is one of them.                   *)
LEMMA LatestInWindow ==
    ASSUME now \in Nat, NEW w \in Workflows, InWindow(w) # {}
    PROVE  Latest(InWindow(w)) \in InWindow(w)
<1> DEFINE S == InWindow(w)
<1> DEFINE D == {now - u : u \in S}
<1>1. \A u \in S : u \in Nat /\ u <= now
    BY ScheduleAssumption DEF InWindow
<1> HIDE DEF S
<1>2. D \in SUBSET Nat /\ D # {}
    <2>1. \A u \in S : now - u \in Nat
        BY <1>1
    <2> QED
        BY <2>1 DEF S
<1>3. PICK x \in D : \A y \in D : x <= y
    BY <1>2, First
<1>4. PICK u \in S : x = now - u
    BY <1>3
<1>5. \A t \in S : t <= u
    <2> TAKE t \in S
    <2>1. x <= now - t
        BY <1>3
    <2> QED
        BY <2>1, <1>4, <1>1
<1>6. Latest(S) \in S
    BY <1>5 DEF Latest
<1> QED
    BY <1>6 DEF S

(* The initial state has the types.                                        *)
LEMMA InitTypes == Init => TypeOK
<1> SUFFICES ASSUME Init PROVE TypeOK
    OBVIOUS
<1>1. Syncing(Workflows) \in [op : Ops, w : Workflows \cup {None}, read : StateFiles \cup {None},
                               todo : SUBSET Workflows]
    BY DEF Syncing, Idle, Ops
<1>2. [last |-> 0, trusted |-> TRUE, on |-> TRUE] \in StateFiles
    BY DEF StateFiles
<1> QED
    BY <1>1, <1>2 DEF Init, TypeOK

(* What LoadState returns is a state file.                                 *)
LEMMA LoadedType ==
    ASSUME TypeOK, NEW w \in Workflows
    PROVE  ReadToRecord(w) \in StateFiles
<1>1. file[w] \in StateFiles
    BY DEF TypeOK
<1>2. ReadToRecord(w) = [file[w] EXCEPT !.trusted = file[w].trusted /\ w \in known]
    BY DEF ReadToRecord, Loaded
<1>3. (file[w].trusted /\ w \in known) \in BOOLEAN
    OBVIOUS
<1> QED
    BY <1>1, <1>2, <1>3 DEF StateFiles

(* A step of one fire keeps the types of the fires.                        *)
LEMMA MovesTypes ==
    ASSUME TypeOK, NEW f, NEW stage \in Stages, Moves(f, stage)
    PROVE  /\ f \in fires
           /\ fires' \in SUBSET [w : Workflows, slot : Slots, cut : BOOLEAN, at : Stages,
                                 read : StateFiles \cup {None}]
BY DEF TypeOK, Moves, Becomes

(* Tick keeps the types.                                                   *)
LEMMA TickTypes == TypeOK /\ Tick => TypeOK'
<1> SUFFICES ASSUME TypeOK, Tick PROVE TypeOK'
    OBVIOUS
<1>1. now \in Nat
    BY DEF TypeOK
<1>2. NextSlot(now) \in Slots \cup {0}
    BY <1>1, NextIsLater
<1>3. \A w \in Due : w \in Workflows /\ jobs[w] \in Jobs /\ jobs[w].next \in Slots
    BY DEF Due, TypeOK, Jobs
<1>4. jobs' \in [Workflows -> Jobs \cup {None}]
    <2> SUFFICES ASSUME NEW w \in Workflows
                 PROVE  jobs'[w] \in Jobs \cup {None}
        BY DEF Tick
    <2>1. CASE w \in Due
        <3>1. (jobs[w].running \/ w \in Firing) \in BOOLEAN
            OBVIOUS
        <3> QED
            BY <2>1, <3>1, <1>2 DEF Tick, Jobs
    <2>2. CASE w \notin Due
        BY <2>2 DEF Tick, TypeOK
    <2> QED
        BY <2>1, <2>2
<1>5. \A w \in Due : InWindow(w) # {} => Latest(InWindow(w)) \in Slots
    BY <1>1, <1>3, LatestInWindow DEF InWindow
<1>6. \A w \in Firing : NewFire(w) \in [w : Workflows, slot : Slots, cut : BOOLEAN, at : Stages,
                                        read : StateFiles \cup {None}]
    BY <1>3, <1>5 DEF Firing, NewFire, Stages
<1>7. evs' \in SUBSET [w : Workflows, slot : Slots]
    BY <1>3, <1>5 DEF Tick, Skipping
<1> QED
    BY <1>4, <1>6, <1>7 DEF Tick, TypeOK

(* What is about to be saved has been read.                                *)
Reads ==
    /\ \A f \in fires : f.at = "save" => f.read \in StateFiles
    /\ ui.op \in {"toggle", "trust"} => ui.w \in Workflows /\ ui.read \in StateFiles
    /\ ui.op = "sync" /\ ui.w # None => ui.w \in Workflows /\ ui.read \in StateFiles

(* The inductive invariant: the end of a fire needs what it read and the   *)
(* job it belongs to.                                                      *)
IInv == TypeOK /\ Reads /\ OneFire

(* A save of the user's choice keeps the types of the state files.         *)
LEMMA UISavesTypes ==
    ASSUME TypeOK, Reads, UISaves
    PROVE  /\ file' \in [Workflows -> StateFiles]
           /\ list' \in [Workflows -> StateFiles]
<1>1. ui.w \in Workflows /\ ui.read \in StateFiles
    BY DEF UISaves, Reads
<1>2. Chosen \in StateFiles
    BY <1>1 DEF Chosen, StateFiles
<1> QED
    BY <1>1, <1>2 DEF UISaves, TypeOK

(* Every step keeps the types.                                             *)
LEMMA StepTypes == IInv /\ [Next]_vars => TypeOK'
<1> SUFFICES ASSUME TypeOK, Reads, OneFire, [Next]_vars PROVE TypeOK'
    BY DEF IInv
<1>1. CASE Clock
    BY <1>1 DEF Clock, TypeOK
<1>2. CASE LoopSteps
    <2>1. ASSUME NEW e \in evs, EventLoads(e) PROVE TypeOK'
        <3>1. e.w \in Workflows /\ e.slot \in Slots
            BY DEF TypeOK
        <3> QED
            BY <2>1, <3>1, LoadedType DEF EventLoads, TypeOK
    <2>2. ASSUME NEW ok \in BOOLEAN, EventSaves(ok) PROVE TypeOK'
        <3>1. got \in [w : Workflows, slot : Slots, read : StateFiles]
            BY <2>2 DEF EventSaves, TypeOK
        <3>2. [got.read EXCEPT !.last = got.slot] \in StateFiles
            BY <3>1 DEF StateFiles
        <3> QED
            BY <2>2, <3>1, <3>2 DEF EventSaves, TypeOK
    <2>3. ASSUME Launch PROVE TypeOK'
        BY <2>3 DEF Launch, TypeOK, Stages
    <2> QED
        BY <1>2, <2>1, <2>2, <2>3, TickTypes DEF LoopSteps
<1>3. ASSUME NEW f \in fires, FireSteps(f) PROVE TypeOK'
    <2> f \in [w : Workflows, slot : Slots, cut : BOOLEAN, at : Stages, read : StateFiles \cup {None}]
        BY DEF TypeOK
    <2>1. ASSUME NEW passes \in BOOLEAN, Precheck(f, passes) PROVE TypeOK'
        BY <2>1, MovesTypes DEF Precheck, Moves, Stages, TypeOK
    <2>2. CASE TakePlace(f) \/ GiveUp(f) \/ SeesEnd(f)
        BY <2>2, MovesTypes DEF TakePlace, GiveUp, SeesEnd, Moves, Stages, TypeOK
    <2>3. CASE StartDue(f)
        <3>1. list' \in [Workflows -> StateFiles]
            BY <2>3 DEF StartDue, TypeOK
        <3>2. runs' = runs \/ runs' = runs \cup {<<f.w, f.slot>>}
            BY <2>3 DEF StartDue
        <3>3. Moves(f, "going") \/ Moves(f, "record")
            BY <2>3 DEF StartDue
        <3>4. ui' = ui
            BY <2>3 DEF StartDue
        <3>5. "going" \in Stages /\ "record" \in Stages
            BY DEF Stages
        <3>6. runs' \in SUBSET (Workflows \X Int)
            <4>1. f.w \in Workflows /\ f.slot \in Slots
                OBVIOUS
            <4>2. Slots \subseteq Int
                BY ScheduleAssumption
            <4>3. <<f.w, f.slot>> \in Workflows \X Int
                BY <4>1, <4>2
            <4>4. runs \subseteq Workflows \X Int
                BY DEF TypeOK
            <4> QED
                BY <3>2, <4>3, <4>4
        <3>7. fires' \in SUBSET [w : Workflows, slot : Slots, cut : BOOLEAN, at : Stages,
                                read : StateFiles \cup {None}]
            BY <3>3, <3>5, MovesTypes
        <3> QED
            BY <3>1, <3>3, <3>4, <3>6, <3>7 DEF Moves, TypeOK
    <2>4. CASE RecordLoads(f)
        <3>1. ReadToRecord(f.w) \in StateFiles
            BY LoadedType
        <3>2. [f EXCEPT !.at = "save", !.read = ReadToRecord(f.w)]
                 \in [w : Workflows, slot : Slots, cut : BOOLEAN, at : Stages, read : StateFiles \cup {None}]
            BY <3>1 DEF Stages
        <3>3. file' \in [Workflows -> StateFiles]
            BY <2>4, <3>1 DEF RecordLoads, TypeOK
        <3> QED
            BY <2>4, <3>2, <3>3 DEF RecordLoads, Becomes, TypeOK
    <2>5. ASSUME NEW ok \in BOOLEAN, RecordSaves(f, ok) PROVE TypeOK'
        <3>1. [f.read EXCEPT !.last = f.slot] \in StateFiles
            BY <2>5 DEF StateFiles, Reads, RecordSaves
        <3>2. file' \in [Workflows -> StateFiles]
            BY <2>5, <3>1 DEF RecordSaves, TypeOK
        <3>3. jobs' \in [Workflows -> Jobs \cup {None}]
            <4>1. CASE f.cut
                BY <2>5, <4>1 DEF RecordSaves, TypeOK
            <4>2. CASE ~f.cut
                <5>1. jobs[f.w] \in Jobs
                    BY <4>2 DEF OneFire, TypeOK
                <5>2. [jobs[f.w] EXCEPT !.running = FALSE] \in Jobs
                    BY <5>1 DEF Jobs
                <5> QED
                    BY <2>5, <4>2, <5>2 DEF RecordSaves, TypeOK
            <4> QED
                BY <4>1, <4>2
        <3> QED
            BY <2>5, <3>2, <3>3 DEF RecordSaves, TypeOK
    <2> QED
        BY <1>3, <2>1, <2>2, <2>3, <2>4, <2>5 DEF FireSteps
<1>4. ASSUME NEW r \in runs, RunEnds(r) PROVE TypeOK'
    BY <1>4 DEF RunEnds, TypeOK
<1>5. CASE RunByHand
    <2>1. asked \in Workflows /\ acts' \in Nat
        BY <1>5 DEF RunByHand, Acts, TypeOK
    <2> QED
        BY <1>5, <2>1 DEF RunByHand, TypeOK
<1>11. CASE Reload
    BY <1>11 DEF Reload, TypeOK
<1>12. ASSUME NEW w \in Workflows, AskRun(w) PROVE TypeOK'
    BY <1>12 DEF AskRun, TypeOK
<1>13. ASSUME NEW w \in Workflows, RunFromAfar(w) PROVE TypeOK'
    <2>1. acts' \in Nat
        BY <1>13 DEF RunFromAfar, Acts, TypeOK
    <2> QED
        BY <1>13, <2>1 DEF RunFromAfar, TypeOK
<1>6. ASSUME NEW w \in Workflows, NEW op \in {"toggle", "trust"}, UIReads(w, op) PROVE TypeOK'
    BY <1>6 DEF UIReads, Acts, TypeOK, Ops
<1>7. CASE UISteps
    <2>1. \A S \in SUBSET Workflows :
             Syncing(S) \in [op : Ops, w : Workflows \cup {None}, read : StateFiles \cup {None},
                            todo : SUBSET Workflows]
        BY DEF Syncing, Idle, Ops
    <2>2. CASE TrustSaves
        <3>1. Idle \in [op : Ops, w : Workflows \cup {None}, read : StateFiles \cup {None}, todo : SUBSET Workflows]
            BY DEF Idle, Ops
        <3> QED
            BY <2>2, <3>1, UISavesTypes DEF TrustSaves, Reads, TypeOK
    <2>4. CASE UISaveFails
        <3>1. Idle \in [op : Ops, w : Workflows \cup {None}, read : StateFiles \cup {None}, todo : SUBSET Workflows]
            BY DEF Idle, Ops
        <3> QED
            BY <2>4, <3>1 DEF UISaveFails, TypeOK
    <2>3. CASE ToggleSaves
        <3>1. jobs' \in [Workflows -> Jobs \cup {None}] /\ known' \in SUBSET Workflows
            BY <2>3 DEF ToggleSaves, TypeOK
        <3>2. fires' \in SUBSET [w : Workflows, slot : Slots, cut : BOOLEAN, at : Stages,
                                read : StateFiles \cup {None}]
            <4>1. \A f \in fires : [f EXCEPT !.cut = TRUE] \in [w : Workflows, slot : Slots, cut : BOOLEAN,
                                        at : Stages, read : StateFiles \cup {None}]
                BY DEF TypeOK
            <4> QED
                BY <2>3, <4>1 DEF ToggleSaves, Cut, TypeOK
        <3>3. Wanted(list') \ known \in SUBSET Workflows
            BY DEF Wanted
        <3> QED
            BY <2>3, <2>1, <3>1, <3>2, <3>3, UISavesTypes DEF ToggleSaves, TypeOK
    <2>5. CASE AddJob
        <3>1. From \in Nat
            BY <2>5, ScheduleAssumption DEF AddJob, From, Reads, TypeOK, StateFiles
        <3>2. [next |-> NextSlot(From), running |-> FALSE] \in Jobs
            BY <3>1, NextIsLater DEF Jobs
        <3> QED
            BY <2>5, <3>2 DEF AddJob, TypeOK
    <2>6. CASE KnowJob
        <3>1. ui.w \in Workflows /\ ui.todo \ {ui.w} \in SUBSET Workflows
            BY <2>6 DEF KnowJob, Reads, TypeOK
        <3> QED
            BY <2>6, <2>1, <3>1 DEF KnowJob, TypeOK
    <2>7. ASSUME NEW w \in Workflows, ReadJob(w) PROVE TypeOK'
        BY <2>7 DEF ReadJob, TypeOK
    <2> QED
        BY <1>7, <2>2, <2>3, <2>4, <2>5, <2>6, <2>7 DEF UISteps
<1>8. CASE Crash
    <2>1. jobs' \in [Workflows -> Jobs \cup {None}]
        BY <1>8 DEF Crash
    <2>2. ui' \in [op : Ops, w : Workflows \cup {None}, read : StateFiles \cup {None}, todo : SUBSET Workflows]
        BY <1>8 DEF Crash, Idle, Ops
    <2> QED
        <3>1. crashes' \in Nat
            BY <1>8 DEF Crash, TypeOK
        <3>2. up' \in BOOLEAN /\ known' = {} /\ fires' = {} /\ evs' = {} /\ got' = None
            BY <1>8 DEF Crash
        <3>3. UNCHANGED <<now, runs, file, list, acts>>
            BY <1>8 DEF Crash
        <3>4. asked' \in Workflows \cup {None}
            BY <1>8 DEF Crash
        <3> QED
            BY <2>1, <2>2, <3>1, <3>2, <3>3, <3>4 DEF TypeOK
<1>9. CASE Boot
    <2>1. PICK R \in SUBSET Workflows : runs' = R \X {0}
        BY <1>9 DEF Boot
    <2>2. runs' \in SUBSET (Workflows \X Int)
        BY <2>1
    <2>3. Syncing(Wanted(file)) \in [op : Ops, w : Workflows \cup {None}, read : StateFiles \cup {None},
                                    todo : SUBSET Workflows]
        BY DEF Syncing, Idle, Ops, Wanted
    <2> QED
        BY <1>9, <2>2, <2>3 DEF Boot, TypeOK
<1>10. CASE UNCHANGED vars
    BY <1>10 DEF vars, TypeOK
<1> QED
    BY <1>1, <1>2, <1>3, <1>4, <1>5, <1>6, <1>7, <1>8, <1>9, <1>10, <1>11, <1>12, <1>13 DEF Next, Over

(* Every step keeps what was read.                                         *)
LEMMA StepReads == IInv /\ [Next]_vars => Reads'
<1> SUFFICES ASSUME TypeOK, Reads, [Next]_vars PROVE Reads'
    BY DEF IInv
<1>1. ASSUME NEW f, NEW stage \in Stages \ {"save"}, Moves(f, stage), ui' = ui PROVE Reads'
    BY <1>1 DEF Moves, Becomes, Reads, TypeOK
<1>2. CASE LoopSteps
    <2>1. CASE Tick
        BY <2>1 DEF Tick, NewFire, Reads
    <2>2. CASE Launch
        BY <2>2 DEF Launch, Reads, TypeOK
    <2> QED
        BY <1>2, <2>1, <2>2 DEF LoopSteps, EventLoads, EventSaves, Reads
<1>3. ASSUME NEW f \in fires, FireSteps(f) PROVE Reads'
    <2>1. CASE RecordLoads(f)
        <3>1. ReadToRecord(f.w) \in StateFiles
            BY LoadedType DEF TypeOK
        <3> QED
            BY <2>1, <3>1 DEF RecordLoads, Becomes, Reads, TypeOK
    <2>2. ASSUME NEW ok \in BOOLEAN, RecordSaves(f, ok) PROVE Reads'
        BY <2>2 DEF RecordSaves, Reads
    <2>3. {"place", "asked", "going", "record"} \subseteq Stages \ {"save"}
        BY DEF Stages
    <2>4. ASSUME NEW passes \in BOOLEAN, Precheck(f, passes) PROVE Reads'
        BY <2>4, <2>3, <1>1 DEF Precheck
    <2>5. CASE TakePlace(f) \/ GiveUp(f) \/ SeesEnd(f) \/ StartDue(f)
        BY <2>5, <2>3, <1>1 DEF TakePlace, GiveUp, SeesEnd, StartDue
    <2> QED
        BY <1>3, <2>1, <2>2, <2>4, <2>5 DEF FireSteps
<1>4. ASSUME NEW r \in runs, RunEnds(r) PROVE Reads'
    BY <1>4 DEF RunEnds, Reads
<1>5. ASSUME UNCHANGED <<fires, ui>> PROVE Reads'
    BY <1>5 DEF Reads
<1>6. ASSUME NEW w \in Workflows, NEW op \in {"toggle", "trust"}, UIReads(w, op) PROVE Reads'
    BY <1>6 DEF UIReads, Reads, TypeOK
<1>7. CASE UISteps
    <2>1. \A S : Syncing(S).op \in {"idle", "sync"} /\ Syncing(S).w = None
        BY DEF Syncing, Idle
    <2>2. CASE TrustSaves \/ UISaveFails
        BY <2>2 DEF TrustSaves, UISaveFails, Idle, Reads
    <2>3. CASE ToggleSaves
        BY <2>3, <2>1 DEF ToggleSaves, Cut, Reads, TypeOK
    <2>4. CASE AddJob \/ KnowJob
        BY <2>4, <2>1 DEF AddJob, KnowJob, Reads
    <2>5. ASSUME NEW w \in Workflows, ReadJob(w) PROVE Reads'
        BY <2>5 DEF ReadJob, Reads, TypeOK
    <2> QED
        BY <1>7, <2>2, <2>3, <2>4, <2>5 DEF UISteps
<1>8. CASE Crash
    BY <1>8 DEF Crash, Idle, Reads
<1>9. CASE Boot
    BY <1>9 DEF Boot, Syncing, Idle, Reads
<1>10. CASE Clock \/ UNCHANGED vars
    BY <1>10 DEF Clock, vars, Reads
<1> QED
    BY <1>2, <1>3, <1>4, <1>5, <1>6, <1>7, <1>8, <1>9, <1>10
       DEF Next, Over, AskRun, RunByHand, RunFromAfar, Reload

(* A fire that changes its stage alone keeps one fire per job.             *)
LEMMA MovesOneFire ==
    ASSUME TypeOK, OneFire, NEW f, NEW stage, Moves(f, stage)
    PROVE  OneFire'
<1> DEFINE g == [f EXCEPT !.at = stage]
<1>1. f \in fires /\ fires' = (fires \ {f}) \cup {g} /\ jobs' = jobs
    BY DEF Moves, Becomes
<1>2. g.w = f.w /\ g.slot = f.slot /\ g.cut = f.cut
    BY <1>1 DEF TypeOK
<1>3. ASSUME NEW a \in fires', NEW b \in fires', a.w = b.w, ~a.cut, ~b.cut PROVE a = b
    <2> DEFINE Was(h) == IF h = g THEN f ELSE h
    <2>1. Was(a) \in fires /\ Was(a).w = a.w /\ Was(a).cut = a.cut
        BY <1>1, <1>2
    <2>2. Was(b) \in fires /\ Was(b).w = b.w /\ Was(b).cut = b.cut
        BY <1>1, <1>2
    <2>3. Was(a) = Was(b)
        BY <1>3, <2>1, <2>2 DEF OneFire
    <2> QED
        BY <2>3, <1>1
<1>4. ASSUME NEW a \in fires', ~a.cut
      PROVE  jobs'[a.w] # None /\ jobs'[a.w].running /\ (jobs'[a.w].next = 0 \/ a.slot < jobs'[a.w].next)
    BY <1>1, <1>2, <1>4 DEF OneFire
<1> QED
    BY <1>3, <1>4 DEF OneFire

(* A Tick fires only for a job without a fire, and only a slot before the  *)
(* job's next.                                                             *)
LEMMA TickOneFire == TypeOK /\ OneFire /\ Tick => OneFire'
<1> SUFFICES ASSUME TypeOK, OneFire, Tick PROVE OneFire'
    OBVIOUS
<1>1. now \in Nat
    BY DEF TypeOK
<1>2. NextSlot(now) = 0 \/ (NextSlot(now) \in Nat /\ NextSlot(now) > now)
    BY <1>1, NextIsLater, ScheduleAssumption
<1>3. ASSUME NEW w \in Due
      PROVE  /\ w \in Workflows /\ jobs'[w] # None /\ jobs'[w].next = NextSlot(now)
             /\ jobs[w].running \/ w \in Firing => jobs'[w].running
    <2>1. w \in Workflows
        BY DEF Due
    <2>2. jobs'[w] = [next |-> NextSlot(now), running |-> jobs[w].running \/ w \in Firing]
        BY <2>1 DEF Tick
    <2>3. jobs'[w] \in [next : Slots \cup {0}, running : BOOLEAN]
        <3>1. (jobs[w].running \/ w \in Firing) \in BOOLEAN
            BY DEF Due, TypeOK, Jobs
        <3>2. NextSlot(now) \in Slots \cup {0}
            BY <1>1, NextIsLater
        <3> QED
            BY <2>2, <3>1, <3>2
    <2>4. jobs'[w] # None
        BY <2>3, ScheduleAssumption, Zenon
    <2>5. jobs'[w].next = NextSlot(now) /\ jobs'[w].running = (jobs[w].running \/ w \in Firing)
        <3> DEFINE b == jobs[w].running \/ w \in Firing
        <3>1. jobs'[w] = [next |-> NextSlot(now), running |-> b]
            BY <2>2
        <3> HIDE DEF b
        <3>2. jobs'[w].next = NextSlot(now) /\ jobs'[w].running = b
            BY <3>1
        <3> QED
            BY <3>2 DEF b
    <2> QED
        BY <2>1, <2>4, <2>5
<1>4. \A w \in Workflows : w \notin Due => jobs'[w] = jobs[w]
    BY DEF Tick
<1>5. \A w \in Firing : Latest(InWindow(w)) \in Nat /\ Latest(InWindow(w)) <= now
    <2> TAKE w \in Firing
    <2>1. w \in Workflows /\ InWindow(w) # {}
        BY DEF Firing, Due
    <2> QED
        BY <1>1, <2>1, LatestInWindow, ScheduleAssumption DEF InWindow
<1>6. fires' = fires \cup {NewFire(w) : w \in Firing}
    BY DEF Tick
<1>7. \A w \in Firing : w \in Due /\ ~jobs[w].running
    BY DEF Firing
<1>8. ASSUME NEW f \in fires', ~f.cut
      PROVE  jobs'[f.w] # None /\ jobs'[f.w].running /\ (jobs'[f.w].next = 0 \/ f.slot < jobs'[f.w].next)
    <2>1. CASE f \in fires
        <3>1. /\ f.w \in Workflows /\ f.slot \in Nat
              /\ jobs[f.w] # None /\ jobs[f.w].running /\ (jobs[f.w].next = 0 \/ f.slot < jobs[f.w].next)
            BY <1>8, <2>1, ScheduleAssumption DEF OneFire, TypeOK
        <3>2. f.w \in Due => f.slot < jobs[f.w].next /\ jobs[f.w].next \in Nat /\ jobs[f.w].next <= now
            BY <3>1, ScheduleAssumption DEF Due, TypeOK, Jobs
        <3> QED
            BY <1>1, <1>2, <1>3, <1>4, <3>1, <3>2
    <2>2. ASSUME NEW w \in Firing, f = NewFire(w) PROVE f.w = w /\ f.slot = Latest(InWindow(w))
        BY <2>2 DEF NewFire
    <2> QED
        BY <1>1, <1>2, <1>3, <1>5, <1>6, <1>7, <2>1, <2>2
<1>9. ASSUME NEW f \in fires', NEW g \in fires', f.w = g.w, ~f.cut, ~g.cut PROVE f = g
    <2>1. ASSUME NEW h \in fires, ~h.cut, h.w \in Firing PROVE FALSE
        BY <2>1, <1>7 DEF OneFire
    <2>2. \A w \in Firing : NewFire(w).w = w
        BY DEF NewFire
    <2>3. f \in fires /\ g \in fires => f = g
        BY <1>9 DEF OneFire
    <2> QED
        BY <1>6, <1>9, <2>1, <2>2, <2>3
<1> QED
    BY <1>8, <1>9 DEF OneFire

(* Every step keeps one fire per job.                                      *)
LEMMA StepOneFire == IInv /\ [Next]_vars => OneFire'
<1> SUFFICES ASSUME TypeOK, Reads, OneFire, [Next]_vars PROVE OneFire'
    BY DEF IInv
<1>1. CASE LoopSteps
    <2>1. CASE Launch
        <3> DEFINE G(f) == IF f.at = "queued" THEN [f EXCEPT !.at = "precheck"] ELSE f
        <3>1. fires' = {G(f) : f \in fires} /\ jobs' = jobs
            BY <2>1 DEF Launch
        <3>2. \A f \in fires : G(f).w = f.w /\ G(f).slot = f.slot /\ G(f).cut = f.cut
            BY DEF TypeOK
        <3> HIDE DEF G
        <3> QED
            BY <3>1, <3>2 DEF OneFire
    <2> QED
        BY <1>1, <2>1, TickOneFire DEF LoopSteps, EventLoads, EventSaves, OneFire
<1>2. ASSUME NEW f \in fires, FireSteps(f) PROVE OneFire'
    <2>1. CASE RecordLoads(f)
        <3> DEFINE g == [f EXCEPT !.at = "save", !.read = ReadToRecord(f.w)]
        <3>1. fires' = (fires \ {f}) \cup {g} /\ jobs' = jobs
            BY <2>1 DEF RecordLoads, Becomes
        <3>2. g.w = f.w /\ g.slot = f.slot /\ g.cut = f.cut
            BY DEF TypeOK
        <3> HIDE DEF g
        <3> QED
            BY <3>1, <3>2 DEF OneFire
    <2>2. ASSUME NEW ok \in BOOLEAN, RecordSaves(f, ok) PROVE OneFire'
        <3>1. fires' = fires \ {f}
            BY <2>2 DEF RecordSaves
        <3>2. CASE f.cut
            BY <2>2, <3>1, <3>2 DEF RecordSaves, OneFire
        <3>3. CASE ~f.cut
            <4>1. \A g \in fires' : ~g.cut => g.w # f.w
                BY <3>1, <3>3 DEF OneFire
            <4>2. \A g \in fires' : ~g.cut => jobs'[g.w] = jobs[g.w]
                BY <2>2, <3>1, <3>3, <4>1 DEF RecordSaves, TypeOK
            <4> QED
                BY <3>1, <4>2 DEF OneFire
        <3> QED
            BY <3>2, <3>3
    <2>3. ASSUME NEW passes \in BOOLEAN, Precheck(f, passes) PROVE OneFire'
        BY <2>3, MovesOneFire DEF Precheck
    <2>4. CASE TakePlace(f) \/ GiveUp(f) \/ SeesEnd(f) \/ StartDue(f)
        BY <2>4, MovesOneFire DEF TakePlace, GiveUp, SeesEnd, StartDue
    <2> QED
        BY <1>2, <2>1, <2>2, <2>3, <2>4 DEF FireSteps
<1>3. CASE UISteps
    <2>1. CASE ToggleSaves
        <3>1. \A g \in fires' : ~g.cut => g \in fires /\ g.w \notin Unwanted
            <4> SUFFICES ASSUME NEW f \in fires, NEW g, g = IF f.w \in Unwanted THEN [f EXCEPT !.cut = TRUE] ELSE f, ~g.cut
                         PROVE  g \in fires /\ g.w \notin Unwanted
                BY <2>1 DEF ToggleSaves, Cut
            <4>1. [f EXCEPT !.cut = TRUE].cut
                BY DEF TypeOK
            <4> QED
                BY <4>1
        <3>2. \A w \in Workflows : w \notin Unwanted => jobs'[w] = jobs[w]
            BY <2>1 DEF ToggleSaves
        <3> QED
            BY <3>1, <3>2 DEF OneFire, TypeOK
    <2>2. CASE AddJob
        <3>1. \A f \in fires : ~f.cut => f.w # ui.w
            BY <2>2 DEF AddJob, OneFire
        <3> QED
            BY <2>2, <3>1 DEF AddJob, OneFire, TypeOK
    <2> QED
        BY <1>3, <2>1, <2>2 DEF UISteps, UISaveFails, TrustSaves, ReadJob, KnowJob, OneFire
<1>4. CASE Crash
    BY <1>4 DEF Crash, OneFire
<1> QED
    BY <1>1, <1>2, <1>3, <1>4 DEF Next, Over, vars, Clock, Boot, RunEnds, AskRun, RunByHand, RunFromAfar,
       Reload, UIReads, OneFire

(* In the first state nothing fires and nothing is about to be saved.      *)
LEMMA InitIInv == Init => IInv
<1> SUFFICES ASSUME Init PROVE IInv
    OBVIOUS
<1>1. ui.op \in {"idle", "sync"} /\ ui.w = None
    BY DEF Init, Syncing, Idle
<1>2. Reads
    BY <1>1 DEF Init, Reads
<1>3. OneFire
    BY DEF Init, OneFire
<1> QED
    BY <1>2, <1>3, InitTypes DEF IInv

(* The invariant holds in every state.                                     *)
LEMMA Invariant == Spec => []IInv
<1>1. IInv /\ [Next]_vars => IInv'
    BY StepTypes, StepReads, StepOneFire DEF IInv
<1> QED
    BY InitIInv, <1>1, PTL DEF Spec

(* For every schedule, window and number of places the state keeps its     *)
(* types: in particular a record writes only what it has read (the saves   *)
(* of wfxSchedHost.record and wfxToggle).                                  *)
THEOREM TypeCorrect == Spec => []TypeOK
<1>1. IInv => TypeOK
    BY DEF IInv
<1> QED
    BY Invariant, <1>1, PTL

(* One fire at a time per job, and none of a slot handled before           *)
(* (Scheduler.Tick: "one slot fires at most once").                        *)
THEOREM OneFireAtATime == Spec => []OneFire
<1>1. IInv => OneFire
    BY DEF IInv
<1> QED
    BY Invariant, <1>1, PTL
=============================================================================
