------------------------- MODULE WorkflowRunProofs -------------------------
(***************************************************************************)
(* The run of a workflow file, for every file and every bound: what is     *)
(* done in which order, what a resumed run keeps, and what is left when    *)
(* the run has ended.                                                      *)
(***************************************************************************)
EXTENDS WorkflowRun, FiniteSetTheorems, SequenceTheorems, WellFoundedInduction, TLAPS

----------------------------------------------------------------------------
(* The inductive invariant.                                                *)

Inside == {"run", "out", "wait", "pass", "again"} \* the list's process is in the step
Ahead == {"next", "held", "begin"}                \* it has not begun the step yet
Kids(s) == PartsOf(s) \cup {ElseOf(s)}            \* the lists of a step

\* A list that is at work is at one of its steps.
Counted == \A l \in Busy : at[l] \in DOMAIN Body[l]

\* It is the first one, or its parent waits for it.
Nested ==
    \A q \in Busy \ {top} : \E l \in Busy :
        \/ q \in PartsOf(Step(l)) /\ ph[l] = "wait" /\ Works(q)
        \/ q = ElseOf(Step(l)) /\ ph[l] = "else"
\* A part that is not collected has a parent that waits.
Collected == \A q \in Lists : Works(q) => \E l \in Busy : q \in PartsOf(Step(l)) /\ ph[l] = "wait"
\* Of a loop, or of an each without workers, one part has begun and has no
\* end: it works, or it has panicked.
Taken(q) == rf.sub[q] = "running" /\ ph[q] # "off"
OneRound == \A s \in Steps : Serial(s) => \A i, j \in PartsOf(s) : Taken(i) /\ Taken(j) => i = j

\* What the phase says of the step.
KindsAt ==
    \A l \in Lists :
        /\ ph[l] = "out" => Kind[Step(l)] = "write"
        /\ ph[l] = "pass" => Kind[Step(l)] = "loop"
        /\ ph[l] = "wait" => Kind[Step(l)] \in {"each", "loop", "branch"}
        /\ ph[l] = "again" => Kind[Step(l)] \in {"loop", "branch"}
\* A next try is one of those the limits leave.
HasTries == \A l \in Lists : ph[l] = "again" => tries[l] < MaxTries
\* What is called running is at work, or a panic left it so.
StepRunning ==
    \A l \in Lists :
        /\ ph[l] \in Inside => rf.st[Step(l)] = "running"
        /\ \A k \in DOMAIN Body[l] :
               rf.st[StepAt(l, k)] = "running" => (k = at[l] /\ ph[l] \in Inside) \/ l \in died
PartRunning == \A q \in Lists : rf.sub[q] = "running" /\ ph[q] \in {"off", "gone"} => q \in died

\* What is behind a list's process is finished.
Before == \A l \in Busy : \A k \in DOMAIN Body[l] : k < at[l] => rf.st[StepAt(l, k)] \in Finished
OkIsDone == \A l \in Lists : ph[l] = "ok" => \A s \in StepsIn(l) : rf.st[s] \in Finished
Over == rf.run # "running" => ph[top] \in Ended /\ (rf.run = "ok" => ph[top] = "ok")

\* What holds of a run file, in memory and on disk.
Ordered(f) ==
    \A l \in Lists : \A j, k \in DOMAIN Body[l] :
        j < k /\ f.st[StepAt(l, k)] \notin {"none", "pending"} => f.st[StepAt(l, j)] \in Finished
PartsDone(f) == \A l \in Lists : f.sub[l] = "done" => \A s \in StepsIn(l) : f.st[s] \in Finished
PartsOnly(f) == \A l \in Lists : f.sub[l] \in {"running", "done"} => \E s \in Steps : l \in PartsOf(s)
Sound(f) == Ordered(f) /\ PartsDone(f) /\ PartsOnly(f)

\* No list begins twice: what is ahead of a list's process has not begun.
NotYet(l, k) == ph[l] = "off" \/ (l \in Busy /\ (k > at[l] \/ (k = at[l] /\ ph[l] \in Ahead)))
KidsOff ==
    \A l \in Lists : \A k \in DOMAIN Body[l] : NotYet(l, k) =>
        \A q \in Lists : q \in Kids(StepAt(l, k)) => ph[q] = "off"
RoundsOff(l) ==
    /\ ph[l] \in {"run", "out"} => \A q \in PartsOf(Step(l)) :
          ph[q] = "off" \/ (Kind[Step(l)] = "loop" /\ rf.sub[q] \in {"done", "failed"})
    /\ ph[l] = "wait" /\ Kind[Step(l)] = "loop" => \A q \in PartsOf(Step(l)) :
          ph[q] = "off" \/ rf.sub[q] \in {"running", "done", "failed"}
StepOff ==
    \A l \in Busy :
        /\ ph[l] # "else" /\ HasElse(Step(l)) => ph[ElseOf(Step(l))] = "off"
        /\ RoundsOff(l)
PartsOff ==
    \A s \in Steps : \A q \in PartsOf(s) :
        /\ rf.sub[q] \in {"none", "pending"} => ph[q] = "off"
        /\ ph[q] = "gone" => rf.sub[q] = "running"
\* In a first start nothing is in the run file of what is ahead.
Fresh == ~resume => \A l \in Lists : \A k \in DOMAIN Body[l] : NotYet(l, k) => rf.st[StepAt(l, k)] = "none"

\* In a resumed run what is finished on disk is so in memory, but for a
\* retry whose first save failed: that one stops before its first step.
Stalled == saveErr /\ \A l \in Lists : ph[l] \in {"off", "next", "stop", "gone"}
Kept == resume => Stalled \/ \A s \in Steps : saved.st[s] \in Finished => rf.st[s] \in Finished

\* The ledger has the writes that went out.
Sent ==
    /\ there = {Key(s) : s \in mine}
    /\ \A s \in mine : Kind[s] = "write"

IInv ==
    /\ TypeOK /\ Counted /\ Nested /\ Collected /\ OneRound /\ KindsAt /\ HasTries /\ StepRunning
    /\ PartRunning /\ Before /\ OkIsDone /\ Over /\ Sound(rf) /\ Sound(saved)
    /\ KidsOff /\ StepOff /\ PartsOff /\ Fresh /\ Kept /\ Sent
----------------------------------------------------------------------------
(* Paths.                                                                  *)

Names == STRING \cup {"else"}

LEMMA ListsArePaths == Lists \subseteq Seq(Names)
BY FileAssumption, SeqMonotonic, STRING \subseteq Names DEF Names

LEMMA PathFacts ==
    ASSUME NEW l \in Seq(Names), NEW x \in Names
    PROVE  /\ Append(l, x) \in Seq(Names)
           /\ Len(Append(l, x)) = Len(l) + 1
           /\ SubSeq(Append(l, x), 1, Len(Append(l, x)) - 1) = l
<1> DEFINE a == Append(l, x)
           p == SubSeq(a, 1, Len(a) - 1)
<1>1. a \in Seq(Names) /\ Len(a) = Len(l) + 1 /\ Len(l) \in Nat
    BY AppendProperties, LenProperties
<1>2. \A i \in 1..Len(l) : a[i] = l[i]
    BY AppendProperties
<1>3. \A i \in 1..(Len(a) - 1) : a[i] \in Names
    BY <1>1, ElementOfSeq
<1> HIDE DEF a
<1>4. p \in Seq(Names) /\ Len(p) = Len(l) /\ \A i \in 1..Len(l) : p[i] = a[i]
    BY <1>1, <1>3, SubSeqProperties
<1>5. p = l
    BY <1>2, <1>4, SeqEqual
<1>6. QED
    BY <1>1, <1>5 DEF a

(* A step is known by its list and its place.                              *)
LEMMA StepFacts ==
    ASSUME NEW l \in Lists, NEW k \in DOMAIN Body[l]
    PROVE  /\ StepAt(l, k) \in Steps /\ StepAt(l, k) \in StepsIn(l)
           /\ StepAt(l, k) \in Seq(Names)
           /\ HomeOf(StepAt(l, k)) = l
           /\ Len(StepAt(l, k)) = Len(l) + 1
<1>1. l \in Seq(Names) /\ Body[l][k] \in Names
    BY FileAssumption, ListsArePaths DEF Names
<1>2. QED
    BY <1>1, PathFacts DEF StepAt, StepsIn, Steps, HomeOf

LEMMA SameStep ==
    ASSUME NEW l \in Lists, NEW m \in Lists, NEW j \in DOMAIN Body[l], NEW k \in DOMAIN Body[m],
           StepAt(l, j) = StepAt(m, k)
    PROVE  l = m /\ j = k
<1>1. l \in Seq(Names) /\ m \in Seq(Names) /\ Body[l][j] \in Names /\ Body[m][k] \in Names
    BY FileAssumption, ListsArePaths DEF Names
<1>2. l = m /\ Body[l][j] = Body[m][k]
    BY <1>1, AppendInjective DEF StepAt
<1>3. QED
    BY <1>2, FileAssumption

LEMMA StepHasPlace ==
    ASSUME NEW s \in Steps
    PROVE  \E l \in Lists : \E k \in DOMAIN Body[l] : s = StepAt(l, k)
BY DEF Steps, StepsIn

(* A list of a step is known by the step, and no run begins with one.      *)
LEMMA KidFacts ==
    ASSUME NEW s \in Steps, NEW q \in Kids(s)
    PROVE  /\ Container(q) = s /\ Len(q) = Len(s) + 1 /\ q \notin Tops
           /\ q \in Seq(Names)
           /\ \A t \in Steps : q \in Kids(t) => t = s
           /\ q \in PartsOf(s) => q \in Lists /\ \A t \in Steps : q # ElseOf(t)
<1>1. \A t \in Steps : t \in Seq(Names) /\ Parts[t] \in Seq(STRING \ {"else"})
    BY StepHasPlace, StepFacts, FileAssumption
<1>2. \A t \in Steps : \A i \in DOMAIN Parts[t] : Parts[t][i] \in STRING \ {"else"}
    BY <1>1
<1>3. \A t \in Steps : \A c \in Kids(t) :
        /\ Container(c) = t /\ Len(c) = Len(t) + 1 /\ c \in Seq(Names)
    <2> TAKE t \in Steps
    <2> TAKE c \in Kids(t)
    <2>2. PICK x \in Names : c = Append(t, x)
        <3>1. CASE c \in PartsOf(t)
            BY <1>2, <3>1 DEF PartsOf, Part, Names
        <3>2. CASE c = ElseOf(t)
            BY <3>2 DEF ElseOf, Names
        <3>3. QED
            BY <3>1, <3>2 DEF Kids
    <2>3. QED
        BY <1>1, <2>2, PathFacts DEF Container
<1>4. \A t \in Steps : q \in PartsOf(s) => q # ElseOf(t)
    BY <1>1, <1>2, AppendInjective DEF PartsOf, Part, ElseOf, Names
<1>5. q \notin Tops
    <2>1. PICK l \in Lists : \E k \in DOMAIN Body[l] : s = StepAt(l, k)
        BY StepHasPlace
    <2>2. Len(s) = Len(l) + 1 /\ Len(l) \in Nat
        BY <2>1, StepFacts, ListsArePaths, LenProperties
    <2>3. Len(q) = Len(s) + 1
        BY <1>3
    <2>4. Len(q) # 1
        BY <2>2, <2>3
    <2>5. QED
        BY <2>4, FileAssumption
<1>6. q \in PartsOf(s) => q \in Lists
    BY FileAssumption
<1>7. QED
    BY <1>3, <1>4, <1>5, <1>6

LEMMA PartFacts ==
    ASSUME NEW s \in Steps
    PROVE  /\ DOMAIN Parts[s] = 1..Len(Parts[s]) /\ Len(Parts[s]) \in Nat
           /\ \A i \in DOMAIN Parts[s] : Part(s, i) \in PartsOf(s)
           /\ \A i, j \in DOMAIN Parts[s] : Part(s, i) = Part(s, j) => i = j
           /\ IsFiniteSet(PartsOf(s))
<1>1. s \in Seq(Names) /\ Parts[s] \in Seq(STRING \ {"else"})
    BY StepHasPlace, StepFacts, FileAssumption
<1>2. DOMAIN Parts[s] = 1..Len(Parts[s]) /\ Len(Parts[s]) \in Nat
    BY <1>1, LenProperties
<1>3. \A i \in DOMAIN Parts[s] : Parts[s][i] \in Names
    BY <1>1 DEF Names
<1>4. \A i, j \in DOMAIN Parts[s] : Part(s, i) = Part(s, j) => i = j
    BY <1>1, <1>3, AppendInjective, FileAssumption DEF Part
<1>5. IsFiniteSet(PartsOf(s))
    <2> DEFINE f == [i \in DOMAIN Parts[s] |-> Part(s, i)]
    <2>1. f \in Surjection(DOMAIN Parts[s], PartsOf(s))
        BY DEF Surjection, PartsOf
    <2>2. QED
        BY <1>2, <2>1, FS_Interval, FS_Surjection DEF ExistsSurjection
<1>6. QED
    BY <1>2, <1>4, <1>5 DEF PartsOf

----------------------------------------------------------------------------
(* Types.                                                                  *)

FilesOK == rf \in Files /\ saved \in Files /\ saveErr \in BOOLEAN
ProcOK ==
    /\ at \in [Lists -> Nat] /\ ph \in [Lists -> Phases \cup Ended]
    /\ tries \in [Lists -> 0..MaxTries]
RestOK ==
    /\ top \in Tops /\ resume \in BOOLEAN /\ starts \in 1..MaxStarts
    /\ held \in BOOLEAN /\ holds \in 0..MaxHolds
    /\ user \in BOOLEAN /\ late \subseteq Lists /\ died \subseteq Lists
    /\ there \subseteq Keys /\ known = {}
    /\ mine \subseteq Steps

LEMMA TypeParts == TypeOK <=> FilesOK /\ ProcOK /\ RestOK
BY DEF TypeOK, FilesOK, ProcOK, RestOK

LEMMA TypePartsNext == TypeOK' <=> FilesOK' /\ ProcOK' /\ RestOK'
BY DEF TypeOK, FilesOK, ProcOK, RestOK

LEMMA RestStays == ASSUME RestOK, UNCHANGED Rest PROVE RestOK'
BY DEF RestOK, Rest, control, outside

LEMMA EditType ==
    ASSUME NEW f \in Files, NEW s, NEW l, NEW x \in StepStates
    PROVE  WithStep(f, s, x) \in Files /\ WithPart(f, l, x) \in Files
BY DEF Files, WithStep, WithPart

LEMMA SaveType == ASSUME FilesOK, NEW f \in Files, Save(f) \/ Edit(f) PROVE FilesOK'
BY DEF FilesOK, Save, Edit

LEMMA GotoType ==
    ASSUME ProcOK, NEW l, NEW p \in Phases \cup Ended, Goto(l, p) PROVE ProcOK'
BY DEF ProcOK, Goto

LEMMA SpawnType ==
    ASSUME ProcOK, NEW l, NEW S, NEW p \in Phases \cup Ended, Spawn(l, p, S) PROVE ProcOK'
<1>1. ph' \in [Lists -> Phases \cup Ended]
    <2>1. \A m \in Lists : (CASE m = l -> p [] m \in S -> "next" [] OTHER -> ph[m]) \in Phases \cup Ended
        BY DEF ProcOK, Phases
    <2>2. QED
        BY <2>1 DEF Spawn
<1>2. QED
    BY <1>1 DEF ProcOK, Spawn

LEMMA AdvanceType == ASSUME ProcOK, NEW l \in Lists, Advance(l) PROVE ProcOK'
<1>1. CASE at[l] = Len(Body[l])
    BY <1>1, GotoType DEF Advance, Return, Ended
<1>2. CASE at[l] # Len(Body[l])
    <2>1. /\ at' = [at EXCEPT ![l] = @ + 1] /\ ph' = [ph EXCEPT ![l] = "next"]
          /\ tries' = [tries EXCEPT ![l] = 0]
        BY <1>2 DEF Advance
    <2>2. at[l] + 1 \in Nat /\ "next" \in Phases /\ 0 \in 0..MaxTries
        BY FileAssumption DEF ProcOK, Phases
    <2>3. QED
        BY <2>1, <2>2 DEF ProcOK
<1>3. QED
    BY <1>1, <1>2

LEMMA RunElseType == ASSUME ProcOK, NEW l \in Lists, RunElse(l) PROVE ProcOK'
BY AdvanceType, SpawnType DEF RunElse, Phases

\* What runner.failed does, in one of three ways.
FailsWith(l, f, x) ==
    /\ Save(WithStep(f, Step(l), x)) /\ x \in {"cancelled", "paused", "failed"}
    /\ \/ \E r \in {"cut", "paused", "stop", "fail"} : Return(l, r)
       \/ x = "failed" /\ HasElse(Step(l)) /\ Spawn(l, "else", {ElseOf(Step(l))})

LEMMA FailKinds ==
    ASSUME NEW l, NEW f, NEW why, Fail(l, f, why)
    PROVE  \E x : FailsWith(l, f, x)
BY DEF Fail, FailsWith

LEMMA FailType ==
    ASSUME FilesOK, ProcOK, NEW l, NEW f \in Files, NEW why, Fail(l, f, why)
    PROVE  FilesOK' /\ ProcOK'
<1>1. PICK x : FailsWith(l, f, x)
    BY FailKinds
<1>2. x \in StepStates
    BY <1>1 DEF FailsWith, StepStates, Finished
<1>3. FilesOK'
    BY <1>1, <1>2, EditType, SaveType DEF FailsWith
<1>4. ProcOK'
    BY <1>1, GotoType, SpawnType DEF FailsWith, Return, Phases, Ended
<1>5. QED
    BY <1>3, <1>4

LEMMA DoneType ==
    ASSUME FilesOK, ProcOK, NEW l \in Lists, NEW f \in Files, Done(l, f)
    PROVE  FilesOK' /\ ProcOK'
BY EditType, SaveType, AdvanceType DEF Done, StepStates, Finished

LEMMA TriesAgainType == ASSUME ProcOK, NEW l \in Lists, TriesAgain(l) PROVE ProcOK'
BY FileAssumption DEF ProcOK, TriesAgain, Phases

LEMMA TryFailsType ==
    ASSUME FilesOK, ProcOK, NEW l \in Lists, NEW f \in Files, NEW why, TryFails(l, f, why)
    PROVE  FilesOK' /\ ProcOK'
BY FailType, SaveType, GotoType DEF TryFails, Phases

\* The steps of a list's process but the next try of a loop or a branch.
Acts(l) ==
    \/ NextStep(l) \/ HeldIsCut(l) \/ BeginCut(l) \/ Restore(l) \/ When(l) \/ Begin(l) \/ ElseEnds(l)
    \/ Work(l) \/ WriteAsks(l) \/ WriteGoesOut(l)
    \/ EachStarts(l) \/ ItemStarts(l) \/ EachEnds(l)
    \/ RoundStarts(l) \/ RoundEnds(l) \/ LoopPasses(l)
    \/ BranchesStart(l) \/ BranchesJoin(l) \/ StaysTimedOut(l) \/ Unwinds(l)

LEMMA ListType == ASSUME FilesOK, ProcOK, NEW l \in Lists, Acts(l) PROVE FilesOK' /\ ProcOK'
<1> USE DEF Return, Phases, Ended
<1>0. rf \in Files
    BY DEF FilesOK
<1>1. CASE NextStep(l)
    BY <1>1, GotoType DEF NextStep, FilesOK
<1>2. CASE HeldIsCut(l) \/ BeginCut(l)
    BY <1>2, GotoType DEF HeldIsCut, BeginCut, FilesOK
<1>3. CASE Restore(l)
    BY <1>3, RunElseType, AdvanceType DEF Restore, FilesOK
<1>4. CASE When(l)
    BY <1>0, <1>4, RunElseType, FailType, EditType, SaveType DEF When, StepStates, Finished
<1>5. CASE Begin(l)
    <2>1. Save(WithStep(rf, Step(l), "running"))
        BY <1>5 DEF Begin
    <2>2. FilesOK'
        BY <1>0, <2>1, EditType, SaveType DEF StepStates
    <2>3. ProcOK'
        BY <1>5, FileAssumption DEF Begin, ProcOK
    <2>4. QED
        BY <2>2, <2>3
<1>6. CASE ElseEnds(l)
    <2>1. ProcOK'
        BY <1>6, GotoType, AdvanceType DEF ElseEnds
    <2>2. QED
        BY <1>6, <2>1 DEF ElseEnds, FilesOK
<1>7. CASE Work(l)
    BY <1>0, <1>7, DoneType, FailType DEF Work
<1>8. CASE WriteAsks(l)
    BY <1>0, <1>8, DoneType, FailType, SaveType, GotoType, TriesAgainType DEF WriteAsks, GivesUp
<1>9. CASE WriteGoesOut(l)
    BY <1>0, <1>9, DoneType, FailType, SaveType, TriesAgainType DEF WriteGoesOut, GivesUp
<1>10. CASE EachStarts(l)
    <2> DEFINE f == [rf EXCEPT !.sub = [i \in Lists |-> IF i \in PartsOf(Step(l)) THEN "pending" ELSE rf.sub[i]]]
    <2>1. f \in Files
        BY <1>0 DEF Files, StepStates
    <2>2. \/ Edit(f) /\ Goto(l, "wait")
          \/ Edit(rf) /\ Goto(l, "wait")
          \/ Fail(l, rf, "err")
        BY <1>10 DEF EachStarts
    <2> HIDE DEF f
    <2>3. QED
        BY <1>0, <2>1, <2>2, SaveType, GotoType, FailType
<1>11. CASE ItemStarts(l)
    <2>1. PICK i : /\ Save(WithPart(rf, i, "running"))
                   /\ Spawn(l, "wait", {i}) \/ Goto(i, "fail")
        BY <1>11 DEF ItemStarts
    <2>2. QED
        BY <1>0, <2>1, EditType, SaveType, GotoType, SpawnType DEF StepStates
<1>12. CASE EachEnds(l)
    BY <1>0, <1>12, DoneType, FailType DEF EachEnds
<1>13. CASE RoundStarts(l)
    <2>1. \/ TryFails(l, rf, "err")
          \/ \E i : Save(WithPart(rf, i, "running")) /\ Spawn(l, "wait", {i})
        BY <1>13 DEF RoundStarts
    <2>2. QED
        BY <1>0, <2>1, EditType, SaveType, TryFailsType, SpawnType DEF StepStates
<1>14. CASE RoundEnds(l)
    <2>1. PICK i : \E x \in {"done", "cancelled", "paused", "failed"} :
            \/ \E why : TryFails(l, WithPart(rf, i, x), why)
            \/ Save(WithPart(rf, i, x)) /\ \E p \in {"run", "pass"} : Goto(l, p)
        BY <1>14 DEF RoundEnds, PartState
    <2>2. QED
        BY <1>0, <2>1, EditType, SaveType, TryFailsType, GotoType DEF StepStates, Finished
<1>15. CASE LoopPasses(l)
    BY <1>0, <1>15, DoneType DEF LoopPasses
<1>16. CASE BranchesStart(l)
    <2> DEFINE f == [rf EXCEPT !.sub = [b \in Lists |-> IF b \in PartsOf(Step(l)) THEN "running" ELSE rf.sub[b]]]
    <2>1. f \in Files
        BY <1>0 DEF Files, StepStates
    <2>2. Save(f) /\ Spawn(l, "wait", PartsOf(Step(l)))
        BY <1>16 DEF BranchesStart
    <2> HIDE DEF f
    <2>3. QED
        BY <2>1, <2>2, SaveType, SpawnType
<1>17. CASE BranchesJoin(l)
    BY <1>0, <1>17, DoneType, FailType, TryFailsType DEF BranchesJoin
<1>18. CASE StaysTimedOut(l)
    BY <1>0, <1>18, FailType DEF StaysTimedOut
<1>19. CASE Unwinds(l)
    BY <1>19, GotoType DEF Unwinds, FilesOK
<1>20. QED
    BY <1>1, <1>2, <1>3, <1>4, <1>5, <1>6, <1>7, <1>8, <1>9, <1>10, <1>11, <1>12, <1>13, <1>14, <1>15, <1>16, <1>17,
       <1>18, <1>19 DEF Acts

LEMMA PartStepType == ASSUME FilesOK, ProcOK, NEW i \in Lists, PartStep(i) PROVE FilesOK' /\ ProcOK'
<1>0. rf \in Files /\ \A r : PartState(r) \in StepStates
    BY DEF FilesOK, PartState, StepStates, Finished
<1>1. CASE ItemEnds(i)
    <2>1. PICK r \in Ended : Save(WithPart(rf, i, PartState(r))) /\ Return(i, r)
        BY <1>1 DEF ItemEnds, Ended
    <2>2. QED
        BY <1>0, <2>1, EditType, SaveType, GotoType DEF Return
<1>2. CASE BranchEnds(i)
    BY <1>0, <1>2, EditType, SaveType DEF BranchEnds, proc, ProcOK
<1>3. QED
    BY <1>1, <1>2 DEF PartStep

LEMMA PanicType == ASSUME FilesOK, ProcOK, NEW l \in Lists, Panics(l) PROVE FilesOK' /\ ProcOK'
BY GotoType DEF Panics, Return, FilesOK, Ended

----------------------------------------------------------------------------
(* What one step of a list's process may change, whatever the step is.     *)

\* Only the list's own step changes in the run file, and never from an end.
StepIs(l, x) ==
    /\ rf'.run = rf.run /\ x \in StepStates
    /\ \A t \in Steps : rf'.st[t] = IF t = Step(l) THEN x ELSE rf.st[t]
    /\ x = rf.st[Step(l)] \/ (rf.st[Step(l)] \notin Finished /\ x # "none")

Opens(l) ==
    /\ ph[l] \in Inside \cup {"begin"}
    /\ ph'[l] = "out" => Kind[Step(l)] = "write"
    /\ ph'[l] = "pass" => Kind[Step(l)] = "loop"
    /\ ph'[l] = "wait" => Kind[Step(l)] \in {"each", "loop", "branch"}
    /\ ph'[l] = "again" => Kind[Step(l)] \in {"loop", "branch"}
OwnMove(l, x) ==
    \/ at'[l] = at[l] + 1 /\ at[l] # Len(Body[l]) /\ ph'[l] = "next" /\ x \in Finished
    \/ at'[l] = at[l] /\ at[l] = Len(Body[l]) /\ ph'[l] = "ok" /\ x \in Finished
    \/ /\ at'[l] = at[l] /\ ph'[l] \in {"cut", "paused", "stop", "fail", "gone"}
       /\ x = "running" \/ ph'[l] = "gone" => l \in died'
    \/ at'[l] = at[l] /\ ph[l] = "next" /\ ph'[l] \in {"held", "begin"} /\ x = rf.st[Step(l)]
    \/ at'[l] = at[l] /\ ph'[l] \in Inside /\ x = "running" /\ Opens(l)
    \/ at'[l] = at[l] /\ ph'[l] = "else" /\ ph[l] # "else" /\ x \in {"skipped", "failed"}

Same(q) == ph'[q] = ph[q] /\ at'[q] = at[q]
KidMove(l, q) ==
    \/ Same(q) /\ rf'.sub[q] = rf.sub[q]
    \/ /\ q \in PartsOf(Step(l)) /\ ph[q] = "off" /\ ph'[l] = "wait" /\ rf'.sub[q] = "running"
       /\ \/ ph'[q] = "next" /\ at'[q] = 1
          \/ ph'[q] = "fail" /\ at'[q] = at[q]
    \/ /\ q = ElseOf(Step(l)) /\ ph[q] = "off" /\ ph'[l] = "else" /\ rf'.sub[q] = rf.sub[q]
       /\ ph'[q] = "next" /\ at'[q] = 1
    \/ /\ q \in PartsOf(Step(l)) /\ Works(q) /\ ph[q] \in Ended
       /\ ph'[q] \in Ended \ {"gone"} /\ (ph'[q] = "ok" => ph[q] = "ok") /\ at'[q] = at[q]
       /\ rf'.sub[q] \in {"done", "failed", "cancelled", "paused"} /\ (rf'.sub[q] = "done" => ph[q] = "ok")
    \/ /\ q \in PartsOf(Step(l)) /\ Works(q) /\ ph[q] \in Ended
       /\ ph'[q] = "gone" /\ at'[q] = at[q] /\ rf'.sub[q] = rf.sub[q] /\ q \in died'
    \/ /\ q \in PartsOf(Step(l)) /\ ph[q] = "off" /\ Same(q)
       /\ ph'[l] = "wait" /\ rf'.sub[q] = "pending"

\* The parts of one step together.
PartsMove(l) ==
    /\ Serial(Step(l)) => \A i, j \in PartsOf(Step(l)) : Taken(i)' /\ Taken(j)' => i = j
    /\ ph'[l] \in {"run", "out"} => \A q \in PartsOf(Step(l)) :
          ph'[q] = "off" \/ (Kind[Step(l)] = "loop" /\ rf'.sub[q] \in {"done", "failed"})
    /\ ph'[l] = "wait" /\ Kind[Step(l)] = "loop" => \A q \in PartsOf(Step(l)) :
          ph'[q] = "off" \/ rf'.sub[q] \in {"running", "done", "failed"}

ListMove(l) ==
    /\ l \in Busy /\ rf'.sub[l] = rf.sub[l]
    /\ \E x : StepIs(l, x) /\ OwnMove(l, x)
    /\ \A q \in Lists \ {l} : KidMove(l, q)
    /\ ph[l] = "wait" /\ ph'[l] # "wait" => \A q \in PartsOf(Step(l)) : ~Works(q)'
    /\ ph[l] = "else" /\ HasElse(Step(l)) => ph[ElseOf(Step(l))] \in Ended
    /\ PartsMove(l)

(* The step a busy list is at.                                             *)
LEMMA AtStep ==
    ASSUME Counted, NEW l \in Busy
    PROVE  l \in Lists /\ at[l] \in DOMAIN Body[l] /\ Step(l) = StepAt(l, at[l]) /\ Step(l) \in Steps
           /\ \A q \in Kids(Step(l)) : q # l /\ Len(q) > Len(l) /\ Len(l) \in Nat
<1>1. l \in Lists /\ at[l] \in DOMAIN Body[l] /\ Step(l) = StepAt(l, at[l])
    BY DEF Counted, Busy, Step
<1>2. Step(l) \in Steps /\ Len(Step(l)) = Len(l) + 1 /\ l \in Seq(Names)
    BY <1>1, StepFacts, ListsArePaths
<1>3. Len(l) \in Nat
    BY <1>2, LenProperties
<1>4. \A q \in Kids(Step(l)) : Len(q) = Len(l) + 2
    BY <1>2, <1>3, KidFacts
<1>5. QED
    BY <1>1, <1>2, <1>3, <1>4

LEMMA OneParent ==
    ASSUME Counted, NEW l \in Busy, NEW m \in Busy, NEW q \in Kids(Step(l)), q \in Kids(Step(m))
    PROVE  m = l
<1>1. Step(l) \in Steps /\ Step(m) \in Steps
    BY AtStep
<1>2. Step(l) = Step(m)
    BY <1>1, KidFacts
<1>3. QED
    BY <1>2, AtStep, SameStep

(* A list that works has a parent that waits for it.                       *)
LEMMA Parent ==
    ASSUME RestOK, Counted, Nested, NEW l \in Busy, NEW q \in Kids(Step(l)), q \in Busy
    PROVE  \/ q \in PartsOf(Step(l)) /\ ph[l] = "wait" /\ Works(q)
           \/ q = ElseOf(Step(l)) /\ ph[l] = "else"
<1>1. q # top
    BY AtStep, KidFacts DEF RestOK
<1>2. PICK m \in Busy : \/ q \in PartsOf(Step(m)) /\ ph[m] = "wait" /\ Works(q)
                        \/ q = ElseOf(Step(m)) /\ ph[m] = "else"
    BY <1>1 DEF Nested
<1>3. m = l
    BY <1>2, OneParent DEF Kids
<1>4. QED
    BY <1>2, <1>3

LEMMA Collector ==
    ASSUME Counted, Collected, NEW l \in Busy, NEW q \in PartsOf(Step(l)), Works(q)
    PROVE  ph[l] = "wait"
<1>1. q \in Lists
    BY AtStep, KidFacts DEF Kids
<1>2. PICK m \in Busy : q \in PartsOf(Step(m)) /\ ph[m] = "wait"
    BY <1>1 DEF Collected
<1>3. QED
    BY <1>2, OneParent DEF Kids

(* A step that is begun was not finished.                                  *)
LEMMA NotFinishedYet ==
    ASSUME Counted, StepRunning, Fresh, NEW l \in Busy,
           ph[l] \in Inside \/ (ph[l] = "begin" /\ ~Keeps(Step(l)))
    PROVE  rf.st[Step(l)] \notin Finished
<1>1. CASE ph[l] \in Inside
    BY <1>1, AtStep DEF StepRunning, Finished
<1>2. CASE ph[l] = "begin" /\ resume /\ ~Keeps(Step(l))
    BY <1>2 DEF Keeps
<1>3. CASE ph[l] = "begin" /\ ~resume
    <2>1. rf.st[StepAt(l, at[l])] = "none"
        BY <1>3, AtStep DEF Fresh, NotYet, Ahead
    <2>2. QED
        BY <2>1, AtStep DEF Finished
<1>4. QED
    BY <1>1, <1>2, <1>3

(* What the run file says of the parts may change only by collecting one.  *)
Collects(l, q) ==
    /\ q \in PartsOf(Step(l)) /\ Works(q) /\ ph[q] \in Ended
    /\ rf'.sub[q] \in {"done", "failed", "cancelled", "paused"} /\ (rf'.sub[q] = "done" => ph[q] = "ok")
OnlyCollects(l) == \A q \in Lists : rf'.sub[q] = rf.sub[q] \/ Collects(l, q)

\* The part of the invariant that the moves rest on.
Shape ==
    /\ FilesOK /\ RestOK /\ ProcOK /\ Counted /\ Nested /\ Collected /\ OneRound
    /\ KindsAt /\ StepRunning /\ PartsOnly(rf) /\ KidsOff /\ StepOff /\ PartsOff /\ Fresh

LEMMA CollectMove ==
    ASSUME Shape, NEW l \in Busy, OnlyCollects(l), \A q \in PartsOf(Step(l)) : ph'[q] = ph[q],
           ph'[l] # "wait",
           ph'[l] \in {"run", "out"} => \A q \in PartsOf(Step(l)) :
               ph[q] = "off" \/ (Kind[Step(l)] = "loop" /\ rf'.sub[q] \in {"done", "failed"})
    PROVE  rf'.sub[l] = rf.sub[l] /\ PartsMove(l)
<1>1. Step(l) \in Steps /\ l \in Lists /\ PartsOf(Step(l)) \subseteq Lists
    BY AtStep, FileAssumption DEF Shape
<1>2. rf'.sub[l] = rf.sub[l]
    BY <1>1, AtStep DEF OnlyCollects, Collects, Kids, Shape
<1>3. \A q \in PartsOf(Step(l)) : Taken(q)' => Taken(q)
    BY <1>1 DEF OnlyCollects, Collects, Taken
<1>4. Serial(Step(l)) => \A i, j \in PartsOf(Step(l)) : Taken(i)' /\ Taken(j)' => i = j
    BY <1>1, <1>3 DEF Shape, OneRound
<1>5. QED
    BY <1>2, <1>4 DEF PartsMove

\* The ways out of a step.
Leaves(l, x) ==
    \/ Advance(l) /\ x \in Finished
    \/ (\E r \in {"cut", "paused", "stop", "fail"} : Return(l, r)) /\ (x = "running" => l \in died')
    \/ HasElse(Step(l)) /\ ph[l] # "else" /\ Spawn(l, "else", {ElseOf(Step(l))}) /\ x \in {"skipped", "failed"}

LEMMA LeaveMove ==
    ASSUME Shape, NEW l \in Busy, NEW x, StepIs(l, x), OnlyCollects(l), Leaves(l, x),
           ph[l] = "wait" => \A q \in PartsOf(Step(l)) : rf'.sub[q] # "running" \/ ph[q] \in {"off", "gone"},
           ph[l] = "else" /\ HasElse(Step(l)) => ph[ElseOf(Step(l))] \in Ended
    PROVE  ListMove(l)
<1> DEFINE s == Step(l)
           e == ElseOf(s)
<1>0. l \in Lists /\ s \in Steps /\ at[l] \in Nat /\ e # l /\ PartsOf(s) \subseteq Lists /\ l \notin PartsOf(s)
    BY AtStep, FileAssumption DEF ProcOK, Kids, Shape
<1>1. ASSUME \A q \in PartsOf(s) : ph'[q] = ph[q], ph'[l] \notin {"run", "out", "wait"}
      PROVE  /\ rf'.sub[l] = rf.sub[l] /\ PartsMove(l)
             /\ ph[l] = "wait" /\ ph'[l] # "wait" => \A q \in PartsOf(s) : ~Works(q)'
    <2>1. ph[l] = "wait" => \A q \in PartsOf(s) : ~Works(q)'
        BY <1>1 DEF Works
    <2>2. QED
        BY <1>1, <2>1, CollectMove
<1>2. CASE Advance(l) /\ x \in Finished
    <2>1. OwnMove(l, x) /\ (\A q \in Lists \ {l} : Same(q)) /\ ph'[l] \in {"next", "ok"}
        BY <1>0, <1>2 DEF Advance, Return, Goto, OwnMove, Same, ProcOK, Shape
    <2>2. \A q \in Lists \ {l} : KidMove(l, q)
        BY <2>1 DEF KidMove, OnlyCollects, Collects, Same, Works
    <2>3. \A q \in PartsOf(s) : ph'[q] = ph[q]
        BY <1>0, <2>1 DEF Same
    <2>4. QED
        BY <1>1, <2>1, <2>2, <2>3 DEF ListMove
<1>3. CASE (\E r \in {"cut", "paused", "stop", "fail"} : Return(l, r)) /\ (x = "running" => l \in died')
    <2>1. OwnMove(l, x) /\ (\A q \in Lists \ {l} : Same(q)) /\ ph'[l] \in {"cut", "paused", "stop", "fail"}
        BY <1>0, <1>3 DEF Return, Goto, OwnMove, Same, ProcOK, Shape
    <2>2. \A q \in Lists \ {l} : KidMove(l, q)
        BY <2>1 DEF KidMove, OnlyCollects, Collects, Same, Works
    <2>3. \A q \in PartsOf(s) : ph'[q] = ph[q]
        BY <1>0, <2>1 DEF Same
    <2>4. QED
        BY <1>1, <2>1, <2>2, <2>3 DEF ListMove
<1>4. CASE HasElse(s) /\ ph[l] # "else" /\ Spawn(l, "else", {e}) /\ x \in {"skipped", "failed"}
    <2>0. e \in Lists /\ e \in Kids(s) /\ e \notin PartsOf(s)
        BY <1>0, <1>4, KidFacts DEF HasElse, Kids
    <2>1. /\ ph'[l] = "else" /\ at'[l] = at[l] /\ ph'[e] = "next" /\ at'[e] = 1
          /\ \A q \in Lists \ {l, e} : Same(q)
        BY <1>0, <1>4, <2>0 DEF Spawn, Same
    <2>2. OwnMove(l, x)
        BY <1>4, <2>1 DEF OwnMove
    <2>3. ph[e] = "off"
        BY <1>4 DEF Shape, StepOff
    <2>4. rf'.sub[e] = rf.sub[e]
        BY <2>0 DEF OnlyCollects, Collects
    <2>5. ASSUME NEW q \in Lists \ {l} PROVE KidMove(l, q)
        <3>1. CASE q = e
            BY <2>1, <2>3, <2>4, <3>1 DEF KidMove
        <3>2. CASE q # e
            BY <2>1, <3>2 DEF KidMove, OnlyCollects, Collects, Same, Works
        <3>3. QED
            BY <3>1, <3>2
    <2>6. \A q \in PartsOf(s) : ph'[q] = ph[q]
        BY <1>0, <2>0, <2>1 DEF Same
    <2>7. QED
        BY <1>1, <1>4, <2>1, <2>2, <2>5, <2>6 DEF ListMove
<1>5. QED
    BY <1>2, <1>3, <1>4 DEF Leaves

(* The run file with one step changed, or none.                            *)
LEMMA SetStep ==
    ASSUME FilesOK, Counted, NEW l \in Busy, NEW x \in StepStates, rf' = WithStep(rf, Step(l), x),
           x = rf.st[Step(l)] \/ (rf.st[Step(l)] \notin Finished /\ x # "none")
    PROVE  StepIs(l, x) /\ OnlyCollects(l)
<1>1. Step(l) \in Steps
    BY AtStep
<1>2. QED
    BY <1>1 DEF FilesOK, Files, WithStep, StepIs, OnlyCollects

LEMMA KeepStep ==
    ASSUME FilesOK, Counted, NEW l \in Busy, rf' = rf
    PROVE  StepIs(l, rf.st[Step(l)]) /\ OnlyCollects(l)
<1>1. Step(l) \in Steps
    BY AtStep
<1>2. QED
    BY <1>1 DEF FilesOK, Files, StepIs, OnlyCollects

LEMMA SetBoth ==
    ASSUME FilesOK, Counted, NEW l \in Busy, NEW x \in StepStates, NEW i \in PartsOf(Step(l)), NEW y,
           rf' = WithStep(WithPart(rf, i, y), Step(l), x),
           x = rf.st[Step(l)] \/ (rf.st[Step(l)] \notin Finished /\ x # "none"),
           Works(i), ph[i] \in Ended, y \in {"done", "failed", "cancelled", "paused"}, y = "done" => ph[i] = "ok"
    PROVE  /\ StepIs(l, x) /\ OnlyCollects(l)
           /\ rf'.sub[i] = y /\ \A q \in Lists \ {i} : rf'.sub[q] = rf.sub[q]
<1>1. Step(l) \in Steps
    BY AtStep
<1>2. i \in Lists
    BY <1>1, FileAssumption
<1>3. QED
    BY <1>1, <1>2 DEF FilesOK, Files, WithStep, WithPart, StepIs, OnlyCollects, Collects

LEMMA NoneLeft ==
    ASSUME Shape, NEW l \in Busy, OnlyCollects(l), \A q \in PartsOf(Step(l)) : ~Works(q)
    PROVE  \A q \in PartsOf(Step(l)) : rf'.sub[q] # "running" \/ ph[q] \in {"off", "gone"}
BY AtStep, FileAssumption DEF OnlyCollects, Collects, Works, Shape

LEMMA DoneMove ==
    ASSUME Shape, NEW l \in Busy, ph[l] # "else", rf.st[Step(l)] \notin Finished, Done(l, rf),
           ph[l] = "wait" => \A q \in PartsOf(Step(l)) : ~Works(q)
    PROVE  ListMove(l)
<1>1. rf' = WithStep(rf, Step(l), "done") /\ Advance(l)
    BY DEF Done, Save
<1>2. StepIs(l, "done") /\ OnlyCollects(l)
    BY <1>1, SetStep DEF Shape, StepStates, Finished
<1>3. QED
    BY <1>1, <1>2, NoneLeft, LeaveMove DEF Leaves, Finished

LEMMA FailMove ==
    ASSUME Shape, NEW l \in Busy, ph[l] # "else", rf.st[Step(l)] \notin Finished, NEW why, Fail(l, rf, why),
           ph[l] = "wait" => \A q \in PartsOf(Step(l)) : ~Works(q)
    PROVE  ListMove(l)
<1>1. PICK x : FailsWith(l, rf, x)
    BY FailKinds
<1>2. rf' = WithStep(rf, Step(l), x) /\ x \in {"cancelled", "paused", "failed"} /\ Leaves(l, x)
    BY <1>1 DEF FailsWith, Save, Leaves
<1>3. StepIs(l, x) /\ OnlyCollects(l)
    BY <1>2, SetStep DEF Shape, StepStates, Finished
<1>4. QED
    BY <1>2, <1>3, NoneLeft, LeaveMove

\* A list goes on without a word in the run file.
LEMMA QuietMove ==
    ASSUME Shape, NEW l \in Busy, ph[l] \notin Inside, rf' = rf, Leaves(l, rf.st[Step(l)]),
           ph[l] = "else" /\ HasElse(Step(l)) => ph[ElseOf(Step(l))] \in Ended
    PROVE  ListMove(l)
<1>1. StepIs(l, rf.st[Step(l)]) /\ OnlyCollects(l)
    BY KeepStep DEF Shape
<1>2. ph[l] # "wait"
    BY DEF Inside
<1>3. QED
    BY <1>1, <1>2, LeaveMove

LEMMA RunElseLeaves ==
    ASSUME NEW l, RunElse(l), ph[l] # "else"
    PROVE  Leaves(l, "skipped")
BY DEF RunElse, Leaves, Finished

\* A list goes on inside its step, or to its step; a round may be collected.
LEMMA StayMove ==
    ASSUME Shape, NEW l \in Busy, NEW x, StepIs(l, x), OnlyCollects(l), NEW p,
           ph' = [ph EXCEPT ![l] = p], at' = at, p \notin {"else", "wait"},
           p \in {"run", "out"} => \A q \in PartsOf(Step(l)) :
               ph[q] = "off" \/ (Kind[Step(l)] = "loop" /\ rf'.sub[q] \in {"done", "failed"}),
           ph[l] # "else", ph[l] = "wait" => \A q \in PartsOf(Step(l)) : rf'.sub[q] # "running" \/ ph[q] \in {"off", "gone"},
           OwnMove(l, x)
    PROVE  ListMove(l)
<1>1. (\A q \in Lists \ {l} : Same(q)) /\ ph'[l] = p
    BY AtStep DEF Shape, ProcOK, Same
<1>2. \A q \in PartsOf(Step(l)) : ph'[q] = ph[q]
    BY <1>1, AtStep, FileAssumption DEF Same, Kids, Shape
<1>3. rf'.sub[l] = rf.sub[l] /\ PartsMove(l)
    BY <1>1, <1>2, CollectMove
<1>4. \A q \in Lists \ {l} : KidMove(l, q)
    BY <1>1 DEF KidMove, OnlyCollects, Collects, Same, Works
<1>5. ph[l] = "wait" => \A q \in PartsOf(Step(l)) : ~Works(q)'
    BY <1>2 DEF Works
<1>6. QED
    BY <1>3, <1>4, <1>5 DEF ListMove

(* The rounds in the run file are the first ones: the next one is new.     *)
LEMMA NextRound ==
    ASSUME NEW s \in Steps
    PROVE  /\ Rounds(s) \in Nat
           /\ Rounds(s) + 1 \in DOMAIN Parts[s] => rf.sub[Part(s, Rounds(s) + 1)] = "none"
<1> DEFINE D == DOMAIN Parts[s]
           K == {k \in D : \A j \in 1..k : rf.sub[Part(s, j)] # "none"}
           n == Cardinality(K)
<1>1. D = 1..Len(Parts[s]) /\ Len(Parts[s]) \in Nat
    BY PartFacts
<1>2. IsFiniteSet(K)
    <2>1. IsFiniteSet(1..Len(Parts[s])) /\ K \in SUBSET (1..Len(Parts[s]))
        BY <1>1, FS_Interval
    <2>2. QED
        BY <2>1, FS_Subset
<1>3. Rounds(s) = n /\ n \in Nat
    BY <1>2, FS_CardinalityType DEF Rounds
<1>4. \A j, k \in D : j < k /\ k \in K => j \in K
    BY <1>1
<1>5. \A k \in D : k \notin K => \E j \in 1..k : rf.sub[Part(s, j)] = "none"
    OBVIOUS
<1>6. \A k \in K : rf.sub[Part(s, k)] # "none"
    BY <1>1
<1> HIDE DEF n
<1>7. ASSUME n + 1 \in D PROVE rf.sub[Part(s, n + 1)] = "none"
    <2>0. n + 1 \in Nat /\ n >= 0
        BY <1>3
    <2>1. n + 1 \notin K
        <3>1. SUFFICES ASSUME n + 1 \in K PROVE FALSE
            OBVIOUS
        <3>2. 1..(n + 1) \subseteq K
            BY <1>1, <1>4, <1>7, <2>0, <3>1
        <3>3. Cardinality(1..(n + 1)) = n + 1
            BY <2>0, FS_Interval
        <3>4. Cardinality(1..(n + 1)) <= n
            BY <1>2, <3>2, FS_Subset DEF n
        <3>5. QED
            BY <1>3, <3>3, <3>4
    <2>2. K \subseteq 1..n
        BY <1>1, <1>3, <1>4, <1>7, <2>1
    <2>3. Cardinality(1..n) = n /\ IsFiniteSet(1..n)
        BY <1>3, FS_Interval
    <2>4. K = 1..n
        BY <1>3, <2>2, <2>3, FS_Subset DEF n
    <2>5. PICK j \in 1..(n + 1) : rf.sub[Part(s, j)] = "none"
        BY <1>5, <1>7, <2>1
    <2>6. j \notin 1..n
        BY <1>6, <2>4, <2>5
    <2>7. j = n + 1
        BY <1>3, <2>6
    <2>8. QED
        BY <2>5, <2>7
<1>8. QED
    BY <1>3, <1>7

\* Parts begin.
LEMMA StartMove ==
    ASSUME Shape, NEW l \in Busy, ph[l] \in {"run", "wait"}, Kind[Step(l)] \in {"each", "loop", "branch"},
           NEW S, S \subseteq PartsOf(Step(l)), \A q \in S : ph[q] = "off", Spawn(l, "wait", S),
           rf' = [rf EXCEPT !.sub = [q \in Lists |-> IF q \in S THEN "running" ELSE rf.sub[q]]],
           Kind[Step(l)] = "loop" => ph[l] = "run",
           Serial(Step(l)) => (\A q \in PartsOf(Step(l)) : ~Taken(q)) /\ \A i, j \in S : i = j
    PROVE  ListMove(l)
<1> DEFINE s == Step(l)
<1>0. l \in Lists /\ s \in Steps /\ l \notin S /\ S \subseteq Lists /\ PartsOf(s) \subseteq Lists /\ l \notin PartsOf(s)
    <2>1. l \in Lists /\ s \in Steps /\ \A q \in Kids(s) : q # l
        BY AtStep DEF Shape
    <2>2. \A q \in PartsOf(s) : q \in Kids(s)
        BY DEF Kids
    <2>3. PartsOf(s) \subseteq Lists
        BY <2>1, FileAssumption
    <2>4. QED
        BY <2>1, <2>2, <2>3
<1>1. \A q \in Lists : rf'.sub[q] = IF q \in S THEN "running" ELSE rf.sub[q]
    BY DEF Shape, FilesOK, Files
<1>2. /\ ph'[l] = "wait" /\ at'[l] = at[l]
      /\ \A q \in S : ph'[q] = "next" /\ at'[q] = 1
      /\ \A q \in Lists \ {l} : q \notin S => Same(q)
    BY <1>0 DEF Spawn, Same
<1>3. StepIs(l, "running") /\ OwnMove(l, "running")
    <2>1. rf.st[s] = "running"
        BY <1>0 DEF Shape, StepRunning, Inside
    <2>2. rf'.run = rf.run /\ rf'.st = rf.st
        BY DEF Shape, FilesOK, Files
    <2>3. StepIs(l, "running")
        BY <2>1, <2>2 DEF StepIs, StepStates
    <2>4. QED
        BY <1>2, <2>3 DEF OwnMove, Inside, Opens
<1>4. \A q \in Lists \ {l} : KidMove(l, q)
    BY <1>1, <1>2 DEF KidMove
<1>5. PartsMove(l)
    <2>1. Serial(s) => \A i, j \in PartsOf(s) : Taken(i)' /\ Taken(j)' => i = j
        <3>1. \A q \in PartsOf(s) \ S : Taken(q)' => Taken(q)
            BY <1>0, <1>1, <1>2 DEF Taken, Same
        <3>2. QED
            BY <3>1
    <2>2. ASSUME Kind[s] = "loop", NEW q \in PartsOf(s)
          PROVE  ph'[q] = "off" \/ rf'.sub[q] \in {"running", "done", "failed"}
        <3>1. ph[q] = "off" \/ rf.sub[q] \in {"done", "failed"}
            BY <2>2 DEF Shape, StepOff, RoundsOff
        <3>2. QED
            BY <1>0, <1>1, <1>2, <3>1 DEF Same
    <2>3. QED
        BY <1>2, <2>1, <2>2 DEF PartsMove
<1>6. QED
    BY <1>0, <1>1, <1>2, <1>3, <1>4, <1>5 DEF ListMove

(* Every step of a list's process is a move.                               *)
LEMMA ControlMoves ==
    ASSUME Shape, NEW l \in Lists,
           NextStep(l) \/ HeldIsCut(l) \/ BeginCut(l) \/ Restore(l) \/ When(l) \/ Begin(l) \/ ElseEnds(l)
    PROVE  ListMove(l)
<1> DEFINE s == Step(l)
<1> USE DEF Return
<1>0. l \in Busy
    BY DEF NextStep, HeldIsCut, BeginCut, Restore, When, Begin, ElseEnds, Busy, Ended
<1>1. CASE NextStep(l)
    <2>1. ph[l] = "next" /\ rf' = rf
        BY <1>1 DEF NextStep
    <2>2. CASE saveErr
        <3>1. Return(l, "stop") /\ (rf.st[s] = "running" => l \in died')
            BY <1>0, <1>1, <2>1, <2>2, AtStep DEF NextStep, Shape, StepRunning, Inside, Rest, control
        <3>2. Leaves(l, rf.st[s])
            BY <3>1 DEF Leaves
        <3>3. QED
            BY <1>0, <2>1, <3>2, QuietMove DEF Inside
    <2>3. CASE ~saveErr
        <3>1. PICK p \in {"held", "begin"} : ph' = [ph EXCEPT ![l] = p] /\ at' = at
            BY <1>1, <2>3 DEF NextStep, Goto
        <3>2. StepIs(l, rf.st[s]) /\ OnlyCollects(l)
            BY <1>0, <2>1, KeepStep DEF Shape
        <3>3. OwnMove(l, rf.st[s])
            BY <2>1, <3>1 DEF OwnMove, Shape, ProcOK
        <3>4. QED
            BY <1>0, <2>1, <3>1, <3>2, <3>3, StayMove
    <2>4. QED
        BY <2>2, <2>3
<1>2. CASE HeldIsCut(l) \/ BeginCut(l)
    <2>1. ph[l] \in {"held", "begin"} /\ rf' = rf /\ Return(l, "cut")
        BY <1>2 DEF HeldIsCut, BeginCut
    <2>2. rf.st[s] = "running" => l \in died'
        BY <1>0, <1>2, <2>1, AtStep DEF Shape, StepRunning, Inside, HeldIsCut, BeginCut, Rest, control
    <2>3. Leaves(l, rf.st[s])
        BY <2>1, <2>2 DEF Leaves
    <2>4. QED
        BY <1>0, <2>1, <2>3, QuietMove DEF Inside
<1>3. CASE Restore(l)
    <2>1. ph[l] = "begin" /\ rf' = rf /\ rf.st[s] \in Finished
        BY <1>3 DEF Restore, Keeps
    <2>2. Leaves(l, rf.st[s])
        <3>1. CASE rf.st[s] = "skipped"
            BY <1>3, <2>1, <3>1, RunElseLeaves DEF Restore
        <3>2. CASE rf.st[s] # "skipped"
            BY <1>3, <2>1, <3>2 DEF Restore, Leaves
        <3>3. QED
            BY <3>1, <3>2
    <2>3. QED
        BY <1>0, <2>1, <2>2, QuietMove DEF Inside
<1>4. CASE When(l)
    <2>1. ph[l] = "begin" /\ rf.st[s] \notin Finished
        BY <1>0, <1>4, NotFinishedYet DEF When, Shape
    <2>2. CASE Fail(l, rf, "err")
        BY <1>0, <2>1, <2>2, FailMove
    <2>3. CASE Save(WithStep(rf, s, "skipped")) /\ RunElse(l)
        <3>1. rf' = WithStep(rf, s, "skipped") /\ Leaves(l, "skipped")
            BY <2>1, <2>3, RunElseLeaves DEF Save
        <3>2. StepIs(l, "skipped") /\ OnlyCollects(l)
            BY <1>0, <2>1, <3>1, SetStep DEF Shape, StepStates, Finished
        <3>3. QED
            BY <1>0, <2>1, <3>1, <3>2, LeaveMove DEF Shape
    <2>4. QED
        BY <1>4, <2>2, <2>3 DEF When
<1>5. CASE Begin(l)
    <2>1. ph[l] = "begin" /\ rf.st[s] \notin Finished
        BY <1>0, <1>5, NotFinishedYet DEF Begin, Shape
    <2>2. rf' = WithStep(rf, s, "running") /\ ph' = [ph EXCEPT ![l] = "run"] /\ at' = at
        BY <1>5 DEF Begin, Save
    <2>3. StepIs(l, "running") /\ OnlyCollects(l)
        BY <1>0, <2>1, <2>2, SetStep DEF Shape, StepStates, Finished
    <2>4. OwnMove(l, "running")
        BY <2>1, <2>2 DEF OwnMove, Opens, Inside, Shape, ProcOK
    <2>a. NotYet(l, at[l]) /\ at[l] \in DOMAIN Body[l] /\ s = StepAt(l, at[l]) /\ PartsOf(s) \subseteq Lists
        BY <1>0, <2>1, AtStep, FileAssumption DEF Shape, NotYet, Ahead
    <2>5. \A q \in PartsOf(s) : ph[q] = "off" \/ (Kind[s] = "loop" /\ rf'.sub[q] \in {"done", "failed"})
        BY <2>a DEF Shape, KidsOff, Kids
    <2>6. \E p : p \notin {"else", "wait"} /\ ph' = [ph EXCEPT ![l] = p] /\ at' = at
        BY <2>2
    <2>7. QED
        BY <1>0, <2>1, <2>3, <2>4, <2>5, <2>6, StayMove
<1>6. CASE ElseEnds(l)
    <2>1. ph[l] = "else" /\ ph[ElseOf(s)] \in Ended \ {"gone"} /\ rf' = rf
        BY <1>6 DEF ElseEnds
    <2>2. rf.st[s] = "running" => l \in died'
        BY <1>0, <1>6, <2>1, AtStep DEF Shape, StepRunning, Inside, ElseEnds, Rest, control
    <2>3. \/ Advance(l) /\ rf.st[s] = "skipped"
          \/ \E r \in {"cut", "paused", "stop", "fail"} : Return(l, r)
        BY <1>6, <2>1 DEF ElseEnds, HardEnd, Failed, Ended
    <2>4. Leaves(l, rf.st[s])
        BY <2>2, <2>3 DEF Leaves, Finished
    <2>5. QED
        BY <1>0, <2>1, <2>4, QuietMove DEF Inside
<1>7. QED
    BY <1>1, <1>2, <1>3, <1>4, <1>5, <1>6

LEMMA AgainMove ==
    ASSUME Shape, NEW l \in Busy, ph[l] \in {"run", "out"}, Kind[Step(l)] = "write", rf' = rf,
           NEW p \in {"run", "out"}, ph' = [ph EXCEPT ![l] = p], at' = at
    PROVE  ListMove(l)
<1>1. rf.st[Step(l)] = "running"
    BY AtStep DEF Shape, StepRunning, Inside
<1>2. StepIs(l, "running") /\ OnlyCollects(l)
    BY <1>1, KeepStep DEF Shape
<1>3. OwnMove(l, "running")
    BY AtStep DEF OwnMove, Opens, Inside, Shape, ProcOK
<1>4. \A q \in PartsOf(Step(l)) : ph[q] = "off"
    BY DEF Shape, StepOff, RoundsOff
<1>5. QED
    BY <1>2, <1>3, <1>4, StayMove

LEMMA CallMoves ==
    ASSUME Shape, NEW l \in Lists, Work(l) \/ WriteAsks(l) \/ WriteGoesOut(l)
    PROVE  ListMove(l)
<1>0. l \in Busy /\ ph[l] \in {"run", "out"}
    BY DEF Work, WriteAsks, WriteGoesOut, Busy, Ended
<1>1. rf.st[Step(l)] \notin Finished
    BY <1>0, NotFinishedYet DEF Shape, Inside
<1>2. CASE Work(l)
    BY <1>0, <1>1, <1>2, DoneMove, FailMove DEF Work
<1>3. CASE WriteAsks(l)
    <2>1. Kind[Step(l)] = "write"
        BY <1>3 DEF WriteAsks
    <2>2. \/ Done(l, rf) \/ Fail(l, rf, "err")
          \/ rf' = rf /\ \E p \in {"run", "out"} : ph' = [ph EXCEPT ![l] = p] /\ at' = at
        BY <1>3 DEF WriteAsks, GivesUp, TriesAgain, Goto, Save
    <2>3. QED
        BY <1>0, <1>1, <2>1, <2>2, DoneMove, FailMove, AgainMove
<1>4. CASE WriteGoesOut(l)
    <2>1. Kind[Step(l)] = "write"
        BY <1>4 DEF WriteGoesOut, Shape, KindsAt
    <2>2. \/ Done(l, rf) \/ Fail(l, rf, "err")
          \/ rf' = rf /\ ph' = [ph EXCEPT ![l] = "run"] /\ at' = at
        BY <1>4 DEF WriteGoesOut, GivesUp, TriesAgain, Edit
    <2>3. QED
        BY <1>0, <1>1, <2>1, <2>2, DoneMove, FailMove, AgainMove
<1>5. QED
    BY <1>2, <1>3, <1>4

LEMMA WaitIsRunning ==
    ASSUME Shape, NEW l \in Busy, ph[l] \in Inside
    PROVE  rf.st[Step(l)] = "running" /\ rf.st[Step(l)] \notin Finished
<1>1. rf.st[Step(l)] = "running"
    BY AtStep DEF Shape, StepRunning
<1>2. QED
    BY <1>1 DEF Finished

LEMMA WithPartIs ==
    ASSUME FilesOK, NEW i \in Lists, NEW y, rf' = WithPart(rf, i, y)
    PROVE  /\ rf'.run = rf.run /\ rf'.st = rf.st
           /\ \A q \in Lists : rf'.sub[q] = IF q = i THEN y ELSE rf.sub[q]
           /\ rf' = [rf EXCEPT !.sub = [q \in Lists |-> IF q \in {i} THEN y ELSE rf.sub[q]]]
<1>1. [rf.sub EXCEPT ![i] = y] = [q \in Lists |-> IF q \in {i} THEN y ELSE rf.sub[q]]
    BY DEF FilesOK, Files
<1>2. QED
    BY <1>1 DEF FilesOK, Files, WithPart

\* A worker that is free in an each without workers: no item is begun.
LEMMA FreeWorker ==
    ASSUME Shape, NEW s \in Steps, Kind[s] = "each", Serial(s), NEW i \in PartsOf(s), ph[i] = "off",
           Cardinality({q \in PartsOf(s) : Works(q)} \cup Gone(s)) < Parallel
    PROVE  \A q \in PartsOf(s) : ~Taken(q)
<1> DEFINE B == {q \in PartsOf(s) : Works(q)} \cup Gone(s)
<1>1. ASSUME NEW q \in PartsOf(s), Taken(q) PROVE q \in B
    BY <1>1 DEF Taken, Works, Gone
<1>2. CASE Parallel <= 1
    <2>1. IsFiniteSet(B) /\ Cardinality(B) \in Nat
        <3>1. B \in SUBSET PartsOf(s)
            BY DEF Gone
        <3>2. QED
            BY <3>1, PartFacts, FS_Subset, FS_CardinalityType
    <2>2. Cardinality(B) = 0
        BY <1>2, <2>1, FileAssumption
    <2>3. B = {}
        BY <2>1, <2>2, FS_EmptySet
    <2>4. QED
        BY <1>1, <2>3
<1>3. CASE Len(Parts[s]) <= 1
    <2>1. \A j, k \in DOMAIN Parts[s] : j = k
        BY <1>3, PartFacts
    <2>2. \A q \in PartsOf(s) : q = i
        BY <2>1 DEF PartsOf
    <2>3. QED
        BY <2>2 DEF Taken
<1>4. QED
    BY <1>2, <1>3 DEF Serial

\* A try that has failed: the step ends, or it is tried again.
LEMMA TryFailMove ==
    ASSUME Shape, NEW l \in Busy, ph[l] \in {"run", "wait"}, Kind[Step(l)] \in {"loop", "branch"},
           NEW why, TryFails(l, rf, why), ph[l] = "wait" => \A q \in PartsOf(Step(l)) : ~Works(q)
    PROVE  ListMove(l)
<1>1. rf.st[Step(l)] = "running" /\ rf.st[Step(l)] \notin Finished
    BY WaitIsRunning DEF Inside
<1>2. CASE \E w : Fail(l, rf, w)
    BY <1>1, <1>2, FailMove
<1>3. CASE Save(rf) /\ Goto(l, "again")
    <2>1. rf' = rf /\ ph' = [ph EXCEPT ![l] = "again"] /\ at' = at
        BY <1>3 DEF Save, Goto
    <2>2. StepIs(l, "running") /\ OnlyCollects(l)
        BY <1>1, <2>1, KeepStep DEF Shape
    <2>3. OwnMove(l, "running")
        BY <2>1, AtStep DEF OwnMove, Opens, Inside, Shape, ProcOK
    <2>4. \E p : p \notin {"else", "wait", "run", "out"} /\ ph' = [ph EXCEPT ![l] = p] /\ at' = at
        BY <2>1
    <2>5. QED
        BY <2>2, <2>3, <2>4, NoneLeft, StayMove
<1>4. QED
    BY <1>2, <1>3 DEF TryFails

LEMMA EachMoves ==
    ASSUME Shape, NEW l \in Lists, EachStarts(l) \/ ItemStarts(l) \/ EachEnds(l)
    PROVE  ListMove(l)
<1> DEFINE s == Step(l)
<1>0. l \in Busy /\ ph[l] \in {"run", "wait"} /\ Kind[s] = "each"
    BY DEF EachStarts, ItemStarts, EachEnds, Busy, Ended
<1>1. rf.st[s] = "running" /\ rf.st[s] \notin Finished /\ s \in Steps /\ PartsOf(s) \subseteq Lists
    BY <1>0, WaitIsRunning, AtStep, FileAssumption DEF Inside, Shape
<1>2. CASE EachStarts(l)
    <2>1. ph[l] = "run"
        BY <1>2 DEF EachStarts
    <2>2. CASE Fail(l, rf, "err")
        BY <1>0, <1>1, <2>1, <2>2, FailMove
    <2>3. CASE /\ Goto(l, "wait")
               /\ \/ rf' = rf
                  \/ rf' = [rf EXCEPT !.sub = [i \in Lists |->
                                IF i \in PartsOf(s) THEN "pending" ELSE rf.sub[i]]]
        <3>1. ph'[l] = "wait" /\ at'[l] = at[l] /\ \A q \in Lists \ {l} : Same(q)
            BY <1>0, <2>3 DEF Goto, Same, Shape, ProcOK, Busy
        <3>2. /\ rf'.run = rf.run /\ rf'.st = rf.st
              /\ \A q \in Lists : rf'.sub[q] = rf.sub[q] \/ (q \in PartsOf(s) /\ rf'.sub[q] = "pending")
            BY <2>3 DEF Shape, FilesOK, Files
        <3>3. StepIs(l, "running") /\ OwnMove(l, "running")
            BY <1>0, <1>1, <2>1, <3>1, <3>2 DEF StepIs, StepStates, OwnMove, Opens, Inside
        <3>4. \A q \in PartsOf(s) : ph[q] = "off"
            BY <1>0, <2>1 DEF Shape, StepOff, RoundsOff
        <3>5. \A q \in Lists \ {l} : KidMove(l, q)
            BY <3>1, <3>2, <3>4 DEF KidMove
        <3>6. rf'.sub[l] = rf.sub[l]
            BY <1>0, <3>2, AtStep DEF Kids, Shape
        <3>7. PartsMove(l)
            <4>1. \A q \in PartsOf(s) : q \in Lists \ {l}
                BY <1>0, <1>1, AtStep DEF Kids, Shape
            <4>2. \A q \in PartsOf(s) : ph'[q] = "off"
                BY <3>1, <3>4, <4>1 DEF Same
            <4>3. QED
                BY <1>0, <4>2 DEF PartsMove, Taken
        <3>8. QED
            BY <1>0, <2>1, <3>1, <3>3, <3>5, <3>6, <3>7 DEF ListMove
    <2>4. QED
        BY <1>2, <2>2, <2>3 DEF EachStarts, Edit
<1>3. CASE ItemStarts(l)
    <2>1. PICK k \in Waiting(s) :
            /\ Save(WithPart(rf, Part(s, k), "running"))
            /\ Spawn(l, "wait", {Part(s, k)}) \/ Goto(Part(s, k), "fail")
        BY <1>3 DEF ItemStarts
    <2> DEFINE i == Part(s, k)
    <2>2. ph[l] = "wait" /\ i \in PartsOf(s) /\ i \in Lists /\ ph[i] = "off"
        BY <1>1, <1>3, PartFacts DEF ItemStarts, Waiting
    <2>a. Serial(s) => \A q \in PartsOf(s) : ~Taken(q)
        BY <1>0, <1>1, <1>3, <2>2, FreeWorker DEF ItemStarts
    <2> HIDE DEF i
    <2>3. rf' = WithPart(rf, i, "running")
        BY <2>1 DEF Save, i
    <2>4. CASE Spawn(l, "wait", {i})
        <3>1. rf' = [rf EXCEPT !.sub = [q \in Lists |-> IF q \in {i} THEN "running" ELSE rf.sub[q]]]
            BY <2>2, <2>3, WithPartIs DEF Shape
        <3>2. {i} \subseteq PartsOf(s) /\ (\A q \in {i} : ph[q] = "off") /\ \A q, r \in {i} : q = r
            BY <2>2
        <3>3. QED
            BY <1>0, <2>2, <2>4, <2>a, <3>1, <3>2, StartMove
    <2>5. CASE Goto(i, "fail")
        <3>1. i # l /\ i \in Kids(s)
            BY <1>0, <2>2, AtStep DEF Kids, Shape
        <3>2. /\ ph'[l] = "wait" /\ at'[l] = at[l] /\ ph'[i] = "fail" /\ at'[i] = at[i]
              /\ \A q \in Lists \ {i} : Same(q)
            BY <2>2, <2>5, <3>1 DEF Goto, Same, Shape, ProcOK
        <3>3. /\ rf'.run = rf.run /\ rf'.st = rf.st
              /\ \A q \in Lists : rf'.sub[q] = IF q = i THEN "running" ELSE rf.sub[q]
            BY <2>2, <2>3, WithPartIs DEF Shape
        <3>4. StepIs(l, "running") /\ OwnMove(l, "running")
            BY <1>0, <1>1, <2>2, <3>2, <3>3 DEF StepIs, StepStates, OwnMove, Opens, Inside
        <3>5. \A q \in Lists \ {l} : KidMove(l, q)
            BY <2>2, <3>2, <3>3 DEF KidMove
        <3>6. PartsMove(l)
            <4>1. \A q \in PartsOf(s) \ {i} : Taken(q)' => Taken(q)
                BY <1>1, <3>2, <3>3 DEF Taken, Same
            <4>2. QED
                BY <1>0, <2>a, <3>2, <4>1 DEF PartsMove
        <3>7. QED
            BY <1>0, <2>2, <3>1, <3>2, <3>3, <3>4, <3>5, <3>6 DEF ListMove
    <2>6. QED
        BY <2>1, <2>4, <2>5 DEF i
<1>4. CASE EachEnds(l)
    <2>1. ph[l] = "wait" /\ \A q \in PartsOf(s) : ~Works(q)
        BY <1>4 DEF EachEnds
    <2>2. Done(l, rf) \/ \E why : Fail(l, rf, why)
        BY <1>4 DEF EachEnds
    <2>3. QED
        BY <1>0, <1>1, <2>1, <2>2, DoneMove, FailMove
<1>5. QED
    BY <1>2, <1>3, <1>4

LEMMA BranchMoves ==
    ASSUME Shape, NEW l \in Lists, BranchesStart(l) \/ BranchesJoin(l)
    PROVE  ListMove(l)
<1> DEFINE s == Step(l)
<1>0. l \in Busy /\ ph[l] \in {"run", "wait"} /\ Kind[s] = "branch"
    BY DEF BranchesStart, BranchesJoin, Busy, Ended
<1>1. rf.st[s] \notin Finished /\ s \in Steps /\ PartsOf(s) \subseteq Lists
    BY <1>0, WaitIsRunning, AtStep, FileAssumption DEF Inside, Shape
<1>2. CASE BranchesStart(l)
    <2>1. /\ ph[l] = "run" /\ Spawn(l, "wait", PartsOf(s))
          /\ rf' = [rf EXCEPT !.sub = [q \in Lists |-> IF q \in PartsOf(s) THEN "running" ELSE rf.sub[q]]]
        BY <1>2 DEF BranchesStart, Save
    <2>2. \A q \in PartsOf(s) : ph[q] = "off"
        BY <1>0, <2>1 DEF Shape, StepOff, RoundsOff
    <2>3. ~Serial(s)
        BY <1>0 DEF Serial
    <2>4. QED
        BY <1>0, <2>1, <2>2, <2>3, StartMove
<1>3. CASE BranchesJoin(l)
    <2>1. ph[l] = "wait" /\ \A q \in PartsOf(s) : ~Works(q)
        BY <1>3 DEF BranchesJoin
    <2>2. Done(l, rf) \/ \E why : Fail(l, rf, why) \/ TryFails(l, rf, why)
        BY <1>3 DEF BranchesJoin
    <2>3. QED
        BY <1>0, <1>1, <2>1, <2>2, DoneMove, FailMove, TryFailMove
<1>4. QED
    BY <1>2, <1>3

LEMMA LoopMoves ==
    ASSUME Shape, NEW l \in Lists, RoundStarts(l) \/ RoundEnds(l) \/ LoopPasses(l)
    PROVE  ListMove(l)
<1> DEFINE s == Step(l)
<1>0. l \in Busy /\ ph[l] \in {"run", "wait", "pass"} /\ Kind[s] = "loop"
    BY DEF RoundStarts, RoundEnds, LoopPasses, Busy, Ended, Shape, KindsAt
<1>1. rf.st[s] = "running" /\ rf.st[s] \notin Finished /\ s \in Steps /\ PartsOf(s) \subseteq Lists
    BY <1>0, WaitIsRunning, AtStep, FileAssumption DEF Inside, Shape
<1>2. CASE RoundStarts(l)
    <2> DEFINE n == Rounds(s)
               again == resume /\ n > 0 /\ rf.sub[Part(s, n)] \notin {"done", "failed"}
               round == IF again THEN n ELSE n + 1
               i == Part(s, round)
    <2>1. ph[l] = "run"
        BY <1>2 DEF RoundStarts
    <2>2. CASE TryFails(l, rf, "err")
        BY <1>0, <2>1, <2>2, TryFailMove
    <2>3. CASE /\ ~(round > Len(Parts[s]))
               /\ Save(WithPart(rf, i, "running")) /\ Spawn(l, "wait", {i})
        <3>1. n \in Nat /\ (n + 1 \in DOMAIN Parts[s] => rf.sub[Part(s, n + 1)] = "none")
            BY <1>1, NextRound
        <3> HIDE DEF n
        <3>2. round \in DOMAIN Parts[s]
            BY <1>1, <2>3, <3>1, PartFacts
        <3>3. i \in PartsOf(s) /\ i \in Lists
            BY <1>1, <3>2, PartFacts
        <3>4. rf.sub[i] \notin {"done", "failed"}
            BY <3>1, <3>2
        <3>5. ph[i] = "off" /\ \A q \in PartsOf(s) : ~Taken(q)
            BY <1>0, <2>1, <3>3, <3>4 DEF Shape, StepOff, RoundsOff, Taken
        <3>6. rf' = WithPart(rf, i, "running") /\ Spawn(l, "wait", {i})
            BY <2>3 DEF Save
        <3> HIDE DEF round, i
        <3>7. rf' = [rf EXCEPT !.sub = [q \in Lists |-> IF q \in {i} THEN "running" ELSE rf.sub[q]]]
            BY <3>3, <3>6, WithPartIs DEF Shape
        <3>8. {i} \subseteq PartsOf(s) /\ (\A q \in {i} : ph[q] = "off") /\ \A q, r \in {i} : q = r
            BY <3>3, <3>5
        <3>9. QED
            BY <1>0, <2>1, <3>5, <3>6, <3>7, <3>8, StartMove
    <2>4. QED
        BY <1>2, <2>2, <2>3 DEF RoundStarts
<1>3. CASE RoundEnds(l)
    <2>1. ph[l] = "wait"
        BY <1>3 DEF RoundEnds
    <2>2. PICK i \in PartsOf(s) :
            /\ Works(i) /\ ph[i] \in Ended
            /\ \E y \in {"done", "failed", "cancelled", "paused"} :
                 /\ y = "done" => ph[i] = "ok"
                 /\ \/ \E why : Fail(l, WithPart(rf, i, y), why)
                    \/ Save(WithPart(rf, i, y)) /\ \E p \in {"run", "pass", "again"} :
                          Goto(l, p) /\ (p = "run" => y = "failed")
        BY <1>3 DEF RoundEnds, PartState, TryFails
    <2>3. PICK y \in {"done", "failed", "cancelled", "paused"} :
            /\ y = "done" => ph[i] = "ok"
            /\ \/ \E why : Fail(l, WithPart(rf, i, y), why)
               \/ Save(WithPart(rf, i, y)) /\ \E p \in {"run", "pass", "again"} :
                     Goto(l, p) /\ (p = "run" => y = "failed")
        BY <2>2
    <2>4. ASSUME rf'.sub[i] = y, \A q \in Lists \ {i} : rf'.sub[q] = rf.sub[q]
          PROVE  /\ \A q \in PartsOf(s) : rf'.sub[q] # "running" \/ ph[q] = "off"
                 /\ y = "failed" => \A q \in PartsOf(s) : ph[q] = "off" \/ rf'.sub[q] \in {"done", "failed"}
        <3>1. \A q \in PartsOf(s) \ {i} : rf.sub[q] # "running" \/ ph[q] = "off"
            BY <1>0, <1>1, <2>2 DEF Shape, OneRound, Taken, Works, Serial
        <3>2. \A q \in PartsOf(s) : ph[q] = "off" \/ rf.sub[q] \in {"running", "done", "failed"}
            BY <1>0, <2>1 DEF Shape, StepOff, RoundsOff
        <3>3. QED
            BY <1>1, <2>4, <3>1, <3>2
    <2>5. CASE \E why : Fail(l, WithPart(rf, i, y), why)
        <3>1. PICK x : FailsWith(l, WithPart(rf, i, y), x)
            BY <2>5, FailKinds
        <3>2. /\ rf' = WithStep(WithPart(rf, i, y), s, x)
              /\ x \in {"cancelled", "paused", "failed"} /\ Leaves(l, x)
            BY <2>1, <3>1 DEF FailsWith, Save, Leaves
        <3>3. /\ StepIs(l, x) /\ OnlyCollects(l)
              /\ rf'.sub[i] = y /\ \A q \in Lists \ {i} : rf'.sub[q] = rf.sub[q]
            BY <1>0, <1>1, <2>2, <2>3, <3>2, SetBoth DEF Shape, StepStates, Finished
        <3>4. QED
            BY <1>0, <2>1, <2>4, <3>2, <3>3, LeaveMove DEF Shape
    <2>6. CASE Save(WithPart(rf, i, y)) /\ \E p \in {"run", "pass", "again"} :
                  Goto(l, p) /\ (p = "run" => y = "failed")
        <3>1. PICK p \in {"run", "pass", "again"} :
                ph' = [ph EXCEPT ![l] = p] /\ at' = at /\ (p = "run" => y = "failed")
            BY <2>6 DEF Goto
        <3>2. /\ rf'.run = rf.run /\ rf'.st = rf.st
              /\ \A q \in Lists : rf'.sub[q] = IF q = i THEN y ELSE rf.sub[q]
            BY <1>1, <2>6, WithPartIs DEF Save, Shape
        <3>3. StepIs(l, "running") /\ OnlyCollects(l)
            BY <1>1, <2>2, <2>3, <3>2 DEF StepIs, StepStates, OnlyCollects, Collects
        <3>4. OwnMove(l, "running")
            BY <1>0, <2>1, <3>1 DEF OwnMove, Opens, Inside, Shape, ProcOK
        <3>5. QED
            BY <1>0, <1>1, <2>1, <2>4, <3>1, <3>2, <3>3, <3>4, StayMove
    <2>7. QED
        BY <2>3, <2>5, <2>6
<1>4. CASE LoopPasses(l)
    BY <1>0, <1>1, <1>4, DoneMove DEF LoopPasses
<1>5. QED
    BY <1>2, <1>3, <1>4

\* A list that ends in a panic, as its own or that of a list in its goroutine.
LEMMA GoneMove ==
    ASSUME Shape, NEW l \in Busy, UNCHANGED rf, died' = died \cup {l}, Return(l, "gone"),
           ph[l] = "wait" => Serial(Step(l)) /\ Gone(Step(l)) # {},
           ph[l] = "else" => ph[ElseOf(Step(l))] = "gone"
    PROVE  ListMove(l)
<1> DEFINE s == Step(l)
<1>0. l \in Lists /\ s \in Steps /\ PartsOf(s) \subseteq Lists /\ l \notin PartsOf(s)
    BY AtStep, FileAssumption DEF Kids, Shape
<1>1. ph'[l] = "gone" /\ at' = at /\ \A q \in Lists \ {l} : Same(q)
    BY <1>0 DEF Return, Goto, Same, Shape, ProcOK
<1>2. StepIs(l, rf.st[s]) /\ OnlyCollects(l)
    BY KeepStep DEF Shape
<1>3. OwnMove(l, rf.st[s])
    BY <1>1 DEF OwnMove
<1>4. \A q \in PartsOf(s) : ph'[q] = ph[q]
    BY <1>0, <1>1 DEF Same
<1>5. rf'.sub[l] = rf.sub[l] /\ PartsMove(l)
    BY <1>1, <1>2, <1>4, CollectMove
<1>6. ph[l] = "wait" => \A q \in PartsOf(s) : ~Works(q)'
    BY <1>0, <1>4 DEF Shape, OneRound, PartsOff, Taken, Works, Gone
<1>7. QED
    BY <1>1, <1>2, <1>3, <1>5, <1>6 DEF ListMove, KidMove, Ended

LEMMA TimeOutMoves ==
    ASSUME Shape, NEW l \in Lists, StaysTimedOut(l) \/ Unwinds(l)
    PROVE  ListMove(l)
<1>1. l \in Busy
    BY DEF StaysTimedOut, Unwinds, Busy, Ended
<1>2. CASE StaysTimedOut(l)
    BY <1>1, <1>2, WaitIsRunning, FailMove DEF StaysTimedOut, Inside
<1>3. CASE Unwinds(l)
    BY <1>1, <1>3, GoneMove DEF Unwinds
<1>4. QED
    BY <1>2, <1>3

LEMMA ListMoves ==
    ASSUME Shape, NEW l \in Lists, Acts(l)
    PROVE  ListMove(l)
BY ControlMoves, CallMoves, EachMoves, BranchMoves, LoopMoves, TimeOutMoves DEF Acts

\* So is the end of an item or a branch, of the list that waits for it.
LEMMA PartMoves ==
    ASSUME Shape, NEW i \in Lists, PartStep(i)
    PROVE  \E l \in Lists : ListMove(l)
<1>1. Works(i) /\ Kind[Container(i)] \in {"each", "branch"} /\ ph[i] \in Ended
    BY DEF PartStep, ItemEnds, BranchEnds
<1>2. PICK l \in Busy : i \in PartsOf(Step(l)) /\ ph[l] = "wait"
    BY <1>1 DEF Shape, Collected
<1> DEFINE s == Step(l)
<1>3. /\ l \in Lists /\ s \in Steps /\ i # l /\ Kind[s] \in {"each", "branch"}
      /\ rf.st[s] = "running" /\ PartsOf(s) \subseteq Lists
    BY <1>1, <1>2, AtStep, KidFacts, WaitIsRunning, FileAssumption DEF Kids, Shape, Inside
<1>4. PICK y \in {"done", "failed", "cancelled", "paused"} :
        rf' = WithPart(rf, i, y) /\ (y = "done" => ph[i] = "ok")
    BY <1>1 DEF PartStep, ItemEnds, BranchEnds, PartState, Save, Edit
<1>5. /\ at' = at /\ \A q \in Lists \ {i} : ph'[q] = ph[q]
      /\ ph'[i] \in Ended \ {"gone"} /\ (ph'[i] = "ok" => ph[i] = "ok")
    <2>1. CASE ItemEnds(i)
        BY <1>1, <2>1 DEF ItemEnds, Return, Goto, Ended, Shape, ProcOK, Works
    <2>2. CASE BranchEnds(i)
        BY <1>1, <2>2 DEF BranchEnds, proc, Works
    <2>3. QED
        BY <2>1, <2>2 DEF PartStep
<1>6. /\ rf'.run = rf.run /\ rf'.st = rf.st
      /\ \A q \in Lists : rf'.sub[q] = IF q = i THEN y ELSE rf.sub[q]
    BY <1>4, WithPartIs DEF Shape
<1>7. StepIs(l, "running") /\ OwnMove(l, "running")
    BY <1>2, <1>3, <1>5, <1>6 DEF StepIs, StepStates, OwnMove, Opens, Inside
<1>8. \A q \in Lists \ {l} : KidMove(l, q)
    BY <1>1, <1>2, <1>4, <1>5, <1>6 DEF KidMove, Same
<1>9. PartsMove(l)
    <2>1. \A q \in PartsOf(s) : Taken(q)' => Taken(q)
        BY <1>1, <1>3, <1>5, <1>6 DEF Taken, Works
    <2>2. QED
        BY <1>2, <1>3, <1>5, <2>1 DEF PartsMove, Shape, OneRound
<1>10. QED
    BY <1>2, <1>3, <1>5, <1>6, <1>7, <1>8, <1>9 DEF ListMove

\* And a panic, of the list that panics or, after its end, of the one that
\* waits for it.
LEMMA PanicMoves ==
    ASSUME Shape, NEW i \in Lists, Panics(i)
    PROVE  \E l \in Lists : ListMove(l)
<1>1. rf' = rf /\ died' = died \cup {i} /\ Return(i, "gone")
    BY DEF Panics
<1>2. CASE ph[i] \in {"next", "begin", "run", "out"}
    <2>1. i \in Busy
        BY <1>2 DEF Busy, Ended
    <2>2. QED
        BY <1>1, <1>2, <2>1, GoneMove
<1>3. CASE Works(i) /\ ph[i] \in Ended
    <2>1. PICK l \in Busy : i \in PartsOf(Step(l)) /\ ph[l] = "wait"
        BY <1>3 DEF Shape, Collected
    <2> DEFINE s == Step(l)
    <2>2. l \in Lists /\ s \in Steps /\ i # l /\ PartsOf(s) \subseteq Lists /\ rf.st[s] = "running" /\ l \notin PartsOf(s)
        BY <2>1, AtStep, WaitIsRunning, FileAssumption DEF Kids, Shape, Inside
    <2>3. at' = at /\ ph'[i] = "gone" /\ \A q \in Lists \ {i} : ph'[q] = ph[q]
        BY <1>1 DEF Return, Goto, Shape, ProcOK
    <2>4. StepIs(l, "running")
        BY <1>1, <2>2, KeepStep DEF Shape
    <2>5. OwnMove(l, "running")
        BY <2>1, <2>2, <2>3, AtStep DEF OwnMove, Opens, Inside, Shape, KindsAt
    <2>6. \A q \in Lists \ {l} : KidMove(l, q)
        BY <1>1, <1>3, <2>1, <2>3 DEF KidMove, Same
    <2>7. PartsMove(l)
        <3>1. \A q \in PartsOf(s) : Taken(q)' => Taken(q)
            BY <1>1, <1>3, <2>2, <2>3 DEF Taken, Works
        <3>2. Kind[s] = "loop" => \A q \in PartsOf(s) : ph'[q] = "off" \/ rf'.sub[q] \in {"running", "done", "failed"}
            BY <1>1, <1>3, <2>1, <2>2, <2>3 DEF Shape, StepOff, RoundsOff, Works
        <3>3. QED
            BY <2>1, <2>2, <2>3, <3>1, <3>2 DEF PartsMove, Shape, OneRound
    <2>8. QED
        BY <1>1, <2>1, <2>2, <2>3, <2>4, <2>5, <2>6, <2>7 DEF ListMove
<1>4. QED
    BY <1>2, <1>3 DEF Panics

\* No step undoes that a list has panicked.
LEMMA DiedGrows ==
    ASSUME NEW l, Acts(l) \/ PartStep(l) \/ Panics(l)
    PROVE  died \subseteq died'
BY DEF Acts, PartStep, Panics, NextStep, HeldIsCut, BeginCut, Restore, When, Begin, ElseEnds, Work, WriteAsks,
       WriteGoesOut, EachStarts, ItemStarts, EachEnds, RoundStarts, RoundEnds, LoopPasses, BranchesStart,
       BranchesJoin, StaysTimedOut, Unwinds, ItemEnds, BranchEnds, Rest, control

----------------------------------------------------------------------------
(* What a move keeps of the lists' processes.                              *)

LEMMA OthersStay ==
    ASSUME NEW l, ListMove(l), NEW q \in Busy, q # l
    PROVE  q \in Lists /\ Same(q) /\ q \in Busy' /\ Step(q)' = Step(q)
<1>1. q \in Lists /\ KidMove(l, q) /\ ph[q] \notin Ended \cup {"off"}
    BY DEF ListMove, Busy
<1>2. Same(q)
    BY <1>1 DEF KidMove
<1>3. QED
    BY <1>1, <1>2 DEF Same, Busy, Step, StepAt

LEMMA HoldsOn ==
    ASSUME NEW l, ListMove(l), ph'[l] \in Inside \cup {"else"}
    PROVE  l \in Lists /\ l \in Busy' /\ at'[l] = at[l] /\ Step(l)' = Step(l)
<1>1. l \in Lists /\ \E x : OwnMove(l, x)
    BY DEF ListMove, Busy
<1>2. at'[l] = at[l]
    BY <1>1 DEF OwnMove, Inside
<1>3. QED
    BY <1>1, <1>2 DEF Busy, Ended, Inside, Step, StepAt

LEMMA CountedMove == ASSUME Shape, NEW l \in Lists, ListMove(l) PROVE Counted'
<1>1. SUFFICES ASSUME NEW q \in Lists, ph'[q] \notin Ended \cup {"off"} PROVE at'[q] \in DOMAIN Body[q]
    BY DEF Counted, Busy
<1>2. DOMAIN Body[q] = 1..Len(Body[q]) /\ Len(Body[q]) \in Nat \ {0}
    <2>1. Body[q] \in Seq(STRING) /\ Body[q] # <<>>
        BY FileAssumption
    <2>2. QED
        BY <2>1, EmptySeq, LenProperties
<1>3. CASE q = l
    <2>1. l \in Busy /\ at[l] \in DOMAIN Body[l]
        BY AtStep DEF ListMove, Shape
    <2>2. PICK x : OwnMove(l, x)
        BY DEF ListMove
    <2>3. QED
        BY <1>1, <1>2, <1>3, <2>1, <2>2 DEF OwnMove, Ended
<1>4. CASE q # l
    <2>1. KidMove(l, q)
        BY <1>4 DEF ListMove
    <2>2. CASE at'[q] = 1
        BY <1>2, <2>2
    <2>3. CASE Same(q)
        BY <1>1, <2>3 DEF Same, Shape, Counted, Busy
    <2>4. QED
        BY <1>1, <2>1, <2>2, <2>3 DEF KidMove, Ended
<1>5. QED
    BY <1>3, <1>4

LEMMA NestedMove == ASSUME Shape, NEW l \in Lists, ListMove(l), top' = top PROVE Nested'
<1> DEFINE Waits(m, q) == \/ q \in PartsOf(Step(m)) /\ ph[m] = "wait" /\ Works(q)
                          \/ q = ElseOf(Step(m)) /\ ph[m] = "else"
<1>0. l \in Busy /\ Step(l) \in Steps
    BY AtStep DEF ListMove, Shape
<1>1. SUFFICES ASSUME NEW q \in Lists, ph'[q] \notin Ended \cup {"off"}, q # top
               PROVE  \E m \in Busy' : Waits(m, q)'
    BY DEF Nested, Busy
<1>2. ASSUME q \in Busy PROVE \E m \in Busy : Waits(m, q)
    BY <1>1, <1>2 DEF Shape, Nested
\* A parent other than l stays as it is.
<1>3. ASSUME NEW m \in Busy, m # l, Waits(m, q) PROVE m \in Busy' /\ Waits(m, q)'
    <2>1. Same(m) /\ m \in Busy' /\ Step(m)' = Step(m)
        BY <1>3, OthersStay
    <2>2. q \notin PartsOf(Step(l)) \/ q = ElseOf(Step(m))
        BY <1>0, <1>3, OneParent DEF Kids, Shape
    <2>3. CASE q \in PartsOf(Step(m)) /\ ph[m] = "wait" /\ Works(q)
        <3>1. \A t \in Steps : q # ElseOf(t)
            BY <1>3, <2>3, AtStep, KidFacts DEF Kids, Shape
        <3>2. rf'.sub[q] = rf.sub[q]
            <4>1. CASE q = l
                BY <4>1 DEF ListMove
            <4>2. CASE q # l
                <5>1. KidMove(l, q) /\ q \notin PartsOf(Step(l))
                    BY <1>3, <2>2, <3>1, <4>2, AtStep DEF ListMove, Shape
                <5>2. QED
                    BY <5>1 DEF KidMove
            <4>3. QED
                BY <4>1, <4>2
        <3>3. QED
            BY <1>1, <2>1, <2>3, <3>2 DEF Same, Works, Ended
    <2>4. CASE q = ElseOf(Step(m)) /\ ph[m] = "else"
        BY <2>1, <2>4 DEF Same
    <2>5. QED
        BY <1>3, <2>1, <2>3, <2>4
<1>4. CASE q = l
    <2>1. PICK m \in Busy : Waits(m, l)
        BY <1>0, <1>2, <1>4
    <2>2. m # l
        BY <2>1, AtStep DEF Kids, Shape
    <2>3. QED
        BY <1>3, <1>4, <2>1, <2>2
<1>5. CASE q # l /\ q \in Busy
    <2>1. PICK m \in Busy : Waits(m, q)
        BY <1>2, <1>5
    <2>2. CASE m = l
        <3>1. KidMove(l, q) /\ q \in Kids(Step(l)) /\ ph[q] \notin Ended
            BY <1>5, <2>1, <2>2 DEF ListMove, Kids, Busy
        <3>2. CASE q \in PartsOf(Step(l)) /\ ph[l] = "wait" /\ Works(q)
            <4>1. rf'.sub[q] = "running"
                BY <1>5, <3>1, <3>2 DEF KidMove, Works
            <4>2. ph'[l] = "wait"
                BY <1>1, <3>2, <4>1 DEF ListMove, Works, Ended
            <4>3. QED
                BY <1>1, <3>2, <4>1, <4>2, HoldsOn DEF Inside, Works, Ended
        <3>3. CASE q = ElseOf(Step(l)) /\ ph[l] = "else"
            BY <3>1, <3>3 DEF ListMove, HasElse
        <3>4. QED
            BY <2>1, <2>2, <3>2, <3>3
    <2>3. QED
        BY <1>3, <2>1, <2>2
<1>6. CASE q # l /\ q \notin Busy
    <2>1. KidMove(l, q)
        BY <1>6 DEF ListMove
    <2>2. \/ q \in PartsOf(Step(l)) /\ ph'[l] = "wait" /\ rf'.sub[q] = "running"
          \/ q = ElseOf(Step(l)) /\ ph'[l] = "else"
        BY <1>1, <1>6, <2>1 DEF KidMove, Same, Busy, Ended
    <2>3. QED
        BY <1>1, <2>2, HoldsOn DEF Inside, Works, Ended
<1>7. QED
    BY <1>4, <1>5, <1>6

LEMMA CollectedMove == ASSUME Shape, NEW l \in Lists, ListMove(l) PROVE Collected'
<1>0. l \in Busy /\ Step(l) \in Steps
    BY AtStep DEF ListMove, Shape
<1>1. SUFFICES ASSUME NEW q \in Lists, Works(q)'
               PROVE  \E m \in Busy' : q \in PartsOf(Step(m)') /\ ph'[m] = "wait"
    BY DEF Collected
<1>2. CASE Works(q)
    <2>1. PICK m \in Busy : q \in PartsOf(Step(m)) /\ ph[m] = "wait"
        BY <1>2 DEF Shape, Collected
    <2>2. CASE m = l
        <3>1. ph'[l] = "wait"
            BY <1>1, <2>1, <2>2 DEF ListMove
        <3>2. QED
            BY <2>1, <2>2, <3>1, HoldsOn DEF Inside
    <2>3. CASE m # l
        BY <2>1, <2>3, OthersStay DEF Same
    <2>4. QED
        BY <2>2, <2>3
<1>3. CASE ~Works(q)
    <2>1. q # l
        BY <1>0, <1>1, <1>3 DEF ListMove, Works, Busy, Ended
    <2>2. CASE q \in PartsOf(Step(l)) /\ ph'[l] = "wait"
        BY <2>2, HoldsOn DEF Inside
    <2>3. CASE q = ElseOf(Step(l)) /\ rf'.sub[q] = rf.sub[q]
        <3>1. PICK s \in Steps : q \in PartsOf(s)
            BY <1>1, <2>3 DEF Works, Shape, PartsOnly
        <3>2. QED
            BY <1>0, <2>3, <3>1, KidFacts DEF Kids
    <2>4. QED
        BY <1>1, <1>3, <2>1, <2>2, <2>3 DEF ListMove, KidMove, Works, Same
<1>4. QED
    BY <1>2, <1>3

LEMMA OneRoundMove == ASSUME Shape, NEW l \in Lists, ListMove(l) PROVE OneRound'
<1>0. l \in Busy /\ Step(l) \in Steps
    BY AtStep DEF ListMove, Shape
<1>1. SUFFICES ASSUME NEW s \in Steps, Serial(s), NEW i \in PartsOf(s), NEW j \in PartsOf(s), Taken(i)', Taken(j)'
               PROVE  i = j
    BY DEF OneRound, Serial, PartsOf, Part
<1>2. CASE s = Step(l)
    BY <1>1, <1>2 DEF ListMove, PartsMove
<1>3. CASE s # Step(l)
    <2>1. ASSUME NEW q \in PartsOf(s), Taken(q)' PROVE Taken(q)
        <3>1. q \in Lists /\ q \notin Kids(Step(l))
            BY <1>0, <1>3, KidFacts DEF Kids
        <3>2. CASE q = l
            BY <1>0, <2>1, <3>2 DEF ListMove, Taken, Busy
        <3>3. CASE q # l
            BY <2>1, <3>1, <3>3 DEF ListMove, KidMove, Kids, Same, Taken
        <3>4. QED
            BY <3>2, <3>3
    <2>2. QED
        BY <1>1, <2>1 DEF Shape, OneRound
<1>4. QED
    BY <1>2, <1>3

LEMMA KindsMove == ASSUME Shape, NEW l \in Lists, ListMove(l) PROVE KindsAt'
<1>1. SUFFICES ASSUME NEW q \in Lists, ph'[q] \in {"out", "pass", "wait", "again"}
               PROVE  /\ ph'[q] = "out" => Kind[Step(q)'] = "write"
                      /\ ph'[q] = "pass" => Kind[Step(q)'] = "loop"
                      /\ ph'[q] = "wait" => Kind[Step(q)'] \in {"each", "loop", "branch"}
                      /\ ph'[q] = "again" => Kind[Step(q)'] \in {"loop", "branch"}
    BY DEF KindsAt
<1>2. CASE q = l
    <2>1. Step(l)' = Step(l)
        BY <1>1, <1>2, HoldsOn DEF Inside
    <2>2. Opens(l)
        BY <1>1, <1>2 DEF ListMove, OwnMove
    <2>3. QED
        BY <1>2, <2>1, <2>2 DEF Opens
<1>3. CASE q # l
    <2>1. Same(q)
        BY <1>1, <1>3 DEF ListMove, KidMove, Ended
    <2>2. Step(q)' = Step(q) /\ ph'[q] = ph[q]
        BY <2>1 DEF Same, Step, StepAt
    <2>3. QED
        BY <1>1, <2>2 DEF Shape, KindsAt
<1>4. QED
    BY <1>2, <1>3

(* Only the step that the list is at changes.                              *)
LEMMA StepsMove ==
    ASSUME Shape, NEW l \in Lists, ListMove(l)
    PROVE  /\ l \in Busy /\ at[l] \in DOMAIN Body[l] /\ at[l] \in Nat
           /\ \A q \in Lists : \A k \in DOMAIN Body[q] : k \in Nat /\
                  (q # l \/ k # at[l] => rf'.st[StepAt(q, k)] = rf.st[StepAt(q, k)])
           /\ \E x : /\ OwnMove(l, x) /\ rf'.st[StepAt(l, at[l])] = x /\ x \in StepStates
                     /\ x = rf.st[StepAt(l, at[l])] \/ (rf.st[StepAt(l, at[l])] \notin Finished /\ x # "none")
<1>1. l \in Busy /\ at[l] \in DOMAIN Body[l] /\ Step(l) = StepAt(l, at[l]) /\ Step(l) \in Steps /\ at[l] \in Nat
    BY AtStep DEF ListMove, Shape, ProcOK
<1>2. PICK x : StepIs(l, x) /\ OwnMove(l, x)
    BY DEF ListMove
<1>3. ASSUME NEW q \in Lists, NEW k \in DOMAIN Body[q]
      PROVE  k \in Nat /\ (q # l \/ k # at[l] => rf'.st[StepAt(q, k)] = rf.st[StepAt(q, k)])
    <2>1. StepAt(q, k) \in Steps
        BY StepFacts
    <2>2. q # l \/ k # at[l] => StepAt(q, k) # Step(l)
        BY <1>1, SameStep
    <2>3. k \in Nat
        BY FileAssumption, LenProperties
    <2>4. QED
        BY <1>2, <2>1, <2>2, <2>3 DEF StepIs
<1>4. QED
    BY <1>1, <1>2, <1>3 DEF StepIs

LEMMA StepRunningMove ==
    ASSUME Shape, NEW l \in Lists, ListMove(l), died \subseteq died'
    PROVE  StepRunning'
<1>1. SUFFICES ASSUME NEW q \in Lists
               PROVE  /\ ph'[q] \in Inside => rf'.st[Step(q)'] = "running"
                      /\ \A k \in DOMAIN Body[q] :
                            rf'.st[StepAt(q, k)] = "running" => (k = at'[q] /\ ph'[q] \in Inside) \/ q \in died'
    BY DEF StepRunning, StepAt
<1>2. PICK x : /\ OwnMove(l, x) /\ rf'.st[StepAt(l, at[l])] = x
               /\ x = rf.st[StepAt(l, at[l])] \/ rf.st[StepAt(l, at[l])] \notin Finished
    BY StepsMove
<1>3. CASE q = l
    <2>1. ph'[l] \in Inside => Step(l)' = StepAt(l, at[l]) /\ x = "running"
        BY <1>2, HoldsOn DEF OwnMove, Inside, Step
    <2>2. ASSUME NEW k \in DOMAIN Body[l], rf'.st[StepAt(l, k)] = "running"
          PROVE  (k = at'[l] /\ ph'[l] \in Inside) \/ l \in died'
        <3>1. k # at[l] => l \in died
            BY <2>2, StepsMove DEF Shape, StepRunning
        <3>2. k = at[l] => x = "running"
            BY <1>2, <2>2
        <3>3. k = at[l] /\ ph[l] = "next" /\ x = rf.st[Step(l)] => l \in died
            BY <3>2, StepsMove DEF Shape, StepRunning, Inside, Step
        <3>4. QED
            BY <1>2, <3>1, <3>2, <3>3 DEF OwnMove, Finished
    <2>3. QED
        BY <1>2, <1>3, <2>1, <2>2
<1>4. CASE q # l
    <2>1. \A k \in DOMAIN Body[q] : rf'.st[StepAt(q, k)] = rf.st[StepAt(q, k)]
        BY <1>4, StepsMove
    <2>2. CASE Same(q)
        <3>1. Step(q)' = Step(q)
            BY <2>2 DEF Same, Step, StepAt
        <3>2. ph'[q] \in Inside => q \in Busy
            BY <2>2 DEF Same, Busy, Inside, Ended
        <3>3. ph'[q] \in Inside => rf'.st[Step(q)] = rf.st[Step(q)]
            BY <2>1, <3>2, AtStep DEF Shape
        <3>4. QED
            BY <2>1, <2>2, <3>1, <3>3 DEF Same, Shape, StepRunning
    <2>3. CASE ~Same(q)
        <3>1. ph[q] \notin Inside /\ ph'[q] \notin Inside
            BY <1>4, <2>3 DEF ListMove, KidMove, Busy, Inside, Ended
        <3>2. QED
            BY <2>1, <3>1 DEF Shape, StepRunning
    <2>4. QED
        BY <2>2, <2>3
<1>5. QED
    BY <1>3, <1>4

LEMMA PartRunningMove ==
    ASSUME Shape, PartRunning, NEW l \in Lists, ListMove(l), died \subseteq died'
    PROVE  PartRunning'
<1>1. SUFFICES ASSUME NEW q \in Lists, rf'.sub[q] = "running", ph'[q] \in {"off", "gone"}
               PROVE  q \in died'
    BY DEF PartRunning
<1>2. CASE q = l
    BY <1>1, <1>2 DEF ListMove, OwnMove, Inside
<1>3. CASE q # l
    BY <1>1, <1>3 DEF ListMove, KidMove, Same, PartRunning
<1>4. QED
    BY <1>2, <1>3

(* The next try of a loop or a branch is left only where there is one.     *)
LEMMA TriesKept ==
    ASSUME ProcOK, HasTries, NEW l \in Lists
    PROVE  /\ \A p : Goto(l, p) /\ p # "again" => HasTries'
           /\ \A p, S : Spawn(l, p, S) /\ p # "again" => HasTries'
           /\ Advance(l) => HasTries'
           /\ TriesAgain(l) => HasTries'
           /\ (\E f, why : Fail(l, f, why)) => HasTries'
<1>1. \A p : Goto(l, p) /\ p # "again" => HasTries'
    BY DEF ProcOK, HasTries, Goto
<1>2. \A p, S : Spawn(l, p, S) /\ p # "again" => HasTries'
    BY DEF HasTries, Spawn
<1>3. Advance(l) => HasTries'
    BY <1>1 DEF ProcOK, HasTries, Advance, Return
<1>4. TriesAgain(l) => HasTries'
    BY DEF ProcOK, HasTries, TriesAgain
<1>5. (\E f, why : Fail(l, f, why)) => HasTries'
    BY <1>1, <1>2, FailKinds DEF FailsWith, Return
<1>6. QED
    BY <1>1, <1>2, <1>3, <1>4, <1>5

LEMMA HasTriesMove ==
    ASSUME ProcOK, HasTries, NEW l \in Lists, Acts(l) \/ PartStep(l) \/ Panics(l)
    PROVE  HasTries'
<1> USE TriesKept DEF Return
<1>1. CASE NextStep(l) \/ HeldIsCut(l) \/ BeginCut(l) \/ Restore(l) \/ When(l) \/ ElseEnds(l)
    BY <1>1 DEF NextStep, HeldIsCut, BeginCut, Restore, When, ElseEnds, RunElse, Ended
<1>2. CASE Begin(l)
    BY <1>2 DEF Begin, HasTries, ProcOK
<1>3. CASE Work(l) \/ WriteAsks(l) \/ WriteGoesOut(l)
    BY <1>3 DEF Work, WriteAsks, WriteGoesOut, Done, GivesUp
<1>4. CASE EachStarts(l) \/ EachEnds(l)
    BY <1>4 DEF EachStarts, EachEnds, Done
<1>5. CASE ItemStarts(l)
    BY <1>5 DEF ItemStarts, Goto, HasTries, ProcOK
<1>6. CASE RoundStarts(l) \/ RoundEnds(l) \/ BranchesJoin(l)
    <2>1. ASSUME NEW f, NEW why, TryFails(l, f, why) PROVE HasTries'
        BY <2>1 DEF TryFails, Goto, HasTries, ProcOK
    <2>2. QED
        BY <1>6, <2>1 DEF RoundStarts, RoundEnds, BranchesJoin, Done
<1>7. CASE LoopPasses(l) \/ BranchesStart(l) \/ StaysTimedOut(l) \/ Unwinds(l) \/ Panics(l)
    BY <1>7 DEF LoopPasses, BranchesStart, StaysTimedOut, Unwinds, Panics, Done
<1>8. CASE PartStep(l)
    BY <1>8 DEF PartStep, ItemEnds, BranchEnds, proc, Ended, HasTries
<1>9. QED
    BY <1>1, <1>2, <1>3, <1>4, <1>5, <1>6, <1>7, <1>8 DEF Acts
----------------------------------------------------------------------------
(* What a move keeps of the run file.                                      *)

LEMMA BeforeMove == ASSUME Shape, Before, NEW l \in Lists, ListMove(l) PROVE Before'
<1>1. SUFFICES ASSUME NEW q \in Lists, ph'[q] \notin Ended \cup {"off"},
                      NEW k \in DOMAIN Body[q], k < at'[q]
               PROVE  rf'.st[StepAt(q, k)] \in Finished
    BY DEF Before, Busy, StepAt
<1>2. CASE q = l
    <2>1. PICK x : OwnMove(l, x) /\ rf'.st[StepAt(l, at[l])] = x
        BY StepsMove
    <2>2. CASE k < at[l]
        BY <1>2, <2>2, StepsMove DEF Before
    <2>3. CASE ~(k < at[l])
        <3>1. k = at[l] /\ x \in Finished
            BY <1>1, <1>2, <2>1, <2>3, StepsMove DEF OwnMove, Ended
        <3>2. QED
            BY <1>2, <2>1, <3>1
    <2>4. QED
        BY <2>2, <2>3
<1>3. CASE q # l
    <2>1. KidMove(l, q) /\ k \in Nat /\ rf'.st[StepAt(q, k)] = rf.st[StepAt(q, k)]
        BY <1>3, StepsMove DEF ListMove
    <2>2. CASE Same(q)
        BY <1>1, <2>1, <2>2 DEF Same, Before, Busy
    <2>3. CASE at'[q] = 1
        <3>1. k \in 1..Len(Body[q])
            BY FileAssumption, LenProperties
        <3>2. QED
            BY <1>1, <2>3, <3>1
    <2>4. QED
        BY <1>1, <2>1, <2>2, <2>3 DEF KidMove, Ended
<1>4. QED
    BY <1>2, <1>3

LEMMA OkIsDoneMove == ASSUME Shape, Before, OkIsDone, NEW l \in Lists, ListMove(l) PROVE OkIsDone'
<1>1. SUFFICES ASSUME NEW q \in Lists, ph'[q] = "ok", NEW k \in DOMAIN Body[q]
               PROVE  rf'.st[StepAt(q, k)] \in Finished
    BY DEF OkIsDone, StepsIn, StepAt
<1>2. CASE q = l
    <2>1. PICK x : OwnMove(l, x) /\ rf'.st[StepAt(l, at[l])] = x
        BY StepsMove
    <2>2. at[l] = Len(Body[l]) /\ x \in Finished
        BY <1>1, <1>2, <2>1 DEF OwnMove, Inside
    <2>3. k \in 1..Len(Body[l])
        BY <1>2, FileAssumption, LenProperties
    <2>4. CASE k = at[l]
        BY <1>2, <2>1, <2>2, <2>4
    <2>5. CASE k # at[l]
        <3>1. k < at[l]
            BY <2>2, <2>3, <2>5, StepsMove
        <3>2. QED
            BY <1>2, <2>5, <3>1, StepsMove DEF Before
    <2>6. QED
        BY <2>4, <2>5
<1>3. CASE q # l
    <2>1. ph[q] = "ok"
        BY <1>1, <1>3 DEF ListMove, KidMove, Same
    <2>2. QED
        BY <1>3, <2>1, StepsMove DEF OkIsDone, StepsIn
<1>4. QED
    BY <1>2, <1>3

LEMMA OrderedMove == ASSUME Shape, Before, Ordered(rf), NEW l \in Lists, ListMove(l) PROVE Ordered(rf')
<1>1. SUFFICES ASSUME NEW q \in Lists, NEW j \in DOMAIN Body[q], NEW k \in DOMAIN Body[q], j < k,
                      rf'.st[StepAt(q, k)] \notin {"none", "pending"}
               PROVE  rf'.st[StepAt(q, j)] \in Finished
    BY DEF Ordered
<1>2. CASE q # l \/ (k # at[l] /\ j # at[l])
    BY <1>1, <1>2, StepsMove DEF Ordered
<1>3. CASE q = l /\ k = at[l]
    <2>1. rf.st[StepAt(l, j)] \in Finished /\ j # at[l]
        BY <1>1, <1>3, StepsMove DEF Before
    <2>2. QED
        BY <1>3, <2>1, StepsMove
<1>4. CASE q = l /\ j = at[l]
    <2>1. k # at[l]
        BY <1>1, <1>4, StepsMove
    <2>2. rf.st[StepAt(l, j)] \in Finished
        BY <1>1, <1>4, <2>1, StepsMove DEF Ordered
    <2>3. QED
        BY <1>4, <2>2, StepsMove
<1>5. QED
    BY <1>2, <1>3, <1>4

LEMMA PartsOnlyMove == ASSUME Shape, PartsOnly(rf), NEW l \in Lists, ListMove(l) PROVE PartsOnly(rf')
<1>1. l \in Busy /\ Step(l) \in Steps
    BY AtStep DEF ListMove, Shape
<1>2. \A q \in Lists : rf'.sub[q] = rf.sub[q] \/ q \in PartsOf(Step(l))
    BY DEF ListMove, KidMove
<1>3. QED
    BY <1>1, <1>2 DEF PartsOnly

(* A part whose end is in the run file does not work.                      *)
LEMMA PartAtWork ==
    ASSUME Shape, NEW q \in Busy, NEW s \in Steps, q \in PartsOf(s)
    PROVE  Works(q)
<1>1. q # top /\ \A t \in Steps : q # ElseOf(t)
    BY KidFacts DEF Shape, RestOK, Kids
<1>2. PICK m \in Busy : \/ q \in PartsOf(Step(m)) /\ ph[m] = "wait" /\ Works(q)
                        \/ q = ElseOf(Step(m)) /\ ph[m] = "else"
    BY <1>1 DEF Shape, Nested
<1>3. QED
    BY <1>1, <1>2, AtStep DEF Shape

LEMMA PartsDoneMove ==
    ASSUME Shape, OkIsDone, PartsDone(rf), PartsOnly(rf), NEW l \in Lists, ListMove(l)
    PROVE  PartsDone(rf')
<1>1. SUFFICES ASSUME NEW q \in Lists, rf'.sub[q] = "done", NEW k \in DOMAIN Body[q]
               PROVE  rf'.st[StepAt(q, k)] \in Finished
    BY DEF PartsDone, StepsIn
<1>2. q # l
    <2>1. SUFFICES ASSUME q = l PROVE FALSE
        OBVIOUS
    <2>2. rf.sub[l] = "done"
        BY <1>1, <2>1 DEF ListMove
    <2>3. Works(l)
        BY <2>2, StepsMove, PartAtWork DEF PartsOnly
    <2>4. QED
        BY <2>2, <2>3 DEF Works
<1>3. rf.sub[q] = "done" \/ ph[q] = "ok"
    BY <1>1, <1>2 DEF ListMove, KidMove
<1>4. rf.st[StepAt(q, k)] \in Finished
    BY <1>3 DEF PartsDone, OkIsDone, StepsIn
<1>5. QED
    BY <1>2, <1>4, StepsMove

----------------------------------------------------------------------------
(* What is ahead has not begun.                                            *)

LEMMA NotYetMove ==
    ASSUME Shape, NEW l \in Lists, ListMove(l), NEW q \in Lists, NEW k \in DOMAIN Body[q], NotYet(q, k)'
    PROVE  /\ NotYet(q, k) /\ rf'.st[StepAt(q, k)] = rf.st[StepAt(q, k)]
           /\ q = l /\ k = at[l] => ph'[l] \in {"held", "begin"}
<1>1. \/ ph'[q] = "off"
      \/ ph'[q] \notin Ended \cup {"off"} /\ (k > at'[q] \/ (k = at'[q] /\ ph'[q] \in Ahead))
    BY DEF NotYet, Busy
<1>2. CASE q = l
    <2>1. PICK x : OwnMove(l, x) /\ rf'.st[StepAt(l, at[l])] = x
        BY StepsMove
    <2>2. k \in Nat /\ at[l] \in Nat /\ l \in Busy
        BY <1>2, StepsMove
    <2>3. CASE k > at[l]
        BY <1>2, <2>2, <2>3, StepsMove DEF NotYet
    <2>4. CASE ~(k > at[l])
        <3>1. k = at[l] /\ ph[l] = "next" /\ ph'[l] \in {"held", "begin"} /\ x = rf.st[Step(l)]
            BY <1>1, <1>2, <2>1, <2>2, <2>4 DEF OwnMove, Ended, Inside, Ahead
        <3>2. QED
            BY <1>2, <2>1, <2>2, <3>1 DEF NotYet, Ahead, Step
    <2>5. QED
        BY <2>3, <2>4
<1>3. CASE q # l
    <2>1. KidMove(l, q) /\ rf'.st[StepAt(q, k)] = rf.st[StepAt(q, k)]
        BY <1>3, StepsMove DEF ListMove
    <2>2. CASE Same(q)
        BY <1>1, <1>3, <2>1, <2>2 DEF Same, NotYet, Busy
    <2>3. CASE ~Same(q)
        <3>1. ph[q] = "off"
            BY <1>1, <2>1, <2>3 DEF KidMove, Ended
        <3>2. QED
            BY <1>3, <2>1, <3>1 DEF NotYet
    <2>4. QED
        BY <2>2, <2>3
<1>4. QED
    BY <1>2, <1>3

LEMMA FreshMove ==
    ASSUME Shape, NEW l \in Lists, ListMove(l), resume' = resume
    PROVE  Fresh'
<1>1. SUFFICES ASSUME ~resume, NEW q \in Lists, NEW k \in DOMAIN Body[q], NotYet(q, k)'
               PROVE  rf'.st[StepAt(q, k)] = "none"
    BY DEF Fresh, StepAt
<1>2. NotYet(q, k) /\ rf'.st[StepAt(q, k)] = rf.st[StepAt(q, k)]
    BY <1>1, NotYetMove
<1>3. QED
    BY <1>1, <1>2 DEF Shape, Fresh

LEMMA KidsOffMove == ASSUME Shape, NEW l \in Lists, ListMove(l) PROVE KidsOff'
<1>0. l \in Busy /\ at[l] \in DOMAIN Body[l] /\ Step(l) = StepAt(l, at[l]) /\ Step(l) \in Steps
    BY AtStep DEF ListMove, Shape
<1>1. SUFFICES ASSUME NEW q \in Lists, NEW k \in DOMAIN Body[q], NotYet(q, k)',
                      NEW r \in Lists, r \in Kids(StepAt(q, k))
               PROVE  ph'[r] = "off"
    BY DEF KidsOff, Kids, PartsOf, Part, ElseOf, StepAt
<1>2. NotYet(q, k) /\ (q = l /\ k = at[l] => ph'[l] \in {"held", "begin"})
    BY <1>1, NotYetMove
<1>3. ph[r] = "off" /\ r # l
    BY <1>0, <1>1, <1>2 DEF Shape, KidsOff, Busy
<1>4. ASSUME r \in Kids(Step(l)) PROVE ph'[l] \in {"held", "begin"}
    <2>1. StepAt(q, k) \in Steps /\ StepAt(q, k) = Step(l)
        BY <1>0, <1>1, <1>4, StepFacts, KidFacts
    <2>2. q = l /\ k = at[l]
        BY <1>0, <2>1, SameStep
    <2>3. QED
        BY <1>2, <2>2
<1>5. QED
    BY <1>3, <1>4 DEF ListMove, KidMove, Same, Kids, Works, Ended

LEMMA PartsOffMove == ASSUME Shape, NEW l \in Lists, ListMove(l) PROVE PartsOff'
<1>1. SUFFICES ASSUME NEW s \in Steps, NEW q \in PartsOf(s)
               PROVE  /\ rf'.sub[q] \in {"none", "pending"} => ph'[q] = "off"
                      /\ ph'[q] = "gone" => rf'.sub[q] = "running"
    BY DEF PartsOff, PartsOf, Part
<1>2. q \in Lists /\ l \in Busy /\ Step(l) \in Steps
    BY FileAssumption, AtStep DEF ListMove, Shape
<1>3. CASE q = l
    <2>1. rf'.sub[l] = rf.sub[l] /\ Works(l)
        BY <1>2, <1>3, PartAtWork DEF ListMove
    <2>2. QED
        BY <1>3, <2>1 DEF Works
<1>4. CASE q # l
    <2>1. q # ElseOf(Step(l))
        BY <1>2, KidFacts DEF Kids
    <2>2. QED
        BY <1>2, <1>4, <2>1 DEF ListMove, KidMove, Same, Works, Shape, PartsOff
<1>5. QED
    BY <1>3, <1>4

LEMMA StepOffMove == ASSUME Shape, NEW l \in Lists, ListMove(l) PROVE StepOff'
<1>0. l \in Busy /\ Step(l) \in Steps /\ Counted' /\ KidsOff'
    BY AtStep, CountedMove, KidsOffMove DEF ListMove, Shape
<1> DEFINE Good(m, s) ==
              /\ ph'[m] # "else" /\ HasElse(s) => ph'[ElseOf(s)] = "off"
              /\ ph'[m] \in {"run", "out"} => \A q \in PartsOf(s) :
                    ph'[q] = "off" \/ (Kind[s] = "loop" /\ rf'.sub[q] \in {"done", "failed"})
              /\ ph'[m] = "wait" /\ Kind[s] = "loop" => \A q \in PartsOf(s) :
                    ph'[q] = "off" \/ rf'.sub[q] \in {"running", "done", "failed"}
<1>1. SUFFICES ASSUME NEW m \in Lists, m \in Busy' PROVE Good(m, StepAt(m, at'[m]))
    BY DEF StepOff, RoundsOff, Busy, Step, StepAt, HasElse, ElseOf, PartsOf, Part
<1>2. ph'[m] \notin Ended \cup {"off"} /\ at'[m] \in DOMAIN Body[m] /\ StepAt(m, at'[m]) \in Steps
    BY <1>0, <1>1, StepFacts DEF Counted, Busy
\* The lists of a step that has not begun are off.
<1>3. CASE ph'[m] \in Ahead
    <2> PICK k \in DOMAIN Body[m] : k = at'[m]
        BY <1>2
    <2>1. NotYet(m, k)'
        BY <1>1, <1>3 DEF NotYet
    <2>2. \A q \in Lists : q \in Kids(StepAt(m, at'[m])) => ph'[q] = "off"
        BY <1>0, <1>2, <2>1 DEF KidsOff, Kids, PartsOf, Part, ElseOf, StepAt
    <2>3. PartsOf(StepAt(m, at'[m])) \subseteq Lists
        BY <1>2, FileAssumption
    <2>4. QED
        BY <2>2, <2>3 DEF Kids, HasElse
<1>4. CASE m = l /\ ph'[m] \notin Ahead
    <2>1. PICK x : OwnMove(l, x)
        BY DEF ListMove
    <2>2. StepAt(l, at'[l]) = Step(l)
        BY <1>2, <1>4, <2>1 DEF OwnMove, Ended, Ahead, Step
    <2>3. ASSUME ph'[l] # "else", HasElse(Step(l)) PROVE ph'[ElseOf(Step(l))] = "off"
        <3>1. ph[l] # "else"
            BY <1>2, <1>4, <2>1, <2>3 DEF OwnMove, Opens, Ended, Inside, Ahead
        <3>2. ph[ElseOf(Step(l))] = "off"
            BY <1>0, <2>3, <3>1 DEF Shape, StepOff
        <3>3. ElseOf(Step(l)) # l /\ ElseOf(Step(l)) \notin PartsOf(Step(l)) /\ ElseOf(Step(l)) \in Lists
            BY <1>0, <2>3, <3>2, KidFacts DEF Busy, Kids, HasElse
        <3>4. QED
            BY <2>3, <3>2, <3>3 DEF ListMove, KidMove, Same
    <2>4. QED
        BY <1>4, <2>2, <2>3 DEF ListMove, PartsMove
<1>5. CASE m # l /\ ph'[m] \notin Ahead
    <2>1. Same(m) /\ m \in Busy
        BY <1>2, <1>5 DEF ListMove, KidMove, Ahead, Same, Busy, Ended
    <2>2. StepAt(m, at'[m]) = Step(m) /\ ph'[m] = ph[m] /\ Step(m) \in Steps /\ PartsOf(Step(m)) \subseteq Lists
        BY <1>2, <2>1, FileAssumption DEF Same, Step
    <2>3. ASSUME NEW q \in Lists, q \in Kids(Step(m)), q # l
          PROVE  ph'[q] = ph[q] /\ rf'.sub[q] = rf.sub[q]
        <3>1. q \notin Kids(Step(l))
            BY <1>0, <1>5, <2>1, <2>3, OneParent DEF Shape
        <3>2. QED
            BY <2>3, <3>1 DEF ListMove, KidMove, Same, Kids
    <2>4. ASSUME l \in Kids(Step(m))
          PROVE  \/ l \in PartsOf(Step(m)) /\ ph[m] = "wait" /\ rf'.sub[l] = "running"
                 \/ l = ElseOf(Step(m)) /\ ph[m] = "else"
        BY <1>0, <2>1, <2>4, Parent DEF Shape, Works, ListMove
    <2>5. l \in PartsOf(Step(m)) => l # ElseOf(Step(m))
        BY <2>2, KidFacts DEF Kids
    <2>6. ASSUME ph'[m] # "else", HasElse(Step(m)) PROVE ph'[ElseOf(Step(m))] = "off"
        <3>1. ph[ElseOf(Step(m))] = "off" /\ ElseOf(Step(m)) \in Lists
            BY <2>1, <2>2, <2>6 DEF Shape, StepOff, HasElse
        <3>2. ElseOf(Step(m)) # l
            BY <1>0, <3>1 DEF Busy
        <3>3. QED
            BY <2>3, <3>1, <3>2 DEF Kids
    <2>7. ASSUME NEW q \in PartsOf(Step(m))
          PROVE  /\ ph'[m] \in {"run", "out"} => ph'[q] = "off" \/ (Kind[Step(m)] = "loop" /\ rf'.sub[q] \in {"done", "failed"})
                 /\ ph'[m] = "wait" /\ Kind[Step(m)] = "loop" => ph'[q] = "off" \/ rf'.sub[q] \in {"running", "done", "failed"}
        <3>1. RoundsOff(m) /\ q \in Lists
            BY <2>1, <2>2, <2>7 DEF Shape, StepOff
        <3>2. CASE q = l
            BY <2>2, <2>4, <2>5, <2>7, <3>2 DEF Kids
        <3>3. CASE q # l
            BY <2>2, <2>3, <2>7, <3>1, <3>3 DEF Kids, RoundsOff
        <3>4. QED
            BY <3>2, <3>3
    <2>8. QED
        BY <2>2, <2>6, <2>7
<1>6. QED
    BY <1>3, <1>4, <1>5
----------------------------------------------------------------------------
(* When the first list has ended nothing works: a list that works has a    *)
(* shorter one that waits for it.                                          *)
LEMMA Quiet ==
    ASSUME Shape, PartRunning, ph[top] \in Ended
    PROVE  /\ Busy = {}
           /\ \A s \in Steps : rf.st[s] = "running" => HomeOf(s) \in died
           /\ \A q \in Lists : rf.sub[q] = "running" => q \in died
<1>1. Busy = {}
    <2>1. SUFFICES ASSUME Busy # {} PROVE FALSE
        OBVIOUS
    <2> DEFINE lens == {Len(q) : q \in Busy}
    <2>a. \A q \in Busy : Len(q) \in Nat
        BY ListsArePaths, LenProperties DEF Busy
    <2>2. lens \subseteq Nat /\ lens # {}
        BY <2>1, <2>a
    <2> HIDE DEF lens
    <2>3. PICK n \in lens : \A k \in lens : ~(<<k, n>> \in OpToRel(<, Nat))
        BY <2>2, NatLessThanWellFounded, WFMin
    <2>4. \A k \in lens : ~(k < n)
        BY <2>2, <2>3 DEF OpToRel
    <2>5. PICK q \in Busy : n = Len(q)
        BY DEF lens
    <2>6. PICK m \in Busy : q \in Kids(Step(m))
        BY DEF Shape, Nested, Busy, Kids
    <2>7. Len(m) \in lens /\ Len(m) < Len(q)
        BY <2>5, <2>6, AtStep DEF lens, Shape
    <2>8. QED
        BY <2>4, <2>5, <2>7
<1>2. ASSUME NEW q \in Lists, rf.sub[q] = "running" PROVE q \in died
    <2>1. ~Works(q)
        BY <1>1 DEF Shape, Collected
    <2>2. QED
        BY <1>2, <2>1 DEF PartRunning, Works
<1>3. ASSUME NEW s \in Steps, rf.st[s] = "running" PROVE HomeOf(s) \in died
    <2>1. PICK l \in Lists : \E k \in DOMAIN Body[l] : s = StepAt(l, k)
        BY StepHasPlace
    <2>2. PICK k \in DOMAIN Body[l] : s = StepAt(l, k)
        BY <2>1
    <2>3. l \notin Busy
        BY <1>1
    <2>4. HomeOf(s) = l
        BY <2>2, StepFacts
    <2>5. QED
        BY <1>3, <2>2, <2>3, <2>4 DEF Shape, StepRunning, Inside, Busy, Ended
<1>4. QED
    BY <1>1, <1>2, <1>3

----------------------------------------------------------------------------
(* The disk.                                                               *)

LEMMA FailSaves ==
    ASSUME NEW l, NEW f, NEW why, Fail(l, f, why)
    PROVE  saved' \in {saved, rf'}
BY FailKinds DEF FailsWith, Save

LEMMA DiskFollows ==
    ASSUME NEW l, Acts(l) \/ PartStep(l) \/ Panics(l)
    PROVE  saved' \in {saved, rf'}
<1> USE DEF Save, Edit
<1>1. CASE PartStep(l) \/ Panics(l)
    BY <1>1 DEF PartStep, ItemEnds, BranchEnds, Panics
<1>2. CASE NextStep(l) \/ HeldIsCut(l) \/ BeginCut(l) \/ Restore(l) \/ When(l) \/ Begin(l) \/ ElseEnds(l)
    BY <1>2, FailSaves DEF NextStep, HeldIsCut, BeginCut, Restore, When, Begin, ElseEnds
<1>3. CASE Work(l) \/ WriteAsks(l) \/ WriteGoesOut(l)
    BY <1>3, FailSaves DEF Work, WriteAsks, WriteGoesOut, Done, GivesUp
<1>4. CASE EachStarts(l) \/ ItemStarts(l) \/ EachEnds(l)
    BY <1>4, FailSaves DEF EachStarts, ItemStarts, EachEnds, Done
<1>5. CASE RoundStarts(l) \/ RoundEnds(l) \/ LoopPasses(l)
    BY <1>5, FailSaves DEF RoundStarts, RoundEnds, LoopPasses, TryFails, Done
<1>6. CASE BranchesStart(l) \/ BranchesJoin(l) \/ StaysTimedOut(l) \/ Unwinds(l)
    BY <1>6, FailSaves DEF BranchesStart, BranchesJoin, TryFails, StaysTimedOut, Unwinds, Done
<1>7. QED
    BY <1>1, <1>2, <1>3, <1>4, <1>5, <1>6 DEF Acts

\* A retry whose first save failed does nothing but stop.
LEMMA StalledStays ==
    ASSUME Shape, Stalled, NEW l \in Lists, Acts(l) \/ PartStep(l) \/ Panics(l)
    PROVE  Stalled' /\ rf' = rf
<1>1. ~PartStep(l)
    BY DEF PartStep, ItemEnds, BranchEnds, Shape, Collected, Stalled, Busy
<1>2. CASE Acts(l)
    <2>1. NextStep(l)
        BY <1>2 DEF Acts, Stalled, HeldIsCut, BeginCut, Restore, When, Begin, ElseEnds, Work, WriteAsks,
                    WriteGoesOut, EachStarts, ItemStarts, EachEnds, RoundStarts, RoundEnds, LoopPasses,
                    BranchesStart, BranchesJoin, StaysTimedOut, Unwinds
    <2>2. QED
        BY <2>1 DEF NextStep, Stalled, Return, Goto, Shape, ProcOK
<1>3. CASE Panics(l)
    BY <1>3 DEF Panics, Stalled, Return, Goto, Shape, ProcOK
<1>4. QED
    BY <1>1, <1>2, <1>3

LEMMA KeptMove ==
    ASSUME Shape, Kept, NEW l \in Lists, Acts(l) \/ PartStep(l) \/ Panics(l), resume' = resume,
           NEW m \in Lists, ListMove(m)
    PROVE  Kept'
<1>1. CASE ~resume
    BY <1>1 DEF Kept
<1>2. CASE Stalled
    BY <1>2, StalledStays DEF Kept
<1>3. CASE \A s \in Steps : saved.st[s] \in Finished => rf.st[s] \in Finished
    <2>1. \A s \in Steps : rf.st[s] \in Finished => rf'.st[s] \in Finished
        BY DEF ListMove, StepIs
    <2>2. QED
        BY <1>3, <2>1, DiskFollows DEF Kept
<1>4. QED
    BY <1>1, <1>2, <1>3 DEF Kept

\* What leaves the machine, and the rest.
LEMMA OutsideMove ==
    ASSUME Shape, Sent, NEW l \in Lists, Acts(l) \/ PartStep(l) \/ Panics(l)
    PROVE  /\ RestOK' /\ Sent' /\ mine \subseteq mine'
           /\ top' = top /\ resume' = resume
<1>1. CASE UNCHANGED Rest
    <2>1. UNCHANGED <<top, resume, outside>>
        BY <1>1 DEF Rest
    <2>2. QED
        BY <1>1, <2>1, RestStays DEF Shape, Sent, outside
<1>2. CASE WriteGoesOut(l)
    <2>0. Step(l) \in Steps /\ Kind[Step(l)] = "write" /\ UNCHANGED <<top, resume, starts, control>>
        BY <1>2, AtStep DEF WriteGoesOut, Shape, KindsAt, Busy, Ended
    <2>1. CASE UNCHANGED outside
        BY <2>0, <2>1 DEF Shape, RestOK, Sent, outside, control
    <2>2. CASE Ledger!Arrive(Key(Step(l))) /\ mine' = mine \cup {Step(l)}
        <3>1. there' = there \cup {Key(Step(l))} /\ known' = known /\ Key(Step(l)) \in Keys
            BY <2>0, <2>2 DEF Ledger!Arrive, Keys
        <3>2. RestOK'
            BY <2>0, <2>2, <3>1 DEF Shape, RestOK, control
        <3>3. Sent'
            BY <2>0, <2>2, <3>1 DEF Sent
        <3>4. QED
            BY <2>0, <2>2, <3>2, <3>3
    <2>3. QED
        BY <1>2, <2>1, <2>2 DEF WriteGoesOut
<1>3. CASE Panics(l) \/ Unwinds(l)
    <2>1. UNCHANGED <<top, resume, starts, held, holds, user, late, outside>> /\ died' = died \cup {l}
        BY <1>3 DEF Panics, Unwinds
    <2>2. QED
        BY <2>1 DEF Shape, RestOK, Sent, outside
<1>4. QED
    BY <1>1, <1>2, <1>3 DEF Acts, PartStep, NextStep, HeldIsCut, BeginCut, Restore, When, Begin, ElseEnds, Work,
       WriteAsks, EachStarts, ItemStarts, EachEnds, RoundStarts, RoundEnds, LoopPasses, BranchesStart,
       BranchesJoin, StaysTimedOut, ItemEnds, BranchEnds

LEMMA OverMove ==
    ASSUME Shape, PartRunning, Over, NEW l \in Lists, ListMove(l), top' = top
    PROVE  Over'
<1>1. rf'.run = rf.run /\ l \in Busy
    BY DEF ListMove, StepIs
<1>2. rf.run = "running"
    BY <1>1, Quiet DEF Over
<1>3. QED
    BY <1>1, <1>2 DEF Over

----------------------------------------------------------------------------
(* Every step keeps the invariant.                                         *)

LEMMA InvGivesShape == ASSUME IInv PROVE Shape
BY TypeParts DEF IInv, Shape, Sound

LEMMA ListKeepsInv ==
    ASSUME IInv, NEW l \in Lists, Acts(l) \/ PartStep(l) \/ Panics(l)
    PROVE  IInv'
<1>1. Shape
    BY InvGivesShape
<1>2. PICK m \in Lists : ListMove(m)
    BY <1>1, ListMoves, PartMoves, PanicMoves
<1>3. RestOK' /\ Sent' /\ top' = top /\ resume' = resume /\ died \subseteq died'
    BY <1>1, OutsideMove, DiedGrows DEF IInv
<1>4. TypeOK'
    BY <1>1, <1>3, ListType, PartStepType, PanicType, TypePartsNext DEF Shape
<1>5. Counted' /\ Nested' /\ Collected' /\ OneRound' /\ KindsAt' /\ HasTries'
    BY <1>1, <1>2, <1>3, CountedMove, NestedMove, CollectedMove, OneRoundMove, KindsMove, HasTriesMove DEF IInv, Shape
<1>6. StepRunning' /\ PartRunning'
    BY <1>1, <1>2, <1>3, StepRunningMove, PartRunningMove DEF IInv
<1>7. Before' /\ OkIsDone' /\ Over'
    BY <1>1, <1>2, <1>3, BeforeMove, OkIsDoneMove, OverMove DEF IInv
<1>8. Sound(rf')
    BY <1>1, <1>2, OrderedMove, PartsDoneMove, PartsOnlyMove DEF IInv, Sound
<1>9. Sound(saved')
    BY <1>8, DiskFollows DEF IInv
<1>10. KidsOff' /\ StepOff' /\ PartsOff'
    BY <1>1, <1>2, KidsOffMove, StepOffMove, PartsOffMove
<1>11. Fresh' /\ Kept'
    BY <1>1, <1>2, <1>3, FreshMove, KeptMove DEF IInv
<1>12. QED
    BY <1>3, <1>4, <1>5, <1>6, <1>7, <1>8, <1>9, <1>10, <1>11 DEF IInv, Sound, Ordered, PartsDone, PartsOnly

\* The user, the clock and the end of the run touch no step and no list, but
\* for those that Continue lets go on.
LEMMA QuietStepKeepsInv ==
    ASSUME IInv, TypeOK', Over', UNCHANGED <<at, tries, top, resume, died, outside>>,
           \A q \in Lists : ph'[q] = ph[q] \/ (ph[q] = "held" /\ ph'[q] = "begin"),
           rf'.st = rf.st, rf'.sub = rf.sub, saved' \in {saved, rf'}, saveErr => saveErr'
    PROVE  IInv'
<1> USE DEF IInv
<1>1. Busy' = Busy /\ \A q \in Lists : Step(q)' = Step(q) /\ at'[q] = at[q]
    BY DEF Busy, Ended, Step, StepAt
<1>2. \A q \in Lists : ph'[q] # ph[q] => ph[q] = "held" /\ ph'[q] = "begin"
    OBVIOUS
<1>a. \A q \in Lists : \A k \in DOMAIN Body[q] : NotYet(q, k)' => NotYet(q, k)
    BY <1>1, <1>2 DEF NotYet, Ahead
<1>b. \A q \in Lists : ph[q] = "off" => ph'[q] = "off"
    BY <1>2
<1>c. \A s \in Steps : PartsOf(s) \subseteq Lists
    BY FileAssumption
<1>3. Counted' /\ Before'
    BY <1>1 DEF Counted, Before, StepAt
<1>4. Nested' /\ Collected' /\ OneRound' /\ PartRunning'
    <2>1. Nested'
        BY <1>1, <1>2 DEF Nested, Works, Busy
    <2>2. Collected'
        BY <1>1, <1>2 DEF Collected, Works, Busy
    <2>3. OneRound'
        BY <1>2, <1>c DEF OneRound, Taken, Serial, PartsOf, Part
    <2>4. PartRunning'
        BY <1>2 DEF PartRunning
    <2>5. QED
        BY <2>1, <2>2, <2>3, <2>4
<1>5. KindsAt' /\ HasTries' /\ StepRunning' /\ OkIsDone'
    BY <1>1, <1>2 DEF KindsAt, HasTries, StepRunning, OkIsDone, Inside, StepAt, StepsIn
<1>6. Sound(rf') /\ Sound(saved')
    BY DEF Sound, Ordered, PartsDone, PartsOnly
<1>7. KidsOff' /\ Fresh'
    <2>1. KidsOff'
        BY <1>a, <1>b DEF KidsOff, StepAt, Kids, PartsOf, Part, ElseOf
    <2>2. Fresh'
        BY <1>a, StepFacts DEF Fresh, StepAt
    <2>3. QED
        BY <2>1, <2>2
<1>8. StepOff' /\ PartsOff'
    <2>1. PartsOff'
        BY <1>2, <1>c DEF PartsOff, PartsOf, Part
    <2>2. ASSUME NEW q \in Busy
          PROVE  /\ ph'[q] # "else" /\ HasElse(Step(q)) => ph'[ElseOf(Step(q))] = "off"
                 /\ ph'[q] \in {"run", "out"} => \A r \in PartsOf(Step(q)) :
                       ph'[r] = "off" \/ (Kind[Step(q)] = "loop" /\ rf'.sub[r] \in {"done", "failed"})
                 /\ ph'[q] = "wait" /\ Kind[Step(q)] = "loop" => \A r \in PartsOf(Step(q)) :
                       ph'[r] = "off" \/ rf'.sub[r] \in {"running", "done", "failed"}
        <3>1. q \in Lists /\ PartsOf(Step(q)) \subseteq Lists
            BY <1>c, AtStep
        <3>2. RoundsOff(q) /\ (ph[q] # "else" /\ HasElse(Step(q)) => ph[ElseOf(Step(q))] = "off")
            BY DEF StepOff
        <3>3. QED
            BY <1>2, <1>b, <3>1, <3>2 DEF RoundsOff, HasElse
    <2>3. StepOff'
        BY <1>1, <2>2 DEF StepOff, RoundsOff, HasElse, ElseOf, PartsOf, Part, Busy
    <2>4. QED
        BY <2>1, <2>3
<1>9. Kept' /\ Sent'
    <2>1. Kept'
        BY <1>2 DEF Kept, Stalled
    <2>2. QED
        BY <2>1 DEF Sent, outside
<1>10. QED
    BY <1>3, <1>4, <1>5, <1>6, <1>7, <1>8, <1>9 DEF Sound, Ordered, PartsDone, PartsOnly

LEMMA RunEndsKeepsInv == ASSUME IInv, RunEnds PROVE IInv'
<1>1. PICK x \in {"ok", "cancelled", "paused", "failed"} :
        Save([rf EXCEPT !.run = x]) /\ (x = "ok" => ph[top] = "ok")
    BY DEF RunEnds
<1>2. rf' = [rf EXCEPT !.run = x] /\ UNCHANGED <<top, resume, starts, proc, holds, user, late, died, outside>>
    BY <1>1 DEF RunEnds, Save
<1>3. [rf EXCEPT !.run = x] \in Files
    BY DEF IInv, TypeOK, Files, RunStates
<1>4. FilesOK'
    BY <1>1, <1>3, SaveType, TypeParts DEF IInv
<1>5. TypeOK' /\ rf'.run = x /\ rf'.st = rf.st /\ rf'.sub = rf.sub
    BY <1>2, <1>4 DEF IInv, TypeOK, FilesOK, Files, RunEnds, proc, outside
<1>6. Over'
    BY <1>1, <1>2, <1>5 DEF RunEnds, Over, proc
<1>7. QED
    BY <1>1, <1>2, <1>5, <1>6, QuietStepKeepsInv DEF Save, proc

LEMMA UserKeepsInv == ASSUME IInv, Pause \/ Continue \/ Cancel \/ TimeIsUp \/ UNCHANGED vars PROVE IInv'
<1>1. CASE Pause \/ Continue
    <2>1. Save(rf)
        BY <1>1 DEF Pause, Continue
    <2>2. FilesOK'
        BY <2>1, SaveType, TypeParts DEF IInv, FilesOK
    <2>3. ph' \in [Lists -> Phases \cup Ended]
        BY <1>1 DEF IInv, TypeOK, Pause, Continue, proc, Phases
    <2>a. FilesOK /\ ProcOK /\ RestOK
        BY TypeParts DEF IInv
    <2>b. ProcOK'
        BY <1>1, <2>3, <2>a DEF ProcOK, Pause, Continue, proc
    <2>c. RestOK'
        <3>1. CASE Pause
            <4>1. holds + 1 \in 0..MaxHolds
                BY <2>a, <3>1, FileAssumption DEF RestOK, Pause
            <4>2. QED
                BY <2>a, <3>1, <4>1 DEF RestOK, Pause, outside
        <3>2. CASE Continue
            BY <2>a, <3>2 DEF RestOK, Continue, outside
        <3>3. QED
            BY <1>1, <3>1, <3>2
    <2>4. TypeOK'
        BY <2>2, <2>b, <2>c, TypePartsNext
    <2>5. Over'
        BY <1>1, <2>1 DEF Over, Save, Pause, Continue
    <2>6. QED
        BY <1>1, <2>1, <2>4, <2>5, QuietStepKeepsInv DEF Save, Pause, Continue, proc
<1>2. CASE Cancel \/ TimeIsUp \/ UNCHANGED vars
    <2>1. UNCHANGED <<top, rf, saved, saveErr, resume, starts, proc, holds, died, outside>>
        BY <1>2 DEF Cancel, TimeIsUp, vars, control
    <2>2. late' \subseteq Lists
        <3>1. CASE TimeIsUp
            <4>1. \A l \in Lists : ph[l] \in {"run", "wait"} => PartsOf(Step(l)) \subseteq Lists
                BY AtStep, FileAssumption DEF IInv, Busy, Ended
            <4>2. \A S \in Clocks : S \subseteq Lists
                BY <4>1, FileAssumption DEF Clocks, IInv, TypeOK
            <4>3. QED
                BY <3>1, <4>2 DEF TimeIsUp, IInv, TypeOK
        <3>2. CASE late' = late
            BY <3>2 DEF IInv, TypeOK
        <3>3. QED
            BY <1>2, <3>1, <3>2 DEF Cancel, vars, control
    <2>3. held' \in BOOLEAN /\ user' \in BOOLEAN
        BY <1>2 DEF IInv, TypeOK, Cancel, TimeIsUp, vars, control
    <2>4. TypeOK' /\ Over'
        BY <2>1, <2>2, <2>3 DEF IInv, TypeOK, Over, proc, outside
    <2>5. QED
        BY <2>1, <2>4, QuietStepKeepsInv DEF proc
<1>3. QED
    BY <1>1, <1>2

LEMMA InitInv == ASSUME Init PROVE IInv
<1>1. top \in Lists /\ 1 \in 1..MaxStarts /\ 0 \in 0..MaxHolds /\ 0 \in 0..MaxTries
    BY FileAssumption DEF Init
<1>2. /\ rf = NewFile /\ saved = NewFile /\ rf \in Files
      /\ \A s \in Steps : rf.st[s] = "none"
      /\ \A q \in Lists : rf.sub[q] = "none"
    BY DEF Init, NewFile, Files, RunStates, StepStates
<1>3. TypeOK
    BY <1>1, <1>2 DEF Init, TypeOK, Phases, Ledger!ContractInit
<1>4. Busy = {top} /\ \A q \in Lists : ph[q] \in {"off", "next"} /\ at[q] = 1
    BY <1>1 DEF Busy, Init, Ended
<1>5. 1 \in DOMAIN Body[top]
    <2>1. Body[top] \in Seq(STRING) /\ Body[top] # <<>>
        BY <1>1, FileAssumption
    <2>2. Len(Body[top]) \in Nat \ {0} /\ DOMAIN Body[top] = 1..Len(Body[top])
        BY <2>1, EmptySeq, LenProperties
    <2>3. QED
        BY <2>2
<1>6. \A q \in Lists : \A k \in DOMAIN Body[q] : k \in Nat /\ k >= 1 /\ rf.st[StepAt(q, k)] = "none"
    <2> TAKE q \in Lists
    <2> TAKE k \in DOMAIN Body[q]
    <2>1. k \in 1..Len(Body[q])
        BY FileAssumption, LenProperties
    <2>2. QED
        BY <1>2, <2>1, StepFacts
<1>7. Counted /\ Nested /\ Collected /\ OneRound /\ KindsAt /\ HasTries /\ StepRunning /\ PartRunning
    <2>1. Counted /\ Nested
        BY <1>1, <1>4, <1>5 DEF Counted, Nested
    <2>2. Collected /\ OneRound /\ PartRunning
        BY <1>2, FileAssumption DEF Collected, OneRound, Works, Taken, PartRunning
    <2>3. KindsAt /\ HasTries /\ StepRunning
        BY <1>4, <1>6 DEF KindsAt, HasTries, StepRunning, Inside
    <2>4. QED
        BY <2>1, <2>2, <2>3
<1>8. Before /\ OkIsDone /\ Over
    BY <1>2, <1>4, <1>6 DEF Before, OkIsDone, Over, NewFile, Busy
<1>9. Sound(rf) /\ Sound(saved)
    BY <1>2, <1>6 DEF Sound, Ordered, PartsDone, PartsOnly
<1>10. Fresh
    BY <1>6 DEF Fresh
<1>11. \A s \in Steps : \A q \in Kids(s) : q \in Lists => ph[q] = "off"
    <2> TAKE s \in Steps
    <2> TAKE q \in Kids(s)
    <2>1. q # top
        BY KidFacts DEF Init
    <2>2. QED
        BY <2>1 DEF Init
<1>12. KidsOff /\ StepOff /\ PartsOff
    <2>1. \A s \in Steps : PartsOf(s) \subseteq Lists
        BY FileAssumption
    <2>2. KidsOff /\ PartsOff
        BY <1>11, <2>1, StepFacts DEF KidsOff, PartsOff, Kids
    <2>3. Step(top) \in Steps
        BY <1>4, <1>7, AtStep
    <2>4. StepOff
        BY <1>1, <1>4, <1>11, <2>3 DEF StepOff, RoundsOff, HasElse, Kids, Init
    <2>5. QED
        BY <2>2, <2>4
<1>13. Kept /\ Sent
    BY <1>2 DEF Kept, Sent, Init, Ledger!ContractInit
<1>14. QED
    BY <1>3, <1>7, <1>8, <1>9, <1>10, <1>12, <1>13 DEF IInv

\* A start from a sound run file in which only what has panicked is running.
LEMMA StartKeepsInv ==
    ASSUME IInv, NEW f \in Files, Sound(f), StartFrom(f),
           \A s \in Steps : f.st[s] = "running" => HomeOf(s) \in died,
           \A q \in Lists : f.sub[q] = "running" => q \in died
    PROVE  IInv'
<1>1. FilesOK /\ ProcOK /\ RestOK /\ top \in Lists
    BY TypeParts, FileAssumption DEF IInv, RestOK
<1>2. /\ rf' = [f EXCEPT !.run = "running"] /\ rf' \in Files
      /\ rf'.run = "running" /\ rf'.st = f.st /\ rf'.sub = f.sub
    BY DEF StartFrom, Files, RunStates
<1>3. /\ top' = top /\ resume' = TRUE /\ died' = died /\ UNCHANGED outside
      /\ at' = [l \in Lists |-> 1] /\ tries' = [l \in Lists |-> 0]
      /\ ph' = [l \in Lists |-> IF l = top THEN "next" ELSE "off"]
      /\ saved' = rf' \/ (saved' = saved /\ saveErr' = TRUE)
    BY DEF StartFrom
<1>4. TypeOK'
    <2>1. FilesOK'
        BY <1>1, <1>2 DEF StartFrom, FilesOK
    <2>2. ProcOK'
        BY <1>3, FileAssumption DEF ProcOK, Phases
    <2>3. starts + 1 \in 1..MaxStarts
        BY <1>1, FileAssumption DEF StartFrom, RestOK
    <2>4. RestOK'
        BY <1>1, <1>3, <2>3 DEF StartFrom, RestOK, outside
    <2>5. QED
        BY <2>1, <2>2, <2>4, TypePartsNext
<1>5. /\ Busy' = {top} /\ at'[top] = 1
      /\ \A q \in Lists : ph'[q] \in {"off", "next"} /\ at'[q] = 1
    BY <1>1, <1>3 DEF Busy, Ended
<1>6. 1 \in DOMAIN Body[top]
    <2>1. Body[top] \in Seq(STRING) /\ Body[top] # <<>>
        BY <1>1, FileAssumption
    <2>2. Len(Body[top]) \in Nat \ {0} /\ DOMAIN Body[top] = 1..Len(Body[top])
        BY <2>1, EmptySeq, LenProperties
    <2>3. QED
        BY <2>2
<1>7. \A q \in Lists : \A k \in DOMAIN Body[q] : ~(k < 1) /\ (rf'.st[StepAt(q, k)] = "running" => q \in died')
    <2> TAKE q \in Lists
    <2> TAKE k \in DOMAIN Body[q]
    <2>1. k \in 1..Len(Body[q])
        BY FileAssumption, LenProperties
    <2>2. QED
        BY <1>2, <1>3, <2>1, StepFacts
<1>a. \A s \in Steps : \A q \in Kids(s) : q \in Lists => ph'[q] = "off"
    BY <1>1, <1>3, KidFacts DEF RestOK
<1>b. \A s \in Steps : PartsOf(s) \subseteq Lists
    BY FileAssumption
<1>c. \A q \in Lists : ~Works(q)'
    BY <1>2, <1>3, <1>a DEF Works, Kids, Sound, PartsOnly
<1>8. Counted' /\ Nested' /\ Collected' /\ OneRound' /\ KindsAt' /\ HasTries' /\ StepRunning' /\ PartRunning'
    <2>1. Counted' /\ Nested' /\ KindsAt' /\ HasTries'
        BY <1>3, <1>5, <1>6 DEF Counted, Nested, KindsAt, HasTries
    <2>2. Collected' /\ OneRound'
        BY <1>a, <1>b, <1>c DEF Collected, OneRound, Taken, Kids, PartsOf, Part, Serial
    <2>3. StepRunning' /\ PartRunning'
        BY <1>2, <1>3, <1>5, <1>7 DEF StepRunning, PartRunning, Inside, StepAt
    <2>4. QED
        BY <2>1, <2>2, <2>3
<1>9. Before' /\ OkIsDone' /\ Over'
    <2>1. Before'
        BY <1>1, <1>5, <1>7 DEF Before, StepAt
    <2>2. OkIsDone' /\ Over'
        BY <1>2, <1>5 DEF OkIsDone, Over
    <2>3. QED
        BY <2>1, <2>2
<1>10. Sound(rf') /\ Sound(saved')
    <2>1. Sound(rf')
        BY <1>2 DEF Sound, Ordered, PartsDone, PartsOnly
    <2>2. QED
        BY <1>3, <2>1 DEF IInv
<1>11. KidsOff' /\ StepOff' /\ PartsOff'
    <2>1. KidsOff'
        BY <1>a, StepFacts DEF KidsOff, Kids, PartsOf, Part, ElseOf, StepAt
    <2>2. PartsOff'
        BY <1>a, <1>b DEF PartsOff, Kids, PartsOf, Part
    <2>3. ph'[top] = "next" /\ StepAt(top, 1) \in Steps
        BY <1>1, <1>3, <1>6, StepFacts
    <2>4. HasElse(StepAt(top, 1)) => ph'[ElseOf(StepAt(top, 1))] = "off"
        BY <1>a, <2>3 DEF Kids, HasElse
    <2>5. StepOff'
        BY <1>3, <1>5, <2>3, <2>4 DEF StepOff, RoundsOff, HasElse, ElseOf, Step, StepAt
    <2>6. QED
        BY <2>1, <2>2, <2>5
<1>12. Fresh' /\ Kept' /\ Sent'
    <2>1. Kept'
        BY <1>3, <1>5 DEF Kept, Stalled
    <2>2. QED
        BY <1>3, <2>1 DEF Fresh, IInv, Sent, outside
<1>13. QED
    BY <1>4, <1>8, <1>9, <1>10, <1>11, <1>12 DEF IInv, Sound, Ordered, PartsDone, PartsOnly

LEMMA RestartKeepsInv == ASSUME IInv, Restart PROVE IInv'
<1> DEFINE f == Recovered(saved)
<1>1. saved \in Files /\ Sound(saved) /\ StartFrom(f)
    BY DEF IInv, TypeOK, Restart
<1>2. /\ f \in Files
      /\ \A s \in Steps : f.st[s] = IF saved.st[s] = "running" THEN "interrupted" ELSE saved.st[s]
      /\ \A q \in Lists : f.sub[q] = IF saved.sub[q] = "running" THEN "interrupted" ELSE saved.sub[q]
    BY <1>1 DEF Recovered, Files, StepStates
<1> HIDE DEF f
<1>3. Ordered(f)
    <2>1. SUFFICES ASSUME NEW l \in Lists, NEW j \in DOMAIN Body[l], NEW k \in DOMAIN Body[l], j < k,
                          f.st[StepAt(l, k)] \notin {"none", "pending"}
                   PROVE  f.st[StepAt(l, j)] \in Finished
        BY DEF Ordered
    <2>2. StepAt(l, j) \in Steps /\ StepAt(l, k) \in Steps
        BY StepFacts
    <2>3. saved.st[StepAt(l, j)] \in Finished
        BY <1>1, <1>2, <2>1, <2>2 DEF Sound, Ordered
    <2>4. QED
        BY <1>2, <2>2, <2>3 DEF Finished
<1>4. PartsDone(f) /\ PartsOnly(f)
    BY <1>1, <1>2 DEF Sound, PartsDone, PartsOnly, Finished, Steps
<1>5. QED
    BY <1>1, <1>2, <1>3, <1>4, StartKeepsInv DEF Sound

----------------------------------------------------------------------------
(* The next try of a loop or a branch.                                     *)

LEMMA PrefixPoints ==
    ASSUME NEW s \in Seq(Names), NEW t \in Seq(Names)
    PROVE  IsPrefix(s, t) <=> Len(s) <= Len(t) /\ \A i \in 1..Len(s) : s[i] = t[i]
<1>1. Len(s) \in Nat /\ Len(t) \in Nat
    BY LenProperties
<1>2. SUFFICES ASSUME Len(s) <= Len(t)
               PROVE  SubSeq(s, 1, Len(s)) = SubSeq(t, 1, Len(s)) <=> \A i \in 1..Len(s) : s[i] = t[i]
    BY DEF IsPrefix
<1> DEFINE a == SubSeq(s, 1, Len(s))
           b == SubSeq(t, 1, Len(s))
<1>3. \A i \in 1..Len(s) : s[i] \in Names /\ t[i] \in Names
    BY <1>1, <1>2, ElementOfSeq
<1>4. a \in Seq(Names) /\ Len(a) = Len(s) /\ \A i \in 1..Len(s) : a[i] = s[i]
    BY <1>1, <1>3, SubSeqProperties
<1>5. b \in Seq(Names) /\ Len(b) = Len(s) /\ \A i \in 1..Len(s) : b[i] = t[i]
    BY <1>1, <1>3, SubSeqProperties
<1> HIDE DEF a, b
<1>6. (\A i \in 1..Len(s) : s[i] = t[i]) => a = b
    BY <1>4, <1>5, SeqEqual
<1>7. a = b => \A i \in 1..Len(s) : s[i] = t[i]
    BY <1>4, <1>5
<1>8. QED
    BY <1>6, <1>7 DEF a, b

LEMMA PrefixFacts ==
    ASSUME NEW l \in Seq(Names), NEW x \in Names
    PROVE  /\ IsPrefix(l, l) /\ IsPrefix(l, Append(l, x))
           /\ \A s \in Seq(Names) : IsPrefix(s, Append(l, x)) <=> IsPrefix(s, l) \/ s = Append(l, x)
<1> DEFINE a == Append(l, x)
<1>1. Len(l) \in Nat /\ a \in Seq(Names) /\ Len(a) = Len(l) + 1 /\ \A i \in 1..Len(l) : a[i] = l[i]
    BY AppendProperties, LenProperties
<1> HIDE DEF a
<1>2. IsPrefix(l, l) /\ IsPrefix(l, a) /\ IsPrefix(a, a)
    BY <1>1, PrefixPoints
<1>3. ASSUME NEW s \in Seq(Names), IsPrefix(s, a), s # a PROVE IsPrefix(s, l)
    <2>1. Len(s) \in Nat /\ Len(s) <= Len(a) /\ \A i \in 1..Len(s) : s[i] = a[i]
        BY <1>1, <1>3, PrefixPoints, LenProperties
    <2>2. Len(s) # Len(a)
        BY <1>1, <1>3, <2>1, SeqEqual
    <2>3. Len(s) <= Len(l) /\ \A i \in 1..Len(s) : s[i] = l[i]
        BY <1>1, <2>1, <2>2
    <2>4. QED
        BY <2>3, PrefixPoints
<1>4. ASSUME NEW s \in Seq(Names), IsPrefix(s, l) PROVE IsPrefix(s, a)
    <2>1. Len(s) \in Nat /\ Len(s) <= Len(l) /\ \A i \in 1..Len(s) : s[i] = l[i]
        BY <1>4, PrefixPoints, LenProperties
    <2>2. Len(s) <= Len(a) /\ \A i \in 1..Len(s) : s[i] = a[i]
        BY <1>1, <2>1
    <2>3. QED
        BY <1>1, <2>2, PrefixPoints
<1>5. QED
    BY <1>2, <1>3, <1>4 DEF a

(* What is before a step is before its list, or is the step.               *)
LEMMA BeforeStep ==
    ASSUME NEW l \in Lists, NEW k \in DOMAIN Body[l], NEW u \in Steps
    PROVE  /\ IsPrefix(u, StepAt(l, k)) <=> IsPrefix(u, l) \/ u = StepAt(l, k)
           /\ IsPrefix(ElseOf(u), StepAt(l, k)) <=> IsPrefix(ElseOf(u), l)
<1>1. l \in Seq(Names) /\ Body[l][k] \in Names /\ u \in Seq(Names) /\ "else" \in Names
    BY FileAssumption, ListsArePaths, StepHasPlace, StepFacts DEF Names
<1>2. ElseOf(u) \in Seq(Names)
    BY <1>1, PathFacts DEF ElseOf
<1>3. ElseOf(u) # StepAt(l, k)
    <2>1. u # l
        BY FileAssumption
    <2>2. QED
        BY <1>1, <2>1, AppendInjective DEF ElseOf, StepAt
<1>4. QED
    BY <1>1, <1>2, <1>3, PrefixFacts DEF StepAt

(* What is before a part is before its step, or is the step.               *)
LEMMA BeforePart ==
    ASSUME NEW s \in Steps, NEW i \in PartsOf(s), NEW u \in Steps
    PROVE  /\ IsPrefix(s, i) /\ IsPrefix(s, s)
           /\ IsPrefix(ElseOf(u), i) => IsPrefix(ElseOf(u), s)
<1>1. s \in Seq(Names) /\ u \in Seq(Names) /\ "else" \in Names
    BY StepHasPlace, StepFacts DEF Names
<1>2. PICK x \in Names : i = Append(s, x)
    <2>1. Parts[s] \in Seq(STRING \ {"else"})
        BY FileAssumption
    <2>2. \A k \in DOMAIN Parts[s] : Parts[s][k] \in Names
        BY <2>1 DEF Names
    <2>3. QED
        BY <2>2 DEF PartsOf, Part
<1>3. ElseOf(u) \in Seq(Names) /\ ElseOf(u) # i
    BY <1>1, PathFacts, KidFacts DEF ElseOf, Kids
<1>4. QED
    BY <1>1, <1>2, <1>3, PrefixFacts

(* What is inside the parts of a step.                                     *)
In(s, x) == \E i \in PartsOf(s) : IsPrefix(i, x)

LEMMA InsideFacts ==
    ASSUME NEW s \in Steps
    PROVE  /\ \A x \in Seq(Names) : In(s, x) => Len(x) > Len(s)
           /\ \A q \in Lists : \A k \in DOMAIN Body[q] : In(s, StepAt(q, k)) <=> In(s, q)
           /\ \A u \in Steps : \A q \in Kids(u) : In(s, q) <=> In(s, u) \/ q \in PartsOf(s)
<1>1. \A i \in PartsOf(s) : i \in Seq(Names) /\ Len(i) = Len(s) + 1 /\ i \in Lists
    BY KidFacts, FileAssumption DEF Kids
<1>2. Len(s) \in Nat
    BY StepHasPlace, StepFacts, LenProperties
<1>3. ASSUME NEW x \in Seq(Names), In(s, x) PROVE Len(x) > Len(s)
    <2>1. PICK i \in PartsOf(s) : IsPrefix(i, x)
        BY <1>3 DEF In
    <2>2. Len(i) <= Len(x) /\ Len(x) \in Nat
        BY <1>1, <2>1, PrefixPoints, LenProperties
    <2>3. QED
        BY <1>1, <1>2, <2>2
<1>4. ASSUME NEW q \in Lists, NEW k \in DOMAIN Body[q] PROVE In(s, StepAt(q, k)) <=> In(s, q)
    <2>1. q \in Seq(Names) /\ Body[q][k] \in Names /\ StepAt(q, k) \in Steps
        BY FileAssumption, ListsArePaths, StepFacts DEF Names
    <2>2. \A i \in PartsOf(s) : IsPrefix(i, StepAt(q, k)) <=> IsPrefix(i, q) \/ i = StepAt(q, k)
        BY <1>1, <2>1, PrefixFacts DEF StepAt
    <2>3. \A i \in PartsOf(s) : i # StepAt(q, k)
        BY <1>1, <2>1, FileAssumption
    <2>4. QED
        BY <2>2, <2>3 DEF In
<1>5. ASSUME NEW u \in Steps, NEW q \in Kids(u) PROVE In(s, q) <=> In(s, u) \/ q \in PartsOf(s)
    <2>1. u \in Seq(Names)
        BY StepHasPlace, StepFacts
    <2>2. PICK x \in Names : q = Append(u, x)
        <3>1. Parts[u] \in Seq(STRING \ {"else"})
            BY FileAssumption
        <3>2. \A k \in DOMAIN Parts[u] : Parts[u][k] \in Names
            BY <3>1 DEF Names
        <3>3. QED
            BY <3>2 DEF Kids, PartsOf, Part, ElseOf, Names
    <2>3. \A i \in PartsOf(s) : IsPrefix(i, q) <=> IsPrefix(i, u) \/ i = q
        BY <1>1, <2>1, <2>2, PrefixFacts
    <2>4. QED
        BY <2>3 DEF In
<1>6. QED
    BY <1>3, <1>4, <1>5

(* When a step waits to be tried again nothing inside its parts works.     *)
LEMMA NoneInside ==
    ASSUME Shape, NEW l \in Busy, ph[l] = "again", NEW q \in Lists, In(Step(l), q)
    PROVE  q \notin Busy /\ ~Works(q)
<1> DEFINE s == Step(l)
<1>1. s \in Steps /\ \A m \in Busy : m \in Lists /\ Len(m) \in Nat /\ Step(m) \in Steps
    BY AtStep, ListsArePaths, LenProperties DEF Shape, Busy
<1>2. \A m \in Busy : In(s, Step(m)) <=> In(s, m)
    BY <1>1, AtStep, InsideFacts DEF Shape
\* What has a parent inside the parts, or is a part, has a parent that works
\* inside the parts.
<1>3. ASSUME NEW m \in Busy, NEW r \in Kids(Step(m)), In(s, r) PROVE In(s, m) \/ (r \in PartsOf(s) /\ m = l)
    <2>1. In(s, Step(m)) \/ r \in PartsOf(s)
        BY <1>1, <1>3, InsideFacts
    <2>2. ASSUME r \in PartsOf(s) PROVE m = l
        BY <2>2, <1>3, OneParent DEF Kids, Shape
    <2>3. QED
        BY <1>2, <2>1, <2>2
<1>4. ASSUME NEW r \in Busy, In(s, r) PROVE FALSE
    <2> DEFINE lens == {Len(m) : m \in {n \in Busy : In(s, n)}}
    <2>1. lens \subseteq Nat /\ lens # {}
        BY <1>1, <1>4
    <2> HIDE DEF lens
    <2>2. PICK n \in lens : \A k \in lens : ~(<<k, n>> \in OpToRel(<, Nat))
        BY <2>1, NatLessThanWellFounded, WFMin
    <2>3. \A k \in lens : ~(k < n)
        BY <2>1, <2>2 DEF OpToRel
    <2>4. PICK c \in Busy : n = Len(c) /\ In(s, c)
        BY DEF lens
    <2>5. c # top
        <3>1. Len(c) > Len(s) /\ Len(s) = Len(l) + 1 /\ Len(l) \in Nat /\ Len(c) \in Nat
            BY <1>1, <2>4, InsideFacts, ListsArePaths, AtStep, StepFacts DEF Shape
        <3>2. Len(s) >= 1 /\ Len(s) \in Nat
            BY <3>1
        <3>3. \A a, b \in Nat : a > b /\ b >= 1 => a # 1
            OBVIOUS
        <3>4. Len(c) # 1
            BY <3>1, <3>2, <3>3
        <3>5. QED
            BY <3>4, FileAssumption DEF Shape, RestOK
    <2>6. PICK m \in Busy : \/ c \in PartsOf(Step(m)) /\ ph[m] = "wait"
                            \/ c = ElseOf(Step(m)) /\ ph[m] = "else"
        BY <2>5 DEF Shape, Nested
    <2>7. c \in Kids(Step(m)) /\ m # l
        BY <2>6 DEF Kids
    <2>8. In(s, m) /\ Len(m) < Len(c)
        BY <1>3, <2>4, <2>7, AtStep DEF Shape
    <2>9. QED
        BY <2>3, <2>4, <2>8 DEF lens
<1>5. ASSUME Works(q) PROVE FALSE
    <2>1. PICK m \in Busy : q \in PartsOf(Step(m)) /\ ph[m] = "wait"
        BY <1>5 DEF Shape, Collected
    <2>2. In(s, m)
        BY <1>3, <2>1 DEF Kids
    <2>3. QED
        BY <1>4, <2>2
<1>6. QED
    BY <1>4, <1>5

LEMMA AgainKeepsInv ==
    ASSUME IInv, NEW l \in Lists, TriesStepAgain(l)
    PROVE  IInv'
<1> DEFINE s == Step(l)
<1>0. Shape /\ FilesOK /\ ProcOK /\ RestOK
    BY InvGivesShape, TypeParts DEF IInv
<1>1. ph[l] = "again" /\ l \in Busy /\ s \in Steps /\ Kind[s] \in {"loop", "branch"} /\ rf.st[s] = "running"
    <2>1. ph[l] = "again" /\ l \in Busy
        BY DEF TriesStepAgain, Busy, Ended
    <2>2. QED
        BY <1>0, <2>1, AtStep, WaitIsRunning DEF Inside, Shape, KindsAt
<1>2. /\ rf'.run = rf.run /\ rf' \in Files
      /\ \A t \in Steps : rf'.st[t] = IF ~resume /\ In(s, t) THEN "none" ELSE rf.st[t]
      /\ \A q \in Lists : rf'.sub[q] = IF ~resume /\ In(s, q) THEN "none" ELSE rf.sub[q]
      /\ resume => rf' = rf
    BY <1>0 DEF TriesStepAgain, Edit, In, FilesOK, Files, StepStates
<1>3. /\ ph' = [m \in Lists |-> CASE m = l -> "run" [] In(s, m) -> "off" [] OTHER -> ph[m]]
      /\ at' = at /\ tries' = [tries EXCEPT ![l] = @ + 1] /\ late' \subseteq late
      /\ UNCHANGED <<saved, saveErr, top, resume, starts, held, holds, user, died, outside>>
    BY DEF TriesStepAgain, Edit, In
\* What is inside the parts is off, and the rest stays.
<1>4. ~In(s, l) /\ ~In(s, s) /\ \A q \in Lists : In(s, q) => q \notin Busy /\ ~Works(q)
    <2>1. Len(s) = Len(l) + 1 /\ Len(l) \in Nat /\ s \in Seq(Names) /\ l \in Seq(Names)
        BY <1>0, <1>1, AtStep, StepFacts, ListsArePaths, LenProperties DEF Shape
    <2>2. QED
        BY <1>0, <1>1, <2>1, InsideFacts, NoneInside
<1>5. /\ ph'[l] = "run"
      /\ \A q \in Lists : In(s, q) => ph'[q] = "off"
      /\ \A q \in Lists \ {l} : ~In(s, q) => ph'[q] = ph[q]
    BY <1>3, <1>4
<1>6. Busy' = Busy /\ \A q \in Lists : Step(q)' = Step(q) /\ at'[q] = at[q]
    BY <1>1, <1>3, <1>4, <1>5 DEF Busy, Ended, Step, StepAt
<1>7. \A q \in Lists : \A k \in DOMAIN Body[q] : StepAt(q, k) \in Steps /\ (In(s, StepAt(q, k)) <=> In(s, q))
    BY <1>1, InsideFacts, StepFacts
<1>8. \A u \in Steps : \A q \in Kids(u) : In(s, u) => In(s, q)
    BY <1>1, InsideFacts
<1>9. \A u \in Steps : PartsOf(u) \subseteq Lists /\ PartsOf(u) \subseteq Kids(u)
    BY FileAssumption DEF Kids
<1>10. \A q \in Lists : Works(q)' => Works(q) /\ ~In(s, q)
    BY <1>1, <1>2, <1>5 DEF Works
<1>11. TypeOK'
    <2>1. FilesOK'
        BY <1>0, <1>2, <1>3 DEF FilesOK
    <2>2. ph' \in [Lists -> Phases \cup Ended]
        BY <1>0, <1>3 DEF ProcOK, Phases
    <2>3. tries' \in [Lists -> 0..MaxTries]
        BY <1>0, <1>1, <1>3, FileAssumption DEF ProcOK, IInv, HasTries
    <2>4. RestOK'
        BY <1>0, <1>3 DEF RestOK, outside
    <2>5. QED
        BY <1>0, <1>3, <2>1, <2>2, <2>3, <2>4, TypePartsNext DEF ProcOK
<1>12. Counted' /\ KindsAt' /\ HasTries' /\ Before' /\ OkIsDone' /\ Over'
    <2>1. Counted'
        BY <1>0, <1>3, <1>6 DEF Shape, Counted
    <2>2. KindsAt' /\ HasTries'
        BY <1>0, <1>3, <1>5, <1>6 DEF IInv, KindsAt, HasTries, ProcOK
    <2>3. Before'
        BY <1>2, <1>4, <1>6, <1>7 DEF IInv, Before, Busy, StepAt
    <2>4. OkIsDone'
        <3>1. SUFFICES ASSUME NEW q \in Lists, ph'[q] = "ok", NEW k \in DOMAIN Body[q]
                       PROVE  rf'.st[StepAt(q, k)] \in Finished
            BY DEF OkIsDone, StepsIn, StepAt
        <3>2. ph[q] = "ok" /\ ~In(s, q)
            BY <1>5, <3>1
        <3>3. rf.st[StepAt(q, k)] \in Finished
            BY <3>2 DEF IInv, OkIsDone, StepsIn
        <3>4. QED
            BY <1>2, <1>7, <3>2, <3>3
    <2>5. Over'
        <3>1. rf.run = "running"
            BY <1>0, <1>1, Quiet DEF IInv, Over
        <3>2. QED
            BY <1>2, <3>1 DEF Over
    <2>6. QED
        BY <2>1, <2>2, <2>3, <2>4, <2>5
<1>13. Nested' /\ Collected' /\ OneRound'
    <2>1. Nested'
        <3>1. SUFFICES ASSUME NEW q \in Busy, q # top
                       PROVE  \E m \in Busy : \/ q \in PartsOf(Step(m)) /\ ph'[m] = "wait" /\ Works(q)'
                                              \/ q = ElseOf(Step(m)) /\ ph'[m] = "else"
            BY <1>3, <1>6 DEF Nested, Busy
        <3>2. PICK m \in Busy : \/ q \in PartsOf(Step(m)) /\ ph[m] = "wait" /\ Works(q)
                                \/ q = ElseOf(Step(m)) /\ ph[m] = "else"
            BY <1>0, <3>1 DEF Shape, Nested
        <3>3. m \in Lists \ {l} /\ ~In(s, m) /\ q \in Lists /\ ~In(s, q)
            BY <1>1, <1>4, <3>2 DEF Busy
        <3>4. Works(q) => Works(q)'
            BY <1>2, <1>5, <3>3 DEF Works
        <3>5. QED
            BY <1>5, <3>2, <3>3, <3>4
    <2>2. Collected'
        <3>1. SUFFICES ASSUME NEW q \in Lists, Works(q)
                       PROVE  \E m \in Busy : q \in PartsOf(Step(m)) /\ ph'[m] = "wait"
            BY <1>6, <1>10 DEF Collected, Busy
        <3>2. PICK m \in Busy : q \in PartsOf(Step(m)) /\ ph[m] = "wait"
            BY <1>0, <3>1 DEF Shape, Collected
        <3>3. m \in Lists \ {l} /\ ~In(s, m)
            BY <1>1, <1>4, <3>2 DEF Busy
        <3>4. QED
            BY <1>5, <3>2, <3>3
    <2>3. \A q \in Lists : Taken(q)' => Taken(q)
        BY <1>1, <1>2, <1>5 DEF Taken
    <2>4. OneRound'
        BY <1>0, <1>9, <2>3 DEF Shape, OneRound, Serial, PartsOf, Part
    <2>5. QED
        BY <2>1, <2>2, <2>4
<1>14. StepRunning' /\ PartRunning'
    <2>1. ASSUME NEW q \in Lists
          PROVE  /\ ph'[q] \in Inside => rf'.st[Step(q)] = "running"
                 /\ \A k \in DOMAIN Body[q] :
                       rf'.st[StepAt(q, k)] = "running" => (k = at[q] /\ ph'[q] \in Inside) \/ q \in died
        <3>1. q = l => rf'.st[Step(q)] = "running"
            BY <1>1, <1>2, <1>4
        <3>2. ASSUME ph'[q] \in Inside, q # l PROVE rf'.st[Step(q)] = "running"
            <4>1. ~In(s, q) /\ ph[q] \in Inside /\ q \in Busy
                BY <1>4, <1>5, <3>2 DEF Inside, Busy, Ended
            <4>2. Step(q) \in Steps /\ ~In(s, Step(q)) /\ rf.st[Step(q)] = "running"
                BY <1>0, <1>7, <4>1, AtStep, WaitIsRunning DEF Shape
            <4>3. QED
                BY <1>2, <4>2
        <3>3. ASSUME NEW k \in DOMAIN Body[q], rf'.st[StepAt(q, k)] = "running"
              PROVE  (k = at[q] /\ ph'[q] \in Inside) \/ q \in died
            <4>1. rf.st[StepAt(q, k)] = "running"
                BY <1>2, <1>7, <3>3
            <4>2. (k = at[q] /\ ph[q] \in Inside) \/ q \in died
                BY <1>0, <4>1 DEF Shape, StepRunning
            <4>3. ph[q] \in Inside => q \in Busy
                BY DEF Inside, Busy, Ended
            <4>4. QED
                BY <1>4, <1>5, <4>2, <4>3 DEF Inside
        <3>4. QED
            BY <3>1, <3>2, <3>3
    <2>2. StepRunning'
        BY <1>3, <1>6, <2>1 DEF StepRunning, StepAt
    <2>3. PartRunning'
        BY <1>2, <1>3, <1>4, <1>5 DEF IInv, PartRunning, Works
    <2>4. QED
        BY <2>2, <2>3
<1>15. Sound(rf') /\ Sound(saved')
    <2>1. Sound(rf)
        BY DEF IInv
    <2>2. Ordered(rf')
        BY <1>2, <1>7, <2>1 DEF Sound, Ordered
    <2>3. PartsDone(rf') /\ PartsOnly(rf')
        BY <1>2, <1>7, <2>1 DEF Sound, PartsDone, PartsOnly, StepsIn
    <2>4. QED
        BY <1>3, <2>2, <2>3 DEF IInv, Sound
<1>16. \A q \in Lists : \A k \in DOMAIN Body[q] : NotYet(q, k)' => In(s, q) \/ NotYet(q, k)
    BY <1>1, <1>3, <1>5, <1>6 DEF NotYet, Ahead
<1>17. \A q \in Lists : ph[q] = "off" => ph'[q] = "off"
    BY <1>1, <1>5
<1>18. KidsOff' /\ Fresh'
    <2>1. ASSUME NEW q \in Lists, NEW k \in DOMAIN Body[q], NotYet(q, k)', NEW r \in Lists, r \in Kids(StepAt(q, k))
          PROVE  ph'[r] = "off"
        <3>1. CASE In(s, q)
            BY <1>5, <1>7, <1>8, <2>1, <3>1
        <3>2. CASE NotYet(q, k)
            BY <1>0, <1>17, <2>1, <3>2 DEF Shape, KidsOff
        <3>3. QED
            BY <1>16, <2>1, <3>1, <3>2
    <2>2. KidsOff'
        BY <2>1 DEF KidsOff, Kids, PartsOf, Part, ElseOf, StepAt
    <2>3. ASSUME ~resume, NEW q \in Lists, NEW k \in DOMAIN Body[q], NotYet(q, k)'
          PROVE  rf'.st[StepAt(q, k)] = "none"
        BY <1>0, <1>2, <1>7, <1>16, <2>3 DEF Shape, Fresh
    <2>4. Fresh'
        BY <1>3, <2>3 DEF Fresh, StepAt
    <2>5. QED
        BY <2>2, <2>4
<1>19. StepOff' /\ PartsOff'
    <2>1. ASSUME NEW m \in Busy
          PROVE  /\ ph'[m] # "else" /\ HasElse(Step(m)) => ph'[ElseOf(Step(m))] = "off"
                 /\ ph'[m] \in {"run", "out"} => \A r \in PartsOf(Step(m)) :
                       ph'[r] = "off" \/ (Kind[Step(m)] = "loop" /\ rf'.sub[r] \in {"done", "failed"})
                 /\ ph'[m] = "wait" /\ Kind[Step(m)] = "loop" => \A r \in PartsOf(Step(m)) :
                       ph'[r] = "off" \/ rf'.sub[r] \in {"running", "done", "failed"}
        <3>1. m \in Lists /\ Step(m) \in Steps /\ PartsOf(Step(m)) \subseteq Lists
            BY <1>0, <1>9, AtStep DEF Shape
        <3>2. RoundsOff(m) /\ (ph[m] # "else" /\ HasElse(Step(m)) => ph[ElseOf(Step(m))] = "off")
            BY <1>0 DEF Shape, StepOff
        <3>3. CASE m = l
            <4>1. \A r \in PartsOf(s) : In(s, r)
                BY <1>1, <1>9, InsideFacts
            <4>2. QED
                BY <1>1, <1>5, <1>17, <3>1, <3>2, <3>3, <4>1 DEF HasElse
        <3>4. CASE m # l
            <4>1. ~In(s, m) /\ ph'[m] = ph[m]
                BY <1>4, <1>5, <3>1, <3>4
            <4>2. \A r \in PartsOf(Step(m)) : ~In(s, r)
                <5>1. ~In(s, Step(m))
                    BY <1>0, <1>7, <4>1, AtStep DEF Shape
                <5>2. \A r \in PartsOf(Step(m)) : r \notin PartsOf(s)
                    BY <1>0, <1>1, <1>9, <3>1, <3>4, OneParent DEF Shape
                <5>3. QED
                    BY <1>1, <1>9, <3>1, <5>1, <5>2, InsideFacts
            <4>3. QED
                BY <1>2, <1>17, <3>1, <3>2, <4>1, <4>2 DEF RoundsOff, HasElse
        <3>5. QED
            BY <3>3, <3>4
    <2>2. StepOff'
        BY <1>6, <2>1 DEF StepOff, RoundsOff, HasElse, ElseOf, PartsOf, Part, Busy
    <2>3. ASSUME NEW u \in Steps, NEW q \in PartsOf(u)
          PROVE  /\ rf'.sub[q] \in {"none", "pending"} => ph'[q] = "off"
                 /\ ph'[q] = "gone" => rf'.sub[q] = "running"
        <3>1. q \in Lists
            BY <1>9
        <3>2. /\ rf.sub[q] \in {"none", "pending"} => ph[q] = "off"
              /\ ph[q] = "gone" => rf.sub[q] = "running"
            BY <1>0 DEF Shape, PartsOff
        <3>3. QED
            BY <1>1, <1>2, <1>4, <1>5, <3>1, <3>2
    <2>4. PartsOff'
        BY <2>3 DEF PartsOff, PartsOf, Part
    <2>5. QED
        BY <2>2, <2>4
<1>20. Kept' /\ Sent'
    BY <1>1, <1>2, <1>3 DEF IInv, Kept, Stalled, Sent, outside, Busy
<1>21. QED
    BY <1>11, <1>12, <1>13, <1>14, <1>15, <1>18, <1>19, <1>20 DEF IInv, Sound, Ordered, PartsDone, PartsOnly

----------------------------------------------------------------------------
(* The retry.                                                              *)

LEMMA OneFirstBad ==
    ASSUME NEW l \in Lists, NEW j \in DOMAIN Body[l], NEW k \in DOMAIN Body[l], j < k,
           FirstBad(l, StepAt(l, j))
    PROVE  ~FirstBad(l, StepAt(l, k))
<1>1. j \in 1..Len(Body[l]) /\ k \in 1..Len(Body[l])
    BY FileAssumption, LenProperties
<1>2. SUFFICES ASSUME NEW i \in DOMAIN Body[l], StepAt(l, k) = StepAt(l, i),
                      \A n \in 1..(i - 1) : ~Bad(StepAt(l, n))
               PROVE  FALSE
    BY DEF FirstBad
<1>3. i = k
    BY <1>2, SameStep
<1>4. Bad(StepAt(l, j))
    BY DEF FirstBad
<1>5. QED
    BY <1>1, <1>2, <1>3, <1>4

\* A retry forgets a list's steps from some step on.
LEMMA ForgetsTheRest ==
    ASSUME NEW l \in Lists, NEW j \in DOMAIN Body[l], NEW k \in DOMAIN Body[l], j < k,
           rf.st[StepAt(l, j)] \in Finished,
           Forgets(l, StepAt(l, j)) \/ OpensEach(l, StepAt(l, j))
    PROVE  Forgets(l, StepAt(l, k))
<1>1. j \in Nat /\ k \in Nat
    BY FileAssumption, LenProperties
<1>2. PICK i \in DOMAIN Body[l] : i <= j /\ FirstBad(l, StepAt(l, i))
    <2>1. CASE OpensEach(l, StepAt(l, j))
        BY <1>1, <2>1 DEF OpensEach
    <2>2. CASE Forgets(l, StepAt(l, j))
        <3>1. PICK i \in DOMAIN Body[l] : \E n \in DOMAIN Body[l] :
                i <= n /\ StepAt(l, j) = StepAt(l, n) /\ FirstBad(l, StepAt(l, i))
            BY <2>2 DEF Forgets
        <3>2. QED
            BY <3>1, SameStep
    <2>3. QED
        BY <2>1, <2>2
<1>3. i < k /\ i <= k
    BY <1>1, <1>2, FileAssumption, LenProperties
<1>4. ~OpensEach(l, StepAt(l, k))
    BY <1>2, <1>3, OneFirstBad DEF OpensEach
<1>5. QED
    BY <1>2, <1>3, <1>4, StepFacts DEF Forgets

\* Whether t is dropped because of the step s of the list m.
DropsBy(m, s, t) ==
    \/ IsPrefix(s, t) /\ Forgets(m, s)
    \/ IsPrefix(ElseOf(s), t) /\ OpensEach(m, s)

LEMMA DroppedBy ==
    ASSUME NEW t
    PROVE  /\ Dropped(t) => \E m \in Lists : Retried(m) /\ \E k \in DOMAIN Body[m] : DropsBy(m, StepAt(m, k), t)
           /\ \A m \in Lists : \A k \in DOMAIN Body[m] : Retried(m) /\ DropsBy(m, StepAt(m, k), t) => Dropped(t)
BY DEF Dropped, DropsBy, StepsIn

LEMMA AgainOrdered == ASSUME FilesOK, Ordered(rf) PROVE Ordered(Again)
<1>1. SUFFICES ASSUME NEW l \in Lists, NEW j \in DOMAIN Body[l], NEW k \in DOMAIN Body[l], j < k,
                      Again.st[StepAt(l, k)] \notin {"none", "pending"}
               PROVE  Again.st[StepAt(l, j)] \in Finished
    BY DEF Ordered
<1> DEFINE s == StepAt(l, j)
           t == StepAt(l, k)
<1>2. s \in Steps /\ t \in Steps /\ HomeOf(s) = l /\ HomeOf(t) = l
    BY StepFacts
<1>3. ~Dropped(t) /\ rf.st[t] \notin {"none", "pending"}
    BY <1>1, <1>2 DEF Again
<1>4. rf.st[s] \in Finished
    BY <1>1, <1>3 DEF Ordered
\* The list is not retried from the step on: that would drop the later one.
<1>5. Retried(l) => ~Forgets(l, s) /\ ~OpensEach(l, s)
    <2>1. SUFFICES ASSUME Retried(l), Forgets(l, s) \/ OpensEach(l, s) PROVE FALSE
        OBVIOUS
    <2>2. Forgets(l, t)
        BY <1>1, <1>4, <2>1, ForgetsTheRest
    <2>3. IsPrefix(t, t)
        BY <1>2, BeforeStep
    <2>4. QED
        BY <1>3, <2>1, <2>2, <2>3, DroppedBy DEF DropsBy
<1>6. ~Dropped(s)
    <2>1. SUFFICES ASSUME NEW m \in Lists, Retried(m), NEW n \in DOMAIN Body[m], DropsBy(m, StepAt(m, n), s)
                   PROVE  FALSE
        BY DroppedBy
    <2>2. StepAt(m, n) \in Steps
        BY StepFacts
    <2>3. CASE StepAt(m, n) = s /\ Forgets(m, StepAt(m, n))
        <3>1. m = l
            BY <2>3, SameStep
        <3>2. QED
            BY <1>5, <2>1, <2>3, <3>1
    <2>4. CASE \/ IsPrefix(StepAt(m, n), l) /\ Forgets(m, StepAt(m, n))
               \/ IsPrefix(ElseOf(StepAt(m, n)), l) /\ OpensEach(m, StepAt(m, n))
        <3>1. DropsBy(m, StepAt(m, n), t)
            BY <2>2, <2>4, BeforeStep DEF DropsBy
        <3>2. QED
            BY <1>3, <2>1, <3>1, DroppedBy
    <2>5. QED
        BY <2>1, <2>2, <2>3, <2>4, BeforeStep DEF DropsBy
<1>7. QED
    BY <1>2, <1>4, <1>5, <1>6 DEF Again

LEMMA AgainPartsDone ==
    ASSUME RestOK, PartsDone(rf), PartsOnly(rf)
    PROVE  PartsDone(Again) /\ PartsOnly(Again)
<1>1. ASSUME NEW q \in Lists, Again.sub[q] \in {"running", "done"}
      PROVE  /\ rf.sub[q] = Again.sub[q] /\ ~(q # top /\ Retried(q))
             /\ \A t \in Steps : ~(IsPrefix(t, q) /\ Dropped(t))
    BY <1>1 DEF Again
<1>2. PartsOnly(Again)
    BY <1>1 DEF PartsOnly
<1>3. ASSUME NEW q \in Lists, Again.sub[q] = "done", NEW k \in DOMAIN Body[q]
      PROVE  Again.st[StepAt(q, k)] \in Finished
    <2> DEFINE s == StepAt(q, k)
    <2>1. s \in Steps /\ HomeOf(s) = q /\ rf.st[s] \in Finished
        BY <1>1, <1>3, StepFacts DEF PartsDone
    <2>2. PICK c \in Steps : q \in PartsOf(c)
        BY <1>1, <1>3 DEF PartsOnly
    <2>3. q # top /\ ~Retried(q)
        BY <1>1, <1>3, <2>2, KidFacts DEF Kids, RestOK
    <2>4. ~Dropped(s)
        <3>1. SUFFICES ASSUME NEW m \in Lists, Retried(m), NEW n \in DOMAIN Body[m], DropsBy(m, StepAt(m, n), s)
                       PROVE  FALSE
            BY DroppedBy
        <3> DEFINE u == StepAt(m, n)
        <3>2. u \in Steps /\ IsPrefix(u, u)
            BY StepFacts, BeforeStep
        <3>3. CASE u = s
            <4>1. m = q
                BY <3>3, SameStep
            <4>2. QED
                BY <2>3, <3>1, <4>1
        <3>4. CASE IsPrefix(u, q) /\ Forgets(m, u)
            <4>1. Dropped(u)
                BY <3>1, <3>2, <3>4, DroppedBy DEF DropsBy
            <4>2. QED
                BY <1>1, <1>3, <3>2, <3>4, <4>1
        <3>5. CASE IsPrefix(ElseOf(u), q) /\ OpensEach(m, u)
            <4>1. IsPrefix(ElseOf(u), c) /\ IsPrefix(c, q)
                BY <2>2, <3>2, <3>5, BeforePart
            <4>2. Dropped(c)
                BY <3>1, <3>5, <4>1, DroppedBy DEF DropsBy
            <4>3. QED
                BY <1>1, <1>3, <4>1, <4>2
        <3>6. QED
            BY <3>1, <3>2, <3>3, <3>4, <3>5, BeforeStep DEF DropsBy
    <2>5. QED
        BY <2>1, <2>3, <2>4 DEF Again
<1>4. QED
    BY <1>2, <1>3 DEF PartsDone, StepsIn

LEMMA RetryKeepsInv == ASSUME IInv, Retry PROVE IInv'
<1>1. Shape /\ PartRunning /\ ph[top] \in Ended /\ StartFrom(Again)
    BY InvGivesShape DEF Retry, IInv, Over
<1>2. /\ \A s \in Steps : rf.st[s] = "running" => HomeOf(s) \in died
      /\ \A q \in Lists : rf.sub[q] = "running" => q \in died
    BY <1>1, Quiet
<1>3. Sound(Again)
    BY <1>1, AgainOrdered, AgainPartsDone DEF IInv, Sound, Shape
<1>4. Again \in Files
    BY <1>1 DEF Again, Shape, FilesOK, Files, StepStates, RunStates
<1>5. /\ \A s \in Steps : Again.st[s] = "running" => HomeOf(s) \in died
      /\ \A q \in Lists : Again.sub[q] = "running" => q \in died
    BY <1>2 DEF Again
<1>6. QED
    BY <1>1, <1>3, <1>4, <1>5, StartKeepsInv

LEMMA ListStepCases ==
    ASSUME NEW l, ListStep(l)
    PROVE  Acts(l) \/ TriesStepAgain(l)
BY DEF ListStep, Acts

LEMMA NextKeepsInv == ASSUME IInv, [Next]_vars PROVE IInv'
BY ListStepCases, ListKeepsInv, AgainKeepsInv, RunEndsKeepsInv, UserKeepsInv, RestartKeepsInv, RetryKeepsInv
   DEF Next, RunOver

----------------------------------------------------------------------------
(* What holds of every run.                                                *)

\* The run file is sound, in memory and on disk, and the lists' processes
\* agree with it, through faults, holds, crashes, resumed runs and retries.
THEOREM Invariant == Spec => []IInv
<1>1. Init => IInv
    BY InitInv
<1>2. IInv /\ [Next]_vars => IInv'
    BY NextKeepsInv
<1>3. QED
    BY <1>1, <1>2, PTL DEF Spec

\* The variables keep their types.
THEOREM TypeCorrect == Spec => []TypeOK
<1>1. IInv => TypeOK
    BY DEF IInv
<1>2. QED
    BY <1>1, Invariant, PTL

\* When the run has ended no list works any more, and a step, item, round or
\* branch that the run file still calls running is in, or is, a list whose
\* goroutine has panicked: nothing else is left running, by any end of the
\* run or of a start before it (run.go:178-190, graph.go:146, steps.go:307).
THEOREM QuietAtTheEnd == Spec => []EndIsQuiet
<1>1. IInv => EndIsQuiet
    BY InvGivesShape, Quiet DEF IInv, Over, EndIsQuiet, Places
<1>2. QED
    BY <1>1, Invariant, PTL

\* A step starts only after every step before it in its list is finished,
\* through every crash, resumed run and retry.
THEOREM StepsInOrder == Spec => []InOrder
<1>1. IInv => InOrder
    BY DEF IInv, Sound, Ordered, InOrder
<1>2. QED
    BY <1>1, Invariant, PTL

\* A run that is ok finished every step of the file's list, and an item,
\* round or branch that is done finished every step of its own.
THEOREM DoneMeansDone == Spec => []DoneIsDone
<1>1. ASSUME IInv PROVE DoneIsDone
    <2>1. top \in Lists
        BY <1>1, FileAssumption DEF IInv, TypeOK
    <2>2. QED
        BY <1>1, <2>1 DEF IInv, Over, OkIsDone, Sound, PartsDone, DoneIsDone
<1>2. QED
    BY <1>1, Invariant, PTL

\* A step whose end is in the run file on disk never begins again in a
\* resumed run; a retry must have saved first that it forgets the step.
THEOREM FinishedStepsStay == Spec => FinishedStays
<1> DEFINE Stays == resume' => \A s \in Steps :
                       saved.st[s] \in Finished /\ rf'.st[s] = "running" => rf.st[s] = "running"
<1>1. ASSUME IInv, Next PROVE Stays
    <2>1. Shape
        BY <1>1, InvGivesShape
    <2>2. CASE \E l \in Lists : Acts(l) \/ PartStep(l) \/ Panics(l)
        <3>1. PICK l \in Lists : Acts(l) \/ PartStep(l) \/ Panics(l)
            BY <2>2
        <3>2. PICK m \in Lists : ListMove(m)
            BY <2>1, <3>1, ListMoves, PartMoves, PanicMoves
        <3>3. \A s \in Steps : rf.st[s] \in Finished => rf'.st[s] \in Finished
            BY <3>2 DEF ListMove, StepIs
        <3>4. Stalled => rf' = rf
            BY <2>1, <3>1, StalledStays
        <3>5. resume' = resume
            BY <1>1, <2>1, <3>1, OutsideMove DEF IInv
        <3>6. QED
            BY <1>1, <3>3, <3>4, <3>5 DEF IInv, Kept, Finished
    <2>3. CASE \E l \in Lists : TriesStepAgain(l)
        BY <2>1, <2>3 DEF TriesStepAgain, Edit, Shape, FilesOK, Files
    <2>4. CASE RunEnds \/ Pause \/ Continue \/ Cancel \/ TimeIsUp \/ RunOver
        <3>1. rf'.st = rf.st
            BY <1>1, <2>4 DEF IInv, TypeOK, Files, RunEnds, Pause, Continue, Cancel, TimeIsUp, RunOver, vars, Save
        <3>2. QED
            BY <3>1
    <2>5. CASE Restart
        <3>1. rf' = [Recovered(saved) EXCEPT !.run = "running"] /\ saved \in Files
            BY <1>1, <2>5 DEF Restart, StartFrom, IInv, TypeOK
        <3>2. \A s \in Steps : rf'.st[s] # "running"
            BY <3>1 DEF Recovered, Files
        <3>3. QED
            BY <3>2
    <2>6. CASE Retry
        <3>1. rf' = [Again EXCEPT !.run = "running"]
            BY <2>6 DEF Retry, StartFrom
        <3>2. \A s \in Steps : rf'.st[s] = Again.st[s]
            BY <3>1 DEF Again
        <3>3. \A s \in Steps : Again.st[s] \in {"none", "pending", rf.st[s]}
            BY DEF Again
        <3>4. QED
            BY <3>2, <3>3
    <2>7. QED
        BY <1>1, <2>2, <2>3, <2>4, <2>5, <2>6, ListStepCases DEF Next
<1>2. IInv /\ [Next]_vars => [Stays]_vars
    BY <1>1
<1>3. QED
    BY <1>2, Invariant, PTL DEF Spec, FinishedStays

----------------------------------------------------------------------------
(* Outside writes.                                                         *)

\* A step that has an id, is in no loop and in one each at most shares its
\* ledger entry with no other: two steps of one id are the same step of the
\* file (validate.go), in other items or rounds.
LEMMA OwnKey ==
    ASSUME NEW s \in Steps, Own(s), NEW t \in Steps, Key(t) = Key(s)
    PROVE  t = s
<1>1. s \in Seq(Names) /\ t \in Seq(Names) /\ s \notin Anon
    BY StepHasPlace, StepFacts DEF Own
<1>2. Last(s) # "" /\ t \notin Anon
    BY <1>1, IdsAssumption DEF Key
<1>3. Alike(s, t)
    BY <1>1, <1>2, IdsAssumption DEF Key
<1>4. ASSUME NEW n \in DOMAIN s, n \in ItemsAt(s) PROVE t[n] = s[n]
    <2>1. ItemsAt(s) = {n} /\ ItemsAt(t) = {n} /\ n \in Int
        BY <1>3, <1>4 DEF Own, Alike, ItemsAt
    <2>2. Max({n}) = n
        BY <2>1 DEF Max
    <2>3. QED
        BY <2>1, <2>2 DEF Key, ItemOf
<1>5. \A n \in DOMAIN s : t[n] = s[n]
    <2>1. RoundsAt(s) = {}
        BY DEF Own
    <2>2. \A n \in DOMAIN s \ ItemsAt(s) : t[n] = s[n]
        BY <1>3, <2>1 DEF Alike
    <2>3. QED
        BY <1>4, <2>2
<1>6. Len(s) \in Nat /\ DOMAIN s = 1..Len(s) /\ Len(t) = Len(s)
    BY <1>1, <1>3, LenProperties DEF Alike
<1>7. QED
    BY <1>1, <1>5, <1>6, SeqEqual

WritesSent(f) == \A s \in Steps : Kind[s] = "write" /\ f.st[s] = "done" /\ Own(s) => s \in mine

LEMMA FailIsNotDone ==
    ASSUME FilesOK, NEW l, Step(l) \in Steps, NEW why, Fail(l, rf, why)
    PROVE  rf'.st[Step(l)] # "done"
<1>1. PICK x \in {"cancelled", "paused", "failed"} : rf' = WithStep(rf, Step(l), x)
    BY FailKinds DEF FailsWith, Save
<1>2. QED
    BY <1>1 DEF FilesOK, Files, WithStep

\* A write becomes done where its list is, and when the ledger has it or it
\* has just arrived.
LEMMA DoneWrites ==
    ASSUME Shape, NEW l \in Lists, Acts(l), NEW s \in Steps, Kind[s] = "write",
           rf'.st[s] = "done", rf.st[s] # "done"
    PROVE  s \in mine' \/ Key(s) \in there
<1>1. l \in Busy /\ s = Step(l)
    BY ListMoves DEF ListMove, StepIs
<1>2. rf' # rf /\ \A why : ~Fail(l, rf, why)
    BY <1>1, FailIsNotDone DEF Shape
<1>3. rf \in Files /\ \A x : WithStep(rf, s, x).st[s] = x
    BY DEF Shape, FilesOK, Files, WithStep
<1>4. ~Edit(rf) /\ ~Save(rf)
    BY <1>2 DEF Edit, Save
<1>5. ph[l] \notin {"pass", "wait", "again"}
    BY <1>1 DEF Shape, KindsAt
<1>6. ~When(l) /\ ~Begin(l)
    BY <1>1, <1>2, <1>3 DEF When, Begin, Save
<1>7. CASE WriteAsks(l)
    BY <1>1, <1>2, <1>4, <1>7 DEF WriteAsks, GivesUp
<1>8. CASE WriteGoesOut(l)
    BY <1>1, <1>2, <1>4, <1>8 DEF WriteGoesOut, GivesUp
<1>9. QED
    BY <1>1, <1>2, <1>5, <1>6, <1>7, <1>8
       DEF Acts, NextStep, HeldIsCut, BeginCut, Restore, ElseEnds, Work, EachStarts, ItemStarts, EachEnds,
           RoundStarts, RoundEnds, LoopPasses, BranchesStart, BranchesJoin, StaysTimedOut, Unwinds

LEMMA WritesStep ==
    ASSUME IInv, WritesSent(rf), WritesSent(saved), [Next]_vars
    PROVE  WritesSent(rf)' /\ WritesSent(saved)'
<1>0. /\ rf \in Files /\ saved \in Files
      /\ saved' \in {saved, rf'} /\ mine \subseteq mine' /\ WritesSent(rf)' => WritesSent(saved)'
    BY DEF IInv, TypeOK, WritesSent
<1>1. CASE \E l \in Lists : Acts(l) \/ PartStep(l) \/ Panics(l)
    <2>1. PICK l \in Lists : Acts(l) \/ PartStep(l) \/ Panics(l)
        BY <1>1
    <2>2. Shape
        BY InvGivesShape
    <2>3. mine \subseteq mine' /\ saved' \in {saved, rf'}
        BY <2>1, <2>2, OutsideMove, DiskFollows DEF IInv
    <2>4. ASSUME NEW s \in Steps, Kind[s] = "write", rf'.st[s] = "done", Own(s)
          PROVE  s \in mine'
        <3>1. CASE rf.st[s] = "done"
            BY <2>3, <2>4, <3>1 DEF WritesSent
        <3>2. CASE rf.st[s] # "done" /\ Acts(l)
            <4>1. s \in mine' \/ Key(s) \in there
                BY <2>2, <2>4, <3>2, DoneWrites
            <4>2. CASE Key(s) \in there
                <5>1. PICK t \in mine : Key(t) = Key(s)
                    BY <4>2 DEF IInv, Sent
                <5>2. t \in Steps
                    BY <5>1 DEF IInv, TypeOK
                <5>3. t = s
                    BY <2>4, <5>1, <5>2, OwnKey
                <5>4. QED
                    BY <2>3, <5>3
            <4>3. QED
                BY <4>1, <4>2
        <3>3. CASE rf.st[s] # "done" /\ PartStep(l)
            <4>1. PICK y : rf' = WithPart(rf, l, y)
                BY <3>3 DEF PartStep, ItemEnds, BranchEnds, Save, Edit
            <4>2. rf'.st = rf.st
                BY <1>0, <4>1 DEF Files, WithPart
            <4>3. QED
                BY <2>4, <3>3, <4>2
        <3>4. CASE rf.st[s] # "done" /\ Panics(l)
            BY <2>4, <3>4 DEF Panics
        <3>5. QED
            BY <2>1, <3>1, <3>2, <3>3, <3>4
    <2>5. QED
        BY <1>0, <2>3, <2>4 DEF WritesSent
<1>2. CASE RunEnds \/ Pause \/ Continue \/ Cancel \/ TimeIsUp \/ RunOver \/ UNCHANGED vars
    <2>1. rf'.st = rf.st /\ saved' \in {saved, rf'} /\ mine' = mine
        BY <1>0, <1>2 DEF Files, RunEnds, Pause, Continue, Cancel, TimeIsUp, RunOver, vars, Save, outside
    <2>2. QED
        BY <1>0, <2>1 DEF WritesSent
<1>3. CASE Restart \/ Retry
    <2>1. PICK f : f \in {Recovered(saved), Again} /\ StartFrom(f)
        BY <1>3 DEF Restart, Retry
    <2>2. \A s \in Steps : f.st[s] = "done" => saved.st[s] = "done" \/ rf.st[s] = "done"
        <3>1. CASE f = Recovered(saved)
            BY <3>1 DEF Recovered
        <3>2. CASE f = Again
            BY <3>2 DEF Again
        <3>3. QED
            BY <2>1, <3>1, <3>2
    <2>3. rf'.st = f.st /\ saved' \in {saved, rf'} /\ mine' = mine
        BY <2>1 DEF StartFrom, outside, Recovered, Again
    <2>4. QED
        BY <1>0, <2>2, <2>3 DEF WritesSent
<1>4. CASE \E l \in Lists : TriesStepAgain(l)
    <2>1. mine' = mine /\ saved' = saved /\ \A s \in Steps : rf'.st[s] = "done" => rf.st[s] = "done"
        BY <1>0, <1>4 DEF TriesStepAgain, Edit, Files, outside
    <2>2. QED
        BY <1>0, <2>1 DEF WritesSent
<1>5. QED
    BY <1>1, <1>2, <1>3, <1>4, ListStepCases DEF Next

\* A write step with an id, in no loop and in one each at most, that is done
\* has sent its own write: no crash, resumed run, retry, timeout or answer of
\* the ledger lets one be called done that never went out.
THEOREM DoneWritesWereSent == Spec => []WritesGoOut
<1> DEFINE WInv == WritesSent(rf) /\ WritesSent(saved)
<1>1. Init => WInv
    BY DEF Init, NewFile, WritesSent
<1>2. IInv /\ WInv /\ [Next]_vars => WInv'
    BY WritesStep
<1>3. WInv => WritesGoOut
    BY DEF WritesSent, WritesGoOut
<1>4. QED
    BY <1>1, <1>2, <1>3, Invariant, PTL DEF Spec
=============================================================================
