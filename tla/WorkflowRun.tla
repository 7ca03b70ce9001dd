---------------------------- MODULE WorkflowRun ----------------------------
(***************************************************************************)
(* One run of a workflow file (internal/workflow/run): the interpreter of  *)
(* its steps with each, loop, branch, write and else, the run file it      *)
(* saves at each boundary, pause, cancel, time limits, a panic, a crash    *)
(* and the resumed run, and the retry of an ended run.                     *)
(*                                                                         *)
(* A list of steps is named by its path, e.g. <<"top", "each", "a">> for   *)
(* the steps of item a, and a step by its list's path and its own name.    *)
(* Every list is a process: runList and the goroutine or call around it.   *)
(* Outside writes go through the ledger, of which only the promise is used *)
(* (OnceContract, kept by WriteLedger).                                    *)
(***************************************************************************)
EXTENDS Integers, Sequences, FiniteSets, SequencesExt

CONSTANTS
    Lists,      \* the paths of all lists
    Body,       \* [Lists -> sequence of step names]
    Tops,       \* the lists a run may begin with: one workflow file each
    Kind,       \* [Steps -> "work", "write", "each", "loop" or "branch"]
    Parts,      \* [Steps -> the names of its items, rounds or branches]
    Parallel,   \* how many items of an each run at once
    JoinAny,    \* branch steps that one good branch is enough for
    Guarded,    \* steps with "when"
    Until,      \* loop steps with "until"
    StopSteps,  \* steps with on_error "stop"
    Timed,      \* loops and branches with a timeout, each steps with an item_timeout
    Anon,       \* steps without an id
    MaxTries,   \* retries.max + 1
    MaxStarts,  \* bound: starts of the run (crashes and retries)
    MaxHolds,   \* bound: pauses by the user
    Fragile,    \* bound: the lists in which a panic may happen
    Faults      \* what may happen: "save", "crash", "timeout", "cancel", "retry"

StepAt(l, k) == Append(l, Body[l][k])
StepsIn(l) == {StepAt(l, k) : k \in DOMAIN Body[l]}
Steps == UNION {StepsIn(l) : l \in Lists}

VARIABLES
    top,      \* the list of the file's steps
    rf,       \* the run file in memory: run, st (steps), sub (items, rounds, branches)
    saved,    \* the run file on disk
    saveErr,  \* a save failed
    resume,   \* the run continues a run file
    starts,   \* starts so far
    at, ph,   \* each list's current step, and where in it the process is
    tries,    \* tries of each list's current step
    held, holds, \* the user paused the run; how often so far
    user, late,  \* the run was cancelled; the lists whose time is up
    died,     \* the lists that a panic ever ended
    there, known, \* the ledger: what reached the other side, what is recorded
    mine      \* the steps whose own write reached the other side

proc == <<at, ph, tries>>
control == <<held, holds, user, late, died>>
outside == <<there, known, mine>>
vars == <<top, rf, saved, saveErr, resume, starts, proc, control, outside>>

\* What runList can return; "gone": it never does, its goroutine panicked.
Ended == {"ok", "fail", "stop", "paused", "cut", "gone"}
Phases == {"off", "next", "held", "begin", "run", "out", "wait", "pass", "again", "else"}
Finished == {"done", "skipped"}
\* A step the user denied is a failed one here.
StepStates == Finished \cup {"none", "pending", "running", "failed", "paused", "cancelled", "interrupted"}
RunStates == {"running", "ok", "failed", "cancelled", "paused", "interrupted"}
Files == [run : RunStates, st : [Steps -> StepStates], sub : [Lists -> StepStates]]

\* A write's ledger entry: the file, the step's id and the key of the nearest
\* item; no round, and no item further out.
ItemsAt(s) == {n \in 3..Len(s) : SubSeq(s, 1, n - 1) \in Steps /\ Kind[SubSeq(s, 1, n - 1)] = "each" /\ s[n] # "else"}
RoundsAt(s) == {n \in 3..Len(s) : SubSeq(s, 1, n - 1) \in Steps /\ Kind[SubSeq(s, 1, n - 1)] = "loop" /\ s[n] # "else"}
ItemOf(s) == IF ItemsAt(s) = {} THEN "" ELSE s[Max(ItemsAt(s))]
Key(s) == <<Head(s), IF s \in Anon THEN "" ELSE Last(s), ItemOf(s)>>
Keys == {Key(s) : s \in Steps}

TypeOK ==
    /\ top \in Tops
    /\ rf \in Files /\ saved \in Files
    /\ saveErr \in BOOLEAN /\ resume \in BOOLEAN /\ starts \in 1..MaxStarts
    /\ at \in [Lists -> Nat] /\ ph \in [Lists -> Phases \cup Ended]
    /\ tries \in [Lists -> 0..MaxTries]
    /\ held \in BOOLEAN /\ holds \in 0..MaxHolds
    /\ user \in BOOLEAN /\ late \subseteq Lists /\ died \subseteq Lists
    /\ there \subseteq Keys /\ known = {}
    /\ mine \subseteq Steps

Ledger == INSTANCE OnceContract WITH Writes <- Keys, MayBeUnsent <- {}

NewFile == [run |-> "running", st |-> [s \in Steps |-> "none"], sub |-> [l \in Lists |-> "none"]]

Init ==
    /\ top \in Tops
    /\ rf = NewFile /\ saved = rf /\ saveErr = FALSE
    /\ resume = FALSE /\ starts = 1
    /\ at = [l \in Lists |-> 1]
    /\ ph = [l \in Lists |-> IF l = top THEN "next" ELSE "off"]
    /\ tries = [l \in Lists |-> 0]
    /\ held = FALSE /\ holds = 0 /\ user = FALSE /\ late = {} /\ died = {}
    /\ Ledger!ContractInit /\ mine = {}

----------------------------------------------------------------------------
(* Helpers. *)

Step(l) == StepAt(l, at[l])
Part(s, i) == Append(s, Parts[s][i])
PartsOf(s) == {Part(s, i) : i \in DOMAIN Parts[s]}
ElseOf(s) == Append(s, "else")
HasElse(s) == ElseOf(s) \in Lists
Container(l) == SubSeq(l, 1, Len(l) - 1) \* the step whose part the list l is
HomeOf(s) == SubSeq(s, 1, Len(s) - 1)    \* the list that has the step s

\* Two places of one step of the file: in other items or rounds.
Alike(s, t) ==
    /\ Len(s) = Len(t) /\ ItemsAt(s) = ItemsAt(t)
    /\ \A n \in DOMAIN s \ (ItemsAt(s) \cup RoundsAt(s)) : s[n] = t[n]

\* A checked workflow file (validate.go): no list is empty, a path names one
\* thing, ids are unique and not empty.  The items of one each have different
\* keys, as the default ones do.  The run's limits are at least one.
ASSUME FileAssumption ==
    /\ Lists \subseteq Seq(STRING) /\ Tops \subseteq Lists /\ \A l \in Tops : Len(l) = 1
    /\ Body \in [Lists -> Seq(STRING) \ {<<>>}]
    /\ \A l \in Lists : \A j, k \in DOMAIN Body[l] : Body[l][j] = Body[l][k] => j = k
    /\ Parts \in [Steps -> Seq(STRING \ {"else"})]
    /\ \A s \in Steps : \A i, j \in DOMAIN Parts[s] : Parts[s][i] = Parts[s][j] => i = j
    /\ \A s \in Steps : PartsOf(s) \subseteq Lists
    /\ Lists \cap Steps = {}
    /\ Parallel \in Nat \ {0} /\ MaxTries \in Nat \ {0} /\ MaxStarts \in Nat \ {0} /\ MaxHolds \in Nat
ASSUME IdsAssumption ==
    \A s, t \in Steps \ Anon :
        Last(s) # "" /\ (Head(s) = Head(t) /\ Last(s) = Last(t) => Alike(s, t))

\* The context a list runs under is done, and the one a try of the loop or
\* branch s gives its rounds or branches, which has the step's own timeout.
CtxDone(l) == user \/ \E q \in late : IsPrefix(q, l)
TryDone(s) == CtxDone(HomeOf(s)) \/ PartsOf(s) \cap late # {}
TimedOut(s) == ~CtxDone(HomeOf(s)) /\ PartsOf(s) \cap late # {}

\* The part's process is not collected yet; one that panicked never is.
Works(l) == rf.sub[l] = "running" /\ ph[l] \notin {"off", "gone"}
\* The parts of s run in the goroutine of the list that has s.
Serial(s) == Kind[s] = "loop" \/ (Kind[s] = "each" /\ (Parallel <= 1 \/ Len(Parts[s]) <= 1))
Gone(s) == {i \in PartsOf(s) : ph[i] = "gone"}
Failed(l) == ph[l] \in Ended \ {"ok"}
HardEnd(l) == ph[l] \in {"stop", "paused"} \* isStop: ErrPaused comes with Stop

WithStep(f, s, x) == [f EXCEPT !.st[s] = x]
WithPart(f, l, x) == [f EXCEPT !.sub[l] = x]

\* runner.save: after the first failed save nothing is saved any more.
Save(f) ==
    /\ rf' = f
    /\ \/ ~saveErr /\ saved' = f /\ UNCHANGED saveErr
       \/ ~saveErr /\ "save" \in Faults /\ saveErr' = TRUE /\ UNCHANGED saved
       \/ saveErr /\ UNCHANGED <<saved, saveErr>>
Edit(f) == rf' = f /\ UNCHANGED <<saved, saveErr>>

Goto(l, phase) == ph' = [ph EXCEPT ![l] = phase] /\ UNCHANGED <<at, tries>>

\* The process of l waits in phase while the lists of S start.
Spawn(l, phase, S) ==
    /\ ph' = [m \in Lists |-> CASE m = l -> phase [] m \in S -> "next" [] OTHER -> ph[m]]
    /\ at' = [m \in Lists |-> IF m \in S THEN 1 ELSE at[m]]
    /\ UNCHANGED tries

Return(l, r) == Goto(l, r)

\* The list's next step, or its end: nothing is checked after the last step.
Advance(l) ==
    IF at[l] = Len(Body[l]) THEN Return(l, "ok")
    ELSE /\ at' = [at EXCEPT ![l] = @ + 1] /\ ph' = [ph EXCEPT ![l] = "next"]
         /\ tries' = [tries EXCEPT ![l] = 0]

\* runStep, a step that ended well.
Done(l, f) == Save(WithStep(f, Step(l), "done")) /\ Advance(l)

\* runner.failed: only a paused step (ErrPaused) is told from the others.
Fail(l, f, why) ==
    LET s == Step(l) IN
    IF user THEN Save(WithStep(f, s, "cancelled")) /\ Return(l, "cut")
    ELSE IF why = "paused" THEN Save(WithStep(f, s, "paused")) /\ Return(l, "paused")
    ELSE /\ Save(WithStep(f, s, "failed"))
         /\ CASE s \in StopSteps -> Return(l, "stop")
              [] s \notin StopSteps /\ HasElse(s) /\ ~CtxDone(l) -> Spawn(l, "else", {ElseOf(s)})
              [] OTHER -> Return(l, "fail")

Rest == <<top, resume, starts, control, outside>>

----------------------------------------------------------------------------
(* runList and runStep. *)

\* The head of runList's loop, then waitHeld: the list stops on a failed
\* save, waits for Continue, or goes on to the step.
NextStep(l) ==
    /\ ph[l] = "next"
    /\ IF saveErr THEN Return(l, "stop") ELSE Goto(l, IF held THEN "held" ELSE "begin")
    /\ UNCHANGED <<rf, saved, saveErr, Rest>>

MutantHeldIsCut(l) ==
    /\ ph[l] = "held" /\ top \in late
    /\ Return(l, "cut")
    /\ UNCHANGED <<rf, saved, saveErr, Rest>>
HeldIsCut(l) ==
    /\ ph[l] = "held" /\ CtxDone(l)
    /\ Return(l, "cut")
    /\ UNCHANGED <<rf, saved, saveErr, Rest>>

BeginCut(l) ==
    /\ ph[l] = "begin" /\ CtxDone(l)
    /\ Return(l, "cut")
    /\ UNCHANGED <<rf, saved, saveErr, Rest>>

RunElse(l) == IF HasElse(Step(l)) THEN Spawn(l, "else", {ElseOf(Step(l))}) ELSE Advance(l)

MutantKeeps(s) == resume /\ rf.st[s] = "done"
Keeps(s) == resume /\ rf.st[s] \in Finished

\* A resumed run keeps what is finished; the else of a skipped step runs.
Restore(l) ==
    /\ ph[l] = "begin" /\ ~CtxDone(l) /\ Keeps(Step(l))
    /\ IF rf.st[Step(l)] = "skipped" THEN RunElse(l) ELSE Advance(l)
    /\ UNCHANGED <<rf, saved, saveErr, Rest>>

\* "when" is false, or it cannot be evaluated.
When(l) ==
    LET s == Step(l) IN
    /\ ph[l] = "begin" /\ ~CtxDone(l) /\ ~Keeps(s) /\ s \in Guarded
    /\ \/ Save(WithStep(rf, s, "skipped")) /\ RunElse(l)
       \/ Fail(l, rf, "err")
    /\ UNCHANGED Rest

Begin(l) ==
    LET s == Step(l) IN
    /\ ph[l] = "begin" /\ ~CtxDone(l) /\ ~Keeps(s)
    /\ Save(WithStep(rf, s, "running"))
    /\ ph' = [ph EXCEPT ![l] = "run"] /\ tries' = [tries EXCEPT ![l] = 1]
    /\ UNCHANGED <<at, Rest>>

\* A step's else has ended: after a skip its error is the list's, after a
\* failure only a stop or the user's cancel is.
MutantElseEnds(l) ==
    LET e == ElseOf(Step(l)) IN
    /\ ph[l] = "else" /\ ph[e] \in Ended \ {"gone"}
    /\ IF ph[e] = "ok" THEN Advance(l) ELSE Return(l, ph[e])
    /\ UNCHANGED <<rf, saved, saveErr, Rest>>
ElseEnds(l) ==
    LET s == Step(l)
        e == ElseOf(s) IN
    /\ ph[l] = "else" /\ ph[e] \in Ended \ {"gone"}
    /\ CASE rf.st[s] = "skipped" -> IF ph[e] = "ok" THEN Advance(l) ELSE Return(l, ph[e])
         [] OTHER -> Return(l, IF HardEnd(e) \/ (Failed(e) /\ user) THEN ph[e] ELSE "fail")
    /\ UNCHANGED <<rf, saved, saveErr, Rest>>

----------------------------------------------------------------------------
(* The steps that call an adapter: work (ai, agent, tests, shell, source,  *)
(* plan, filter, score, wait), whose retries change nothing here, and      *)
(* write, whose retries call the writer again.                             *)

Work(l) ==
    /\ ph[l] = "run" /\ Kind[Step(l)] = "work"
    /\ Done(l, rf) \/ \E why \in {"err", "paused"} : Fail(l, rf, why)
    /\ UNCHANGED Rest

\* A write that failed is tried again unless that was the last try or the
\* run's context is done.
MutantTriesAgain(l) ==
    /\ tries[l] <= MaxTries /\ ~CtxDone(l)
    /\ ph' = [ph EXCEPT ![l] = "run"] /\ tries' = [tries EXCEPT ![l] = @ + 1]
    /\ UNCHANGED at
TriesAgain(l) ==
    /\ tries[l] < MaxTries /\ ~CtxDone(l)
    /\ ph' = [ph EXCEPT ![l] = "run"] /\ tries' = [tries EXCEPT ![l] = @ + 1]
    /\ UNCHANGED at
GivesUp(l) == ~(tries[l] < MaxTries /\ ~CtxDone(l)) /\ Fail(l, rf, "err")

\* The write record is saved as sending and the ledger is asked: the write
\* is there already, or the gate lets it out or denies it, or an error.
WriteAsks(l) ==
    /\ ph[l] = "run" /\ Kind[Step(l)] = "write"
    /\ \/ Key(Step(l)) \in there /\ Done(l, rf)
       \/ Key(Step(l)) \notin there /\ Save(rf) /\ Goto(l, "out")
       \/ Key(Step(l)) \notin there /\ Fail(l, rf, "err")
       \/ Save(rf) /\ TriesAgain(l)
       \/ GivesUp(l)
    /\ UNCHANGED Rest

\* It arrives or not, and the answer may be an error either way.
MutantWriteGoesOut(l) ==
    /\ ph[l] = "out"
    /\ \/ Ledger!Arrive(Key(Step(l))) /\ mine' = mine \cup {Step(l)}
       \/ UNCHANGED outside
    /\ Done(l, rf)
    /\ UNCHANGED <<top, resume, starts, control>>
WriteGoesOut(l) ==
    /\ ph[l] = "out"
    /\ \/ /\ Ledger!Arrive(Key(Step(l))) /\ mine' = mine \cup {Step(l)}
          /\ Done(l, rf) \/ (Edit(rf) /\ TriesAgain(l)) \/ GivesUp(l)
       \/ UNCHANGED outside /\ ((Edit(rf) /\ TriesAgain(l)) \/ GivesUp(l))
    /\ UNCHANGED <<top, resume, starts, control>>

----------------------------------------------------------------------------
(* each *)

\* A resumed each keeps the items of its first start.
EachStarts(l) ==
    LET s == Step(l) IN
    /\ ph[l] = "run" /\ Kind[s] = "each"
    /\ \/ /\ Edit(IF resume /\ \E i \in PartsOf(s) : rf.sub[i] # "none" THEN rf
                  ELSE [rf EXCEPT !.sub = [i \in Lists |->
                            IF i \in PartsOf(s) THEN "pending" ELSE rf.sub[i]]])
          /\ Goto(l, "wait")
       \/ Fail(l, rf, "err")
    /\ UNCHANGED Rest

ItemKept(i) == resume /\ rf.sub[i] \in {"done", "failed"}
Waiting(s) == {k \in DOMAIN Parts[s] :
                 ph[Part(s, k)] = "off" /\ ~ItemKept(Part(s, k))}
Stopped(s) == CtxDone(HomeOf(s)) \/ \E i \in PartsOf(s) : ~Works(i) /\ HardEnd(i)

\* A worker takes the next item; its worktree may not open.  A worker that
\* panicked takes no more.
ItemStarts(l) ==
    LET s == Step(l) IN
    /\ ph[l] = "wait" /\ Kind[s] = "each" /\ ~Stopped(s)
    /\ Cardinality({i \in PartsOf(s) : Works(i)} \cup Gone(s)) < Parallel
    /\ \E k \in Waiting(s) :
         /\ \A j \in Waiting(s) : k <= j
         /\ Save(WithPart(rf, Part(s, k), "running"))
         /\ Spawn(l, "wait", {Part(s, k)}) \/ Goto(Part(s, k), "fail")
    /\ UNCHANGED Rest

\* What a part's end is in the run file.
PartState(r) ==
    CASE r = "ok" -> "done"
      [] r # "ok" /\ user -> "cancelled"
      [] r = "paused" /\ ~user -> "paused"
      [] OTHER -> "failed"

\* The item's worktree is left, which may fail, and its state is saved.
ItemEnds(i) ==
    /\ Works(i) /\ Kind[Container(i)] = "each" /\ ph[i] \in Ended
    /\ \E r \in IF ph[i] = "ok" THEN {"ok", "fail"} ELSE {ph[i]} :
         Save(WithPart(rf, i, PartState(r))) /\ Return(i, r)
    /\ UNCHANGED Rest

\* Failed items are no failure of the each; a stop or a pause is.  Items
\* whose worker panicked, or that no worker is left for, count as not run.
MutantEachEnds(l) ==
    LET s == Step(l) IN
    /\ ph[l] = "wait" /\ Kind[s] = "each"
    /\ (Waiting(s) = {} /\ \A i \in PartsOf(s) : ~Works(i)) \/ Stopped(s)
    /\ IF Stopped(s) THEN Fail(l, rf, "stop") ELSE Done(l, rf)
    /\ UNCHANGED Rest
EachEnds(l) ==
    LET s == Step(l)
        bad == {k \in DOMAIN Parts[s] : HardEnd(Part(s, k))} IN
    /\ ph[l] = "wait" /\ Kind[s] = "each"
    /\ \A i \in PartsOf(s) : ~Works(i)
    /\ Waiting(s) = {} \/ Stopped(s) \/ Cardinality(Gone(s)) >= Parallel
    /\ ~(Serial(s) /\ Gone(s) # {})
    /\ CASE CtxDone(l) -> Fail(l, rf, "cut")
         [] ~CtxDone(l) /\ bad = {} -> Done(l, rf)
         [] OTHER -> \E k \in bad :
              /\ \A j \in bad : k <= j
              /\ Fail(l, rf, ph[Part(s, k)])
    /\ UNCHANGED Rest

----------------------------------------------------------------------------
(* loop *)

\* A try of a loop or a branch failed.  When its own time was up it is tried
\* again, whatever else ended it: try hides the error it had.
TryFails(l, f, why) ==
    CASE TimedOut(Step(l)) /\ tries[l] < MaxTries -> Save(f) /\ Goto(l, "again")
      [] TimedOut(Step(l)) /\ tries[l] >= MaxTries -> Fail(l, f, "err")
      [] OTHER -> Fail(l, f, why)

\* The next try, after the wait: a first run starts the step afresh, a
\* resumed one keeps its rounds or branches.
TriesStepAgain(l) ==
    LET In(x) == \E i \in PartsOf(Step(l)) : IsPrefix(i, x) IN
    /\ ph[l] = "again" /\ ~CtxDone(l)
    /\ Edit(IF resume THEN rf
            ELSE [rf EXCEPT !.st = [s \in Steps |-> IF In(s) THEN "none" ELSE rf.st[s]],
                            !.sub = [i \in Lists |-> IF In(i) THEN "none" ELSE rf.sub[i]]])
    /\ ph' = [m \in Lists |-> CASE m = l -> "run" [] In(m) -> "off" [] OTHER -> ph[m]]
    /\ tries' = [tries EXCEPT ![l] = @ + 1]
    /\ late' = {q \in late : ~In(q)}
    /\ UNCHANGED <<at, top, resume, starts, held, holds, user, died, outside>>
StaysTimedOut(l) == ph[l] = "again" /\ CtxDone(l) /\ Fail(l, rf, "err") /\ UNCHANGED Rest

\* The rounds in the run file.
Rounds(s) == Cardinality({k \in DOMAIN Parts[s] : \A j \in 1..k : rf.sub[Part(s, j)] # "none"})

\* The next round; a resumed loop goes on with the round it died in.
RoundStarts(l) ==
    LET s == Step(l)
        n == Rounds(s)
        again == resume /\ n > 0 /\ rf.sub[Part(s, n)] \notin {"done", "failed"}
        round == IF again THEN n ELSE n + 1 IN
    /\ ph[l] = "run" /\ Kind[s] = "loop"
    /\ IF round > Len(Parts[s]) THEN TryFails(l, rf, "err")
       ELSE /\ Save(WithPart(rf, Part(s, round), "running"))
            /\ Spawn(l, "wait", {Part(s, round)})
    /\ UNCHANGED Rest

\* A round passes when its steps do and "until" is true; a failed round is
\* followed by the next one, an error of "until" ends the loop.
RoundEnds(l) ==
    LET s == Step(l) IN
    /\ ph[l] = "wait" /\ Kind[s] = "loop"
    /\ \E i \in PartsOf(s) :
         /\ Works(i) /\ ph[i] \in Ended
         /\ \/ /\ Failed(i) /\ (TryDone(s) \/ HardEnd(i))
               /\ TryFails(l, WithPart(rf, i, PartState(ph[i])), ph[i])
            \/ /\ ph[i] = "fail" /\ ~TryDone(s)
               /\ Save(WithPart(rf, i, "failed")) /\ Goto(l, "run")
            \/ /\ ph[i] = "ok"
               /\ Save(WithPart(rf, i, "done")) /\ Goto(l, "pass")
            \/ /\ ph[i] = "ok" /\ s \in Until
               /\ \/ Save(WithPart(rf, i, "failed")) /\ Goto(l, "run")
                  \/ TryFails(l, WithPart(rf, i, "failed"), "err")
    /\ UNCHANGED Rest

\* The loop's own state is saved after its last round's.
LoopPasses(l) == ph[l] = "pass" /\ Done(l, rf) /\ UNCHANGED Rest

----------------------------------------------------------------------------
(* branch *)

BranchesStart(l) ==
    LET s == Step(l) IN
    /\ ph[l] = "run" /\ Kind[s] = "branch"
    /\ Save([rf EXCEPT !.sub = [b \in Lists |-> IF b \in PartsOf(s) THEN "running" ELSE rf.sub[b]]])
    /\ Spawn(l, "wait", PartsOf(s))
    /\ UNCHANGED Rest

\* A branch's end is in memory until the next save; one that panicked has
\* none and counts as failed.
BranchEnds(b) ==
    /\ Works(b) /\ Kind[Container(b)] = "branch" /\ ph[b] \in Ended
    /\ Edit(WithPart(rf, b, PartState(ph[b])))
    /\ UNCHANGED <<proc, Rest>>

Joins(s) ==
    IF s \in JoinAny THEN \E b \in PartsOf(s) : rf.sub[b] = "done"
    ELSE \A b \in PartsOf(s) : rf.sub[b] = "done"

BranchesJoin(l) ==
    LET s == Step(l)
        bad == {k \in DOMAIN Parts[s] : HardEnd(Part(s, k))} IN
    /\ ph[l] = "wait" /\ Kind[s] = "branch"
    /\ \A b \in PartsOf(s) : ~Works(b)
    /\ CASE TryDone(s) -> TryFails(l, rf, "cut")
         [] ~TryDone(s) /\ bad = {} -> IF Joins(s) THEN Done(l, rf) ELSE Fail(l, rf, "err")
         [] OTHER -> \E k \in bad :
              /\ \A j \in bad : k <= j
              /\ Fail(l, rf, ph[Part(s, k)])
    /\ UNCHANGED Rest

----------------------------------------------------------------------------
(* A panic in what a list's goroutine calls: an adapter, an expression, or,  *)
(* after the list's end, what leaves the item or tests "until".  Nothing is  *)
(* written of it; the lists of the same goroutine end with it.               *)

Panics(l) ==
    /\ l \in Fragile
    /\ ph[l] \in {"next", "begin", "run", "out"} \/ (Works(l) /\ ph[l] \in Ended)
    /\ died' = died \cup {l} /\ Return(l, "gone")
    /\ UNCHANGED <<top, rf, saved, saveErr, resume, starts, held, holds, user, late, outside>>

Unwinds(l) ==
    LET s == Step(l) IN
    /\ \/ ph[l] = "else" /\ ph[ElseOf(s)] = "gone"
       \/ ph[l] = "wait" /\ Serial(s) /\ Gone(s) # {}
    /\ died' = died \cup {l} /\ Return(l, "gone")
    /\ UNCHANGED <<top, rf, saved, saveErr, resume, starts, held, holds, user, late, outside>>

----------------------------------------------------------------------------
(* The run: its end, the user, and the next start. *)

RunEnds ==
    /\ rf.run = "running" /\ ph[top] \in Ended
    /\ Save([rf EXCEPT !.run = CASE ph[top] = "ok" -> "ok"
                                 [] ph[top] \notin {"ok", "gone"} /\ user -> "cancelled"
                                 [] ph[top] = "paused" /\ ~user -> "paused"
                                 [] OTHER -> "failed"])
    /\ held' = FALSE
    /\ UNCHANGED <<top, resume, starts, proc, holds, user, late, died, outside>>

Pause ==
    /\ rf.run = "running" /\ ~held /\ holds < MaxHolds
    /\ held' = TRUE /\ holds' = holds + 1
    /\ Save(rf)
    /\ UNCHANGED <<top, resume, starts, proc, user, late, died, outside>>

\* Continue closes the channel the held lists wait on.
MutantContinue ==
    /\ rf.run = "running" /\ held
    /\ held' = FALSE
    /\ Save(rf)
    /\ UNCHANGED <<top, resume, starts, proc, holds, user, late, died, outside>>
Continue ==
    /\ rf.run = "running" /\ held
    /\ held' = FALSE
    /\ ph' = [l \in Lists |-> IF ph[l] = "held" THEN "begin" ELSE ph[l]]
    /\ Save(rf)
    /\ UNCHANGED <<top, resume, starts, at, tries, holds, user, late, died, outside>>

Cancel ==
    /\ rf.run = "running" /\ ~user /\ "cancel" \in Faults
    /\ user' = TRUE
    /\ UNCHANGED <<top, rf, saved, saveErr, resume, starts, proc, held, holds, late, died, outside>>

\* The time of the run, of an item at work, or of a timed loop or branch.
Clocks ==
    {{top}} \cup {{i} : i \in {j \in Lists : Works(j) /\ Kind[Container(j)] = "each" /\ Container(j) \in Timed}}
    \cup {PartsOf(Step(l)) : l \in {m \in Lists :
             ph[m] \in {"run", "wait"} /\ Step(m) \in Timed /\ Kind[Step(m)] \in {"loop", "branch"}}}
TimeIsUp ==
    /\ rf.run = "running" /\ "timeout" \in Faults
    /\ \E S \in Clocks : ~(S \subseteq late) /\ late' = late \cup S
    /\ UNCHANGED <<top, rf, saved, saveErr, resume, starts, proc, held, holds, user, died, outside>>

\* Start with Options.Resume: nothing of the old process is left.
StartFrom(f) ==
    /\ starts < MaxStarts
    /\ starts' = starts + 1 /\ resume' = TRUE
    /\ rf' = [f EXCEPT !.run = "running"]
    /\ \/ saved' = rf' /\ saveErr' = FALSE
       \/ "save" \in Faults /\ UNCHANGED saved /\ saveErr' = TRUE
    /\ at' = [l \in Lists |-> 1] /\ tries' = [l \in Lists |-> 0]
    /\ ph' = [l \in Lists |-> IF l = top THEN "next" ELSE "off"]
    /\ held' = FALSE /\ user' = FALSE /\ late' = {}
    /\ UNCHANGED <<top, holds, died, outside>>

\* Recover: what was running when the process died is interrupted.
Recovered(f) ==
    LET cut(x) == IF x = "running" THEN "interrupted" ELSE x IN
    [f EXCEPT !.st = [s \in Steps |-> cut(f.st[s])], !.sub = [l \in Lists |-> cut(f.sub[l])]]

\* The process dies and the next one finds a run file that says running.
Restart == "crash" \in Faults /\ saved.run = "running" /\ StartFrom(Recovered(saved))

BadStep(s) ==
    \/ rf.st[s] \notin Finished \cup {"none", "pending"}
    \/ /\ Kind[s] = "each" /\ rf.st[s] # "none"
       /\ \E i \in PartsOf(s) : rf.sub[i] \notin {"none", "done"}

\* A step is bad too when a step of its else is (no else is in an else here).
Bad(s) ==
    /\ rf.st[s] # "none"
    /\ BadStep(s) \/ (HasElse(s) /\ \E t \in StepsIn(ElseOf(s)) : BadStep(t))

\* The lists retryList goes into: the top one, and the lists of the items
\* that are not done of an each that is the first bad step of such a list.
FirstBad(l, s) ==
    \E k \in DOMAIN Body[l] :
        /\ s = StepAt(l, k) /\ Bad(s)
        /\ \A j \in 1..(k - 1) : ~Bad(StepAt(l, j))
OpensEach(l, s) == FirstBad(l, s) /\ Kind[s] = "each" /\ \E i \in PartsOf(s) : rf.sub[i] # "none"
Retried(l) ==
    /\ IsPrefix(top, l)
    /\ \A n \in {m \in Len(top)..(Len(l) - 2) : (m - Len(top)) % 2 = 0} :
         /\ OpensEach(SubSeq(l, 1, n), SubSeq(l, 1, n + 1))
         /\ rf.sub[SubSeq(l, 1, n + 2)] # "done"

\* What retryList forgets: from the first bad step of a list on, everything
\* but the each it goes into; without one, what did not end well.
MutantForgets(l, s) == ~OpensEach(l, s) /\ s \in StepsIn(l) /\ Bad(s)
Forgets(l, s) ==
    IF \E t \in StepsIn(l) : FirstBad(l, t)
    THEN /\ ~OpensEach(l, s)
         /\ \E j, k \in DOMAIN Body[l] :
              /\ j <= k /\ s = StepAt(l, k) /\ FirstBad(l, StepAt(l, j))
    ELSE l # top /\ rf.st[s] \notin Finished
Dropped(t) ==
    \E l \in Lists : Retried(l) /\ \E s \in StepsIn(l) :
        \/ IsPrefix(s, t) /\ Forgets(l, s)
        \/ IsPrefix(ElseOf(s), t) /\ OpensEach(l, s)

Again ==
    [run |-> "interrupted",
     st |-> [t \in Steps |->
        IF Dropped(t) THEN "none"
        ELSE IF Retried(HomeOf(t)) /\ OpensEach(HomeOf(t), t) THEN "pending" ELSE rf.st[t]],
     sub |-> [i \in Lists |->
        IF \E t \in Steps : IsPrefix(t, i) /\ Dropped(t) THEN "none"
        ELSE IF i # top /\ Retried(i) THEN "pending" ELSE rf.sub[i]]]

\* run.Retry of an ended run with a part that did not end well.
Retry ==
    /\ "retry" \in Faults /\ rf.run # "running"
    /\ \E s \in StepsIn(top) : Bad(s)
    /\ StartFrom(Again)

----------------------------------------------------------------------------

\* A step of the goroutine of the list l, or of the one that collects it.
ListStep(l) ==
    \/ NextStep(l) \/ HeldIsCut(l) \/ BeginCut(l) \/ Restore(l) \/ When(l) \/ Begin(l) \/ ElseEnds(l)
    \/ Work(l) \/ WriteAsks(l) \/ WriteGoesOut(l)
    \/ EachStarts(l) \/ ItemStarts(l) \/ EachEnds(l)
    \/ RoundStarts(l) \/ RoundEnds(l) \/ LoopPasses(l)
    \/ BranchesStart(l) \/ BranchesJoin(l) \/ TriesStepAgain(l) \/ StaysTimedOut(l)
    \/ Unwinds(l)

PartStep(l) == ItemEnds(l) \/ BranchEnds(l)

\* A run that has ended may stay so for ever.
RunOver == rf.run # "running" /\ UNCHANGED vars

Next ==
    \/ \E l \in Lists : ListStep(l) \/ PartStep(l) \/ Panics(l)
    \/ RunEnds \/ Pause \/ Continue \/ Cancel \/ TimeIsUp \/ Restart \/ Retry \/ RunOver

Spec == Init /\ [][Next]_vars

\* The engine's goroutines run, and every adapter and card is answered.
FairSpec == Spec /\ WF_vars(RunEnds) /\ \A l \in Lists : WF_vars(ListStep(l)) /\ WF_vars(PartStep(l))

----------------------------------------------------------------------------

Places == {s \in Steps : IsPrefix(top, s)}

\* The lists that have not come to an end.
Busy == {l \in Lists : ph[l] \notin Ended \cup {"off"}}

\* When the run has ended nothing of it works any more: no list, item, round
\* or branch goes on behind the end that the user and the next run are told
\* of, and a step, item or branch that the run file still calls running is
\* one whose goroutine panicked (run.go:187, graph.go:146, steps.go:307).
EndIsQuiet ==
    rf.run # "running" =>
        /\ Busy = {}
        /\ \A s \in Places : rf.st[s] = "running" => HomeOf(s) \in died
        /\ \A l \in Lists : rf.sub[l] = "running" => l \in died

\* A step starts, and is over, only after every step before it in its list
\* is finished, through every crash, resume and retry: no answer it builds
\* on is missing.  (The steps after a failed one never began.)
InOrder ==
    \A l \in Lists : \A j, k \in DOMAIN Body[l] :
        j < k /\ rf.st[StepAt(l, k)] \notin {"none", "pending"} =>
            rf.st[StepAt(l, j)] \in Finished

\* What is called done is done: a run that is ok finished every step, and
\* an item, round or branch that is done finished every step of its list.
DoneIsDone ==
    /\ rf.run = "ok" => \A s \in StepsIn(top) : rf.st[s] \in Finished
    /\ \A l \in Lists : rf.sub[l] = "done" => \A s \in StepsIn(l) : rf.st[s] \in Finished

\* A step whose end is in the run file never begins again in a resumed run,
\* only by a retry that has forgotten it first (docs/guides/workflows.md:333,
\* "finished steps stay finished").
FinishedStays ==
    [][resume' => \A s \in Steps :
          saved.st[s] \in Finished /\ rf'.st[s] = "running" => rf.st[s] = "running"]_vars

\* A write whose ledger entry is its own: it has an id and is in no loop, and
\* in one each at most.
Own(s) == s \notin Anon /\ RoundsAt(s) = {} /\ \A j, k \in ItemsAt(s) : j = k

\* A write with an id, in no loop and in one each at most, that is done has
\* been sent: no resume, retry, timeout or other step's ledger entry passes
\* for it.
WritesGoOut ==
    \A s \in Steps : Kind[s] = "write" /\ rf.st[s] = "done" /\ Own(s) => s \in mine

\* Also in a loop: its writes are "one per round" (steps.go:458), each with a
\* marker of its own.
EveryRoundWrites == \A s \in Steps : Kind[s] = "write" /\ rf.st[s] = "done" => s \in mine

\* A cancelled run ends, also one that is held; and a run that is not held
\* for ever ends.
CancelEnds == user ~> ~user \/ rf.run # "running"
RunEndsUnlessHeld == <>[]~held => <>(rf.run # "running")
=============================================================================
