-------------------------- MODULE WorkflowSchedule --------------------------
(***************************************************************************)
(* The schedules of workflows (internal/workflow/schedule and              *)
(* app/workflows_sched.go) in the process that owns the workspace, which   *)
(* may die and boot again.  Four kinds of actors share the jobs and the    *)
(* state file of each workflow: the loop, whose Tick handles the slots     *)
(* that are due; one goroutine per fire, from the precheck to the record   *)
(* of its outcome; the UI goroutine, which starts runs, adds and removes   *)
(* jobs and saves what the user chose; and the runs.  A record, and a save *)
(* of the user's choice, read the state file and write it under two locks  *)
(* taken one after the other.                                              *)
(*                                                                         *)
(* The bytes of the files never change here, so trust may go only where    *)
(* the code takes it away.                                                 *)
(***************************************************************************)
EXTENDS Integers, FiniteSets

CONSTANTS
    Workflows,
    Slots,       \* the times of Schedule; 0 is the zero time
    End,         \* bound: the last point of time
    Window,      \* Scheduler.window: a slot missed by more is not run
    Places,      \* workflows_parallel_max
    None,
    MaxActs,     \* bound: choices and runs of the user
    MaxCrashes   \* bound: crashes

ASSUME ScheduleAssumption ==
    /\ Slots \subseteq Nat \ {0} /\ End \in Nat /\ Window \in Nat /\ Places \in Nat \ {0}
    /\ None \notin [next : Slots \cup {0}, running : BOOLEAN]

VARIABLES
    now, up,    \* the time; the process is up
    jobs,       \* Scheduler.jobs: a job's next and running, or None
    known,      \* the workflows in wfxSchedHost.hashes
    fires,      \* the goroutines of fire
    evs, got,   \* the loop's events not recorded yet; what it read to record one
    runs,       \* the live runs <<workflow, slot>>, 0 for a resumed one and -1, -2, ...
                \* for the user's; while the process is down, the run files that say running
    file,       \* the state files: last_run, trust and on
    list,       \* wfxState.list: the state files as the UI last read them
    ui,         \* what the UI goroutine is in the middle of
    asked,      \* the workflow of the card that asks to run it
    acts, crashes

vars == <<now, up, jobs, known, fires, evs, got, runs, file, list, ui, asked, acts, crashes>>

Jobs == [next : Slots \cup {0}, running : BOOLEAN]
StateFiles == [last : Slots \cup {0}, trusted : BOOLEAN, on : BOOLEAN]
Stages == {"queued", "precheck", "place", "asked", "going", "record", "save"}
Ops == {"idle", "toggle", "trust", "sync"}

(* The types; what was read of a state file is None but between a read and *)
(* its save.                                                               *)
TypeOK ==
    /\ now \in Nat /\ up \in BOOLEAN
    /\ jobs \in [Workflows -> Jobs \cup {None}]
    /\ known \in SUBSET Workflows
    /\ fires \in SUBSET [w : Workflows, slot : Slots, cut : BOOLEAN, at : Stages,
                         read : StateFiles \cup {None}]
    /\ evs \in SUBSET [w : Workflows, slot : Slots]
    /\ got \in [w : Workflows, slot : Slots, read : StateFiles] \cup {None}
    /\ runs \in SUBSET (Workflows \X Int)
    /\ file \in [Workflows -> StateFiles]
    /\ list \in [Workflows -> StateFiles]
    /\ ui \in [op : Ops, w : Workflows \cup {None}, read : StateFiles \cup {None},
               todo : SUBSET Workflows]
    /\ asked \in Workflows \cup {None}
    /\ acts \in Nat /\ crashes \in Nat

(* wfxSchedWanted: a trusted workflow that is on has a job (its file is    *)
(* good and has a schedule).                                               *)
Wanted(l) == {w \in Workflows : l[w].trusted /\ l[w].on}

Idle == [op |-> "idle", w |-> None, read |-> None, todo |-> {}]
Syncing(todo) == IF todo = {} THEN Idle ELSE [Idle EXCEPT !.op = "sync", !.todo = todo]

(* The first boot of the process with its schedules on.                    *)
Init ==
    /\ now = 1 /\ up = TRUE
    /\ jobs = [w \in Workflows |-> None]
    /\ known = {} /\ fires = {} /\ evs = {} /\ got = None /\ runs = {}
    /\ file = [w \in Workflows |-> [last |-> 0, trusted |-> TRUE, on |-> TRUE]]
    /\ list = file
    /\ ui = Syncing(Workflows)
    /\ asked = None /\ acts = 0 /\ crashes = 0

(***************************************************************************)
(* The state file and the runs of a workflow.                              *)
(***************************************************************************)

(* LoadState: trust given to other bytes is dropped and the drop is saved; *)
(* hashed says whether the caller names the bytes that the file has.       *)
Loaded(w, hashed) == [file[w] EXCEPT !.trusted = @ /\ hashed]

(* record: the hash is that of the job's bytes, empty without a job.       *)
ReadToRecord(w) == Loaded(w, w \in known)

(* wfxRunning                                                              *)
Running(w) == \E r \in runs : r[1] = w

(***************************************************************************)
(* The loop.                                                               *)
(***************************************************************************)

Clock ==
    /\ now < End /\ now' = now + 1
    /\ UNCHANGED <<up, jobs, known, fires, evs, got, runs, file, list, ui, asked, acts, crashes>>

(* Schedule.Next                                                           *)
Later(t) == {s \in Slots : s > t}
NextSlot(t) == IF Later(t) = {} THEN 0 ELSE CHOOSE s \in Later(t) : \A u \in Later(t) : s <= u

Due == {w \in Workflows : jobs[w] # None /\ jobs[w].next # 0 /\ jobs[w].next <= now}

(* catchUp: the slots within the window, of which the latest is handled,   *)
(* and whether the first slot is older.                                    *)
InWindow(w) == {s \in Slots : jobs[w].next <= s /\ now - Window <= s /\ s <= now}
Latest(S) == CHOOSE s \in S : \A u \in S : u <= s
IsMissed(w) == jobs[w].next < now - Window

MutantFiring == {w \in Due : InWindow(w) # {}}
Firing == {w \in Due : InWindow(w) # {} /\ ~jobs[w].running}
Skipping == {w \in Due : InWindow(w) # {} /\ jobs[w].running}

NewFire(w) == [w |-> w, slot |-> Latest(InWindow(w)), cut |-> FALSE, at |-> "queued", read |-> None]

Tick ==
    /\ up /\ evs = {} /\ \A f \in fires : f.at # "queued"
    /\ Due # {}
    /\ evs' = {[w |-> w, slot |-> jobs[w].next] : w \in {d \in Due : IsMissed(d)}}
              \cup {[w |-> w, slot |-> Latest(InWindow(w))] : w \in Skipping}
    /\ fires' = fires \cup {NewFire(w) : w \in Firing}
    /\ jobs' = [w \in Workflows |->
                  IF w \in Due THEN [next |-> NextSlot(now), running |-> jobs[w].running \/ w \in Firing]
                               ELSE jobs[w]]
    /\ UNCHANGED <<now, up, known, got, runs, file, list, ui, asked, acts, crashes>>

(* The loop records the events of a Tick, of one workflow in the order of  *)
(* their slots, and then starts its fires.                                 *)
EventLoads(e) ==
    /\ e \in evs /\ got = None
    /\ \A o \in evs : o.w = e.w => e.slot <= o.slot
    /\ got' = [w |-> e.w, slot |-> e.slot, read |-> ReadToRecord(e.w)]
    /\ file' = [file EXCEPT ![e.w] = ReadToRecord(e.w)]
    /\ UNCHANGED <<now, up, jobs, known, fires, evs, runs, list, ui, asked, acts, crashes>>

EventSaves(ok) ==
    /\ got # None
    /\ file' = IF ok THEN [file EXCEPT ![got.w] = [got.read EXCEPT !.last = got.slot]] ELSE file
    /\ evs' = evs \ {[w |-> got.w, slot |-> got.slot]} /\ got' = None
    /\ UNCHANGED <<now, up, jobs, known, fires, runs, list, ui, asked, acts, crashes>>

Launch ==
    /\ evs = {} /\ \E f \in fires : f.at = "queued"
    /\ fires' = {IF f.at = "queued" THEN [f EXCEPT !.at = "precheck"] ELSE f : f \in fires}
    /\ UNCHANGED <<now, up, jobs, known, evs, got, runs, file, list, ui, asked, acts, crashes>>

(***************************************************************************)
(* A fire: precheck, a place, the run on the UI goroutine, the record.     *)
(***************************************************************************)

Becomes(f, g) == f \in fires /\ fires' = (fires \ {f}) \cup {g}
Moves(f, stage) ==
    /\ Becomes(f, [f EXCEPT !.at = stage])
    /\ UNCHANGED <<now, up, jobs, known, evs, got, file, asked, acts, crashes>>

(* A failed precheck skips the slot.                                       *)
Precheck(f, passes) ==
    /\ f.at = "precheck"
    /\ Moves(f, IF passes THEN "place" ELSE "record")
    /\ UNCHANGED <<runs, list, ui>>

Holding == {f \in fires : f.at \in {"asked", "going"}}

TakePlace(f) ==
    /\ f.at = "place" /\ Cardinality(Holding) < Places
    /\ Moves(f, "asked")
    /\ UNCHANGED <<runs, list, ui>>

(* The job was removed: the fire gives up where it waits, its run goes on. *)
GiveUp(f) ==
    /\ f.cut /\ f.at \in {"place", "asked", "going"}
    /\ Moves(f, "record")
    /\ UNCHANGED <<runs, list, ui>>

(* wfxDueMsg and wfxStartScheduled                                         *)
MayStart(f) == f.w \in Wanted(file) /\ ~Running(f.w)
MutantStartDue(f) ==
    /\ f.at = "asked" /\ ui = Idle /\ ~f.cut
    /\ list' = file /\ MayStart(f)
    /\ runs' = runs \cup {<<f.w, f.slot>>} /\ Moves(f, "going")
    /\ UNCHANGED ui
StartDue(f) ==
    /\ f.at = "asked" /\ ui = Idle
    /\ list' = IF f.cut THEN list ELSE file
    /\ \/ ~f.cut /\ MayStart(f) /\ runs' = runs \cup {<<f.w, f.slot>>} /\ Moves(f, "going")
       \/ (f.cut \/ ~MayStart(f)) /\ runs' = runs /\ Moves(f, "record")
    /\ UNCHANGED ui

RunEnds(r) ==
    /\ up /\ runs' = runs \ {r}
    /\ UNCHANGED <<now, up, jobs, known, fires, evs, got, file, list, ui, asked, acts, crashes>>

SeesEnd(f) ==
    /\ f.at = "going" /\ <<f.w, f.slot>> \notin runs
    /\ Moves(f, "record")
    /\ UNCHANGED <<runs, list, ui>>

RecordLoads(f) ==
    /\ f.at = "record"
    /\ Becomes(f, [f EXCEPT !.at = "save", !.read = ReadToRecord(f.w)])
    /\ file' = [file EXCEPT ![f.w] = ReadToRecord(f.w)]
    /\ UNCHANGED <<now, up, jobs, known, evs, got, runs, list, ui, asked, acts, crashes>>

(* The save of the record and the end of fire: a job that was removed is   *)
(* no longer in jobs, so its running flag is nobody's.                     *)
RecordSaves(f, ok) ==
    /\ f.at = "save" /\ f \in fires /\ fires' = fires \ {f}
    /\ file' = IF ok THEN [file EXCEPT ![f.w] = [f.read EXCEPT !.last = f.slot]] ELSE file
    /\ jobs' = IF f.cut THEN jobs ELSE [jobs EXCEPT ![f.w].running = FALSE]
    /\ UNCHANGED <<now, up, known, evs, got, runs, list, ui, asked, acts, crashes>>

(***************************************************************************)
(* The UI goroutine.                                                       *)
(***************************************************************************)

(* The card that asks to run a workflow is shown when none of its runs is  *)
(* live, ...                                                               *)
AskRun(w) ==
    /\ up /\ ui = Idle /\ asked # w
    /\ list[w].trusted /\ ~Running(w)
    /\ asked' = w
    /\ UNCHANGED <<now, up, jobs, known, fires, evs, got, runs, file, list, ui, acts, crashes>>

Acts == acts < MaxActs /\ acts' = acts + 1

(* ... and its answer does not look again for one that began meanwhile.    *)
RunByHand ==
    /\ up /\ ui = Idle /\ asked # None /\ Acts
    /\ runs' = runs \cup {<<asked, 0 - acts'>>} /\ asked' = None
    /\ UNCHANGED <<now, up, jobs, known, fires, evs, got, file, list, ui, crashes>>

(* The run from the browser or by an AI tool, whose answer does.           *)
RunFromAfar(w) ==
    /\ up /\ ui = Idle /\ Acts
    /\ list' = file
    /\ file[w].trusted /\ ~Running(w)
    /\ runs' = runs \cup {<<w, 0 - acts'>>}
    /\ UNCHANGED <<now, up, jobs, known, fires, evs, got, file, ui, asked, crashes>>

(* The view or an event of the scheduler reads the list again.             *)
Reload ==
    /\ up /\ ui = Idle /\ list # file
    /\ list' = file
    /\ UNCHANGED <<now, up, jobs, known, fires, evs, got, runs, file, ui, asked, acts, crashes>>

(* wfxToggle and Trust: the state is read ...                              *)
UIReads(w, op) ==
    /\ up /\ ui = Idle /\ list[w].trusted = (op = "toggle") /\ Acts
    /\ ui' = [op |-> op, w |-> w, read |-> file[w], todo |-> {}]
    /\ asked' = None
    /\ UNCHANGED <<now, up, jobs, known, fires, evs, got, runs, file, list, crashes>>

(* ... changed and written, and the list is read again.                    *)
Chosen == IF ui.op = "toggle" THEN [ui.read EXCEPT !.on = ~@] ELSE [ui.read EXCEPT !.trusted = TRUE]
UISaves ==
    /\ ui.op \in {"toggle", "trust"}
    /\ file' = [file EXCEPT ![ui.w] = Chosen] /\ list' = file'

(* A save that fails changes nothing.                                      *)
UISaveFails ==
    /\ ui.op \in {"toggle", "trust"} /\ ui' = Idle
    /\ UNCHANGED <<now, up, jobs, known, fires, evs, got, runs, file, list, asked, acts, crashes>>

(* The card that asks to run the workflow comes right after its trust.     *)
TrustSaves ==
    /\ ui.op = "trust" /\ UISaves /\ ui' = Idle /\ asked' = ui.w
    /\ UNCHANGED <<now, up, jobs, known, fires, evs, got, runs, acts, crashes>>

(* wfxSchedSyncJobs: the jobs that are no longer wanted are removed and    *)
(* their fires cancelled; then the new ones are added one by one.          *)
Unwanted == known \ Wanted(list')
Cut(S) == {IF f.w \in S THEN [f EXCEPT !.cut = TRUE] ELSE f : f \in fires}
ToggleSaves ==
    /\ ui.op = "toggle" /\ UISaves
    /\ known' = known \ Unwanted
    /\ jobs' = [w \in Workflows |-> IF w \in Unwanted THEN None ELSE jobs[w]]
    /\ fires' = Cut(Unwanted)
    /\ ui' = Syncing(Wanted(list') \ known)
    /\ UNCHANGED <<now, up, evs, got, runs, asked, acts, crashes>>

(* wfxJob reads the state file, ...                                        *)
ReadJob(w) ==
    /\ ui.op = "sync" /\ ui.w = None /\ w \in ui.todo
    /\ ui' = [ui EXCEPT !.w = w, !.read = file[w]]
    /\ UNCHANGED <<now, up, jobs, known, fires, evs, got, runs, file, list, asked, acts, crashes>>

(* ... Scheduler.Add takes the first slot after the last one it saw there  *)
(* recorded, ...                                                           *)
From == IF ui.read.last = 0 \/ ui.read.last > now THEN now ELSE ui.read.last
AddJob ==
    /\ ui.op = "sync" /\ ui.w # None /\ jobs[ui.w] = None
    /\ jobs' = [jobs EXCEPT ![ui.w] = [next |-> NextSlot(From), running |-> FALSE]]
    /\ UNCHANGED <<now, up, known, fires, evs, got, runs, file, list, ui, asked, acts, crashes>>

(* ... and the hash is noted when the job may have fired already.          *)
KnowJob ==
    /\ ui.op = "sync" /\ ui.w # None /\ jobs[ui.w] # None
    /\ known' = known \cup {ui.w} /\ ui' = Syncing(ui.todo \ {ui.w})
    /\ UNCHANGED <<now, up, jobs, fires, evs, got, runs, file, list, asked, acts, crashes>>

(***************************************************************************)
(* The process dies at any step; the next one boots: it resumes runs that  *)
(* were live and adds the jobs.                                            *)
(***************************************************************************)

Crash ==
    /\ up /\ crashes < MaxCrashes /\ crashes' = crashes + 1
    /\ up' = FALSE /\ jobs' = [w \in Workflows |-> None] /\ known' = {}
    /\ fires' = {} /\ evs' = {} /\ got' = None /\ ui' = Idle
    /\ asked' = None
    /\ UNCHANGED <<now, runs, file, list, acts>>

Boot ==
    /\ ~up /\ up' = TRUE
    /\ list' = file /\ ui' = Syncing(Wanted(file))
    /\ \E R \in SUBSET {w \in Workflows : Running(w) /\ file[w].trusted} : runs' = R \X {0}
    /\ UNCHANGED <<now, jobs, known, fires, evs, got, file, asked, acts, crashes>>

FireSteps(f) ==
    \/ \E passes \in BOOLEAN : Precheck(f, passes)
    \/ TakePlace(f) \/ GiveUp(f) \/ StartDue(f) \/ SeesEnd(f) \/ RecordLoads(f)
    \/ \E ok \in BOOLEAN : RecordSaves(f, ok)

LoopSteps == Tick \/ (\E e \in evs : EventLoads(e)) \/ (\E ok \in BOOLEAN : EventSaves(ok)) \/ Launch

UISteps ==
    \/ UISaveFails \/ TrustSaves \/ ToggleSaves
    \/ (\E w \in Workflows : ReadJob(w)) \/ AddJob \/ KnowJob

(* Nothing is left to do before the bounds.                                *)
Over ==
    /\ up /\ ui = Idle /\ fires = {} /\ evs = {} /\ runs = {} /\ now = End
    /\ UNCHANGED vars

Next ==
    \/ Over
    \/ Clock \/ LoopSteps \/ UISteps \/ Crash \/ Boot
    \/ \E f \in fires : FireSteps(f)
    \/ \E r \in runs : RunEnds(r)
    \/ RunByHand \/ Reload
    \/ \E w \in Workflows : \/ AskRun(w) \/ RunFromAfar(w)
                           \/ \E op \in {"toggle", "trust"} : UIReads(w, op)

Spec == Init /\ [][Next]_vars

(* The goroutines run, the UI answers, and a run ends (a run that waits    *)
(* for a card for ever would hold its place for ever).                     *)
Fairness ==
    /\ WF_vars(LoopSteps) /\ WF_vars(UISteps)
    /\ \A w \in Workflows, s \in Slots : WF_vars(\E f \in fires : f.w = w /\ f.slot = s /\ FireSteps(f))
    /\ \A w \in Workflows, s \in Slots \cup (0 - MaxActs)..0 : WF_vars(<<w, s>> \in runs /\ RunEnds(<<w, s>>))

FairSpec == Spec /\ Fairness

(***************************************************************************)
(* Properties.                                                             *)
(***************************************************************************)

(* Concurrency 1 per workflow: while a job exists it has at most one fire, *)
(* marked in its running flag, and the slots before its next, that one     *)
(* among them, are not fired again (scheduler.go: "one slot fires at most  *)
(* once").  A fire of a removed job may still be there beside it.          *)
OneFire ==
    /\ \A f, g \in fires : f.w = g.w /\ ~f.cut /\ ~g.cut => f = g
    /\ \A f \in fires : ~f.cut =>
         jobs[f.w] # None /\ jobs[f.w].running /\ (jobs[f.w].next = 0 \/ f.slot < jobs[f.w].next)

(* A fire ends, whatever becomes of its job, the places and the UI, so that *)
(* the slots after it run again.  That a run itself ends is assumed: it is *)
(* one of the conditions of Fairness.                                      *)
FireEnds ==
    \A w \in Workflows, s \in Slots :
        (\E f \in fires : f.w = w /\ f.slot = s) ~> ~\E f \in fires : f.w = w /\ f.slot = s

(* "LastRun is the last slot already handled (from the state file)"        *)
(* (scheduler.go): it does not go back to a slot before.                   *)
LastRunStays == [][\A w \in Workflows : file[w].last <= file'[w].last]_vars

(* Trust "holds only for the file bytes it was given for" (allow.go), and  *)
(* for those it holds: the bytes are the same, so it stays.                *)
TrustStays == [][\A w \in Workflows : file[w].trusted => file'[w].trusted]_vars
=============================================================================
