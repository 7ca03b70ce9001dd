# Verification of termocode

termocode is a terminal workbench written in Go: an editor around nvim,
terminals, git, databases, containers, an AI chat with agents, and workflows.
This directory holds TLA+ models of the parts of it whose correctness rests on
the order of concurrent steps, the TLC configurations that check them on small
instances, and TLAPS proofs of the properties that matter most.

Two cores are covered. The **agent run** (`internal/agentrun`,
`internal/agentdag`) is the scheduler of a graph of AI agents: a loop, a
goroutine per agent, watchdogs, and a user who cancels, stops, pauses, edits and
approves at any time, over a graph that grows while it runs. **Workflows**
(`internal/workflow` and the part of `internal/app` that owns them) act for the
user while nobody looks: a schedule that starts runs, an interpreter that goes
on after a crash, and a ledger that keeps a write to the outside from going out
twice.

## Inventory

### Parts, their state, operations and hard behaviours

| Part | State it keeps | Operations | What is hard, and what makes it correct |
|---|---|---|---|
| Agent DAG (`internal/agentdag`) | none (values: nodes, edges, states) | Normalize, Validate, Layers, Ready, Block | cycles and blocking are found by loops with counters and sweeps; they must equal the closed sets that the scheduler relies on |
| Agent run scheduler (`internal/agentrun/run.go`, `approve.go`, `plan.go`) | the run (nodes, edges, states, approvals, round), outputs, results channel, cancel functions, stop marks, pause flag, two one-slot channels, budget, limits, stall counts | start, take a result (11 cases), pause / resume, show the plan, approve / edit / deny, grow by a plan, next round, end | results, user calls and graph changes interleave; a node starts only after its dependencies, nothing runs unapproved, the final event is true, the run ends |
| Mailbox (`send.go`) | an open box per running step | Send, inbox, openNode, closeNode | a message races the end or restart of its step; each accepted message is read or handed back once |
| Team (`team.go`) | claims of keys, notes | Claim, Release, releaseAll, notes | claims must not outlive a step |
| Watchdog (`stall.go`) | last activity, busy tools | touch, watch, stop | a late answer races the stop |
| Card gate (`gate.go`) | one slot | Acquire, TryAcquire, Release | cancel while waiting; one card at a time |
| Workflow engine (`internal/workflow/run`) | the run file: run, step, item, round and branch states, saved at each boundary; held, cancelled | run a list, each with workers, loop, branch, else, write, save, pause, cancel, time out (run, item, step), recover from a panic, recover a run, resume, retry | a crash at every save, a panic in a worker; workers that share a run; what is finished stays finished, what comes later never began, nothing works behind the run's end |
| Write ledger (`internal/workflow/ledger`, `wire/writer.go`, `wire/undo.go`) | one entry per outside write: sending, done, failed, undone; in memory and in a file | Write (lookup, gate, Do), Undo, MarkUndone, Open | a crash between the saved "sending", the write and the saved "done"; a write goes out at most once and what was taken back stays so |
| Workflow schedule (`internal/workflow/schedule`, `app/workflows_sched.go`, `ledger/allow.go`) | jobs with next slot and running flag; last_run, trust and on in a state file; live runs; the UI's list | Add, Remove, Tick, fire, record, sync, toggle, trust, start by hand, boot | a fire outlives its job; records end in any order; state files are read and written under two locks; a job has one fire, and a fire ends so that later slots run |
| Owner lock, seen items (`ledger/owner.go`, `seen.go`) | a lock file, a file of keys | claim, release, mark, forget | one owner per workspace |
| Agent task runner (`internal/runner`) | a task file each, a queue lock, a serve lock, running tasks | Add, Cancel, Tick, work, Recover | two processes on one queue, a cancel that races a claim or an end, a crash |
| Session server (`internal/session/server.go`) | client, UI process, hold, generation, exiting | attach, take over, relay, hold expiry, detach, kill, exit | one client at a time, a complete current screen after an attach, one exit |
| Folder pairing (`internal/pairsync`) | the base list of the last sync | Scan, Diff, Apply, NextBase | a change made during a sync must not be lost |
| Agent race, background tasks, checkpoints | records; containers; git refs | fan out, judge, merge; start, poll; save, restore | partial failure |
| Extensions, ACP, MCP (`extproc`, `acp`, `mcp`) | a child process, calls by id | call, notify, restart | answers that come late or never |
| AI providers, CLI steps (`ai`, `clistep`) | one conversation | stream, tool loop, cancel | sequential; an agent run sees only the outcome |
| Application UI (`internal/app`) | the whole screen | one message at a time | one goroutine; drawing and forms |
| Web gateway (`webgw`, `webproto`) | connections, tokens | serve, resume | a dropped connection |
| Editor, LSP, databases, HTTP, containers, kube, git, secrets, setup | mostly outside programs | command lines, parsing | I/O |

`PROJECT.json` lists every part with what is modelled of it, and the hazards at
their lines, those of parts without a model too.

### How the parts of an agent run interact

`Start` makes a `Handle` and one loop goroutine. The loop starts a node in a
goroutine of its own (`runNode`, `runCLI`) and takes its result from
the channel `results`. The user's calls never touch the loop directly: `Cancel` and
`Deny` end the run's context; `StopNode` calls the node's cancel function and marks
the node under a mutex; `Pause` sets an atomic flag; `Continue`, `Approve` and
`EditPlan` put a value in a channel of one slot and drop it when the slot is full.
A node's box is opened when it starts and closed when its result is taken; its
claims go at the same moment. A watchdog per agent ends the agent's context when
the model is silent.

### How the parts of workflows interact

The schedule's loop calls `Tick`, which records skipped slots and starts a
goroutine per fire. A fire waits for one of `workflows_parallel_max` places,
asks the UI goroutine over a channel to start the run (`wfxStartScheduled`), and
records its slot when the run ends or its job is removed. A run is a goroutine
of the engine that saves the run file at each boundary. Its write steps
call `wire.Writer`, which looks into the ledger, asks the other side, asks the
user on a card and lets `Ledger.Do` send. The next process finds run files that say
running, recovers and perhaps resumes them (`wfxResumeOnStart`), then adds the jobs.

## Modules

| Module | What it models | Code |
|---|---|---|
| `AgentDag` | states, dependencies, Ready, Block, layering, Normalize, Validate as sets and functions | `agentdag/dag.go` |
| `DagLoops` | the loops of `layers` and `Block`, one round or visit per step | `agentdag/dag.go:340-459` |
| `AgentTeam` | boxes, the fate of each message, claims | `send.go`, `team.go` |
| `AgentRun` | the scheduler, the goroutines and the user | `run.go`, `approve.go`, `plan.go`, `stall.go` |
| `AgentRunProps` | properties, the inductive invariant, fairness, the refinement mapping | |
| `DagContract` | the abstract specification: what a user of a run may rely on | |
| `WriteLedger` | a write's call from lookup to answer, the ledger's memory and file, crash, resume, undo | `ledger.go`, `writer.go`, `undo.go` |
| `OnceContract` | the abstract specification of outside writes: an arrival at most once, known only when there, with named exceptions | |
| `WorkflowRun` | the engine: one process per list of steps, the run file, resume, retry | `workflow/run/` |
| `WorkflowSchedule` | the loop, the fires, the UI goroutine and the runs, on the jobs and state files | `schedule/scheduler.go`, `app/workflows_sched.go`, `app/workflows_state.go` |
| `MCAgentRun`, `MCDagLoops`, `MCWriteLedger`, `MCWorkflowRun`, `MCWorkflowSchedule` | instances for TLC | |
| `AgentRunProofs`, `AgentRunSafety` | the agent run: type correctness; the inductive invariant and the safety theorems | |
| `AgentRunEnds` | how an agent run ends: claims, messages, verdicts, the last event | |
| `AgentRunOrder` | writers apart, a plan before its dependents, the refinement of `DagContract` | |
| `DagLoopsProofs` | the loops of `dag.go` compute the sets of `AgentDag` for every graph | |
| `WorkflowRunProofs` | the engine's six properties for every workflow file | |
| `WriteLedgerProofs` | the ledger's promises and its refinement | |
| `WorkflowScheduleProofs` | types, and one fire of each job | |

`AgentRun` extends `AgentDag` and `AgentTeam`: a start opens a box (`OpenNode`), a
taken result closes it (`CloseNode`) and drops the claims (`ReleaseAll`) in the
same step, as the code does within one turn of the loop. `WorkflowRun` uses of the
ledger only what `OnceContract` promises (`Ledger!Arrive`), and `WriteLedger` is
shown to keep that contract: the engine is checked against the promise, the
ledger against the code.

### Agent run

**State.** `state`, `order`, `edges`, `approved`, `round` are the fields of `h.run`;
a node that has not joined is `"absent"`. `pc` is the place of the loop goroutine:
`top` of its turn, `starting` nodes of the ready list `todo`, `receiving`, `paused`,
`awaiting` an answer on the plan, `ended`. `agents` is the set of node goroutines at
work. A record, not an id, stands for one, because a node can have two (see
finding 1): `age` 0 is the one whose cancel function `h.stops` holds. `InWork` is
the loop's counter `running`: goroutines and results not yet taken.

**Actions.** One action is a critical section, a channel operation, or a turn of the
loop between two points where another goroutine could tell the difference. The
loop's `switch` over a result is `Take`: `Collect` is what every result does first,
the eleven `Take...` are the cases in the code's order, each with the condition that
leads to it when the earlier ones fail. `Kinds(g)` says which results a goroutine can
send: the context is read before the answer, a panic becomes an error whatever the
context says, the watchdog counts only in a live context. `TakeMisfitPlan` and
`TakeMisfitFix` are `grow` and `nextRound` when `Normalize` refuses the new nodes, for a
preset or a category that no earlier check looks at: the step, or verify, fails.

A run need not be new: `FirstRound` and `ApprovedBefore` are the round and the approvals that a
retried or resumed run brings (`run.go:271`, `dag.go:174-177`).

`UseTeam` is a step's own tool call. `Claim` does not ask whether the step still runs, and
no action of the model does: `UseTeam` belongs to a goroutine at work, because an agent
waits for its tool calls (`ai/agent_parallel.go:56`) and sends its result after them, so a
claim after the step's end would need a tool call that outlives its agent. A step that was
cancelled or has stalled does claim until its result is taken.

**Data left out.** Prompts, texts, titles, usage (a cost is kept), attempts, events
but the last, and the plan reviewer. Of an answer only whether there is one is kept,
of a plan its nodes and edges (`Plans` may hold invalid ones; `Parsed` is
ParsePlan's check), of an edit its steps and dependencies.

### Workflows

**WriteLedger.** `mem` and `disk` are the entries of a ledger and its file, `pc[w]` the
place of the call that makes write `w` (lookup, gate, Do's save, the send, the save of
its answer), `world[w]` how often it arrived and `taken[w]` how often it was taken back
there. `Marked` writes carry their marker to the other side, `Blind` ones have a lookup
that never finds them, the others have no lookup and are refused once tried. The lookup
is a text search (`git log --grep`, `strings.Contains`): `PartOf` has the pairs of
writes where the marker of one is a part of that of the other, as `item 1` is of `item 10`, and
`CanFind` finds the first when only the second is there. An answer can be an error though the
write arrived. A crash forgets `mem` and all calls; the next `Open` reads the file.

**WorkflowRun.** A list of steps is a process named by its path; `ph` is where in
`runList` or a step it is, `at` its step, `rf` the run file in memory and `saved` the one
on disk. `Save` is `runner.save`: after a failed save nothing is saved and every list
stops at its next step. Items, rounds and branches are lists that a step starts and
collects. A step of kind `work` may do well, fail or pause the run. `late` are the lists whose
time is up: the run's, an item's (`limits.item_timeout`), or that of a try of a loop or a
branch, which is then tried again from the start (`TryFails`, `TriesStepAgain`).

A panic (`Panics`) ends the goroutine it is in: its list goes to `gone`, and with it every list of the
same goroutine (`Unwinds`: the list around a loop, an else or an each without workers). An
item's or a branch's goroutine has a recover of its own that writes nothing
(`steps.go:307`, `graph.go:146`), so the run file goes on calling it running; in the list of the
file's steps the recover of the run ends it as failed (`run.go:187`), with its step still called
running. `died` remembers the lists that a panic ended.

`Key` is the ledger key of a write as the code forms it: the step's id and the key of
the nearest item, without the round and without items further out
(`writer.go:96-112`). A step without an id has the empty one (`Anon`). `there` are the keys
that reached the other side, `mine` the steps whose own write did. Of the ledger's exceptions
(a commit of nothing, a marker in another's) the engine's writes are none.

**WorkflowSchedule.** `jobs`, `known` (the keys of `hashes`), `fires` (a goroutine each,
`at` its place, `cut` when its job is gone), `evs` (a Tick's events on their way to the
file), `runs`, `file` and the UI's `list` of it. `record` and the user's saves are two
actions each, because `LoadState` and `SaveState` lock one by one; the user's save may fail.
A job is added in three steps: `wfxJob` reads the state, `Scheduler.Add` computes the
next slot from what was read, the hash is noted; a record can come between any two. `asked` is
the card that asks to run; its answer looks for no live run (`RunByHand`), while a start from the
browser or by an AI tool does (`RunFromAfar`). `Reload` is the list read again by the view or
by an event of the scheduler. A run is live from its start to its end; when the process
dies `runs` are the run files that say running.

**Definitions `Mutant...`.** Above a definition a plausible mistake in it may stand, a
dropped guard or an off-by-one. No action uses it. Put in the definition's place
it must break the property that `PROJECT.json` pairs with it; that shows the
property is about the code.

## Runs

| Run | Instance | Asks |
|---|---|---|
| `agent_run_team` | three roots, one of them a planner, and a step behind two of them; a plan of one step and one of two; writers, a message, two keys and room for one claim; errors, stalls, StopNode | dependencies, places, dependents of a whole plan, writers apart, claims (also refused ones), messages, and nothing of them left at the end |
| `agent_run_loop` | work, verify, fix, a report; resumed in round two of three with the fix step approved; usage limits, an escalation, a budget of two, approval `ask`, every call of the user but edits; fair goroutines | rounds, verdicts, no start over budget, what is left at the end, the last event; Cancel, Deny, failures and an answering user end the run |
| `agent_run_whole` | two planners with the same plan, loop of two rounds, approval `always`, four edits (a drop, a step before verify, one after it, one before the other planner), misfits, errors, stalls, StopNode, Cancel | no unapproved step, fix before verify, a DAG forever, ended steps stay, no start after a failure, the contract |
| `dag_loops` | every graph over four nodes, with every mixture of pending, completed and failed nodes | layers, cycles, blocking, termination |
| `write_ledger` | the commits of items 1 and 10, a message (blind) and a tool call without a lookup; four calls together, one undo each | at most once, nothing unrecorded, undone stays, the contract |
| `workflow_run` | five files: an each of two items with writes, one whose item may panic, a loop of two rounds with writes, a branch with an else, a loop with on_error stop in an each; two starts | order, what done means, finished stays, writes go out, a quiet end; over failed saves, panics, crash and resume, retry |
| `workflow_run_ends` | a loop and a branch with timeouts, and the nested file; two tries, one pause, cancel, the run's timeout and the steps' at any step; fair goroutines | a cancelled run ends, also while held; a run not held for ever ends |
| `workflow_schedule` | one workflow, slots 2, 3 and 5, window 1, one place; two acts of the user, one crash | one fire per job and slot, every fire ends |
| `agent_run_unfixed`, `workflow_run_rounds`, `workflow_schedule_last`, `workflow_schedule_trust` | the smallest instance each | the findings |

Deadlock is checked in every run; a run that has ended,
or a schedule with nothing left to do before its bounds, stutters (`Ended`, `RunOver`,
`Over`).

**Bounds.** Agent run: `Parallel` is 2; graphs have three to six nodes: enough for a
fork, a join, a planner with two planned steps, a loop with a step behind it, and two
nodes that race. `Ids`, `Plans`, `Edits`, `Outcomes`, `UserOps` are the inputs. `MaxRounds`,
`Budget` and `MaxClaims` are options of the code, set low so that the limit is met; `spent`
is capped at `Budget` (past it sums are alike). A node stalls at most twice, escalates
once, waits for a usage limit only when the user continues. `MaxNodes` and
`MaxLayers` have the code's values, 12 and 6. In `agent_run_team` the plan of one step
and that of two can both join, so that what waited for the planner waits for a plan's last step, and a
claim is refused when the other key is held. The keys are symmetric, and no property of that run is a
liveness property. In `agent_run_whole` the edits that put the new step before and after
verify, one after the other, would close a cycle, as would the plan of one planner
with the edges an edit gave it; only the checks of edits and plans prevent it, and the mutant
that drops the check for cycles alone is found. The same run has two rounds, and with them
`FixBeforeVerify` holds; it is a bounded claim, since with three rounds an edit breaks
it, which is what `agent_run_unfixed` shows.

Ledger: `MaxCalls` 4 is all calls together, so each write can be called and
repeated in a retry or a resumed run beside another, or one of them four times; `MaxUndos` 1
is one undo. Writes meet in the file and in the lookup by text, so one write per
kind and a pair of like markers are every case. Engine: `MaxStarts` 2 is a run and one resume or
retry (a second resume begins from a file of the same shape), `MaxTries` the first try and one
retry where it matters (the retries of the loop and of the branch that time out are in
`workflow_run_ends`), `MaxHolds` one pause, `Faults` names what may go wrong, `Fragile` the
lists in which a panic may happen: one of each kind that has a goroutine or a recover, an item, a round,
an else and a branch. Schedule: `End` 5, `Window` 1 and three slots give a slot that is handled at
once, one skipped or caught up, and one missed; `MaxActs` counts the user's acts,
`MaxCrashes` the deaths. One workflow suffices for one place: a fire of its removed job competes
with the new job's.

**Fairness.** Agent run: weak fairness of the loop and, per node, of a goroutine's
result: the Go runtime runs what can run, and an agent or CLI ends because providers
and CLIs have time limits and get the node's context. The user owes nothing in
`CancelEnds` and `FailureEnds`. In `AnsweredRunEnds` the user answers pauses and plan
cards, and from some point on does not pause any more and meets no new usage limit
(`Answering`, a premise of the property, not part of the specification). A plan card
answered by edits for ever is not an ending run; that is the user's choice.
Engine: weak fairness of each list and part, for the same reason, and none of a panic; `RunEndsUnlessHeld` has
as its premise that the user does not leave the run held. Schedule: weak fairness of
the loop, of each fire, of the UI goroutine in the middle of an act, and of a run's end: that
a fire ends is said only of runs that do. A run that waits on a card for ever holds its fire for
ever, unless its job is removed.

## Refinement

`DagContract` knows phases (waiting, working, finished, stopped), an order and an
end, and no loop, channel, context or result. Its steps are start, finish,
requeue, stop, next round, edit and end. `AgentRunProps!Contract` maps the states of the
scheduler to it; `MeetsContract` is checked in `agent_run_whole`. It says, across every
interleaving: a step starts only after what is before it, never is
a working step's order changed, a step that never worked is stopped only behind
another stop or at the end, and after the end nothing moves. The refinement is proved
too (`KeepsItsContract`).

`OnceContract` knows which writes are there and which are known to be. A write arrives
once; it becomes known only when it is there or is one of the named exceptions
(`MayBeUnsent`: a commit, which may have nothing to write, and a write whose marker is a part of
another's), and is known for good. `WriteLedger!Contract` maps to it the
writes that are not blind: there is what arrived, known is what the file calls done or
undone. The refinement is checked in `write_ledger` and proved for every set of writes.

## Findings

1. **Unfixed work is verified** (`agent_run_unfixed`). After a first failing round
   the fix step is in the run. An edit of the plan that leaves it out skips it
   and replaces verify's dependencies, so the edge fix -> verify goes.
   `nextRound` adds that edge only when fix joins the first time (`run.go:654-665`).
   From then on fix and verify start together. A round later verify can fail while fix
   still runs, and the next round starts fix again beside the first goroutine: the
   second start overwrites `h.stops[id]` and the box, the first result calls the
   cancel function of the second (`run.go:488-492`). With more rounds than this run has, the
   claims and the box of the second go too, with a message that nobody reads then, and the run
   can end as done with fix cancelled, or as failed with every step completed.
2. **A write in a loop goes out in the first round only** (`workflow_run_rounds`). The
   writer looks a write up by step id and nearest item (`writer.go:110`), the same in
   every round, and returns the first round's result; the marker of
   `steps.go:453-462` has the round in it, "one per round".
3. **last_run goes back** (`workflow_schedule_last`). Each record sets it to the slot of its own
   event (`workflows_sched.go:258`), and a fire's event comes when its precheck has failed or
   its run has ended, after those of the slots skipped while it was going. A restart then handles
   a recorded slot again within the grace.
4. **Trust of unchanged bytes is lost** (`workflow_schedule_trust`). The UI goroutine adds a job
   (`workflows_sched.go:150`) and notes its hash after that (`:155`). A slot that is due at once is
   handled and recorded in between with the empty hash (`:255`), and a load with another hash than
   the file's drops the trust and the allow-list and saves the drop. Removing a job
   takes its hash away too (`:131`), so the record of a fire whose schedule the user turned off
   does the same; TLC's trace is the shorter case.

Seen while modelling, without a run of their own:

- Agent run: two writing steps may run in the user's tree together after an edit. A loop with a
  verify, a step s behind it and a writer a behind s, and an edit that lists verify and
  a but not s: s is skipped, a runs beside verify, verify fails, and the writing fix
  starts beside a. `sharesWave` (`run.go:698-720`) leaves a out, since it is downstream
  of fix by way of s. TLC finds this when a run with such an edit checks `WritersApart`.
- Agent run: `approve.go:42-43` says that Approve does nothing when the run does not wait, and
  `run.go:320-321` the same of Continue. Both put a value into a slot (`approve.go:63-68`,
  `run.go:322-327`), where it stays and answers the next card or lifts the next pause: the steps of a
  card may count as approved that nobody has seen. The model keeps the slots as the code does.
  `NeverUnapproved` therefore promises that a step was listed by a card of its run or needed none, and
  not that a user looked at it.
- Agent run: `PlanText` lists the fix step once it joined and
  `ApplyPlanEdit` refuses its id. An ESCALATE counts as an empty answer when the run's context
  ends before the loop takes it. A StopNode that meets a usage limit is lost
  (`run.go:526` before `537`). A run grown by a plan may pass the limits of ADR 0015.
- Ledger: a message has a lookup that is always blind, so a crash after it went out
  sends it again (`workflow_github.go:106`), where `docs/guides/workflows.md:227` says a
  write is never sent twice; an undo that crashes before its mark runs again, where the card
  says it runs once (`workflows_trust.go:62`).
- Ledger: the marker of item 1 is a part of that of item 10, and the lookup is a search for
  a text (`workflow_github.go`, `git log --grep`). When item 1's write failed or the process died before it
  went out, and item 10's is there, the lookup of a retry takes that one for it and records item 1 as
  done; nothing was sent. The model has it (`CanFind`), and `KeepsContract` names it as an exception.
- Engine: the ledger's key is the step's id and the nearest item's own key (`writer.go:96-112`). Writes
  share an entry, of which the second is taken for done unsent, not only in the rounds of a
  loop (finding 2) but also in an each within an each whose items have the same keys (the default keys
  count from 1 in each of them), in an each whose items repeat a key, and in
  two steps without an id in one item (ids are optional, `validate.go:433`, and the run file names
  such a step by its line, `scope.go:114`). `NestLists` of `MCWorkflowRun` is a file of
  the second kind: with it TLC refutes `EveryRoundWrites` after one start, without a fault.
- Engine: after a panic the run file keeps "running" for the step, item or branch it was in
  although the run has ended (`run.go:187-190`, `graph.go:146-147`, `steps.go:307-310`; panic_test.go looks only at
  the run). `EndIsQuiet` says exactly that: nothing works, and what is still called running had a panic.
- Engine: on_error "stop" inside a loop in an each ends the item only, because `isStop`
  looks at the outermost failure (`run.go:360-383`); a loop whose process
  died after a round passed and before the loop's own end was saved runs another round
  when it is resumed (`graph.go:43-51`), where the guide says it runs until one passes.
- Schedule: `LoadState` and `SaveState` lock separately in `record`, `wfxToggle` and
  `wire.Trust`, so the later of two that overlap undoes the other (a record can turn a
  schedule on again), although `allow.go:29-30` says the lock serialises the
  read-modify-write. The card that asks to run does not look for a live run again when
  answered (`workflows_state.go:470-474`), so two runs of one workflow can be live, one of them a
  slot's or one from the browser. A fire of a removed job frees its place while its run goes on. A slot
  whose run ended just before a crash, unrecorded, is run again, and so is a slot whose job is
  removed and added again before its record. A schedule turned on within the grace of a slot that
  passed while it was off runs that slot at once.

## Proofs

`AgentRunProofs` proves `TypeCorrect`: every variable has its type in every behaviour,
for all values of the constants that satisfy `TeamAssumption` and `RunAssumption`.
Those say what `Validate` and `Start` ensure: a valid graph, `Parallel` at least 1, a loop
whose verify is no planner and whose fix has an id of its own, finitely many ids.

`AgentRunSafety` proves `Invariant`, `Spec => []IInv`. The safety properties are not
inductive alone. That a node runs only after its dependencies (`DepsDone`)
survives a next round, a plan or a second start only if the loop knows which
nodes are at work, so `IInv` adds:

- `Owned`: a running node, a cancel function and an open box have a worker (a
  goroutine or a result not yet taken);
- `OneWorker`: every node but fix has at most one worker and runs while it has one, and
  workers are nodes of the run. Fix is excepted because finding 1 is real;
- `PlansFit`: a plan in the channel is a DAG and comes from a planner;
- `TurnHolds`: what the loop saw at the start of its turn (ready, approved, room,
  within budget) holds until the last start of the turn;
- `NothingAtWork`: no worker while the loop waits for the user or has ended.

There is one lemma per action (`StartInv`, `TakePlanInv`, `TakeNextRoundInv`, ...), under
lemmas for what actions share (`InvStays`, `GoToInv`, `SameWorkers`,
`CollectWorkers`, `TakenInv`, `SettledInv`). The theorems that follow: `DependenciesFirst`,
`ParallelLimit`, `ApprovedFirst`, `DagForever`, `AsksWhenQuiet`, and from `OnlyStart`
and `TakeChanges` the action properties `FailureStopsStarts`, `BudgetStopsStarts`,
`EndsStay`. The graph argument (a new first node, a plan in place of an edge, an
edit) uses acyclicity as "every non-empty set of nodes has one without an edge
from the set", which needs no induction; fixpoints are least closed sets for the
same reason.

`AgentRunEnds` is about what is left when a run ends. Its theorems have the hypothesis
`LoopKept`: verify has not started before fix at the start, and no edit drops the edge
from fix to verify. Without it `FixBeforeVerify` is false, which is finding 1, and fix may then have two
goroutines, of which the first result closes the box and drops the claims of the second.
With four or more rounds and such edits TLC refutes `ClaimsOfRunning`, `MessagesAccounted`,
`NothingLeftOver` (by a lost message) and `FinalEventIsTrue` as well, so the hypothesis is needed.
All of `NothingLeftOver` but the messages holds without it: `NobodyLeft` proves `NobodyLeftOver`
from the invariant `Owners` (a claim has a worker, a stop mark a cancel function).
The hypothesis is discharged for every run without a loop (`NoLoopToKeep`), and for every
run whose plan is never edited (`UneditedKeepsLoop`) when a retry starts with the edge
from fix to verify and keeps fix whenever it keeps verify (`LoopAtStart`).
Under `LoopKept`, `EInv` is inductive beside `IInv`
(`Endings`). Its parts, in `AgentRunProps`:

- `FixFirst`: verify works and completes only when fix is done or has not joined;
- `Alone`: with that, fix too has one worker at most, so the worker whose result is taken
  is the owner of the box and the claims that go;
- `CutsKnown`, `StopsKnown`: each cancelled or failed step has its reason, a user's stop or
  the run's end, and the loop knows of it; the last event is chosen from those;
- `VerdictKnown`: a completed verify has passed, or failed in the last round;
- `TeamOfWorkers`: a claim has a worker, messages lie in open boxes.

From it follow `VerifiedLast`, `ClaimsEndWithSteps`, `NoMessageLost`, `CleanEnd`, `TrueEnd`,
`VerdictAtTheEnd`. That a run can stop only with every step over (`CleanEnd`) needs that an
acyclic graph with a pending step has one that is ready or blocked.

`AgentRunOrder` proves `WritersApart` for runs that go down their DAG (`InRunOrder`: what a
running or done step depends on is done). It is a hypothesis because edits break it, and
`WritersApart` with it: see the first item seen while modelling. `UneditedKeepsOrder`
discharges it for runs that are never edited and start in order (`OrderAtStart`: what a
retry keeps came after what it keeps; only verify follows fix), which gives
`WritersApartUnedited`. `PlanBeforeDependents` adds that there is one planner: `AfterThePlan`
calls every node that joined the planner's, so with two it would say more than `grow`
promises. Its invariant `PlanInPlace` says that the plan is between the planner and what
waited for it; the argument down the plan is "a smallest set of plan nodes that is not done
has a last one". `KeepsItsContract` maps each action of `AgentRun` to a step of
`DagContract` or to a stutter, from `IInv`, `EInv` and `LoopKept`.

`DagLoopsProofs` proves the three invariants of `DagLoops` for every graph and order of nodes.
`DInv` says what the counters count (the edges from nodes not placed, the nodes placed), that
the placed layers are the first of `AgentDag`, that no set with a placed node is a cycle,
and that in a sweep without a change no visited node has a stopped dependency. `Layered` is
a recursive function: its unrolling (`LayeredFacts`) comes from a counterexample of least
length, since the library's induction theorem cannot be instantiated. `CyclesFound` is the
step from counters to cycles: when no layer is left, either all nodes are placed and
`NoCyclePlaced` is acyclicity, or the rest is a set in which every node has a
dependency. `BlockComputed` is the step from sweeps to the least closed set.

`WorkflowRunProofs` proves the six properties of `workflow_run` for every file that
`FileAssumption` describes: lists are not empty, ids are unique and a path names one
thing, as `validate.go` requires, and the limits are at least one. Lists nest as deep as the
file says, yet no induction over the nesting is needed: each action of a list is a move of one
process (`ListMove`: it edits its own step, goes on, starts its step's lists or collects
them), and the invariant relates a list to its parent only. Its parts:

- `Nested`, `Collected`: a list at work is the first one or its parent waits for it.
  `QuietAtTheEnd` takes a shortest path at work behind an ended run: its parent is shorter;
- `StepRunning`, `Before`, `OkIsDone`: the file says "running" exactly of the steps that
  processes are in, and what is behind a process is finished;
- `Sound(rf)`, `Sound(saved)`: both files keep the order of each list, and what is done in
  them has its steps done; so a crash at any step leaves a file one can resume;
- `Fresh`: in a first start what is ahead of a process is untouched. A resumed run meets
  finished steps ahead and keeps them, which is why it is a case of its own;
- `Kept`: what is finished on disk is finished in memory, but for a retry whose first save
  failed (`Stalled`), and that one stops before its first step.

A panic is why `Nested` and `StepRunning` speak of lists at work and not of what the file calls
running: a `gone` list has no process, its parent waits without it, and what the file still says of it is
covered by `died`. `QuietAtTheEnd` holds for every set of fragile lists.

A retry (`again.go`) forgets the first bad step of a list and what comes after it, down the lists
inside and up the lists outside; `Sound` survives because it forgets a suffix in each.
`DoneWritesWereSent` has no hypothesis about ledger keys: it speaks of the writes with an id, in no loop
and in at most one each (`Own`), and that no other step has their key follows from what
`validate.go` ensures (`FileAssumption`, `IdsAssumption`: an id names one step of the file, in its
different items and rounds; the items of one each have different keys, as the default ones do). For
the other writes, and in an each whose items repeat a key, the statement is false; see above. A
repeated key is outside the model, where a path names one item.

`WriteLedgerProofs` proves `LedgerTypes`, `SentAtMostOnce`, `NoSaveNoSend`, `UndoneForever` and
`LedgerKeepsContract` for any set of writes, calls and undos; they assume only that the kinds of
writes exclude each other and that only markers are parts of markers (`KindsAssumption`), whichever
are parts of which. `AtMostOnce` is not inductive: between the lookup and the send other steps may
crash or save, so the invariant says what memory and file know of a write at each place
of its call. What arrived is in both; a call past the lookup holds a write that is not
there, or one that `Do` will refuse; an open ledger's memory is at least the file. One
lemma (`LookupTells`) turns the lookup's answer into that knowledge: a text search can find too
much, never too little, which endangers what is known and not what is sent.

`WorkflowScheduleProofs` proves `TypeCorrect` and `OneFireAtATime` under
`ScheduleAssumption` (times are naturals, there is a place). The invariant joins `OneFire`
to the types, because the end of a fire clears the flag of a job that must be there, and
adds `Reads`: what is about to be saved was read, and a job is added only where there is none.
That the next slot is after every fired one needs the first and the last of a set of
times: `First` gets them from the well-foundedness of the naturals instead of an induction.

**Only model-checked**: liveness (`CancelEnds`, `FailureEnds`, `AnsweredRunEnds`, `LoopsEnd`,
`RunEndsUnlessHeld`, and the schedule's), because fairness and ENABLED are out of the
prover's reach. Of the agent run, edited plans of a run with a loop: there the run
`agent_run_whole` checks the properties that the theorems state under `LoopKept`, and
`agent_run_unfixed` shows where they end.

## Not modelled

Of the agent run: texts and their limits, attempts and usage sums, events but
the last, the plan reviewer's extra round, the wording of verdicts, shared notes,
the watchdog's clock (a step may stall at any time), the gate of the cards. A Pause
between the loop's read of a Continue and its clearing of the pause flag
(`run.go:448-453`) is lost; the model has that behaviour as a Pause just before the
Continue is read.

Of workflows: what steps compute and their outputs (a resumed loop's lost `prev`, `graph.go:39`,
is data), budgets, dry runs, the write records in the run file, the search lag of the other side (a lookup
finds a marked write that arrived), two calls for one ledger entry at once (items of equal keys), files that change, the switch and the policies that
turn workflows off, triggers, `Stop` of the scheduler, and the owner lock: one process owns the
workspace. Calendars and daylight saving (`Schedule.Next`) are a set of slots.

Of the system: everything the inventory lists without a module, with reasons in
`PROJECT.json`. Most of it is a user interface, command lines and formats around outside
programs, which keep the state themselves.

## Plan

What is left, in order of what a wrong step would cost the user:

1. `TaskRunner` (queue, claim, cancel, recover): two processes and a crash; at most Pool tasks,
   no task twice, a cancelled task never starts; proofs of the last two.
2. `SessionServer`: attach, take over, hold, exit.
3. `Watchdog` and `CardGate`, small modules beside `AgentRun`; `PairSync` over bounded inputs.
4. The triggers of workflows and the owner lock beside `WorkflowSchedule`.

Proofs: every safety invariant that a passing run checks is proved; the modules above
bring their own. For edited plans a weaker premise than `LoopKept` would say more: `DepsDone`
and the others of `IInv` hold without it, `NobodyLeftOver` too, and `LoopHasVerdict`, which TLC
finds true without it, has no proof of that yet.
