---------------------------- MODULE WriteLedger ----------------------------
(***************************************************************************)
(* The outside writes of one workflow run: wire.Writer (the lookup, the    *)
(* gate card) over ledger.Ledger (the file that says where each write is), *)
(* and the Undoer that takes an ended run's writes back.                   *)
(*                                                                         *)
(* A write is one (step, item) key.  The ledger is kept in memory and      *)
(* saved as a whole after each change, under one mutex; a save can fail    *)
(* and leave the memory ahead of the disk.  The process can die at any     *)
(* step.  The workers of a run share the ledger, but one write is done by  *)
(* one worker (left out: items of equal keys, which share an entry and may *)
(* call together).                                                         *)
(***************************************************************************)
EXTENDS Integers, FiniteSets

CONSTANTS Writes,    \* the (step, item) keys of the run's write steps
          Marked,    \* pr, github.comment, commit: found by their marker
          Blind,     \* mcp, status, message: the app's Find never finds them
          Commits,   \* commit: "nothing to commit" is a success too
          PartOf,    \* <<w, v>>: the text of w's marker is a part of v's
          MaxCalls,  \* bound: calls of Writer.Write
          MaxUndos   \* bound: runs of undo recipes

ASSUME KindsAssumption ==
    /\ Marked \subseteq Writes /\ Blind \subseteq Writes
    /\ Marked \cap Blind = {} /\ Commits \subseteq Marked /\ PartOf \subseteq Marked \X Marked
ASSUME BoundsAssumption == MaxCalls \in Nat /\ MaxUndos \in Nat

VARIABLES mem,    \* Ledger.f.Writes of the open ledger: the state of each entry
          disk,   \* ledger.json
          open,   \* a live run has the ledger open
          pc,     \* where the call of each write is
          result, \* what its last call returned
          calls,  \* calls of Writer.Write
          world,  \* how often each write reached the other side
          taken,  \* how often each write was taken back there
          undoing \* the writes whose undo recipe ran and is not marked yet

vars == <<mem, disk, open, pc, result, calls, world, taken, undoing>>

None == "none"
States == {"none", "sending", "done", "failed", "undone"}
Places == {"idle", "find", "gate", "do", "send", "sent", "unsent"}
Results == {"none", "ok", "error", "denied", "maybe"}

TypeOK ==
    /\ mem \in [Writes -> States]
    /\ disk \in [Writes -> States]
    /\ open \in BOOLEAN
    /\ pc \in [Writes -> Places]
    /\ result \in [Writes -> Results]
    /\ calls \in Nat
    /\ world \in [Writes -> Nat]
    /\ taken \in [Writes -> Nat]
    /\ undoing \in SUBSET Writes

Init ==
    /\ mem = [w \in Writes |-> None]
    /\ disk = [w \in Writes |-> None]
    /\ open = FALSE
    /\ pc = [w \in Writes |-> "idle"]
    /\ result = [w \in Writes |-> None]
    /\ calls = 0
    /\ world = [w \in Writes |-> 0]
    /\ taken = [w \in Writes |-> 0]
    /\ undoing = {}

Goto(w, place) == pc' = [pc EXCEPT ![w] = place] /\ UNCHANGED result

Return(w, r) == pc' = [pc EXCEPT ![w] = "idle"] /\ result' = [result EXCEPT ![w] = r]

\* Ledger.set: the entry changes in memory, then the whole memory is saved.
Saved(w, s) == mem' = [mem EXCEPT ![w] = s] /\ disk' = mem'
NotSaved(w, s) == mem' = [mem EXCEPT ![w] = s] /\ UNCHANGED disk

----------------------------------------------------------------------------
(* Writer.Write, one call per attempt of a write step. *)

\* The write is looked up in the ledger first.
Call(w) ==
    /\ open /\ pc[w] = "idle" /\ calls < MaxCalls
    /\ calls' = calls + 1
    /\ \/ mem[w] = "done" /\ Return(w, "ok")
       \/ mem[w] = None /\ Goto(w, "gate")
       \/ /\ mem[w] \in {"sending", "failed", "undone"}
          /\ IF w \in Marked \cup Blind THEN Goto(w, "find") ELSE Return(w, "maybe")
    /\ UNCHANGED <<mem, disk, open, world, taken, undoing>>

\* What Find can answer.  One that was taken back may be found or not, and
\* a text search for item 1's marker takes item 10's for it, if that one is
\* in the same place and was not taken back.
MutantCanMiss(w) == TRUE
CanMiss(w) == w \in Blind \/ mem[w] = "undone" \/ world[w] = 0

CanFind(w) ==
    /\ w \notin Blind
    /\ \/ mem[w] = "undone" \/ world[w] > 0
       \/ \E v \in Writes : <<w, v>> \in PartOf /\ world[v] > 0

\* The lookup by marker fails, does not find the write, or finds it: then
\* Do records it done with nothing sent (an undone one stays undone).
FindFails(w) ==
    /\ pc[w] = "find"
    /\ Return(w, "error")
    /\ UNCHANGED <<mem, disk, open, calls, world, taken, undoing>>

FindNothing(w) ==
    /\ pc[w] = "find" /\ CanMiss(w)
    /\ Goto(w, "gate")
    /\ UNCHANGED <<mem, disk, open, calls, world, taken, undoing>>

FindWrite(w) ==
    /\ pc[w] = "find" /\ CanFind(w)
    /\ \/ mem[w] = "undone" /\ Return(w, "ok") /\ UNCHANGED <<mem, disk>>
       \/ mem[w] # "undone" /\ Saved(w, "done") /\ Return(w, "ok")
       \/ mem[w] # "undone" /\ NotSaved(w, "done") /\ Return(w, "error")
    /\ UNCHANGED <<open, calls, world, taken, undoing>>

\* The gate: the allow-list or the card's answer lets the write out, or the
\* user denies it, or no one can answer.
Gate(w) ==
    /\ pc[w] = "gate"
    /\ Goto(w, "do") \/ Return(w, "denied") \/ Return(w, "error")
    /\ UNCHANGED <<mem, disk, open, calls, world, taken, undoing>>

\* Ledger.Do: what is done or undone is not sent; else "sending" is on disk
\* before the write goes out.
MutantSendUnsaved(w) ==
    /\ pc[w] = "do"
    /\ \/ mem[w] \in {"done", "undone"} /\ Return(w, "ok") /\ UNCHANGED <<mem, disk>>
       \/ mem[w] \notin {"done", "undone"} /\ Goto(w, "send")
          /\ (Saved(w, "sending") \/ NotSaved(w, "sending"))
    /\ UNCHANGED <<open, calls, world, taken, undoing>>
MutantForgetUndone(w) ==
    /\ pc[w] = "do"
    /\ \/ mem[w] = "done" /\ Return(w, "ok") /\ UNCHANGED <<mem, disk>>
       \/ mem[w] # "done" /\ Saved(w, "sending") /\ Goto(w, "send")
    /\ UNCHANGED <<open, calls, world, taken, undoing>>
Begin(w) ==
    /\ pc[w] = "do"
    /\ \/ mem[w] \in {"done", "undone"} /\ Return(w, "ok") /\ UNCHANGED <<mem, disk>>
       \/ mem[w] \notin {"done", "undone"} /\ Saved(w, "sending") /\ Goto(w, "send")
       \/ mem[w] \notin {"done", "undone"} /\ NotSaved(w, "sending") /\ Return(w, "error")
    /\ UNCHANGED <<open, calls, world, taken, undoing>>

\* The send: it arrives or it does not, and the answer may be an error
\* either way (a timeout).  A commit with nothing to commit is no error.
Send(w) ==
    /\ pc[w] = "send"
    /\ \/ world' = [world EXCEPT ![w] = @ + 1] /\ (Goto(w, "sent") \/ Goto(w, "unsent"))
       \/ UNCHANGED world /\ (Goto(w, "unsent") \/ (w \in Commits /\ Goto(w, "sent")))
    /\ UNCHANGED <<mem, disk, open, calls, taken, undoing>>

\* The answer is saved: done, or failed.  A done that is not saved is an error.
MutantAnswer(w) ==
    /\ pc[w] \in {"sent", "unsent"} /\ Saved(w, "done") /\ Return(w, "ok")
    /\ UNCHANGED <<open, calls, world, taken, undoing>>
Answer(w) ==
    /\ \/ pc[w] = "sent" /\ Saved(w, "done") /\ Return(w, "ok")
       \/ pc[w] = "sent" /\ NotSaved(w, "done") /\ Return(w, "error")
       \/ pc[w] = "unsent" /\ (Saved(w, "failed") \/ NotSaved(w, "failed")) /\ Return(w, "error")
    /\ UNCHANGED <<open, calls, world, taken, undoing>>

----------------------------------------------------------------------------
(* The run that owns the ledger starts, resumes, ends or dies. *)

Quiet == \A w \in Writes : pc[w] = "idle"

Open ==
    /\ ~open /\ undoing = {}
    /\ open' = TRUE /\ mem' = disk
    /\ UNCHANGED <<disk, pc, result, calls, world, taken, undoing>>

Close ==
    /\ open /\ Quiet
    /\ open' = FALSE
    /\ UNCHANGED <<mem, disk, pc, result, calls, world, taken, undoing>>

\* The process dies, in a run or in an undo: only the disk is left.
Crash ==
    /\ open \/ undoing # {}
    /\ open' = FALSE /\ undoing' = {}
    /\ pc' = [w \in Writes |-> "idle"]
    /\ result' = [w \in Writes |-> None]
    /\ mem' = [w \in Writes |-> None]
    /\ UNCHANGED <<disk, calls, world, taken>>

----------------------------------------------------------------------------
(* Undoer.Undo, on a ledger of its own, once no run has the ledger open.   *)

\* The recipe runs first, and it may have worked though it answers an error.
UndoRuns(w) ==
    /\ ~open /\ undoing = {}
    /\ disk[w] = "done" /\ taken[w] < MaxUndos
    /\ taken' = [taken EXCEPT ![w] = @ + 1]
    /\ undoing' \in {{}, {w}}
    /\ UNCHANGED <<mem, disk, open, pc, result, calls, world>>

\* Then the entry is marked, if the save works.
MutantUndoMarks(w) ==
    /\ w \in undoing
    /\ undoing' = {}
    /\ disk' = [disk EXCEPT ![w] = "reverted"]
    /\ UNCHANGED <<mem, open, pc, result, calls, world, taken>>
UndoMarks(w) ==
    /\ w \in undoing
    /\ undoing' = {}
    /\ \/ disk' = [disk EXCEPT ![w] = "undone"]
       \/ UNCHANGED disk
    /\ UNCHANGED <<mem, open, pc, result, calls, world, taken>>

----------------------------------------------------------------------------

Next ==
    \/ \E w \in Writes :
          \/ Call(w) \/ FindFails(w) \/ FindNothing(w) \/ FindWrite(w)
          \/ Gate(w) \/ Begin(w) \/ Send(w) \/ Answer(w)
          \/ UndoRuns(w) \/ UndoMarks(w)
    \/ Open \/ Close \/ Crash

Spec == Init /\ [][Next]_vars

----------------------------------------------------------------------------

\* A write that can be looked up by its marker, or that is never sent again
\* once it was tried, reaches the other side at most once, over every retry,
\* failed save, crash and resume (Ledger.Do: "makes the write w at most once").
AtMostOnce == \A w \in Writes \ Blind : world[w] <= 1

\* What reached the other side is in ledger.json, so whatever dies next, a
\* later run knows to look it up or to leave it alone ("no save, no send").
SavedBeforeSent == \A w \in Writes : world[w] > 0 => disk[w] # None

\* A write the user took back is never sent again and never loses its mark,
\* whichever step of a later run or retry asks for it.
UndoneStays ==
    [][\A w \in Writes : disk[w] = "undone" => disk'[w] = "undone" /\ world'[w] = world[w]]_vars

\* Recorded done with nothing sent: a commit of nothing, and a write whose
\* marker is a part of another's.
MayBeUnsent == Commits \cup {w \in Writes : \E v \in Writes : <<w, v>> \in PartOf}

\* The marked writes keep the contract: at most one arrival, and on disk as
\* done only when the write is there or may be done unsent, then for good.
Contract == INSTANCE OnceContract WITH
    Writes <- Writes \ Blind,
    MayBeUnsent <- MayBeUnsent,
    there <- {w \in Writes \ Blind : world[w] > 0},
    known <- {w \in Writes \ Blind : disk[w] \in {"done", "undone"}}

KeepsContract == Contract!ContractSpec
=============================================================================
