---------------------------- MODULE DagContract ----------------------------
(***************************************************************************)
(* What the user of an agent run may rely on, without its scheduler: every *)
(* step waits, works, and is then finished or stopped; it starts only when *)
(* the steps before it are finished, at most Parallel work at a time, a    *)
(* step is stopped without having worked only because of a stop before it  *)
(* or the end of the run, and after the end nothing changes.               *)
(* (internal/agentrun/run.go:1-18, docs/adr/0015.)                         *)
(***************************************************************************)
EXTENDS FiniteSets, Naturals

CONSTANTS Ids, Parallel,
          Again      \* the steps a work-until-done loop may run again

VARIABLES phase,     \* what the user sees of each step
          before,    \* the edges <<x, y>>: y comes after x
          over       \* the final event was sent

vars == <<phase, before, over>>

Phases == {"absent", "waiting", "working", "finished", "stopped"}
Working == {n \in Ids : phase[n] = "working"}
Earlier(n) == {e[1] : e \in {f \in before : f[2] = n}}

Init ==
    /\ phase \in [Ids -> {"absent", "waiting", "finished"}]
    /\ before \in SUBSET (Ids \X Ids)
    /\ over = FALSE

(* The run may grow around steps that do not work now, never under one     *)
(* that does.                                                              *)
Regrow ==
    \A e \in Ids \X Ids : phase'[e[2]] = "working" => (e \in before <=> e \in before')

(* Every step but those in S keeps its phase, or joins the run.            *)
OthersStay(S) ==
    \A n \in Ids \ S : phase'[n] = phase[n] \/ (phase[n] = "absent" /\ phase'[n] = "waiting")

Start(n) ==
    /\ phase[n] = "waiting"
    /\ \A m \in Earlier(n) : phase[m] = "finished"
    /\ Cardinality(Working) < Parallel
    /\ phase' = [phase EXCEPT ![n] = "working"]
    /\ UNCHANGED before

(* A step finishes; a planner's plan may join the run.                     *)
Finish(n) ==
    /\ phase[n] = "working" /\ phase'[n] = "finished"
    /\ OthersStay({n}) /\ Regrow

(* A step waits to work once more: a usage limit, a stall, an escalation.  *)
Requeue(n) ==
    /\ phase[n] = "working"
    /\ phase' = [phase EXCEPT ![n] = "waiting"]
    /\ UNCHANGED before

(* A step failed or was stopped, and with it steps that come after it.     *)
Stop(n) ==
    /\ phase[n] = "working" /\ phase'[n] = "stopped"
    /\ \A m \in Ids \ {n} :
          \/ phase'[m] = phase[m]
          \/ /\ phase[m] = "waiting" /\ phase'[m] = "stopped"
             /\ \E k \in Earlier(m) : phase'[k] = "stopped"
    /\ UNCHANGED before

(* The next round of a work-until-done loop, when its check just ended.    *)
NextRound ==
    /\ \E n \in Again : phase[n] = "working"
    /\ \A n \in Again : phase'[n] = "waiting"
    /\ OthersStay(Again) /\ Regrow

(* The user edits the plan while nothing works.                            *)
Edit ==
    /\ Working = {}
    /\ \A n \in Ids :
          \/ phase'[n] = phase[n]
          \/ phase[n] = "absent" /\ phase'[n] = "waiting"
          \/ phase[n] = "waiting" /\ phase'[n] = "finished"

End ==
    /\ Working = {}
    /\ phase' = [n \in Ids |-> IF phase[n] = "waiting" THEN "stopped" ELSE phase[n]]
    /\ UNCHANGED before

Next ==
    /\ ~over
    /\ \/ /\ over' = FALSE
          /\ \/ \E n \in Ids : Start(n) \/ Finish(n) \/ Requeue(n) \/ Stop(n)
             \/ NextRound \/ Edit
       \/ over' = TRUE /\ End

Spec == Init /\ [][Next]_vars
=============================================================================
