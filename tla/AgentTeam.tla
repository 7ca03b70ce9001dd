----------------------------- MODULE AgentTeam -----------------------------
(***************************************************************************)
(* What the running steps of one agent run share while they work: the      *)
(* mailbox of messages for running agents (internal/agentrun/send.go) and  *)
(* the team's claim list (internal/agentrun/team.go).  Both have a mutex   *)
(* of their own and every operation holds it from start to end, so each is *)
(* one atomic step.  The scheduler (AgentRun) opens a step's box when it   *)
(* starts and, when it ends, closes the box and drops the step's claims.   *)
(*                                                                         *)
(* A message is a model value that is sent at most once; fate follows it,  *)
(* so that a lost or doubled message can be told.  TeamSend to every step  *)
(* is one Send per running step.                                           *)
(*                                                                         *)
(* A definition Mutant... is a plausible mistake in the one below it; no   *)
(* action uses it (see AgentDag).                                          *)
(***************************************************************************)
EXTENDS Naturals, Sequences, FiniteSets

CONSTANTS Ids,       \* node ids
          Msgs,      \* the messages users and other steps may send
          Keys,      \* the keys steps may claim
          MaxClaims, \* TeamMaxClaims
          None       \* nobody, nothing

ASSUME TeamAssumption == MaxClaims \in Nat /\ None \notin Ids

VARIABLES open,      \* mailbox.open: the nodes that have a box
          box,       \* mailbox.open[id]: the messages that wait for id
          fate,      \* what became of a message
          claims     \* team.claims: key -> node, None when nobody holds it

teamVars == <<open, box, fate, claims>>

Fates == {"unsent", "refused", "waiting", "read", "returned"}

TeamTypeOK ==
    /\ open \subseteq Ids
    /\ box \in [Ids -> Seq(Msgs)]
    /\ fate \in [Msgs -> Fates]
    /\ claims \in [Keys -> Ids \cup {None}]

TeamInit ==
    /\ open = {}
    /\ box = [n \in Ids |-> <<>>]
    /\ fate = [m \in Msgs |-> "unsent"]
    /\ claims = [k \in Keys |-> None]

-----------------------------------------------------------------------------
(* The mailbox.                                                            *)

Waiting(n) == {box[n][i] : i \in DOMAIN box[n]}

(* openNode: the node starts with an empty box.                            *)
OpenNode(n) == open' = open \cup {n} /\ box' = [box EXCEPT ![n] = <<>>]

(* closeNode: every message the node never read is handed back.            *)
MutantCloseNode(n) ==
    /\ open' = open \ {n}
    /\ box' = [box EXCEPT ![n] = <<>>]
    /\ fate' = fate
CloseNode(n) ==
    /\ open' = open \ {n}
    /\ box' = [box EXCEPT ![n] = <<>>]
    /\ fate' = [m \in Msgs |-> IF m \in Waiting(n) THEN "returned" ELSE fate[m]]

(* Send, put: a node without a box refuses the message.                    *)
Send(n, m) ==
    /\ fate[m] = "unsent"
    /\ IF n \in open
         THEN box' = [box EXCEPT ![n] = Append(@, m)] /\ fate' = [fate EXCEPT ![m] = "waiting"]
         ELSE box' = box /\ fate' = [fate EXCEPT ![m] = "refused"]
    /\ UNCHANGED <<open, claims>>

(* inbox, take: the agent of n reads all of its waiting messages.          *)
ReadInbox(n) ==
    /\ box[n] # <<>>
    /\ box' = [box EXCEPT ![n] = <<>>]
    /\ fate' = [m \in Msgs |-> IF m \in Waiting(n) THEN "read" ELSE fate[m]]
    /\ UNCHANGED <<open, claims>>

-----------------------------------------------------------------------------
(* The claim list.                                                         *)

Held == {k \in Keys : claims[k] # None}

(* Claim: a held key stays with its holder; the list has a cap.            *)
Claim(n, k) ==
    /\ claims[k] = None
    /\ Cardinality(Held) < MaxClaims
    /\ claims' = [claims EXCEPT ![k] = n]
    /\ UNCHANGED <<open, box, fate>>

(* Release: only the holder drops its claim.                               *)
Release(n, k) ==
    /\ claims[k] = n
    /\ claims' = [claims EXCEPT ![k] = None]
    /\ UNCHANGED <<open, box, fate>>

(* releaseAll: an ended step holds no claims.                              *)
MutantReleaseAll(n) == claims' = claims
ReleaseAll(n) == claims' = [k \in Keys |-> IF claims[k] = n THEN None ELSE claims[k]]
=============================================================================
