----------------------------- MODULE MCDagLoops -----------------------------
(***************************************************************************)
(* Every run of four nodes: all sets of edges, all mixtures of pending,    *)
(* completed and failed nodes.                                             *)
(***************************************************************************)
EXTENDS DagLoops

CONSTANTS a, b, c, d

FourNodes == <<a, b, c, d>>
=============================================================================
