------------------------- MODULE MCWorkflowSchedule -------------------------
(***************************************************************************)
(* Small instances of WorkflowSchedule.                                    *)
(***************************************************************************)
EXTENDS WorkflowSchedule

CONSTANTS w1

(* Two slots within a window of one, and a later one.                      *)
FewSlots == {2, 3, 5}
=============================================================================
