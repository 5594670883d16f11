---------------------------- MODULE MCDecisionCycle ----------------------------
(***************************************************************************)
(* Small instances of DecisionCycle: two threads, two cycles.            *)
(***************************************************************************)
EXTENDS DecisionCycle

MCAllFaults == FaultKind
================================================================================
