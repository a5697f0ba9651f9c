---------------------------- MODULE MCComputeDAG ----------------------------
(***************************************************************************)
(* Instances of ComputeDAG for TLC: all requests of up to three tasks over *)
(* three IDs, one of which the plan may know already.                      *)
(***************************************************************************)
EXTENDS ComputeDAG, TLC
=============================================================================
