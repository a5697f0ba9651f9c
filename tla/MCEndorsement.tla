--------------------------- MODULE MCEndorsement ---------------------------
(***************************************************************************)
(* Instances of Endorsement for TLC: the third and fourth tuple, if any,   *)
(* are for the second worker.                                              *)
(***************************************************************************)
EXTENDS Endorsement, TLC

CONSTANTS
  w1, w2,
  First,    \* the tuples of w1
  Resent    \* the tuples whose success may be under way twice

MCWorkerOf == [k \in Tuples |-> IF k \in First THEN w1 ELSE w2]

MCRepeated == {"success"} \X Resent
=============================================================================
