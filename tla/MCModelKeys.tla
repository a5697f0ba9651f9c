---------------------------- MODULE MCModelKeys ----------------------------
(***************************************************************************)
(* Instances of ModelKeys for TLC, with the constants of MCWorkflow.  The  *)
(* names are told apart by nothing but the tuple they are drawn for.       *)
(***************************************************************************)
EXTENDS ModelKeys, MCWorkflow

CONSTANTS c1, c2, First, Second, Third    \* the names for c1, c2 and the others

MCNames == First \cup Second \cup Third

MCNamesOf ==
  [k \in Trains |-> IF k = c1 THEN First ELSE IF k = c2 THEN Second ELSE Third]

MCNameSymmetry == Permutations(First) \cup Permutations(Second) \cup Permutations(Third)
=============================================================================
