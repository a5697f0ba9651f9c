----------------------------- MODULE MCWorkflow -----------------------------
(***************************************************************************)
(* Instances of Workflow for TLC.  Two workers; the keys in OnSecond run   *)
(* on the second one, those in SecondRank are added to a plan at rank 1,   *)
(* the others at rank 0.                                                   *)
(***************************************************************************)
EXTENDS WorkflowRefinement, TLC

CONSTANTS n1, n2, OnSecond, SecondRank,
          Twins        \* interchangeable keys: same kind, worker and rank

MCWorker == [k \in Keys |-> IF k \in OnSecond THEN n2 ELSE n1]
MCInputRank == [k \in Keys |-> IF k \in SecondRank THEN 1 ELSE 0]

\* The plans are interchangeable when all or none of them clean their models.
MCSymmetry == Permutations(Twins) \cup Permutations(Plans)
=============================================================================
