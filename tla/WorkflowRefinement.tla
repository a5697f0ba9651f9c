------------------------- MODULE WorkflowRefinement -------------------------
(***************************************************************************)
(* The tuples of the ledger, read as a graph of tasks: the life cycle of   *)
(* Workflow implements TaskGraph.                                          *)
(***************************************************************************)
EXTENDS WorkflowProperties

\* A waiting tuple of a closed plan reads as canceled: closing a plan abandons
\* its waiting tuples without writing any of them.
Phase(k) ==
  IF Effective(k) \in Closed THEN "abandoned"
  ELSE IF status[k] = "waiting" THEN "pending"
  ELSE IF status[k] = "todo" THEN "runnable"
  ELSE IF status[k] = "doing" THEN "running"
  ELSE IF status[k] = "done" THEN "delivered" ELSE "unknown"

TG == INSTANCE TaskGraph WITH
        Tasks   <- Keys,
        phase   <- [k \in Keys |-> Phase(k)],
        needs   <- parents,
        results <- reported

\* Every transaction of the chaincode is a step of the task graph or leaves it
\* alone: the success of a tuple makes exactly the tuples it was the last
\* missing in-model of runnable, in the same transaction; tuples are abandoned
\* only while they wait, by their own worker, or with something they need; and
\* nothing abandoned ever comes back.
ImplementsTaskGraph == TG!Spec
=============================================================================
