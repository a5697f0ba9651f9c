---------------------------- MODULE TupleStatus ----------------------------
(***************************************************************************)
(* The status rules shared by the four kinds of tuples (traintuples,       *)
(* composite traintuples, aggregatetuples, testtuples) and the state       *)
(* machine of a compute plan: pure operators, no state.                    *)
(*                                                                         *)
(* "canceled" is also what the code calls aborted: StatusAborted and       *)
(* StatusCanceled are the same string.                                     *)
(***************************************************************************)

Statuses == {"waiting", "todo", "doing", "done", "failed", "canceled"}

\* What GetState returns for a key the ledger does not hold yet.
Absent == "absent"

\* A compute plan in one of these never leaves them for an open status.
Closed == {"failed", "canceled"}

PlanStatuses == {"waiting", "todo", "doing", "done"} \cup Closed

(***************************************************************************)
(* checkUpdateTuple: the one successor of each live status, and failed or  *)
(* canceled from anywhere.                                                 *)
(***************************************************************************)
StatusPossibilities == [waiting |-> "todo", todo |-> "doing", doing |-> "done"]

CheckUpdateTuple(old, new) ==
  \/ new \in Closed
  \/ old \in DOMAIN StatusPossibilities /\ StatusPossibilities[old] = new

(***************************************************************************)
(* determineStatusFromInModels: the status a training tuple is created     *)
(* with, from the set of the statuses of its in-models.                    *)
(***************************************************************************)
\* A plausible bug: an in-model that is being trained counts as trained.
StatusFromInModelsDoingCounts(statuses) ==
  IF "failed" \in statuses THEN "failed"
  ELSE IF "canceled" \in statuses THEN "canceled"
  ELSE IF statuses \subseteq {"doing", "done"} THEN "todo" ELSE "waiting"

StatusFromInModels(statuses) ==
  IF "failed" \in statuses THEN "failed"
  ELSE IF "canceled" \in statuses THEN "canceled"
  ELSE IF statuses \subseteq {"done"} THEN "todo" ELSE "waiting"

(***************************************************************************)
(* ComputePlan.UpdateState: what becomes of a plan in status old that      *)
(* learns of a tuple entering status new.  The remaining case, a tuple     *)
(* done in a plan that is "doing", depends on the workers' counters and is *)
(* in the module that has them.                                            *)
(***************************************************************************)
PlanMoves == {<<"done", "waiting">>, <<"done", "todo">>, <<"doing", "failed">>,
              <<"todo", "doing">>, <<"waiting", "todo">>}

\* A plausible bug: the start of a tuple is not recorded in the plan.
UpdateStateMissesStart(old, new) ==
  IF <<old, new>> \in PlanMoves \ {<<"todo", "doing">>} THEN new ELSE old

UpdateState(old, new) == IF <<old, new>> \in PlanMoves THEN new ELSE old
=============================================================================
