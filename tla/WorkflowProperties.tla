------------------------- MODULE WorkflowProperties -------------------------
(***************************************************************************)
(* What the tuple and compute plan life cycle of Workflow must guarantee.  *)
(***************************************************************************)
EXTENDS Workflow

PlanTuples(p) == {k \in Registered : plan[k] = p}

-----------------------------------------------------------------------------
(* Invariants *)

\* Every variable keeps the shape its declaration gives it; in-models, tasks,
\* reported and staged tuples are on the ledger, and an unused key is blank.
TypeOK ==
  /\ status \in [Keys -> Statuses \cup {Absent}]
  /\ parents \in [Keys -> SUBSET Trains]
  /\ plan \in [Keys -> Plans \cup {NoPlan}]
  /\ rank \in [Keys -> 0..MaxRank]
  /\ index \subseteq Keys \X Statuses
  /\ planStatus \in [Plans -> PlanStatuses \cup {Absent}]
  /\ tasks \in [Plans -> SUBSET Trains]
  /\ tupleCount \in [Plans -> [Nodes -> Nat]]
  /\ doneCount \in [Plans -> [Nodes -> Nat]]
  /\ models \in [Plans -> [Nodes -> SUBSET Keys]]
  /\ notified \subseteq Keys /\ dropped \subseteq Keys
  /\ openPlan \in Plans \cup {NoPlan}
  /\ staged \subseteq Registered /\ reported \subseteq Registered
  /\ \A k \in Keys : parents[k] \subseteq Registered
  /\ \A p \in Plans : tasks[p] \subseteq Registered
  /\ \A k \in Keys \ Registered : parents[k] = {} /\ plan[k] = NoPlan

\* A worker is only ever asked to run (todo), or running, a tuple whose
\* in-models have all been reported to the ledger: no order of registrations,
\* successes and failures, and no late failure, lets one start too early.
InModelsAvailable ==
  \A k \in Keys : status[k] \in {"todo", "doing", "done"} => parents[k] \subseteq reported

\* A tuple that reads as waiting really waits for something: the transaction
\* that did its last in-model moved it to todo (UpdateTraintupleChildren,
\* UpdateTesttupleChildren), and one created after that was created todo.
NoLostWakeup ==
  \A k \in Keys : Effective(k) = "waiting" => \E m \in parents[k] : status[m] # "done"

\* Outside compute plans a failure reaches everything that depends on it: no
\* tuple that reads as waiting has a failed or canceled in-model outside a plan.
FailurePropagated ==
  \A k \in Keys : Effective(k) = "waiting" =>
    \A m \in parents[k] : plan[m] = NoPlan => status[m] \notin Closed

\* Workers find tuples by events and by the worker~status~key indexes: every
\* tuple is indexed under its stored status, and a todo tuple was announced.
WorkDiscoverable ==
  \A k \in Registered : /\ <<k, status[k]>> \in index
                        /\ status[k] = "todo" => k \in notified

\* The status of an open plan never lags behind its tuples: nothing is todo or
\* doing in a waiting plan, and nothing is doing in a todo plan.
PlanReflectsWork ==
  \A k \in Keys : plan[k] # NoPlan =>
    /\ planStatus[plan[k]] = "waiting" => status[k] \notin {"todo", "doing"}
    /\ planStatus[plan[k]] = "todo" => status[k] # "doing"

\* A done plan has no work left, whatever was added to it or failed late.
DonePlanIsSettled ==
  \A p \in Plans : planStatus[p] = "done" =>
    \A k \in PlanTuples(p) : status[k] \in {"done"} \cup Closed

\* The last success of a plan is not missed: a plan that has tuples and is
\* still open has one that is not done, although each worker only looks at
\* the others' counters when it has finished its own tuples.
CompletionNotLost ==
  \A p \in Plans : planStatus[p] \in {"waiting", "todo", "doing"} /\ PlanTuples(p) # {} =>
    \E k \in PlanTuples(p) : status[k] # "done"

\* The counters the completion of a plan is decided on: TupleCount is the number
\* of tuples of the worker and, as long as the plan is not closed, DoneCount
\* the number of those that have reported a result.
CountersExact ==
  \A p \in Plans, n \in Nodes :
    LET mine == {k \in PlanTuples(p) : Worker[k] = n}
    IN  /\ tupleCount[p][n] = Cardinality(mine)
        /\ planStatus[p] \notin Closed => doneCount[p][n] = Cardinality(mine \cap reported)

-----------------------------------------------------------------------------
(* The inductive invariant *)

\* A transaction's staged keys are cleared when it commits, and none of them
\* has a result yet.
StagedFresh == (Idle => staged = {}) /\ staged \cap reported = {}

\* A result is never lost: it stays on the ledger whatever happens to the tuple.
DoneReported == \A k \in Keys : status[k] = "done" => k \in reported

\* A testtuple tests one tuple.
TestsOne == \A t \in Testtuples : \A m, o \in parents[t] : m = o

\* It joins the plan of the tuple it tests.
TestsJoin == \A t \in Testtuples : \A m \in parents[t] : plan[t] = plan[m]

\* The open transaction has left each tuple it created as it would be if created
\* now, or as canceled with its plan: a request that uses a key twice brings
\* nothing back.
StagedCurrent ==
  \A k \in staged :
    /\ k \in Trains => plan[k] = openPlan
    /\ status[k] \in {"waiting", "todo"} \cup Closed
    /\ status[k] = "todo" <=> \A m \in parents[k] : status[m] = "done"
    /\ status[k] \in Closed => \E m \in parents[k] : Effective(m) \in Closed
    /\ (\E m \in parents[k] : Effective(m) \in Closed) => Effective(k) \in Closed

\* What every transaction preserves: the invariants above that do not depend on
\* the counters, and the facts their preservation needs.
Inductive ==
  /\ TypeOK /\ StagedFresh /\ DoneReported /\ TestsOne /\ TestsJoin /\ StagedCurrent
  /\ InModelsAvailable /\ NoLostWakeup /\ FailurePropagated /\ WorkDiscoverable

\* Only a tuple that was done has a result, and it may fail later.
ReportedEnded == \A k \in reported : status[k] \in {"done", "failed"}

\* Tuples are in plans that exist, and only those are opened.
PlansExist ==
  /\ ~Idle => planStatus[openPlan] # Absent
  /\ \A k \in Keys : plan[k] # NoPlan => planStatus[plan[k]] # Absent

\* The models a plan's workers hold are those of its tuples.
ModelsPlaced == \A p \in Plans, n \in Nodes : \A m \in models[p][n] : plan[m] = p

\* What every transaction preserves besides, when no request uses a key twice:
\* the status of a plan moves on with its tuples because the counters are exact,
\* and they stay so because its status is.
PlanInductive ==
  /\ IsFiniteSet(Registered) /\ ReportedEnded /\ PlansExist /\ ModelsPlaced
  /\ PlanReflectsWork /\ DonePlanIsSettled /\ CompletionNotLost /\ CountersExact

-----------------------------------------------------------------------------
(* Action properties *)

\* A failed or canceled plan stays closed, and nothing that comes after the
\* closing, a late report or a key used twice, starts anything in it: its tuples
\* that were waiting stay so, or end badly.
ClosedPlanStartsNothing ==
  [][\A p \in Plans : planStatus[p] \in Closed =>
       /\ planStatus'[p] \in Closed
       /\ \A k \in Keys : plan[k] = p /\ status[k] = "waiting"
                            => status'[k] \in {"waiting"} \cup Closed]_vars

\* Unless the plan is being canceled, a model is announced for deletion only
\* when every tuple of its plan that takes it as in-model, testtuples included,
\* has reported its result.
ModelsDeletedUnused ==
  [][\A m \in dropped' \ dropped : planStatus'[plan[m]] # "canceled" =>
       \A c \in Children(m) : plan[c] = plan[m] => c \in reported']_vars

-----------------------------------------------------------------------------
(* What comments of the source say, and the code does not do *)

\* "update associated composite keys": after a status update, the status
\* indexes hold a tuple under its status only.
IndexExact == \A k \in Keys, s \in Statuses : <<k, s>> \in index => s = status[k]

\* DoneCount is "the number of tuples in the 'done' state for this compute plan
\* and worker".
DoneCountIsDone ==
  \A p \in Plans, n \in Nodes : doneCount[p][n] =
    Cardinality({k \in PlanTuples(p) : Worker[k] = n /\ status[k] = "done"})

\* TupleCount is "the total number of tuples registered for this compute plan
\* and worker".
TupleCountIsTuples ==
  \A p \in Plans, n \in Nodes :
    tupleCount[p][n] = Cardinality({k \in PlanTuples(p) : Worker[k] = n})

\* logSuccessTrain "modifies a traintuple by changing its status from doing to
\* done": the report on a tuple that is doing is accepted.
DoingCanSucceed ==
  \A k \in Trains : status[k] = "doing" => ChildrenAcceptDone(k)

\* logStartTrain "modifies a traintuple by changing its status from todo to
\* doing": the start of a traintuple that is todo is accepted.
TodoCanStart == \A k \in Traintuples : status[k] = "todo" => CanFill(k)

\* UpdateTraintupleChildren updates waiting tuples "once they have been trained
\* (succesfully or failed)": no training tuple waits for one that has failed.
NoWaitingOnFailed ==
  \A c \in Trains : Effective(c) = "waiting" => \A m \in parents[c] : status[m] # "failed"

-----------------------------------------------------------------------------
(* Liveness, for clients and workers that behave *)

\* The in-models of a tuple are in its own plan, or neither is in a plan.
InModelsSamePlan == \A k \in Keys : \A m \in parents[k] : plan[m] = plan[k]

\* Workers give up only what they have started.
OrderlyNext ==
  \/ Clients /\ InModelsSamePlan'
  \/ Starts
  \/ Successes
  \/ \E n \in Nodes, k \in Keys : status[k] = "doing" /\ Fails(n, k)

\* The worker of k takes it up.
TakesUp(k) == \E n \in Nodes :
  \/ LogStartTrain(n, k)     \/ LogStartCompositeTrain(n, k)
  \/ LogStartAggregate(n, k) \/ LogStartTest(n, k)

\* The worker of k reports on what it is doing.
Reports(k) == \E n \in Nodes : /\ status[k] = "doing"
                               /\ \/ LogSuccessTrain(n, k)
                                  \/ LogSuccessCompositeTrain(n, k)
                                  \/ LogSuccessAggregate(n, k)
                                  \/ LogSuccessTest(n, k)
                                  \/ Fails(n, k)

\* A transaction that runs ends.  A worker keeps asking for the todo tuples it
\* was notified of and reports on what it runs; strong fairness, because the
\* model's open transactions, atomic on the ledger, interrupt it.
OrderlySpec ==
  /\ Init /\ [][OrderlyNext]_vars
  /\ WF_vars(CommitComputePlan)
  /\ \A k \in Keys : SF_vars(TakesUp(k)) /\ SF_vars(Reports(k))

\* Every tuple comes to an end: done, failed, or canceled with its plan.
EveryTupleSettles ==
  \A k \in Keys : (status[k] # Absent) ~> (Effective(k) \in {"done"} \cup Closed)

\* Every compute plan that has tuples comes to an end.
EveryPlanSettles ==
  \A p \in Plans : (PlanTuples(p) # {}) ~> (planStatus[p] \in {"done"} \cup Closed)
=============================================================================
