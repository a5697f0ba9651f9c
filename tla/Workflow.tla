------------------------------ MODULE Workflow ------------------------------
(***************************************************************************)
(* The life of tuples and compute plans on the ledger.                     *)
(*                                                                         *)
(* One action is one chaincode transaction: Fabric runs a handler on the   *)
(* committed state, discards it when it returns an error, and serialises   *)
(* the transactions it commits.  A handler that returns an error is        *)
(* therefore no step at all; its conditions are the action's guards.  The  *)
(* exception is createComputePlan / updateComputePlan, which run the       *)
(* creation handlers in a loop inside one transaction: the model opens the *)
(* transaction (openPlan), takes one step per tuple and commits; no other  *)
(* transaction interleaves.                                                *)
(*                                                                         *)
(* Abstracted: algos, data, permissions, tags, metadata and logs (any      *)
(* request that passes those checks); a model is named by the tuple that   *)
(* produced it (the head and the trunk of a composite traintuple live and  *)
(* are listed together); the worker a request designates is a constant of  *)
(* its key, since a key is created once.                                   *)
(***************************************************************************)
EXTENDS TupleStatus, Naturals, FiniteSets, FiniteSetsExt

CONSTANTS
  Traintuples, CompositeTraintuples,   \* the keys clients use for each kind
  Aggregatetuples, Testtuples,         \*   of tuple
  Nodes,          \* the organisations; each runs one worker
  Plans, NoPlan,  \* compute plan keys, and the empty compute plan key
  CleanPlans,     \* the plans created with clean_models
  Worker,         \* [Keys -> Nodes], the worker a tuple runs on
  InputRank,      \* [Keys -> Nat], the rank given when added to a plan alone
  MaxInModels,    \* bound on the number of in-models of a request
  MaxRank,        \* bound on ranks
  ReuseLimit      \* bound on TupleCount past which a createComputePlan repeats no
                  \*   entry (same key, same in-models); 0: it never does

Trains == Traintuples \cup CompositeTraintuples \cup Aggregatetuples
Keys   == Trains \cup Testtuples

ASSUME KindsAssumption == Trains \cap Testtuples = {}
ASSUME PlansAssumption == NoPlan \notin Plans /\ CleanPlans \subseteq Plans
ASSUME NodesAssumption == IsFiniteSet(Nodes)
ASSUME WorkerAssumption == Worker \in [Keys -> Nodes]
ASSUME RankAssumption == MaxRank \in Nat /\ InputRank \in [Keys -> 0..MaxRank]
ASSUME BoundAssumption == MaxInModels \in Nat /\ ReuseLimit \in Nat

VARIABLES
  status,     \* [Keys -> status stored in the tuple, or Absent]
  parents,    \* [Keys -> in-models; for a testtuple, the tuple it tests]
  plan,       \* [Keys -> compute plan the tuple belongs to, or NoPlan]
  rank,       \* [Keys -> rank in that plan]
  reported,   \* keys whose out-model (or performance) is stored
  index       \* entries <<key, status>> of the worker~status~key indexes

VARIABLES
  planStatus, \* [Plans -> status, or Absent]
  tasks,      \* [Plans -> training tuples registered by ID (IDToTrainTask)]
  tupleCount, \* [Plans -> [Nodes -> TupleCount of the worker state]]
  doneCount,  \* [Plans -> [Nodes -> DoneCount of the worker state]]
  models      \* [Plans -> [Nodes -> IntermediaryModelsInUse]]

VARIABLES
  notified,   \* keys some event has carried with status todo
  dropped     \* models some event has announced for deletion

VARIABLES
  openPlan,   \* the plan whose create/update transaction is running, or NoPlan
  staged      \* the keys that transaction has created so far

tupleVars == <<status, parents, plan, rank, reported, index>>
planVars  == <<planStatus, tasks, tupleCount, doneCount, models>>
batchVars == <<openPlan, staged>>
vars == <<tupleVars, planVars, notified, dropped, batchVars>>

-----------------------------------------------------------------------------
(* Reading the ledger *)

Idle == openPlan = NoPlan

Registered == {k \in Keys : status[k] # Absent}

\* The tuples that have m as an in-model, and the testtuples of m.
TrainChildren(m) == {c \in Trains : m \in parents[c]}
TestChildren(m)  == {c \in Testtuples : m \in parents[c]}
Children(m) == TrainChildren(m) \cup TestChildren(m)

\* determineTupleStatus, when the plans have the statuses ps: a waiting tuple
\* of a plan that failed or was canceled reads as canceled.
EffectiveIn(ps, k) ==
  IF status[k] = "waiting" /\ plan[k] # NoPlan /\ ps[plan[k]] \in Closed
  THEN "canceled" ELSE status[k]

\* A plausible bug: a waiting tuple outlives the cancellation of its plan.
EffectiveIgnoringPlan(k) == status[k]

Effective(k) == EffectiveIn(planStatus, k)

\* The plans' statuses once the tuples in F have taken status s.
PlansAfter(F, s) ==
  [p \in Plans |-> IF \E k \in F : plan[k] = p THEN UpdateState(planStatus[p], s)
                                               ELSE planStatus[p]]

\* UpdateIndex for the tuples in F: the entry of the status read goes, the
\* entry of the status written comes.
Reindex(F, s) ==
  (index \ {<<k, Effective(k)>> : k \in F}) \cup {<<k, s>> : k \in F}

\* validateTupleOwner, for a handler that runs in a transaction of its own.
Authorized(n, k) == Idle /\ k \in Registered /\ n = Worker[k]

-----------------------------------------------------------------------------
Init ==
  /\ status = [k \in Keys |-> Absent]
  /\ parents = [k \in Keys |-> {}]
  /\ plan = [k \in Keys |-> NoPlan]
  /\ rank = [k \in Keys |-> 0]
  /\ reported = {} /\ index = {}
  /\ planStatus = [p \in Plans |-> Absent]
  /\ tasks = [p \in Plans |-> {}]
  /\ tupleCount = [p \in Plans |-> [n \in Nodes |-> 0]]
  /\ doneCount = [p \in Plans |-> [n \in Nodes |-> 0]]
  /\ models = [p \in Plans |-> [n \in Nodes |-> {}]]
  /\ notified = {} /\ dropped = {}
  /\ openPlan = NoPlan /\ staged = {}

-----------------------------------------------------------------------------
(* Creating tuples *)

\* A plausible bug: whether the key exists is not tested.
KeyNotTested(k) == TRUE

\* Add and KeyExists look at the committed state only: a key created earlier
\* in the same transaction is still free.
KeyFree(k) ==
  \/ status[k] = Absent
  \/ k \in staged /\ tupleCount[openPlan][Worker[k]] < ReuseLimit

\* AddToComputePlan's availability check, for a tuple added alone.
RankAvailable(p, n, r) ==
  ~ \E k \in Registered \cap Trains : plan[k] = p /\ Worker[k] = n /\ rank[k] = r

\* ComputePlan.AddTuple: one more tuple for its worker, and UpdateState.
AddTuple(p, k, s) ==
  IF p = NoPlan THEN UNCHANGED <<planStatus, tupleCount>>
  ELSE /\ tupleCount' = [tupleCount EXCEPT ![p][Worker[k]] = @ + 1]
       /\ planStatus' = [planStatus EXCEPT ![p] = UpdateState(@, s)]

\* A plausible bug: the event of a created tuple is forgotten.
NotifyOnlyUpdates(k, s) == notified

\* AddTupleEvent keeps the tuples whose status is todo.
Notify(k, s) == IF s = "todo" THEN notified \cup {k} ELSE notified

\* The common end of the four creation handlers, for a tuple with in-models in,
\* in plan p at rank r, created with status s: AddToComputePlan, Save, event.
\* A request that uses a key twice repeats the entry: the in-model indexes keep
\* those of both, which Children, read off parents, cannot tell apart.
Register(k, in, p, r, s) ==
  /\ KeyFree(k)
  /\ k \in staged => parents[k] = in
  /\ AddTuple(p, k, s)
  /\ status' = [status EXCEPT ![k] = s]
  /\ parents' = [parents EXCEPT ![k] = in]
  /\ plan' = [plan EXCEPT ![k] = p]
  /\ rank' = [rank EXCEPT ![k] = r]
  /\ index' = index \cup {<<k, s>>}
  /\ notified' = Notify(k, s)
  /\ UNCHANGED <<reported, doneCount, models, dropped, openPlan>>

\* The depth, in the DAG of its plan, of a task sorted after those in in.
IsDepth(r, in) ==
  /\ in = {} => r = 0
  /\ in # {} => (\E m \in in : r = rank[m] + 1) /\ (\A m \in in : rank[m] < r)

\* A plausible bug: an in-model that does not exist is skipped, not refused.
CreateAloneUnchecked(k, in, s) ==
  /\ Idle
  /\ Register(k, in, NoPlan, 0, s)
  /\ UNCHANGED <<tasks, staged>>

\* A training tuple submitted by a transaction of its own.
CreateAlone(k, in, s) ==
  /\ Idle
  /\ in \subseteq Registered
  /\ \/ Register(k, in, NoPlan, 0, s)
     \/ \E p \in Plans : /\ planStatus[p] # Absent
                         /\ RankAvailable(p, Worker[k], InputRank[k])
                         /\ Register(k, in, p, InputRank[k], s)
  /\ UNCHANGED <<tasks, staged>>

\* The tasks a task of the open plan is sorted after: its in-models.  A request's
\* items are not validated one by one, so that a composite traintuple may name a
\* head or a trunk alone: it is sorted by it, and stored without in-models.
SortedAfter(k, in) ==
  {in} \cup {{m} : m \in {m \in tasks[openPlan] : k \in CompositeTraintuples /\ in = {}}}

\* A training tuple submitted inside createComputePlan or updateComputePlan:
\* its in-models are tasks of the plan, and the testtuples come last.
CreateInBatch(k, in, s) ==
  /\ ~Idle
  /\ in \subseteq tasks[openPlan]
  /\ staged \cap Testtuples = {}
  /\ \E r \in 0..MaxRank, named \in SortedAfter(k, in) :
       IsDepth(r, named) /\ Register(k, in, openPlan, r, s)
  /\ tasks' = [tasks EXCEPT ![openPlan] = @ \cup {k}]
  /\ staged' = staged \cup {k}

InModelSets == {in \in SUBSET Trains : Cardinality(in) <= MaxInModels}

CreateTrain(k, in) ==
  LET s == StatusFromInModels({Effective(m) : m \in in})
  IN  CreateAlone(k, in, s) \/ CreateInBatch(k, in, s)

CreateTraintuple(k) == k \in Traintuples /\ \E in \in InModelSets : CreateTrain(k, in)

\* Either no in-model, or the head of a composite traintuple of the same worker
\* and the trunk (or model) of any training tuple.
CreateCompositeTraintuple(k) ==
  /\ k \in CompositeTraintuples
  /\ \E in \in InModelSets :
       /\ \/ in = {}
          \/ \E head, trunk \in in : /\ in = {head, trunk}
                                     /\ head \in CompositeTraintuples
                                     /\ Worker[head] = Worker[k]
       /\ CreateTrain(k, in)

CreateAggregatetuple(k) ==
  k \in Aggregatetuples /\ \E in \in InModelSets : CreateTrain(k, in)

\* A testtuple joins the plan, and takes the rank, of the tuple it tests.
CreateTesttuple(k) ==
  /\ k \in Testtuples
  /\ \E m \in Registered \cap Trains :
       /\ Effective(m) \notin Closed
       /\ Register(k, {m}, plan[m], rank[m],
                   IF Effective(m) = "done" THEN "todo" ELSE "waiting")
       /\ \/ Idle /\ UNCHANGED staged
          \/ ~Idle /\ m \in tasks[openPlan] /\ staged' = staged \cup {k}
  /\ UNCHANGED tasks

-----------------------------------------------------------------------------
(* Compute plans *)

\* createComputePlan stores an empty waiting plan, then continues like an
\* update in the same transaction.
CreateComputePlan(p) ==
  /\ Idle /\ planStatus[p] = Absent
  /\ planStatus' = [planStatus EXCEPT ![p] = "waiting"]
  /\ openPlan' = p
  /\ UNCHANGED <<tupleVars, tasks, tupleCount, doneCount, models,
                 notified, dropped, staged>>

UpdateComputePlan(p) ==
  /\ Idle /\ planStatus[p] # Absent
  /\ openPlan' = p
  /\ UNCHANGED <<tupleVars, planVars, notified, dropped, staged>>

\* The transaction of the open plan commits.  One that creates nothing changes
\* nothing: it is the empty plan, or the rejected empty update.
CommitComputePlan ==
  /\ ~Idle
  /\ openPlan' = NoPlan /\ staged' = {}
  /\ UNCHANGED <<tupleVars, planVars, notified, dropped>>

\* All the models the workers of a plan hold.
ModelsOf(p) == UNION {models[p][n] : n \in Nodes}

\* removeAllIntermediaryModels
ClearModels(p) == [models EXCEPT ![p] = [n \in Nodes |-> {}]]

\* Whoever asks, in whatever status the plan is.
CancelComputePlan(p) ==
  /\ Idle /\ planStatus[p] # Absent
  /\ planStatus' = [planStatus EXCEPT ![p] = "canceled"]
  /\ models' = ClearModels(p)
  /\ dropped' = dropped \cup ModelsOf(p)
  /\ UNCHANGED <<tupleVars, tasks, tupleCount, doneCount, notified, batchVars>>

-----------------------------------------------------------------------------
(* logStart*: a worker begins a tuple.  Repeated, it finds the status it would
   write and returns without effect, which is a stuttering step. *)

LogStart(n, k) ==
  /\ Authorized(n, k)
  /\ CheckUpdateTuple(Effective(k), "doing")
  /\ status' = [status EXCEPT ![k] = "doing"]
  /\ index' = Reindex({k}, "doing")
  /\ planStatus' = PlansAfter({k}, "doing")
  /\ UNCHANGED <<parents, plan, rank, reported, tasks, tupleCount, doneCount,
                 models, notified, dropped, batchVars>>

\* outputTraintuple.Fill, at the end of each handler of a traintuple, looks its
\* in-models up among the traintuples only, although SetFromParents takes them
\* of any type.  The handler's error discards the transaction.
CanFill(k) == parents[k] \subseteq Traintuples

LogStartTrain(n, k) == k \in Traintuples /\ CanFill(k) /\ LogStart(n, k)
LogStartCompositeTrain(n, k) == k \in CompositeTraintuples /\ LogStart(n, k)
LogStartAggregate(n, k) == k \in Aggregatetuples /\ LogStart(n, k)
LogStartTest(n, k) == k \in Testtuples /\ LogStart(n, k)

-----------------------------------------------------------------------------
(* logSuccess*: a worker reports the result of a tuple. *)

\* A plausible bug: a repeated report is counted again.
CountsRepeats(k) == plan[k] # NoPlan /\ planStatus[plan[k]] = "doing"

\* The tuple enters done in a plan that is doing: its worker's count goes up.
Counts(k) ==
  status[k] = "doing" /\ plan[k] # NoPlan /\ planStatus[plan[k]] = "doing"

\* incrementWorkerDoneCount
DoneCountAfter(k) ==
  IF Counts(k) THEN [doneCount EXCEPT ![plan[k]][Worker[k]] = @ + 1] ELSE doneCount

\* One of the two totals of getTupleCounts.
Total(count) == MapThenSumSet(LAMBDA n : count[n], Nodes)

\* A plausible bug: the plan is done as soon as one of its workers is.
CompletesOneWorker(k) ==
  /\ Counts(k)
  /\ DoneCountAfter(k)[plan[k]][Worker[k]] = tupleCount[plan[k]][Worker[k]]

\* A plausible bug: the count compared is the one read before the increment.
CompletesStaleCount(k) ==
  /\ Counts(k)
  /\ doneCount[plan[k]][Worker[k]] = tupleCount[plan[k]][Worker[k]]
  /\ Total(doneCount[plan[k]]) = Total(tupleCount[plan[k]])

\* UpdateState on a done tuple: the plan is done when its last worker has done
\* its last tuple.  Only the current worker is looked at before the totals.
Completes(k) ==
  /\ Counts(k)
  /\ LET done == DoneCountAfter(k)[plan[k]]
         all  == tupleCount[plan[k]]
     IN  done[Worker[k]] = all[Worker[k]] /\ Total(done) = Total(all)

PlanStatusAfterDone(k) ==
  IF Completes(k) THEN [planStatus EXCEPT ![plan[k]] = "done"] ELSE planStatus

ModelsAfterDone(k) == IF Completes(k) THEN ClearModels(plan[k]) ELSE models

\* A plausible bug: the testtuples of a model are not counted as its users.
InUseByTrains(m, k) == \E c \in TrainChildren(m) \ {k} : Effective(c) # "done"

\* isModelInUse, in the transaction that sets k done.
InUse(m, k) == \E c \in Children(m) \ {k} : Effective(c) # "done"

\* TryAddIntermediaryModel, after UpdateState has dealt with the plan: the
\* unused models leave the worker's list, the model of k enters it if some
\* training tuple takes it as in-model.
TryAddIntermediaryModel(k) ==
  IF plan[k] \notin CleanPlans
  THEN /\ models' = ModelsAfterDone(k)
       /\ dropped' = IF Completes(k) THEN dropped \cup ModelsOf(plan[k]) ELSE dropped
  ELSE LET listed == ModelsAfterDone(k)[plan[k]][Worker[k]]
           used   == {m \in listed : InUse(m, k)}
           added  == {m \in {k} : TrainChildren(m) # {}}
       IN  /\ models' = [ModelsAfterDone(k) EXCEPT ![plan[k]][Worker[k]] = used \cup added]
           /\ dropped' = dropped \cup (listed \ used)
                           \cup (IF Completes(k) THEN ModelsOf(plan[k]) ELSE {})

\* A plausible bug: IsReady trusts every in-model that has been started.
WokenTooEarly(k) ==
  {c \in TrainChildren(k) :
     /\ Effective(c) = "waiting"
     /\ \A m \in parents[c] \ {k} : Effective(m) \in {"doing", "done"}}

\* A plausible bug: a tuple with several in-models waits for another event.
WokenOnlyChildren(k) ==
  {c \in TrainChildren(k) : Effective(c) = "waiting" /\ parents[c] = {k}}

\* UpdateTraintupleChildren with IsReady: the waiting training tuples whose
\* in-models are all done but for k.
Woken(k) ==
  {c \in TrainChildren(k) :
     /\ Effective(c) = "waiting"
     /\ \A m \in parents[c] \ {k} : Effective(m) = "done"}

\* A plausible bug: only the training tuples hear of a success.
WokenTestsNone(k) == {}

\* UpdateTesttupleChildren, for a tuple done.
WokenTests(k) == {c \in TestChildren(k) : Effective(c) = "waiting"}

\* UpdateTraintupleChildren and UpdateTesttupleChildren return an error, and
\* the report is lost, when they meet a child they cannot move to todo.
ChildrenAcceptDone(k) ==
  /\ \A c \in TrainChildren(k) : Effective(c) \in Closed \cup {"waiting"}
  /\ \A c \in TestChildren(k) : \/ Effective(c) \in {"canceled", "todo"}
                                \/ CheckUpdateTuple(Effective(c), "todo")

\* The status k is written with, the children woken in the same transaction,
\* and the statuses of the plans after all of them.
RecordSuccess(k, woken) ==
  /\ status' = [c \in Keys |-> IF c = k THEN "done"
                               ELSE IF c \in woken THEN "todo" ELSE status[c]]
  /\ reported' = reported \cup {k}
  /\ index' = (index \ ({<<k, Effective(k)>>} \cup {<<c, "waiting">> : c \in woken}))
                 \cup {<<k, "done">>} \cup {<<c, "todo">> : c \in woken}
  /\ notified' = notified \cup woken
  /\ planStatus' = [p \in Plans |->
                      IF \E c \in woken : plan[c] = p
                      THEN UpdateState(PlanStatusAfterDone(k)[p], "todo")
                      ELSE PlanStatusAfterDone(k)[p]]
  /\ doneCount' = DoneCountAfter(k)
  /\ UNCHANGED <<parents, plan, rank, tasks, tupleCount, batchVars>>

\* A repeated report is accepted too: commitStatusUpdate returns at once, the
\* rest of the handler runs again.
LogSuccess(n, k) ==
  /\ Authorized(n, k)
  /\ Effective(k) = "done" \/ CheckUpdateTuple(Effective(k), "done")
  /\ ChildrenAcceptDone(k)
  /\ RecordSuccess(k, Woken(k) \cup WokenTests(k))
  /\ TryAddIntermediaryModel(k)

LogSuccessTrain(n, k) == k \in Traintuples /\ CanFill(k) /\ LogSuccess(n, k)
LogSuccessCompositeTrain(n, k) == k \in CompositeTraintuples /\ LogSuccess(n, k)
LogSuccessAggregate(n, k) == k \in Aggregatetuples /\ LogSuccess(n, k)

\* A testtuple has neither children nor a model.
LogSuccessTest(n, k) ==
  /\ k \in Testtuples
  /\ Authorized(n, k)
  /\ CheckUpdateTuple(Effective(k), "done")
  /\ RecordSuccess(k, {})
  /\ models' = ModelsAfterDone(k)
  /\ dropped' = IF Completes(k) THEN dropped \cup ModelsOf(plan[k]) ELSE dropped

-----------------------------------------------------------------------------
(* logFail*: a worker gives a tuple up, from any status. *)

\* Every tuple of F becomes failed, and the plans learn of it.
MarkFailed(F) ==
  /\ status' = [k \in Keys |-> IF k \in F THEN "failed" ELSE status[k]]
  /\ index' = Reindex(F, "failed")
  /\ planStatus' = PlansAfter(F, "failed")
  /\ UNCHANGED <<parents, plan, rank, reported, tasks, tupleCount, doneCount,
                 models, notified, dropped, batchVars>>

(***************************************************************************)
(* UpdateTraintupleChildren with status failed, started from k: the set F  *)
(* of training tuples it fails.  The recursion visits the children of each *)
(* tuple it fails; it skips those that are (or now read as) failed or      *)
(* canceled, fails the waiting ones and returns an error on any other.     *)
(* The first tuple it fails in a plan that is doing closes that plan, so   *)
(* that the plan's other waiting tuples read as canceled from there on.    *)
(* Which of them comes first is the order of the keys; here, any.          *)
(***************************************************************************)
Propagates(k, F) ==
  /\ \A c \in F : Effective(c) = "waiting" /\ parents[c] \cap (F \cup {k}) # {}
  /\ \A c, d \in F : /\ c # d /\ plan[c] = plan[d] /\ plan[c] # NoPlan
                     => planStatus[plan[c]] # "doing"
  /\ \A m \in F \cup {k} : \A c \in TrainChildren(m) :
       c \in F \/ EffectiveIn(PlansAfter(F, "failed"), c) \in Closed

\* UpdateTesttupleChildren with status failed, for the training tuples in F.
FailedTests(F) ==
  {t \in Testtuples : /\ parents[t] \cap F # {}
                      /\ EffectiveIn(PlansAfter(F, "failed"), t) # "canceled"}

\* In a plan the failure stays with the tuple (a repeated logFail returns at
\* once); outside, it is propagated in the same transaction.
LogFail(n, k) ==
  /\ Authorized(n, k)
  /\ \/ plan[k] # NoPlan /\ Effective(k) # "failed" /\ MarkFailed({k})
     \/ /\ plan[k] = NoPlan
        /\ \E F \in SUBSET (Trains \ {k}) :
             Propagates(k, F) /\ MarkFailed({k} \cup F \cup FailedTests({k} \cup F))

LogFailTrain(n, k) == k \in Traintuples /\ CanFill(k) /\ LogFail(n, k)
LogFailCompositeTrain(n, k) == k \in CompositeTraintuples /\ LogFail(n, k)
LogFailAggregate(n, k) == k \in Aggregatetuples /\ LogFail(n, k)

LogFailTest(n, k) ==
  /\ k \in Testtuples
  /\ Authorized(n, k)
  /\ Effective(k) # "failed"
  /\ MarkFailed({k})

-----------------------------------------------------------------------------
Clients ==
  \/ \E p \in Plans : CreateComputePlan(p) \/ UpdateComputePlan(p) \/ CancelComputePlan(p)
  \/ CommitComputePlan
  \/ \E k \in Keys : \/ CreateTraintuple(k)   \/ CreateCompositeTraintuple(k)
                     \/ CreateAggregatetuple(k) \/ CreateTesttuple(k)

Starts == \E n \in Nodes, k \in Keys :
  \/ LogStartTrain(n, k)     \/ LogStartCompositeTrain(n, k)
  \/ LogStartAggregate(n, k) \/ LogStartTest(n, k)

Successes == \E n \in Nodes, k \in Keys :
  \/ LogSuccessTrain(n, k)     \/ LogSuccessCompositeTrain(n, k)
  \/ LogSuccessAggregate(n, k) \/ LogSuccessTest(n, k)

Fails(n, k) ==
  \/ LogFailTrain(n, k)     \/ LogFailCompositeTrain(n, k)
  \/ LogFailAggregate(n, k) \/ LogFailTest(n, k)

Failures == \E n \in Nodes, k \in Keys : Fails(n, k)

Next == Clients \/ Starts \/ Successes \/ Failures

Spec == Init /\ [][Next]_vars
=============================================================================
