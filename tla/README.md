# TLA+ models of substra-chaincode

Substra-chaincode is the ledger of a federated learning platform: a Hyperledger
Fabric chaincode in Go (`src/chaincode/`) on which organisations register their
data and algorithms, submit training tasks (*tuples*) alone or grouped in
*compute plans*, and report the tasks' results. This directory holds the TLA+
modules that model it, the TLC configurations that check them, and proofs of
their main properties for the TLA+ proof system (TLAPS).

Run, in this directory:

    tlc -workers 2 -config plan.cfg MCWorkflow     # any of the .cfg files
    tlapm WorkflowProofs.tla                       # and the other *Proofs modules

## 1. The system

| Component | State on the ledger | Operations | What makes it correct |
|---|---|---|---|
| Traintuples, composite traintuples, aggregatetuples (`traintuple*.go`, `tuple_aggregate.go`) | the tuple: status, in-models, compute plan, rank, out-model; the indexes `*~worker~status~key`, `tuple~inModel~key`, `tuple~modelKey~key`, `computePlan~computeplankey~worker~rank~key` | create, logStart, logSuccess, logFail | started only when the in-models exist; no lost wake-up; failures propagate; found by its worker |
| Testtuples (`testtuple.go`) | the same, with the tuple they test and a performance | the same four | the same |
| Status rules (`tuple.go`) | none | checkUpdateTuple, determineStatusFromInModels, determineTupleStatus | |
| Compute plans (`compute_plan.go`) | status, IDs of the training tasks, keys of the tuples, workers | create, update, cancel; UpdateState on every change of a tuple | status agrees with the tuples; completion neither missed nor early; a closed plan starts nothing |
| Worker state (`compute_plan_worker_state.go`) | per plan and worker: TupleCount, DoneCount, IntermediaryModelsInUse | part of the handlers above | counters exact; no model dropped that is still needed |
| Compute DAG (`compute_plan_dag.go`) | none (inside one transaction) | orders a plan's tasks, computes depths | a topological order; refuses cycles |
| Ledger access, events (`ledger_db.go`) | key/value store seen through the transaction's own writes; one event per transaction | Get, Put, Add, indexes, AddTupleEvent, AddComputePlanEvent | reads its own writes for keys (not for indexes or existence tests) |
| Nodes, data managers, data samples, objectives, algos (`node.go`, `data.go`, `objective.go`, `algo*.go`) | registries | register, update associations | references exist |
| Permissions (`permissions.go`) | none | merge, union, CanProcess | merged permissions are never wider |
| Queries, filters, pagination, leaderboard, input/output conversion, dispatcher, errors | none | reads and formatting | |

**Interactions.** Every handler is a Fabric transaction. A creation reads its
in-models' statuses and its plan; a `logSuccess*` writes the tuple, moves its
plan (`UpdateComputePlanState`), the worker's counters and list of models,
and then its waiting children, whose changes move their plans in turn. A
`logFail*` outside plans does the same recursively. Workers learn of the work
by the transaction's event, or by querying the status index.

**What is hard.** Transactions are serial (Fabric validates the keys and the
ranges a transaction read, so a stale one is rejected at commit and submitted
again; `Endorsement` checks this for compute plans) and a handler that fails
leaves nothing behind. The difficulty is
elsewhere: the *order* of transactions of clients and several workers is free
(a success, a late failure, a cancellation and the creation of a child race);
a child joins results of several workers; the status of a tuple is partly
virtual (a waiting tuple of a closed plan *reads* as canceled while it is
*stored* as waiting); a transaction sees its own writes through keys but not
through indexes; the completion of a plan is decided on per-worker counters; a
failure is accepted in any status; reports may be repeated. PROJECT.json lists
these hazards at their lines, each with the properties that watch it.

## 2. The modules

`TupleStatus` - the status rules shared by the four kinds of tuples and the
status machine of a plan: pure operators. `CheckUpdateTuple`,
`StatusFromInModels`, `UpdateState` are `checkUpdateTuple`,
`determineStatusFromInModels` and `ComputePlan.UpdateState`.

`Workflow` - the specification. One action per handler: the four creations,
create/update/cancel of plans, and logStart, logSuccess and logFail of the
four kinds. What corresponds to what:

| Module | Code |
|---|---|
| `status`, `parents`, `plan`, `rank` | the fields of a tuple; `Absent` is a key not on the ledger |
| `Effective(k)` | the status `GetGenericTuple` and the typed getters return (`determineTupleStatus`) |
| `reported` | OutModel, or Perf, is set |
| `index` | the entries of the `*~worker~status~key` indexes |
| `TrainChildren`, `TestChildren` | `tuple~inModel~key`, `testtuple~traintuple~certified~key` |
| `planStatus`, `tasks` | ComputePlanState, the keys of IDToTrainTask |
| `tupleCount`, `doneCount`, `models` | ComputePlanWorkerState |
| `notified`, `dropped` | what some event has carried: tuples to run, models to delete |
| `openPlan`, `staged` | the createComputePlan/updateComputePlan transaction under way and the keys it has created |
| `Register`, `AddTuple`, `RecordSuccess`, `TryAddIntermediaryModel`, `Propagates`, ... | the functions they are named for, or named in their comments |

A handler that returns an error is no step, since the transaction is discarded:
its conditions, the errors met halfway through the children included
(`ChildrenAcceptDone`, `Propagates`), are guards. The one handler split in
several steps is the creation or update of a plan, which runs the creation
handlers in a loop; `openPlan` keeps every other transaction out until it
commits (so it remains atomic), and `staged` tells what the existence test of
`Add` cannot see.

`LogSuccess` accepts a repeated report, because `commitStatusUpdate` returns
without error when the status is already done and the handler goes on. A
repeated logStart or logFail of a tuple in a plan has no effect; outside plans a repeated
logFail propagates again.

Propagation of a failure is specified by its result: `Propagates(k, F)` says
which sets `F` the recursion of `UpdateTraintupleChildren` can fail, over every
order of the keys, instead of running the recursion.

`WorkflowProperties` - the properties of `Workflow`. `MCWorkflow` - the instances
for TLC. `WorkflowProofs` - the theorems on tuples, `PlanProofs` those on plans.

The other modules are built around these:

| Module | Models | Relation to the others |
|---|---|---|
| `TaskGraph` | what the life of a tuple promises to the organisations: a graph of tasks that only grows, each *pending*, *runnable*, *running*, *delivered* or *abandoned* | abstract; no plan, worker, status or index |
| `WorkflowRefinement` | the refinement mapping: `Phase` reads a tuple of the ledger as a task; `needs` is `parents`, `results` is `reported` | `Workflow` implements `TaskGraph` |
| `ReportTransaction` | the inside of logSuccess\* and logFail\*: a stack of calls (`agenda`), one child of one call at a time, over the transaction's own view of the objects and the committed indexes; `Commit` or `Abort` | implements `Workflow`, whose operators it evaluates on its view (`Own`) |
| `ModelKeys` | the names workers give to models: the out-models of the tuples, the index `tuple~modelKey~key`, the lists of names in use and announced; queryModel | each action is one of `Workflow` with its effect on the names |
| `Endorsement` | transactions on one plan that overlap: endorsed on the ledger as it is, ordered later, dropped when stale, sent again | uses `TupleStatus`; supports the serial view of `Workflow` |
| `ComputeDAG` | the loop of `ComputeDAG.sort`, one iteration a step | its result is the guard `IsDepth` of `Workflow` |
| `Permissions` | the operators of `permissions.go`, on sets of nodes | |
| `Assets` | nodes, algos, data managers, data samples, objectives and their associations; one action per smart contract | uses `Permissions` |
| `TupleInputs` | what the creation of a tuple checks and derives from the assets (dataset, worker, permissions, certification), and the queries that read it back | extends `Assets`; `Workflow` takes over from there |

`MCReport`, `MCModelKeys`, `MCEndorsement`, `MCComputeDAG` and
`MCTupleInputs` hold the instances of these modules, `RefinementProofs` (of
`WorkflowRefinement` and `ReportTransaction`), `ModelKeysProofs`, `EndorsementProofs`, `ComputeDAGProofs` and
`TupleInputsProofs` (with those of `Permissions`) their theorems, and `SumProofs` what
several of them need of sums and maxima over finite sets.

In `ReportTransaction` the variables of `Workflow` are the committed ledger, and
`view` is what the transaction would read with `LedgerDB.Get`. `TrainChildren`
and `TestChildren` are read from the committed indexes when a call begins, as
`GetIndexKeys` does; the list of keys already updated is passed down the
recursion but not up, as the slice `alreadyUpdatedKeys`.

In `Endorsement` an endorsed transaction is the set of items it has read and the
values it would write; a commit marks every transaction under way that has read
one of the written items as stale. The plan is stored as in the code: the plan,
its state under another key, and one record per worker. The channel and the
clients are outside the repository; that handlers are endorsed, ordered and
validated this way is what the comment on MVCC conflicts in `UpdateState` says
of it. `Put` and `Over` build what a transaction writes and lay it over the ledger.

Operators commented "A plausible bug" are wrong variants of the definition
that follows them; PROJECT.json names, for each property of each run, the one
that must violate it.

**Abstractions.** In `Workflow` algos, data samples, objectives, permissions and tags
are left out: the requests considered are those that pass these checks, which
`TupleInputs` models. Metadata, addresses, checksums and logs are left out
everywhere. One check of an output is in `Workflow`, `CanFill`: the three handlers
of traintuples look their in-models up as traintuples when they fill their
output, and are discarded if one is not. In `TupleInputs` the lists of data
samples are sets.
The items of a createComputePlan are not validated one by one (input.go:168), so in a
plan a training tuple may have no data samples (`TupleInputs`), and a composite
traintuple may name a head or a trunk alone: it is sorted after that task but stored
without in-models (`SortedAfter`). Keys and IDs of items are never empty in the model:
the sort skips an empty ID among in-models, where the handlers would look it up.
In `Workflow` a model is named by the tuple that produced it, and head and trunk
of a composite traintuple are one; `ModelKeys` has the names, and `ListsAgree`
says that this loses nothing of the lists of models in use. The worker a tuple
runs on is a constant of its key, since a key can be registered once. A
createComputePlan that uses a key twice repeats the whole entry (same
in-models): with different in-models, `tuple~inModel~key` would keep both sets.
The documentation of `AddToComputePlan` (traintuple.go:111) mentions a plan
started by a traintuple of rank 0 without plan key; the code does not do this,
nor does the model.

## 3. The properties

| Property | Meaning |
|---|---|
| `InModelsAvailable` | nothing is todo, doing or done before all its in-models have been reported |
| `NoLostWakeup` | a tuple that reads as waiting has an in-model that is not done |
| `FailurePropagated` | a tuple that reads as waiting has no failed or canceled in-model outside plans |
| `WorkDiscoverable` | every tuple is indexed under its status; every todo tuple was announced |
| `PlanReflectsWork` | the status of an open plan does not lag behind its tuples |
| `DonePlanIsSettled` | a done plan has no work left |
| `CompletionNotLost` | a plan with tuples that is still open has one that is not done |
| `CountersExact` | TupleCount, and DoneCount until the plan closes, count what the completion test takes them for |
| `Inductive`, `PlanInductive`, `ReportInductive`, `NamesInductive`, `SortInductive`, `ChannelInductive` | the inductive invariants of the proofs (section 5) |
| `ClosedPlanStartsNothing` | a closed plan stays closed, its waiting tuples are never started: they stay so, fail, or are written as canceled |
| `ModelsDeletedUnused` | unless its plan is canceled, a model is announced for deletion only when all its users in the plan have reported |
| `EveryTupleSettles`, `EveryPlanSettles` | with orderly workers every tuple, and every plan with tuples, comes to an end |
| `ImplementsTaskGraph` | every transaction is a step of `TaskGraph`: a success makes exactly the tuples it was the last in-model of runnable; a tuple is abandoned only while it waits, by its worker, or with something it needs, and never comes back |
| `ReportsAreAtomicSteps` | a report, executed call by call, does to the ledger what one step of `Workflow` does |
| `LostForDirectChild` | a report is lost only for a child of the tuple itself, that on a running tuple only for one of its testtuples |
| `ModelsFound` | a model is found, with its own permissions, under the name it is stored with, and its tuple under every name an accepted report gave |
| `ListsAgree` | the names listed and announced are of the models `Workflow` lists and announces |
| `NamesDroppedUnused` | neither head nor trunk is announced for deletion, under any name, before its users have reported |
| `CommitsAreSerial` | with overlapping, repeated and stale transactions the ledger changes as if each handler ran alone |
| `CompletionExact` | the plan is done when its tuples are, and not before, whatever its last reports overlap with |
| `ReportsDoNotCollide` | workers that have not finished never invalidate each other's reports |
| `PlanEnds` | with requests repeated until they commit, the plan ends |
| `DependenciesFirst`, `DepthsExact` | at every point of the sort the order is topological without repeated IDs, and each task is one level above its deepest in-model |
| `DecidesOrderability`, `SortEnds` | the sort ends, with the whole request ordered exactly when some order exists |
| `DatasetsOfOneOwner` | a sample and all its data managers have one owner |
| `DatasetsListed` | the index queryDataset reads is the dataset the checks use, split by purpose |
| `TestDatasetsExclusive` | a test dataset belongs to one objective and is made of test samples |
| `NotTestedOnTrainData` | no certified testtuple shares a sample with any training tuple |
| `CertifiedTestsComparable` | all certified testtuples of an objective ran on the same samples |
| `WorkersOwnTheirData` | a worker is given only tuples whose samples are its own |

## 4. The runs

| Run | Module | Instance | Checks | Distinct states |
|---|---|---|---|---|
| `plan` | `MCWorkflow` | a composite traintuple, an aggregatetuple, a testtuple on the other worker, one plan that cleans its models | `TypeOK`, `PlanReflectsWork`, `DonePlanIsSettled`, `CompletionNotLost`, `CountersExact`, `PlanInductive`, `ClosedPlanStartsNothing`, `ModelsDeletedUnused`, `ImplementsTaskGraph` | 23,684 |
| `crossplan` | `MCWorkflow` | three traintuples, two plans, requests that may repeat an entry | `InModelsAvailable`, `NoLostWakeup`, `WorkDiscoverable`, `Inductive` (with `FailurePropagated`), `ImplementsTaskGraph` | 439,874 |
| `kinds` | `MCModelKeys` | two composite traintuples (a head and a trunk each), an aggregatetuple, one cleaning plan; two names a tuple: a repeated report may exchange head and trunk of one composite, or give the aggregatetuple's model a new name | `ModelsFound`, `ListsAgree`, `NamesInductive`, `NamesDroppedUnused` | 699,316 |
| `settles` | `MCWorkflow` | two composite traintuples, an aggregatetuple on the other worker, one cleaning plan; `OrderlySpec` | `EveryTupleSettles`, `EveryPlanSettles` | 47,885 |
| `walk` | `MCReport` | three traintuples and a testtuple, created before the first start, in every graph they can form, in a plan or outside | `ReportsAreAtomicSteps`, `LostForDirectChild`, `ReportInductive` (with `Inductive`), `FailurePropagated` | 480,146 |
| `channel` | `MCEndorsement` | two workers, three tuples, one of them added later; start, success, fail, cancel, add; two copies of one success under way, one of every other request | `CompletionExact`, `ChannelInductive`, `CommitsAreSerial` | 1,269,881 |
| `retries` | `MCEndorsement` | four tuples, two a worker, one added later; two copies of each success under way; `FairSpec` | `ReportsDoNotCollide`, `PlanEnds` | 88,840 |
| `dag` | `MCComputeDAG` | every request of up to three tasks with up to two in-models over three IDs, one of which the plan may know at depth 0 to 2; `FairSpec` | `DependenciesFirst`, `DepthsExact`, `DecidesOrderability`, `SortInductive`, `SortEnds` | 160,894 |
| `inputs` | `MCTupleInputs` | two nodes, two objectives, a data manager, two samples, an algo, a traintuple, two testtuples; public assets | `TestDatasetsExclusive`, `NotTestedOnTrainData`, `CertifiedTestsComparable` | 487,519 |
| `inputs_kinds` | `MCTupleInputs` | two nodes, two data managers, two samples, an objective, a composite traintuple, an aggregatetuple, a testtuple; private assets | `DatasetsOfOneOwner`, `DatasetsListed`, `WorkersOwnTheirData` | 507,791 |

**The bounds of `Workflow`.** Two workers, at most two in-models per tuple (enough
for joins and for head/trunk pairs), ranks up to 3 (never reached: a chain of three
tuples ends at rank 2). Three tuples are the smallest number with a chain, a join,
or a model with a training and a testing user; each run places them so that the
situation it names occurs (a testtuple on another worker than the plan's training
tuples, a child in another plan). In `crossplan` the tuples added to a plan alone
take rank 1, so that one of them can join a plan whose rank 0 is taken by a tuple of
its request. Two plans are enough for a relation between plans, as no handler
touches more than one plan per tuple. The symmetry sets hold keys of the same kind,
worker and rank, and plans that are treated alike; no run with symmetry checks
liveness.

The counters are unbounded in principle; with `ReuseLimit = 0` a key is created
once, so they are bounded by the number of keys. `ReuseLimit > 0` (in `crossplan`)
lets a createComputePlan repeat an entry until TupleCount reaches the limit. What
rests on the counters (`CountersExact`, `CompletionNotLost`) is for requests
without repetition only: a key listed twice in one createComputePlan counts twice
and its plan cannot complete.

**The bounds of the others.** Three tasks are enough for a cycle, a join, a duplicate
and a pass that puts two tasks off. In `walk` a chain, a fork and a join of three
tuples are among the graphs, and the testtuple may be on any of them; the restriction
to tuples created before the first start keeps it small, and what creation adds to
the states a report can find is in `plan` and `crossplan`. Of a plan whose reports
overlap nothing more is needed than two workers, one of which finishes first, and
tuples added late; with `k1` in `Resent` its success may be endorsed twice before one
copy commits. In `kinds` the second names make a repeated report one of the
names of the first, exchanged, or of a name nobody has heard of. Two nodes and two data managers are what it takes to mix data,
two objectives to share a test dataset. `PreparedSpec` of `MCTupleInputs` registers
nodes and algos first: only aggregatetuples and private permissions ask whether a
node is registered, and nothing but the creation of a tuple reads an algo. Data,
samples, objectives and tuples come in any order.

Deadlock is checked in the runs of `MCWorkflow`, `MCModelKeys` and `MCReport`. It is
not for `dag` (the loop ends), the asset and input runs (keys run out) and the
endorsement runs (a finished plan with all requests committed is the end).

Two runs end in a violation; each shows a place where the code does not do what a
comment says (PROJECT.json, "findings"):

- `orphan`: a failure inside a plan is told to nobody, so a tuple outside the plan
  waits for ever on an in-model that failed.
- `unstartable`: a traintuple may take the model of an aggregatetuple or of a
  composite traintuple, and becomes todo when that is done; logStart, logSuccess
  and logFail on it all end with an error when they fill the output.

### What the code does not promise

Some statements one might expect of the code, or that a comment makes, are false.
Each is a formula with a configuration that shows a counterexample; they are kept so
that nobody relies on them, and are no part of the regular runs.

| Configuration | Statement that is violated | Why |
|---|---|---|
| `stale_index.cfg` (`MCWorkflow`) | `IndexExact`: each tuple has one entry in the status index | a waiting tuple of a closed plan reads as canceled, so when it fails, the entry deleted is one that does not exist, and the one under waiting stays (traintuple.go:612) |
| `done_count.cfg` (`MCWorkflow`) | `DoneCountIsDone` (ledger.go:233) | a success reported in a canceled plan is not counted; the counter is still exact where it is used (`CountersExact`) |
| `tuple_count.cfg` (`MCWorkflow`) | `TupleCountIsTuples` (ledger.go:234) | a key listed twice in one createComputePlan counts twice (ledger_db.go:92) |
| `doing_stuck.cfg` (`MCWorkflow`) | `DoingCanSucceed` | a worker may fail a testtuple that still waits; from then on the success of the tuple it tests is refused (traintuple.go:653) |
| `rename_head.cfg` (`MCModelKeys`) | `EveryAnswerFound`, when a report is repeated under other names | the new names are indexed and returned but not stored, and queryModel takes the new name of the head for the trunk (tuple.go:248) |
| `dag_rank.cfg` (`MCComputeDAG`) | `AscendingRank` (compute_plan.go:303) | the tuples of a plan are listed in the order of the sort, which is not by rank |
| `leaderboard.cfg` (`MCTupleInputs`) | `LeaderboardComplete` (objective.go:152) | a done certified testtuple of a composite traintuple makes the leaderboard an error, as its algo is looked up among those of traintuples (output.go:432) |
| `tag_filter.cfg` (`MCTupleInputs`) | `TaggedTestsFound` | the tag of a testtuple is indexed under traintuples (testtuple.go:229) |
| `model_details.cfg` (`MCTupleInputs`) | `ModelDetailsComplete` (tuple.go:76) | of several certified testtuples of one tuple, one is returned (tuple.go:90) |

Besides, updateDataManager answers with the key of a data manager that does not
exist (objective.go:205), which changes no state.

### Fairness

`OrderlySpec` adds to `Spec`: a plan transaction that runs ends (weak fairness of
`CommitComputePlan`: a loop over a finite request); each worker takes up the
todo tuples of its own and reports, as success or as failure, on those it runs.
Workers are separate programs outside this repository, whose contract is this
loop, driven by events and index queries (`WorkDiscoverable` is what they rely
on). Their fairness is strong only because the model shows the inside of a plan
transaction: actions that the ledger executes one after the other are disabled
for these steps and enabled again.

`FairSpec` of `Endorsement`: a client repeats its request until it is committed, and
the channel orders what it is sent. Only the *sending* is fair, weakly: whether
a copy commits or is dropped as stale is not a choice the fairness makes.
`FairSpec` of `ComputeDAG`: the loop runs on.

Four assumptions go with `OrderlySpec`, because the code alone does not guarantee the
conclusion. Workers give up only what they have started: a failure in a plan
that is not yet doing does not close the plan, and failures are not propagated
inside plans, so that children would wait for ever. In-models are in the plan of
their tuple, or both are outside: a failure inside a plan is told to nobody
outside. No key is used twice in a request. The instance has no traintuple with
an in-model of another kind, which nobody could start (`unstartable`).

## 5. The proofs

All theorems hold for all sets of keys, plans, workers, nodes and assets, and all
bounds, under the named assumptions on the constants in the modules and the
hypotheses given here. Of the properties of section 3, only those under "Only
model-checked" below have no theorem.

### Tuples: `WorkflowProofs`

From the assumptions of `Workflow` (kinds disjoint, `NoPlan` not a plan, nodes finite,
types):

| Theorem | States |
|---|---|
| `TypeCorrect` | `Spec => []TypeOK` |
| `InductiveHolds` | `Spec => []Inductive` |
| `InModelsReady` | `Spec => []InModelsAvailable` |
| `WakeupsKept` | `Spec => []NoLostWakeup` |
| `FailuresReach` | `Spec => []FailurePropagated` |
| `WorkIsFound` | `Spec => []WorkDiscoverable` |
| `ClosedPlansStartNothing` | `Spec => ClosedPlanStartsNothing` |

**The argument.** There are some twenty actions but only five ways the ledger
changes: `Created`, a start, `Succeeded`, `FailedWith` and `PlanStep`, each a
small list of facts about the step. `NextCases` shows that every step is one of
these (the lemmas before it do so handler by handler), and then each of the
five is shown to preserve each conjunct of the invariant. `PlanProofs`,
`RefinementProofs` and `ModelKeysProofs` start from the same five.

**The inductive invariant.** The four safety properties are not inductive one by
one. `InModelsAvailable` needs `DoneReported`: `IsReady` looks for in-models that
are done, and a tuple may fail after it was done (its result stays). It needs
`StagedFresh`, as a repeated creation in a batch overwrites a tuple, which must
not have a result yet. `NoLostWakeup` needs `TestsOne`, for a testtuple is woken
by one success without `isReady`. `FailurePropagated` needs `TypeOK` (in-models
exist, absent tuples are blank) so that a tuple created later inherits the
failures that have already happened. `Inductive` is the conjunction, checked by
TLC in `crossplan` and, with testtuples, as a part of `ReportInductive` in `walk`.

A request that uses a key twice creates the tuple a second time, over the first.
`StagedCurrent` says why that is harmless for the tuples, if not for the counters: a
tuple of the open transaction always has the status it would be created with now, or
reads as canceled with its plan, because in a batch no in-model is started, done or
failed, and only the open plan can close, which takes the batch with it. For a
testtuple this needs `TestsJoin` (it is in the plan of the tuple it tests, so that both
are canceled together) and that testtuples come last in a batch. `CreatedReads` draws
the conclusion: nothing is brought back or started by the second use of a key. The
stored status may still change, from waiting to failed or canceled in a plan the batch
has closed, which is why `ClosedPlanStartsNothing` allows it.

### Plans: `PlanProofs` and `SumProofs`

All when `ReuseLimit = 0`, that is when no request uses a key twice: with repeated
keys the statements about counters are false (section 4).

| Theorem | States |
|---|---|
| `PlanInductiveHolds` | `Spec => []PlanInductive` |
| `CountersAreExact` | `Spec => []CountersExact` |
| `PlansReflectWork` | `Spec => []PlanReflectsWork` |
| `DonePlansSettled` | `Spec => []DonePlanIsSettled` |
| `CompletionsNotLost` | `Spec => []CompletionNotLost` |
| `ModelsAreDroppedUnused` | `Spec => ModelsDeletedUnused` |

The four invariants hold each other up. The counters are exact because each first
report on a tuple of a plan that is not closed is counted, and it is counted because
that plan is then doing: not waiting or todo (`PlanReflectsWork`), not done
(`DonePlanIsSettled`). The plan is done at the right report because the counters are
exact: `CompletesExactly` shows that the totals over the workers are equal, with those
of the current worker, exactly when every tuple of the plan has reported.
`ReportedEnded` (only a tuple that was done has a result) tells a first report from a
repeated one, `PlansExist` that a tuple's plan has its counters, `ModelsPlaced` that
the models a plan drops are its own; `IsFiniteSet(Registered)` lets tuples be counted.

The totals are sums over a set of workers of any size. Induction with an operator as
parameter is not available, so `SumProofs` has it in another form: a set of subsets of
a finite set that is not empty has a smallest member, and the smallest counterexample
of a statement on subsets is none. In this way `SumExists` shows that the recursive
function that defines a sum exists, and `EqualSums` that two counters, one of which is
nowhere above the other, have the same sum only if they are equal.

### The task graph and the walk of a report: `RefinementProofs`

All for any `ReuseLimit`:

| Theorem | States |
|---|---|
| `WorkflowImplementsTaskGraph` | `Spec => ImplementsTaskGraph` |
| `ReportInductiveHolds` | `TxSpec => []ReportInductive` |
| `ReportsImplementWorkflow` | `TxSpec => ReportsAreAtomicSteps` (which is `Spec`) |
| `ReportsImplementTaskGraph` | `TxSpec => ImplementsTaskGraph` |
| `ReportsLostForDirectChild` | `TxSpec => LostForDirectChild` |

**Tuples as tasks.** Creating a tuple submits its task; creating it again in the same
request is a stutter, or abandons the waiting tuples of the plan it closes
(`RepeatedAbandons`); a start starts it; a first success delivers it, and makes runnable
exactly the tuples woken, those of which it was the last in-model (`Woken` against what
the graph says, from `DoneReported` and `NoLostWakeup`); a repeated success is a
stutter; failures, and what closes a plan, abandon tasks that wait, or that fail with
their worker.

**The walk.** A report is one step of `Workflow` but many of `ReportTransaction`: a
stack of calls, as deep as the graph, each with the children it has not come to. The
committed ledger stands still until `Commit`, so the theorem is about what the
transaction's own `view` holds at the end. `ReportInductive` says it of every moment:

- *written*: the tuples whose status in the view differs from the ledger's
  (`Changed`) are written as the step of `Workflow` would write them, with their
  entries of the index and their plans (`SuccessWritten`, `ModelsWritten`,
  `FailWritten`);
- *allowed*: they are among those that step may change: the woken ones for a success;
  for a failure, tuples that waited for something failed before them;
- *missing*: a child that is neither changed nor to be left alone is in a call of
  the stack (`SuccessSettled`, `FailSettled`, by `Pending`). When the stack is empty,
  nothing is missing, and the view is the step's.

The part that is not obvious is that a walk reads through its own writes. For a
success, what `Ready` asks must not depend on which children were moved to todo before,
and a plan the walk has moved must not make other tuples read differently (`SuccessReads`). For a
failure, each tuple failed in a plan may close that plan and so cancel others the walk
has not come to: those then read as canceled and are skipped, and the step of
`Workflow` leaves them alone as well (`FailReads`). The plans after
any number of failures are those after the set of them, because one tuple that closes a plan
closes it for all, and at most one is failed in a plan that is doing. Termination is not
needed, but no child may lead back to the tuple reported: `Grounded` says that every
set of tuples has one without in-models in it, which holds as in-models exist before
their children. The list of updated keys, which is passed down but not up, turns out not to
matter for the result: a tuple met twice reads as failed the second time.

`ReportsLostForDirectChild` follows with `InModelsAvailable`: what the recursion
fails was waiting, so it has no result, so none of its children was ever started.

As `ReportsAreAtomicSteps` is `Spec`, all theorems about `Spec` of this section hold of
the walked transactions.

### Names of models: `ModelKeysProofs`

| Theorem | States |
|---|---|
| `NamesInductiveHolds` | `NamesSpec => []NamesInductive` |
| `NameListsAgree` | `NamesSpec => []ListsAgree` |
| `NamesLeadToModels` | `NamesSpec => []ModelsFound` |
| `AnswersLeadToModels` | `NamesSpec => []EveryAnswerFound`, when `Renames = {}` |
| `NamesAreDroppedUnused` | `NamesSpec => NamesDroppedUnused`, when `ReuseLimit = 0` |

Names are drawn for one tuple, so the first tuple the index has under a name is its
only one, for good (`HolderUnique`, `HolderKept`); whether a name is in use then depends
on its tuple, and lists of names change as lists of tuples do. The two calls for head
and trunk are the delicate point: the second could drop the head that the first has
just listed, if the report is a repeated one and so the head is in the index.
`ReportedInUse` shows that it does not, because a report is refused once a child has
gone on. `NamesLeadToModels` needs that a tuple with a result is never stored with new
names (`ReportedEnded`, `NamesStored`). What a repeated report was answered for the head
and what for the trunk is told apart only if it kept the names of the first one:
`AnswersLeadToModels` has that hypothesis, and fails without it (`rename_head.cfg`).
Invariants of `Workflow` hold here too, as each action is one of its actions with an effect on
the names (the lemma `NamedSpecIsSpec`).

### Overlapping transactions: `EndorsementProofs`

From the assumptions of `Endorsement` (finitely many tuples; no two items under one
key):

| Theorem | States |
|---|---|
| `ChannelInductiveHolds` | `Spec => []ChannelInductive` |
| `CommitsSerialize` | `Spec => CommitsAreSerial` |
| `CompletionIsExact` | `Spec => []CompletionExact` |
| `ReportsNeverCollide` | `Spec => []ReportsDoNotCollide` |

`EndorseReads` is the key: on two ledgers that agree on the items a handler reads, it
does the same. A transaction that is not stale is therefore what its handler would do
now (`Current`), every commit is a handler run alone, and `HandlerLedger` reduces the
rest to what one handler does to the ledger. There the counters lie between the tuples
done and those done or failed (`CountersKept`, as a tuple may fail after it was counted),
and `FinishesInTime`, with `EqualSums`, shows that the totals are equal only when none
is left. `ReportsNeverCollide` needs `OwnItems` only.

### The sort: `ComputeDAGProofs`

For requests of any length, with sets of in-models of any size:

| Theorem | States |
|---|---|
| `SortInductiveHolds` | `Spec => []SortInductive` |
| `OrderIsTopological` | `Spec => []DependenciesFirst` |
| `DepthsAreExact` | `Spec => []DepthsExact` |
| `SortDecides` | `Spec => []DecidesOrderability` |

That the IDs with a depth are those known before and those ordered so far (`TypeOK`)
makes `Ready` mean what it should, and `HasMaximum` gives the deepest in-model. The
decision needs to know that the passes lose nothing: the ordered tasks, those put off
and those left in the pass are those of the request, as sets and in number (`AllTasks`),
and an ID that is used once there is used once among them (`IDsApart`). If the result is
*sorted*, the position in the order is the rank `Orderable` asks for. If it is *cyclic*,
no task of the last pass was ready (`NoneOrdered`, `Outcome`), while a task of least
rank among them would be. If it is *duplicate*, the request uses an ID twice or one of
the plan's.

### Permissions and assets: `TupleInputsProofs`

`MergeAdmitsBoth` and `UnionAdmitsEither` say that the two
ways of combining permissions admit exactly the intersection and the union of the
nodes each admits (with all nodes of the channel for a public one), `IncludesIsSound`
and `MergeIncluded` that include agrees with both.

| Theorem | States |
|---|---|
| `DatasetsKeepOwner` | `AssetSpec => []DatasetsOfOneOwner` |
| `DatasetsAreListed` | `AssetSpec => []DatasetsListed` |
| `TestDatasetsAreExclusive` | `AssetSpec => []TestDatasetsExclusive` |
| `NeverTestedOnTrainData` | `Spec => []NotTestedOnTrainData` |
| `CertifiedTestsAreComparable` | `Spec => []CertifiedTestsComparable` |
| `WorkersOwnSamples` | `Spec => []WorkersOwnTheirData` |

What the registries hold never goes away (`Kept`: owners, purposes and test datasets
stay, associations only grow); this is proved once of every step, and lets the
invariant on tuples (`TuplesGrounded`: a tuple's samples are its worker's, those of
a training tuple are no test samples, a certified dataset is that of the objective)
be established when the tuple is created and forgotten afterwards.
`NotTestedOnTrainData` then follows from test datasets being of test samples.

### Only model-checked

Liveness (`EveryTupleSettles`, `EveryPlanSettles`, `PlanEnds`, `SortEnds`) is out of the
prover's reach: it has no ENABLED, hence no fairness. Nor is there a proof of what is
false in general and holds under the four assumptions of `OrderlySpec`.

## 6. Not modelled, and the plan

Every handler that changes state is an action of some module. Not modelled:

- listings with pages and bookmarks (`queryModels`, the `query*s`): they change no
  state, and what they return depends on the page order of the ledger;
- phantom reads: Fabric also validates the ranges of the index queries a
  transaction made; `Endorsement` has keys only, for a plan whose tuples have no
  in-models, so that no index decides the outcome of a handler;
- JSON conversion and field validation, error texts and logs, the Fabric shim: no
  listed property depends on them;
- the performance of testtuples and the sorting of the leaderboard by it.

Every safety, action and refinement property of the passing runs has a theorem. What
could follow are lemmas below the liveness properties that need no ENABLED: that a walk
gets shorter with each call, in a measure bounded by the graph (`Grounded`), and that
each step of an orderly worker brings its plan nearer to its end.
