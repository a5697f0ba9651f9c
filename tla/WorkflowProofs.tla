--------------------------- MODULE WorkflowProofs ---------------------------
(***************************************************************************)
(* Theorems about the life cycle of tuples and compute plans, for every    *)
(* set of keys, plans and workers and every bound.                         *)
(*                                                                         *)
(* The transactions of Workflow write the ledger in five ways: a tuple is  *)
(* created, started, reported done with the children it wakes, or failed   *)
(* with the tuples that fail with it, or a compute plan is written alone.  *)
(* NextCases reduces Next to these five; each of them is then shown to     *)
(* preserve the conjuncts of Inductive it can disturb.                     *)
(***************************************************************************)
EXTENDS WorkflowProperties, TLAPS

\* The statuses a tuple is created with.
InitialStatuses == {"waiting", "todo"} \cup Closed

\* k is created with in-models in, in plan p at rank r, with status s.
Created(k, in, p, r, s) ==
  /\ Register(k, in, p, r, s)
  /\ in \subseteq Registered \cap Trains
  /\ k \in Testtuples => s \notin Closed /\ \E m \in Trains : in = {m} /\ p = plan[m]
  /\ s = "todo" => \A m \in in : Effective(m) = "done"
  /\ s = "waiting" => /\ \E m \in in : Effective(m) # "done"
                      /\ \A m \in in : Effective(m) \notin Closed
  /\ s \in Closed => \E m \in in : Effective(m) \in Closed
  /\ p # NoPlan => \/ planStatus[p] # Absent
                   \/ ~Idle /\ p = openPlan
                   \/ \E m \in Registered : plan[m] = p
  /\ \/ Idle /\ UNCHANGED staged
     \/ /\ ~Idle /\ staged' = staged \cup {k}
        /\ k \in Trains => p = openPlan /\ staged \cap Testtuples = {}
  /\ \/ UNCHANGED tasks
     \/ k \in Trains /\ openPlan \in Plans /\ tasks' = [tasks EXCEPT ![openPlan] = @ \cup {k}]

\* k, which is doing or done, becomes done, and the tuples of woken todo.
Succeeded(k, woken) ==
  /\ Idle /\ status[k] \in {"doing", "done"}
  /\ RecordSuccess(k, woken)
  /\ woken \subseteq {c \in Children(k) : Effective(c) = "waiting"}
  /\ \A c \in woken \cap Trains : \A m \in parents[c] \ {k} : status[m] = "done"
  /\ \A c \in Children(k) \ woken : Effective(c) = "waiting" =>
       \E m \in parents[c] \ {k} : status[m] # "done"
  /\ models' \in [Plans -> [Nodes -> SUBSET Keys]]
  /\ \A p \in Plans, n \in Nodes :
       models'[p][n] \subseteq models[p][n] \cup {m \in {k} : plan[k] = p}
  /\ dropped' \in SUBSET Keys
  /\ \A m \in dropped' \ dropped :
       /\ plan[k] \in Plans /\ m \in ModelsOf(plan[k])
       /\ Completes(k) \/ ~InUse(m, k)

\* The tuples of G become failed; those outside a plan that are of use to a
\* training tuple or a testtuple take it with them.  All but one fail because
\* they still wait or need another one of G.
FailedWith(G) ==
  /\ Idle /\ G \subseteq Registered /\ MarkFailed(G)
  /\ \E k \in G : \A c \in G \ {k} : Effective(c) = "waiting" \/ parents[c] \cap G # {}
  /\ \A m \in G : plan[m] = NoPlan => \A c \in Children(m) :
       c \in G \/ EffectiveIn(PlansAfter(G, "failed"), c) # "waiting"

\* A transaction about compute plans that leaves the tuples alone.
PlanStep ==
  /\ UNCHANGED <<tupleVars, tasks, tupleCount, doneCount, notified>>
  /\ planStatus' \in [Plans -> PlanStatuses \cup {Absent}]
  /\ \A p \in Plans : \/ planStatus'[p] = planStatus[p]
                      \/ planStatus[p] = Absent /\ planStatus'[p] = "waiting"
                      \/ planStatus[p] # Absent /\ planStatus'[p] = "canceled"
  /\ models' \in [Plans -> [Nodes -> SUBSET Keys]]
  /\ \A p \in Plans, n \in Nodes : models'[p][n] \subseteq models[p][n]
  /\ dropped' \in SUBSET Keys
  /\ \A m \in dropped' \ dropped :
       \E p \in Plans : planStatus'[p] = "canceled" /\ m \in ModelsOf(p)
  /\ openPlan' \in Plans \cup {NoPlan}
  /\ openPlan' # NoPlan => planStatus'[openPlan'] # Absent
  /\ \/ Idle /\ UNCHANGED staged
     \/ staged' = {}

-----------------------------------------------------------------------------
(* Lemmas about the pure operators *)

LEMMA UpdateStateType ==
  ASSUME NEW old \in PlanStatuses \cup {Absent}, NEW new
  PROVE  UpdateState(old, new) \in PlanStatuses \cup {Absent}
BY DEF UpdateState, PlanMoves, PlanStatuses, Closed, Absent

LEMMA UpdateStateClosed ==
  ASSUME NEW old, NEW new
  PROVE  (UpdateState(old, new) = old) \/ ~(old \in Closed)
BY DEF UpdateState, PlanMoves, Closed

\* The status a training tuple is created with, from those of its in-models.
LEMMA StatusFromInModelsFacts ==
  ASSUME NEW S
  PROVE  /\ StatusFromInModels(S) \in InitialStatuses
         /\ StatusFromInModels(S) = "todo" => S \subseteq {"done"}
         /\ StatusFromInModels(S) = "waiting" => ~(S \subseteq {"done"})
         /\ StatusFromInModels(S) = "waiting" => S \cap Closed = {}
         /\ StatusFromInModels(S) \in Closed => S \cap Closed # {}
BY DEF StatusFromInModels, InitialStatuses, Closed

\* A tuple reads as it is stored, or as canceled.
LEMMA EffectiveFacts ==
  ASSUME NEW k
  PROVE  /\ Effective(k) # "canceled" => status[k] = Effective(k)
         /\ status[k] # "waiting" => Effective(k) = status[k]
BY DEF Effective, EffectiveIn

LEMMA PlansAfterFacts ==
  ASSUME TypeOK, NEW F, NEW s
  PROVE  /\ PlansAfter(F, s) \in [Plans -> PlanStatuses \cup {Absent}]
         /\ \A p \in Plans : planStatus[p] \in Closed => PlansAfter(F, s)[p] = planStatus[p]
<1>1. \A p \in Plans : PlansAfter(F, s)[p] \in PlanStatuses \cup {Absent}
  BY UpdateStateType DEF PlansAfter, TypeOK
<1>2. \A p \in Plans : planStatus[p] \in Closed => PlansAfter(F, s)[p] = planStatus[p]
  BY UpdateStateClosed DEF PlansAfter
<1>3. QED BY <1>1, <1>2 DEF PlansAfter

\* The more tuples fail, the more plans are closed.
LEMMA PlansAfterMonotone ==
  ASSUME TypeOK, NEW F, NEW G, F \subseteq G, NEW p \in Plans,
         PlansAfter(F, "failed")[p] \in Closed
  PROVE  PlansAfter(G, "failed")[p] \in Closed
BY DEF PlansAfter, UpdateState, PlanMoves, Closed

-----------------------------------------------------------------------------
(* Every step is one of the five *)

LEMMA CreateTrainCreates ==
  ASSUME TypeOK, NEW k \in Trains, NEW in \in SUBSET Trains, CreateTrain(k, in)
  PROVE  \E p \in Plans \cup {NoPlan}, r \in 0..MaxRank, s \in InitialStatuses :
            Created(k, in, p, r, s)
<1> DEFINE s == StatusFromInModels({Effective(m) : m \in in})
<1>1. s \in InitialStatuses
  BY StatusFromInModelsFacts
<1>2. s = "todo" => \A m \in in : Effective(m) = "done"
  <2> SUFFICES ASSUME s = "todo", NEW m \in in PROVE Effective(m) = "done"
    OBVIOUS
  <2>1. {Effective(o) : o \in in} \subseteq {"done"}
    BY StatusFromInModelsFacts
  <2>2. QED BY <2>1
<1>3. s = "waiting" => /\ \E m \in in : Effective(m) # "done"
                       /\ \A m \in in : Effective(m) \notin Closed
  <2> SUFFICES ASSUME s = "waiting"
               PROVE  /\ \E m \in in : Effective(m) # "done"
                      /\ \A m \in in : Effective(m) \notin Closed
    OBVIOUS
  <2>1. /\ ~({Effective(o) : o \in in} \subseteq {"done"})
        /\ {Effective(o) : o \in in} \cap Closed = {}
    BY StatusFromInModelsFacts
  <2>2. QED BY <2>1
<1>3a. s \in Closed => \E m \in in : Effective(m) \in Closed
  <2> SUFFICES ASSUME s \in Closed PROVE \E m \in in : Effective(m) \in Closed
    OBVIOUS
  <2>1. {Effective(o) : o \in in} \cap Closed # {}
    BY StatusFromInModelsFacts
  <2>2. QED BY <2>1
<1>4. k \notin Testtuples
  BY KindsAssumption
<1> HIDE DEF s
<1>5. CASE CreateAlone(k, in, s)
  <2>1. CASE Register(k, in, NoPlan, 0, s)
    <3>1. Created(k, in, NoPlan, 0, s)
      BY <1>2, <1>3, <1>3a, <1>4, <1>5, <2>1 DEF Created, CreateAlone
    <3>2. 0 \in 0..MaxRank
      BY RankAssumption
    <3>3. QED BY <1>1, <3>1, <3>2
  <2>2. CASE \E p \in Plans : planStatus[p] # Absent /\ Register(k, in, p, InputRank[k], s)
    <3>1. PICK p \in Plans : planStatus[p] # Absent /\ Register(k, in, p, InputRank[k], s)
      BY <2>2
    <3>2. Created(k, in, p, InputRank[k], s)
      BY <1>2, <1>3, <1>3a, <1>4, <1>5, <3>1 DEF Created, CreateAlone
    <3>3. InputRank[k] \in 0..MaxRank
      BY RankAssumption DEF Keys
    <3>4. QED BY <1>1, <3>2, <3>3
  <2>3. QED BY <1>5, <2>1, <2>2 DEF CreateAlone
<1>6. CASE CreateInBatch(k, in, s)
  <2>1. PICK r \in 0..MaxRank : Register(k, in, openPlan, r, s)
    BY <1>6 DEF CreateInBatch
  <2>2. openPlan \in Plans /\ ~Idle
    BY <1>6 DEF CreateInBatch, TypeOK, Idle
  <2>3. in \subseteq Registered
    BY <1>6, <2>2 DEF CreateInBatch, TypeOK
  <2>4. Created(k, in, openPlan, r, s)
    BY <1>2, <1>3, <1>3a, <1>4, <1>6, <2>1, <2>2, <2>3 DEF Created, CreateInBatch
  <2>5. QED BY <1>1, <2>2, <2>4
<1>7. QED BY <1>5, <1>6 DEF CreateTrain, s

LEMMA CreateTesttupleCreates ==
  ASSUME TypeOK, NEW k \in Testtuples, CreateTesttuple(k)
  PROVE  \E in \in SUBSET Trains, p \in Plans \cup {NoPlan}, r \in 0..MaxRank,
            s \in InitialStatuses : Created(k, in, p, r, s)
<1>1. PICK m \in Registered \cap Trains :
        /\ Effective(m) \notin Closed
        /\ Register(k, {m}, plan[m], rank[m],
                    IF Effective(m) = "done" THEN "todo" ELSE "waiting")
        /\ \/ Idle /\ UNCHANGED staged
           \/ ~Idle /\ m \in tasks[openPlan] /\ staged' = staged \cup {k}
        /\ UNCHANGED tasks
  BY DEF CreateTesttuple
<1> DEFINE s == IF Effective(m) = "done" THEN "todo" ELSE "waiting"
<1>2. Created(k, {m}, plan[m], rank[m], s)
  <2>1. k \notin Trains /\ s \in {"waiting", "todo"} /\ s \notin Closed
    BY KindsAssumption DEF Closed
  <2>2. /\ s = "todo" => \A o \in {m} : Effective(o) = "done"
        /\ s = "waiting" => /\ \E o \in {m} : Effective(o) # "done"
                           /\ \A o \in {m} : Effective(o) \notin Closed
    BY <1>1
  <2>3. Register(k, {m}, plan[m], rank[m], s)
    BY <1>1
  <2> HIDE DEF s
  <2>4. QED BY <1>1, <2>1, <2>2, <2>3 DEF Created
<1>3. plan[m] \in Plans \cup {NoPlan} /\ rank[m] \in 0..MaxRank
  BY DEF TypeOK, Registered
<1>4. s \in InitialStatuses
  BY DEF InitialStatuses
<1>5. QED BY <1>2, <1>3, <1>4

LEMMA ModelsOfType ==
  ASSUME TypeOK, NEW p \in Plans
  PROVE  /\ ModelsOf(p) \subseteq Keys
         /\ ClearModels(p) \in [Plans -> [Nodes -> SUBSET Keys]]
BY DEF ModelsOf, ClearModels, TypeOK

LEMMA AfterDoneType ==
  ASSUME TypeOK, NEW k \in Keys
  PROVE  /\ ModelsAfterDone(k) \in [Plans -> [Nodes -> SUBSET Keys]]
         /\ Completes(k) => plan[k] \in Plans /\ ModelsOf(plan[k]) \subseteq Keys
<1>1. Completes(k) => plan[k] \in Plans
  BY DEF Completes, Counts, TypeOK
<1>2. CASE Completes(k)
  BY <1>1, <1>2, ModelsOfType DEF ModelsAfterDone
<1>3. CASE ~Completes(k)
  BY <1>3 DEF ModelsAfterDone, TypeOK
<1>4. QED BY <1>2, <1>3

LEMMA IntermediaryModelType ==
  ASSUME TypeOK, NEW k \in Keys, TryAddIntermediaryModel(k)
  PROVE  models' \in [Plans -> [Nodes -> SUBSET Keys]] /\ dropped' \in SUBSET Keys
<1>1. CASE plan[k] \notin CleanPlans
  BY <1>1, AfterDoneType DEF TryAddIntermediaryModel, TypeOK
<1>2. CASE plan[k] \in CleanPlans
  <2> DEFINE listed == ModelsAfterDone(k)[plan[k]][Worker[k]]
             used   == {m \in listed : InUse(m, k)}
             added  == {m \in {k} : TrainChildren(m) # {}}
  <2>1. plan[k] \in Plans /\ Worker[k] \in Nodes
    BY <1>2, PlansAssumption, WorkerAssumption
  <2>2. listed \subseteq Keys /\ used \cup added \subseteq Keys
    BY <2>1, AfterDoneType
  <2>3. models' = [ModelsAfterDone(k) EXCEPT ![plan[k]][Worker[k]] = used \cup added]
    BY <1>2 DEF TryAddIntermediaryModel
  <2>4. dropped' = dropped \cup (listed \ used)
                      \cup (IF Completes(k) THEN ModelsOf(plan[k]) ELSE {})
    BY <1>2 DEF TryAddIntermediaryModel
  <2> HIDE DEF listed, used, added
  <2>5. QED BY <2>1, <2>2, <2>3, <2>4, AfterDoneType DEF TypeOK
<1>3. QED BY <1>1, <1>2

\* A list of models loses those that nobody uses and gains that of k at most.
LEMMA AfterDoneFacts ==
  ASSUME TypeOK, NEW k \in Keys
  PROVE  /\ \A p \in Plans, n \in Nodes : ModelsAfterDone(k)[p][n] \subseteq models[p][n]
         /\ ~Completes(k) => ModelsAfterDone(k) = models
BY DEF ModelsAfterDone, ClearModels, TypeOK

LEMMA IntermediaryModelFacts ==
  ASSUME TypeOK, NEW k \in Keys, TryAddIntermediaryModel(k)
  PROVE  /\ \A p \in Plans, n \in Nodes :
              models'[p][n] \subseteq models[p][n] \cup {m \in {k} : plan[k] = p}
         /\ \A m \in dropped' \ dropped :
              /\ plan[k] \in Plans /\ m \in ModelsOf(plan[k])
              /\ Completes(k) \/ ~InUse(m, k)
<1>1. CASE plan[k] \notin CleanPlans
  BY <1>1, AfterDoneFacts, AfterDoneType DEF TryAddIntermediaryModel
<1>2. CASE plan[k] \in CleanPlans
  <2> DEFINE listed == ModelsAfterDone(k)[plan[k]][Worker[k]]
             used   == {m \in listed : InUse(m, k)}
             added  == {m \in {k} : TrainChildren(m) # {}}
  <2>1. plan[k] \in Plans /\ Worker[k] \in Nodes
    BY <1>2, PlansAssumption, WorkerAssumption
  <2>2. listed \subseteq models[plan[k]][Worker[k]] /\ listed \subseteq ModelsOf(plan[k])
    BY <2>1, AfterDoneFacts DEF ModelsOf
  <2>3. models' = [ModelsAfterDone(k) EXCEPT ![plan[k]][Worker[k]] = used \cup added]
    BY <1>2 DEF TryAddIntermediaryModel
  <2>4. dropped' = dropped \cup (listed \ used)
                      \cup (IF Completes(k) THEN ModelsOf(plan[k]) ELSE {})
    BY <1>2 DEF TryAddIntermediaryModel
  <2>5. used \subseteq listed /\ added \subseteq {k} /\ \A m \in listed \ used : ~InUse(m, k)
    OBVIOUS
  <2> HIDE DEF listed, used, added
  <2>6. ASSUME NEW p \in Plans, NEW n \in Nodes
        PROVE  models'[p][n] \subseteq models[p][n] \cup {m \in {k} : plan[k] = p}
    <3>1. CASE p = plan[k] /\ n = Worker[k]
      BY <2>1, <2>2, <2>3, <2>5, <3>1, AfterDoneType
    <3>2. CASE ~(p = plan[k] /\ n = Worker[k])
      BY <2>1, <2>3, <3>2, AfterDoneType, AfterDoneFacts
    <3>3. QED BY <3>1, <3>2
  <2>7. QED BY <2>1, <2>2, <2>4, <2>5, <2>6
<1>3. QED BY <1>1, <1>2

LEMMA LogSuccessSucceeds ==
  ASSUME TypeOK, NEW n \in Nodes, NEW k \in Trains, LogSuccess(n, k)
  PROVE  Succeeded(k, Woken(k) \cup WokenTests(k))
<1>1. Idle /\ status[k] \in {"doing", "done"}
  BY EffectiveFacts DEF LogSuccess, Authorized, CheckUpdateTuple, StatusPossibilities, Closed
<1>2. Woken(k) \cup WokenTests(k) \subseteq {c \in Children(k) : Effective(c) = "waiting"}
  BY DEF Woken, WokenTests, Children
<1>3. ASSUME NEW c \in (Woken(k) \cup WokenTests(k)) \cap Trains, NEW m \in parents[c] \ {k}
      PROVE  status[m] = "done"
  <2>1. c \in Woken(k)
    BY KindsAssumption DEF WokenTests, TestChildren
  <2>2. QED BY <2>1, EffectiveFacts DEF Woken
<1>4. ASSUME NEW c \in Children(k), c \notin Woken(k) \cup WokenTests(k),
             Effective(c) = "waiting"
      PROVE  \E m \in parents[c] \ {k} : status[m] # "done"
  <2>1. c \in TrainChildren(k)
    BY <1>4 DEF Children, WokenTests
  <2>2. PICK m \in parents[c] \ {k} : Effective(m) # "done"
    BY <1>4, <2>1 DEF Woken
  <2>3. QED BY <2>2, EffectiveFacts
<1>5. models' \in [Plans -> [Nodes -> SUBSET Keys]] /\ dropped' \in SUBSET Keys
  BY IntermediaryModelType DEF LogSuccess, Keys
<1>6. /\ \A p \in Plans, o \in Nodes :
           models'[p][o] \subseteq models[p][o] \cup {m \in {k} : plan[k] = p}
      /\ \A m \in dropped' \ dropped : /\ plan[k] \in Plans /\ m \in ModelsOf(plan[k])
                                       /\ Completes(k) \/ ~InUse(m, k)
  BY IntermediaryModelFacts DEF LogSuccess, Keys
<1>7. QED BY <1>1, <1>2, <1>3, <1>4, <1>5, <1>6 DEF Succeeded, LogSuccess

\* Nothing depends on a testtuple.
LEMMA TestsHaveNoChildren ==
  ASSUME TypeOK, NEW k \in Testtuples
  PROVE  Children(k) = {}
BY KindsAssumption DEF Children, TrainChildren, TestChildren, TypeOK, Keys

LEMMA LogSuccessTestSucceeds ==
  ASSUME TypeOK, NEW n \in Nodes, NEW k \in Testtuples, LogSuccessTest(n, k)
  PROVE  Succeeded(k, {})
<1>1. Idle /\ status[k] \in {"doing", "done"}
  BY EffectiveFacts
     DEF LogSuccessTest, Authorized, CheckUpdateTuple, StatusPossibilities, Closed
<1>2. models' \in [Plans -> [Nodes -> SUBSET Keys]] /\ dropped' \in SUBSET Keys
  BY AfterDoneType DEF LogSuccessTest, TypeOK, Keys
<1>3. /\ \A p \in Plans, o \in Nodes : models'[p][o] \subseteq models[p][o]
      /\ \A m \in dropped' \ dropped : Completes(k) /\ m \in ModelsOf(plan[k])
  BY AfterDoneFacts DEF LogSuccessTest, Keys
<1>4. Completes(k) => plan[k] \in Plans
  BY AfterDoneType DEF Keys
<1>5. QED BY <1>1, <1>2, <1>3, <1>4, TestsHaveNoChildren DEF Succeeded, LogSuccessTest

LEMMA LogFailFails ==
  ASSUME TypeOK, NEW n \in Nodes, NEW k \in Trains, LogFail(n, k)
  PROVE  \E G \in SUBSET Keys : FailedWith(G)
<1>1. Idle /\ k \in Keys /\ k \in Registered
  BY DEF LogFail, Authorized, Keys
<1>2. CASE plan[k] # NoPlan /\ MarkFailed({k})
  <2>1. FailedWith({k})
    BY <1>1, <1>2 DEF FailedWith
  <2>2. QED BY <1>1, <2>1
<1>3. CASE \E F \in SUBSET (Trains \ {k}) :
             Propagates(k, F) /\ MarkFailed({k} \cup F \cup FailedTests({k} \cup F))
  <2>1. PICK F \in SUBSET (Trains \ {k}) :
               Propagates(k, F) /\ MarkFailed({k} \cup F \cup FailedTests({k} \cup F))
    BY <1>3
  <2> DEFINE G == {k} \cup F \cup FailedTests({k} \cup F)
  <2>2. G \in SUBSET Keys
    BY <1>1 DEF FailedTests, Keys
  <2>3. ASSUME NEW m \in G, NEW c \in Children(m)
        PROVE  c \in G \/ EffectiveIn(PlansAfter(G, "failed"), c) # "waiting"
    <3>1. c \in Keys /\ m \in parents[c]
      BY DEF Children, TrainChildren, TestChildren, Keys
    <3>2. m \in {k} \cup F
      BY <3>1, KindsAssumption DEF TypeOK, FailedTests
    <3>3. SUFFICES ASSUME c \notin G, status[c] = "waiting"
                   PROVE  plan[c] # NoPlan /\ PlansAfter(G, "failed")[plan[c]] \in Closed
      BY DEF EffectiveIn
    <3>4. plan[c] \in Plans \cup {NoPlan}
      BY <3>1 DEF TypeOK
    <3>5. \E H \in SUBSET G : /\ plan[c] # NoPlan
                              /\ PlansAfter(H, "failed")[plan[c]] \in Closed
      <4>1. CASE c \in Trains
        <5>1. EffectiveIn(PlansAfter(F, "failed"), c) \in Closed
          BY <2>1, <3>1, <3>2, <3>3, <4>1 DEF Propagates, TrainChildren
        <5>2. plan[c] # NoPlan /\ PlansAfter(F, "failed")[plan[c]] \in Closed
          BY <3>3, <5>1 DEF EffectiveIn, Closed
        <5>3. QED BY <5>2
      <4>2. CASE c \in Testtuples
        <5>1. EffectiveIn(PlansAfter({k} \cup F, "failed"), c) = "canceled"
          BY <3>1, <3>2, <3>3, <4>2 DEF FailedTests
        <5>2. plan[c] # NoPlan /\ PlansAfter({k} \cup F, "failed")[plan[c]] \in Closed
          BY <3>3, <5>1 DEF EffectiveIn
        <5>3. QED BY <5>2
      <4>3. QED BY <3>1, <4>1, <4>2 DEF Keys
    <3>6. QED BY <3>4, <3>5, PlansAfterMonotone
  <2>4. G \subseteq Registered
    <3>1. F \subseteq Registered
      BY EffectiveFacts, <2>1 DEF Propagates, Registered, Absent, Keys
    <3>2. FailedTests({k} \cup F) \subseteq Registered
      BY DEF FailedTests, TypeOK, Keys
    <3>3. QED BY <1>1, <3>1, <3>2
  <2>5. \A c \in G \ {k} : Effective(c) = "waiting" \/ parents[c] \cap G # {}
    BY <2>1 DEF Propagates, FailedTests
  <2>6. FailedWith(G)
    BY <1>1, <2>1, <2>3, <2>4, <2>5 DEF FailedWith
  <2>7. QED BY <2>2, <2>6
<1>4. QED BY <1>2, <1>3 DEF LogFail

LEMMA LogFailTestFails ==
  ASSUME TypeOK, NEW n \in Nodes, NEW k \in Testtuples, LogFailTest(n, k)
  PROVE  \E G \in SUBSET Keys : FailedWith(G)
<1>1. FailedWith({k})
  BY TestsHaveNoChildren DEF LogFailTest, Authorized, FailedWith
<1>2. QED BY <1>1 DEF Keys

LEMMA PlanStepCases ==
  ASSUME TypeOK,
         \/ \E p \in Plans : CreateComputePlan(p) \/ UpdateComputePlan(p) \/ CancelComputePlan(p)
         \/ CommitComputePlan
  PROVE  PlanStep
<1>1. ASSUME NEW p \in Plans, CreateComputePlan(p) PROVE PlanStep
  BY <1>1 DEF CreateComputePlan, PlanStep, TypeOK, PlanStatuses, Closed, Absent, tupleVars
<1>2. ASSUME NEW p \in Plans, UpdateComputePlan(p) PROVE PlanStep
  BY <1>2 DEF UpdateComputePlan, PlanStep, TypeOK, tupleVars, planVars
<1>3. ASSUME NEW p \in Plans, CancelComputePlan(p) PROVE PlanStep
  <2>1. /\ Idle /\ planStatus[p] # Absent
        /\ planStatus' = [planStatus EXCEPT ![p] = "canceled"]
        /\ models' = ClearModels(p)
        /\ dropped' = dropped \cup ModelsOf(p)
        /\ UNCHANGED <<tupleVars, tasks, tupleCount, doneCount, notified, openPlan, staged>>
    BY <1>3 DEF CancelComputePlan, batchVars
  <2>2. /\ models' \in [Plans -> [Nodes -> SUBSET Keys]] /\ dropped' \in SUBSET Keys
        /\ \A q \in Plans, n \in Nodes : models'[q][n] \subseteq models[q][n]
    BY <2>1, ModelsOfType DEF TypeOK, ClearModels
  <2>3. planStatus'[p] = "canceled"
    BY <2>1 DEF TypeOK
  <2>4. \A q \in Plans : \/ planStatus'[q] = planStatus[q]
                         \/ planStatus[q] # Absent /\ planStatus'[q] = "canceled"
    BY <2>1 DEF TypeOK
  <2>5. planStatus' \in [Plans -> PlanStatuses \cup {Absent}]
    BY <2>1 DEF TypeOK, PlanStatuses, Closed
  <2>6. QED BY <2>1, <2>2, <2>3, <2>4, <2>5 DEF PlanStep, Idle
<1>4. CASE CommitComputePlan
  BY <1>4 DEF CommitComputePlan, PlanStep, TypeOK, tupleVars, planVars
<1>5. QED BY <1>1, <1>2, <1>3, <1>4

LEMMA NextCases ==
  ASSUME TypeOK, Next
  PROVE  \/ \E k \in Keys, in \in SUBSET Trains, p \in Plans \cup {NoPlan},
              r \in 0..MaxRank, s \in InitialStatuses : Created(k, in, p, r, s)
         \/ \E n \in Nodes, k \in Keys : LogStart(n, k)
         \/ \E k \in Keys, woken \in SUBSET Keys : Succeeded(k, woken)
         \/ \E G \in SUBSET Keys : FailedWith(G)
         \/ PlanStep
<1> USE DEF Keys, Trains
<1>1. CASE Clients
  <2>1. CASE \E k \in Keys : \/ CreateTraintuple(k)     \/ CreateCompositeTraintuple(k)
                             \/ CreateAggregatetuple(k) \/ CreateTesttuple(k)
    <3>1. PICK k \in Keys : \/ CreateTraintuple(k)     \/ CreateCompositeTraintuple(k)
                            \/ CreateAggregatetuple(k) \/ CreateTesttuple(k)
      BY <2>1
    <3>2. CASE CreateTesttuple(k)
      BY <3>2, CreateTesttupleCreates DEF CreateTesttuple
    <3>3. CASE k \in Trains /\ \E in \in SUBSET Trains : CreateTrain(k, in)
      BY <3>3, CreateTrainCreates
    <3>4. QED
      BY <3>1, <3>2, <3>3
         DEF CreateTraintuple, CreateCompositeTraintuple, CreateAggregatetuple, InModelSets
  <2>2. CASE CommitComputePlan \/ \E p \in Plans : \/ CreateComputePlan(p) \/ UpdateComputePlan(p)
                                                  \/ CancelComputePlan(p)
    BY <2>2, PlanStepCases
  <2>3. QED BY <1>1, <2>1, <2>2 DEF Clients
<1>2. CASE Starts
  BY <1>2 DEF Starts, LogStartTrain, LogStartCompositeTrain, LogStartAggregate, LogStartTest
<1>3. CASE Successes
  <2>1. PICK n \in Nodes, k \in Keys :
               \/ k \in Trains /\ LogSuccess(n, k)
               \/ LogSuccessTest(n, k)
    BY <1>3 DEF Successes, LogSuccessTrain, LogSuccessCompositeTrain, LogSuccessAggregate
  <2>2. CASE k \in Trains /\ LogSuccess(n, k)
    <3>1. Woken(k) \cup WokenTests(k) \in SUBSET Keys
      BY DEF Woken, WokenTests, TrainChildren, TestChildren
    <3>2. QED BY <2>2, <3>1, LogSuccessSucceeds
  <2>3. CASE LogSuccessTest(n, k)
    BY <2>3, LogSuccessTestSucceeds DEF LogSuccessTest
  <2>4. QED BY <2>1, <2>2, <2>3
<1>4. CASE Failures
  <2>1. PICK n \in Nodes, k \in Keys : (k \in Trains /\ LogFail(n, k)) \/ LogFailTest(n, k)
    BY <1>4 DEF Failures, Fails, LogFailTrain, LogFailCompositeTrain, LogFailAggregate
  <2>2. QED BY <2>1, LogFailFails, LogFailTestFails DEF LogFailTest
<1>5. QED BY <1>1, <1>2, <1>3, <1>4 DEF Next

-----------------------------------------------------------------------------
(* Type correctness *)

LEMMA TypeOKInit == ASSUME Init PROVE TypeOK
<1>1. Registered = {}
  BY DEF Init, Registered
<1>2. QED
  BY <1>1, RankAssumption DEF Init, TypeOK, Statuses, PlanStatuses, Absent

\* Once on the ledger, a tuple stays on it.
LEMMA CreatedType ==
  ASSUME TypeOK, NEW k \in Keys, NEW in \in SUBSET Trains, NEW p \in Plans \cup {NoPlan},
         NEW r \in 0..MaxRank, NEW s \in InitialStatuses, Created(k, in, p, r, s)
  PROVE  TypeOK'
<1>1. s \in Statuses /\ s # Absent
  BY DEF InitialStatuses, Statuses, Closed, Absent
<1>2. Registered' = Registered \cup {k}
  BY <1>1 DEF Created, Register, Registered, TypeOK
<1>3. /\ status' \in [Keys -> Statuses \cup {Absent}] /\ parents' \in [Keys -> SUBSET Trains]
      /\ plan' \in [Keys -> Plans \cup {NoPlan}] /\ rank' \in [Keys -> 0..MaxRank]
      /\ index' \subseteq Keys \X Statuses
  BY <1>1 DEF Created, Register, TypeOK
<1>4. /\ planStatus' \in [Plans -> PlanStatuses \cup {Absent}]
      /\ tupleCount' \in [Plans -> [Nodes -> Nat]]
  <2>1. CASE p = NoPlan
    BY <2>1 DEF Created, Register, AddTuple, TypeOK
  <2>2. CASE p \in Plans
    <3>1. UpdateState(planStatus[p], s) \in PlanStatuses \cup {Absent}
      BY <2>2, UpdateStateType DEF TypeOK
    <3>2. Worker[k] \in Nodes /\ p # NoPlan
      BY <2>2, WorkerAssumption, PlansAssumption
    <3>3. /\ planStatus' = [planStatus EXCEPT ![p] = UpdateState(@, s)]
          /\ tupleCount' = [tupleCount EXCEPT ![p][Worker[k]] = @ + 1]
      BY <3>2 DEF Created, Register, AddTuple
    <3>4. planStatus' \in [Plans -> PlanStatuses \cup {Absent}]
      BY <2>2, <3>1, <3>3 DEF TypeOK
    <3>5. tupleCount' \in [Plans -> [Nodes -> Nat]]
      BY <2>2, <3>2, <3>3 DEF TypeOK
    <3>6. QED BY <3>4, <3>5
  <2>3. QED BY <2>1, <2>2
<1>5. /\ tasks' \in [Plans -> SUBSET Trains]
      /\ \A q \in Plans : tasks'[q] \subseteq Registered'
  <2>1. CASE UNCHANGED tasks
    BY <1>2, <2>1 DEF TypeOK
  <2>2. CASE /\ k \in Trains /\ openPlan \in Plans
             /\ tasks' = [tasks EXCEPT ![openPlan] = @ \cup {k}]
    BY <1>2, <2>2 DEF TypeOK
  <2>3. QED BY <2>1, <2>2 DEF Created
<1>6. notified' \subseteq Keys
  BY DEF Created, Register, Notify, TypeOK
<1>7. /\ staged' \subseteq Registered' /\ reported' \subseteq Registered'
      /\ \A c \in Keys : parents'[c] \subseteq Registered'
      /\ \A c \in Keys \ Registered' : parents'[c] = {} /\ plan'[c] = NoPlan
  BY <1>2 DEF Created, Register, TypeOK
<1>8. UNCHANGED <<doneCount, models, dropped, openPlan>>
  BY DEF Created, Register
<1>9. QED
  BY <1>3, <1>4, <1>5, <1>6, <1>7, <1>8 DEF TypeOK

LEMMA StartedType ==
  ASSUME TypeOK, NEW n \in Nodes, NEW k \in Keys, LogStart(n, k)
  PROVE  TypeOK'
<1>1. Registered' = Registered
  BY DEF LogStart, Authorized, Registered, TypeOK, Absent
<1>2. status' \in [Keys -> Statuses \cup {Absent}] /\ index' \subseteq Keys \X Statuses
  BY DEF LogStart, Reindex, TypeOK, Statuses
<1>3. planStatus' \in [Plans -> PlanStatuses \cup {Absent}]
  BY PlansAfterFacts DEF LogStart
<1>4. UNCHANGED <<parents, plan, rank, reported, tasks, tupleCount, doneCount, models,
                  notified, dropped, openPlan, staged>>
  BY DEF LogStart, batchVars
<1>5. QED BY <1>1, <1>2, <1>3, <1>4 DEF TypeOK

LEMMA SucceededType ==
  ASSUME TypeOK, NEW k \in Keys, NEW woken \in SUBSET Keys, Succeeded(k, woken)
  PROVE  TypeOK'
<1>1. /\ k \in Registered
      /\ woken \subseteq Registered
  <2>1. \A c \in woken : status[c] = "waiting"
    BY EffectiveFacts DEF Succeeded
  <2>2. QED BY <2>1 DEF Succeeded, Registered, Absent
<1>2. Registered' = Registered
  BY <1>1 DEF Succeeded, RecordSuccess, Registered, Absent
<1>3. status' \in [Keys -> Statuses \cup {Absent}] /\ index' \subseteq Keys \X Statuses
  BY DEF Succeeded, RecordSuccess, TypeOK, Statuses
<1>4. planStatus' \in [Plans -> PlanStatuses \cup {Absent}]
  <2>1. PlanStatusAfterDone(k) \in [Plans -> PlanStatuses \cup {Absent}]
    BY DEF PlanStatusAfterDone, TypeOK, PlanStatuses
  <2>2. QED BY <2>1, UpdateStateType DEF Succeeded, RecordSuccess
<1>5. doneCount' \in [Plans -> [Nodes -> Nat]]
  <2>1. CASE Counts(k)
    <3>1. plan[k] \in Plans /\ Worker[k] \in Nodes
      BY <2>1, WorkerAssumption DEF Counts, TypeOK
    <3>2. doneCount' = [doneCount EXCEPT ![plan[k]][Worker[k]] = @ + 1]
      BY <2>1 DEF Succeeded, RecordSuccess, DoneCountAfter
    <3>3. QED BY <3>1, <3>2 DEF TypeOK
  <2>2. CASE ~Counts(k)
    BY <2>2 DEF Succeeded, RecordSuccess, DoneCountAfter, TypeOK
  <2>3. QED BY <2>1, <2>2
<1>6. reported' \subseteq Registered' /\ notified' \subseteq Keys
  BY <1>1, <1>2 DEF Succeeded, RecordSuccess, TypeOK
<1>7. models' \in [Plans -> [Nodes -> SUBSET Keys]] /\ dropped' \subseteq Keys
  BY DEF Succeeded
<1>8. UNCHANGED <<parents, plan, rank, tasks, tupleCount, openPlan, staged>>
  BY DEF Succeeded, RecordSuccess, batchVars
<1>9. QED BY <1>2, <1>3, <1>4, <1>5, <1>6, <1>7, <1>8 DEF TypeOK

LEMMA FailedType ==
  ASSUME TypeOK, NEW G \in SUBSET Keys, FailedWith(G)
  PROVE  TypeOK'
<1>1. Registered \subseteq Registered'
  BY DEF FailedWith, MarkFailed, Registered, Absent
<1>2. status' \in [Keys -> Statuses \cup {Absent}] /\ index' \subseteq Keys \X Statuses
  BY DEF FailedWith, MarkFailed, Reindex, TypeOK, Statuses
<1>3. planStatus' \in [Plans -> PlanStatuses \cup {Absent}]
  BY PlansAfterFacts DEF FailedWith, MarkFailed
<1>4. UNCHANGED <<parents, plan, rank, reported, tasks, tupleCount, doneCount, models,
                  notified, dropped, openPlan, staged>>
  BY DEF FailedWith, MarkFailed, batchVars
<1>5. QED BY <1>1, <1>2, <1>3, <1>4 DEF TypeOK

LEMMA PlanStepType == ASSUME TypeOK, PlanStep PROVE TypeOK'
<1>1. Registered' = Registered
  BY DEF PlanStep, tupleVars, Registered
<1>2. staged' \subseteq Registered'
  BY <1>1 DEF PlanStep, TypeOK
<1>3. QED BY <1>1, <1>2 DEF PlanStep, TypeOK, tupleVars

LEMMA StutterType == ASSUME TypeOK, UNCHANGED vars PROVE TypeOK'
<1>1. Registered' = Registered
  BY DEF vars, tupleVars, Registered
<1>2. QED BY <1>1 DEF TypeOK, vars, tupleVars, planVars, batchVars

\* Every reachable state has the shape the declarations give it: whatever
\* requests clients and workers send, in-models, tasks, results and staged keys
\* are tuples of the ledger.
THEOREM TypeCorrect == Spec => []TypeOK
<1>1. Init => TypeOK
  BY TypeOKInit
<1>2. TypeOK /\ [Next]_vars => TypeOK'
  BY NextCases, CreatedType, StartedType, SucceededType, FailedType, PlanStepType, StutterType
<1>3. QED BY <1>1, <1>2, PTL DEF Spec

-----------------------------------------------------------------------------
(* The inductive invariant *)

LEMMA InductiveInit == ASSUME Init PROVE Inductive
<1>1. TypeOK
  BY TypeOKInit
<1>2. \A k \in Keys : status[k] = Absent /\ Effective(k) = Absent
  BY DEF Init, Effective, EffectiveIn, Absent
<1>3. Registered = {}
  BY DEF Init, Registered
<1>4. staged = {} /\ \A k \in Keys : parents[k] = {}
  BY DEF Init
<1>5. \A t \in Testtuples : parents[t] = {}
  BY <1>4 DEF Keys
<1>6. QED
  BY <1>1, <1>2, <1>3, <1>4, <1>5
     DEF Inductive, StagedFresh, DoneReported, TestsOne, TestsJoin, StagedCurrent,
         InModelsAvailable, NoLostWakeup, FailurePropagated, WorkDiscoverable, Absent

\* A tuple that was and is waiting, in a plan that is not reopened, did not
\* read as canceled before if it does not now.
LEMMA StillWaiting ==
  ASSUME TypeOK, NEW c \in Keys, status[c] = "waiting", plan'[c] = plan[c],
         \A q \in Plans : planStatus[q] \in Closed => planStatus'[q] \in Closed,
         Effective(c)' = "waiting"
  PROVE  Effective(c) = "waiting"
<1>1. Effective(c) = "waiting" \/ (plan[c] # NoPlan /\ planStatus[plan[c]] \in Closed)
  BY DEF Effective, EffectiveIn
<1>2. status'[c] = "waiting"
  BY DEF Effective, EffectiveIn
<1>3. plan[c] \in Plans \cup {NoPlan}
  BY DEF TypeOK
<1>4. QED BY <1>1, <1>2, <1>3 DEF Effective, EffectiveIn

\* A tuple that is created, or created again by the open transaction, closes at
\* most its own plan, and the tuples of the ledger read as before or as canceled
\* with that plan.
LEMMA CreatedReads ==
  ASSUME Inductive, NEW k \in Keys, NEW in \in SUBSET Trains, NEW p \in Plans \cup {NoPlan},
         NEW r \in 0..MaxRank, NEW s \in InitialStatuses, Created(k, in, p, r, s)
  PROVE  /\ \A q \in Plans : planStatus[q] \in Closed => planStatus'[q] \in Closed
         /\ \A q \in Plans : planStatus'[q] \in Closed =>
              planStatus[q] \in Closed \/ (q = p /\ s \in Closed)
         /\ k \in Registered => /\ k \in staged /\ ~Idle /\ p = plan[k] /\ in = parents[k]
                               /\ (status[k] = "todo" <=> s = "todo")
                               /\ (Effective(k)' \in Closed <=> Effective(k) \in Closed)
         /\ \A m \in Registered : Effective(m) \in Closed => Effective(m)' \in Closed
         /\ \A m \in Registered : Effective(m)' \in Closed =>
              \/ Effective(m) \in Closed
              \/ s \in Closed /\ p # NoPlan /\ planStatus'[p] \in Closed
<1> USE DEF Inductive
<1>1. /\ status' = [status EXCEPT ![k] = s] /\ plan' = [plan EXCEPT ![k] = p]
      /\ parents' = [parents EXCEPT ![k] = in]
  BY DEF Created, Register
<1>2. /\ \A q \in Plans : planStatus[q] \in Closed => planStatus'[q] \in Closed
      /\ \A q \in Plans : planStatus'[q] \in Closed =>
           planStatus[q] \in Closed \/ (q = p /\ s \in Closed)
  <2>1. CASE p = NoPlan
    BY <2>1 DEF Created, Register, AddTuple
  <2>2. CASE p # NoPlan
    <3>1. planStatus' = [planStatus EXCEPT ![p] = UpdateState(@, s)]
      BY <2>2 DEF Created, Register, AddTuple
    <3>2. ASSUME NEW old
          PROVE  /\ old \in Closed => UpdateState(old, s) \in Closed
                 /\ UpdateState(old, s) \in Closed => old \in Closed \/ s \in Closed
      BY DEF UpdateState, PlanMoves, Closed
    <3>3. QED BY <3>1, <3>2 DEF TypeOK
  <2>3. QED BY <2>1, <2>2
<1>3. /\ s = "todo" => \A m \in in : Effective(m) = "done"
      /\ s = "waiting" => (\E m \in in : Effective(m) # "done")
                         /\ \A m \in in : Effective(m) \notin Closed
      /\ s \in Closed => \E m \in in : Effective(m) \in Closed
      /\ s \in {"waiting", "todo"} \cup Closed
  BY DEF Created, InitialStatuses
<1>4. \A m : (Effective(m) = "done" <=> status[m] = "done") /\ "done" \notin Closed
  BY EffectiveFacts DEF Closed
<1>5. /\ status'[k] = s /\ plan'[k] = p
      /\ \A m \in Keys : m # k => status'[m] = status[m] /\ plan'[m] = plan[m]
  BY <1>1 DEF TypeOK
<1>6. ASSUME k \in Registered
      PROVE  /\ k \in staged /\ ~Idle /\ p = plan[k] /\ in = parents[k]
             /\ (status[k] = "todo" <=> s = "todo")
             /\ (Effective(k)' \in Closed <=> Effective(k) \in Closed)
  <2>1. k \in staged /\ ~Idle /\ in = parents[k]
    BY <1>6 DEF Created, Register, KeyFree, Registered, StagedFresh
  <2>2. p = plan[k]
    <3>1. CASE k \in Trains
      BY <2>1, <3>1 DEF Created, StagedCurrent
    <3>2. CASE k \in Testtuples
      BY <2>1, <3>2 DEF Created, TestsJoin
    <3>3. QED BY <3>1, <3>2 DEF Keys
  <2>3. /\ status[k] \in {"waiting", "todo"} \cup Closed
        /\ (status[k] = "todo") <=> (\A m \in in : status[m] = "done")
        /\ status[k] \in Closed => \E m \in in : Effective(m) \in Closed
        /\ (\E m \in in : Effective(m) \in Closed) => Effective(k) \in Closed
    BY <2>1 DEF StagedCurrent
  <2>4. (status[k] = "todo" <=> s = "todo")
    BY <1>3, <1>4, <2>3
  <2>5. status[k] \in Closed => s \in Closed
    BY <1>3, <1>4, <2>3
  <2>6. Effective(k)' \in Closed <=> s \in Closed \/ (s = "waiting" /\ p # NoPlan
                                                     /\ planStatus'[p] \in Closed)
    BY <1>5 DEF Effective, EffectiveIn, Closed
  <2>7. Effective(k) \in Closed <=> \/ status[k] \in Closed
                                  \/ /\ status[k] = "waiting" /\ p # NoPlan
                                     /\ planStatus[p] \in Closed
    BY <2>2 DEF Effective, EffectiveIn, Closed
  <2>8. Effective(k) \in Closed => Effective(k)' \in Closed
    BY <1>2, <1>3, <2>4, <2>5, <2>6, <2>7 DEF Closed
  <2>9. Effective(k)' \in Closed => Effective(k) \in Closed
    <3>1. CASE s \in Closed
      BY <1>3, <2>3, <3>1
    <3>2. CASE s = "waiting" /\ p # NoPlan /\ planStatus'[p] \in Closed
      BY <1>2, <2>3, <2>4, <2>7, <3>2 DEF Closed
    <3>3. QED BY <2>6, <3>1, <3>2
  <2>10. QED BY <2>1, <2>2, <2>4, <2>8, <2>9
<1>7. ASSUME NEW m \in Keys, m # k
      PROVE  /\ Effective(m) \in Closed => Effective(m)' \in Closed
             /\ Effective(m)' \in Closed =>
                  \/ Effective(m) \in Closed
                  \/ s \in Closed /\ p # NoPlan /\ planStatus'[p] \in Closed
  <2>1. status'[m] = status[m] /\ plan'[m] = plan[m] /\ plan[m] \in Plans \cup {NoPlan}
    BY <1>5, <1>7 DEF TypeOK
  <2>2. QED BY <1>2, <2>1 DEF Effective, EffectiveIn, Closed
<1>8. QED BY <1>2, <1>6, <1>7 DEF Registered

\* What a tuple created in a batch finds, it leaves to the next one.
LEMMA BatchCreated ==
  ASSUME Inductive, NEW k \in Keys, NEW in \in SUBSET Trains, NEW p \in Plans \cup {NoPlan},
         NEW r \in 0..MaxRank, NEW s \in InitialStatuses, Created(k, in, p, r, s)
  PROVE  TestsJoin' /\ StagedCurrent'
<1> USE DEF Inductive
<1>1. /\ status' = [status EXCEPT ![k] = s] /\ plan' = [plan EXCEPT ![k] = p]
      /\ parents' = [parents EXCEPT ![k] = in] /\ openPlan' = openPlan
  BY DEF Created, Register
<1>2. /\ status'[k] = s /\ plan'[k] = p /\ parents'[k] = in
      /\ \A m \in Keys : m # k => /\ status'[m] = status[m] /\ plan'[m] = plan[m]
                                 /\ parents'[m] = parents[m]
  BY <1>1 DEF TypeOK
<1>3. k \in Registered => k \in staged /\ ~Idle /\ p = plan[k]
  BY CreatedReads
<1>4. ASSUME NEW m \in Registered
      PROVE  /\ Effective(m) \in Closed => Effective(m)' \in Closed
             /\ Effective(m)' \in Closed =>
                  \/ Effective(m) \in Closed
                  \/ s \in Closed /\ p # NoPlan /\ planStatus'[p] \in Closed
  BY CreatedReads
<1>5. /\ s = "todo" => \A m \in in : Effective(m) = "done"
      /\ s = "waiting" => (\E m \in in : Effective(m) # "done")
                         /\ \A m \in in : Effective(m) \notin Closed
      /\ s \in Closed => \E m \in in : Effective(m) \in Closed
      /\ s \in {"waiting", "todo"} \cup Closed
  BY DEF Created, InitialStatuses
<1>6. \A m : (Effective(m) = "done" <=> status[m] = "done") /\ "done" \notin Closed
  BY EffectiveFacts DEF Closed
<1>7. \A m \in Keys : status'[m] = "done" <=> status[m] = "done"
  <2>1. s # "done"
    BY <1>5 DEF Closed
  <2>2. status[k] # "done"
    BY <1>3 DEF StagedCurrent, Registered, Closed, Absent
  <2>3. QED BY <1>2, <2>1, <2>2
<1>8. \A m \in Keys : status'[m] \in Closed => Effective(m)' \in Closed
  BY DEF Effective, EffectiveIn, Closed
<1>9. in \subseteq Registered /\ in \subseteq Keys
  BY DEF Created, Keys
<1>10. TestsJoin'
  <2>1. ASSUME NEW t \in Testtuples, NEW m \in parents'[t] PROVE plan'[t] = plan'[m]
    <3>1. CASE t = k
      <4>1. m \in in /\ p = plan[m] /\ m \in Trains
        BY <1>2, <2>1, <3>1 DEF Created
      <4>2. m # k
        BY <3>1, <4>1, KindsAssumption
      <4>3. QED BY <1>2, <3>1, <4>1, <4>2 DEF Keys
    <3>2. CASE t # k
      <4>1. m \in parents[t] /\ plan'[t] = plan[t] /\ plan[t] = plan[m] /\ m \in Registered
        BY <1>2, <2>1, <3>2 DEF TestsJoin, Keys, TypeOK
      <4>2. QED BY <1>2, <1>3, <4>1 DEF Registered
    <3>3. QED BY <3>1, <3>2
  <2>2. QED BY <2>1 DEF TestsJoin
<1>11. ASSUME ~Idle, staged' = staged \cup {k},
              k \in Trains => p = openPlan /\ staged \cap Testtuples = {},
              NEW c \in staged'
       PROVE  /\ c \in Trains => plan'[c] = openPlan'
              /\ status'[c] \in {"waiting", "todo"} \cup Closed
              /\ (status'[c] = "todo") <=> (\A m \in parents'[c] : status'[m] = "done")
              /\ status'[c] \in Closed => \E m \in parents'[c] : Effective(m)' \in Closed
              /\ (\E m \in parents'[c] : Effective(m)' \in Closed) => Effective(c)' \in Closed
  <2>1. CASE c = k
    <3>1. (s = "todo") <=> (\A m \in in : status'[m] = "done")
      BY <1>5, <1>6, <1>7, <1>9
    <3>2. s \in Closed => \E m \in in : Effective(m)' \in Closed
      BY <1>4, <1>5, <1>9
    <3>3. (\E m \in in : Effective(m)' \in Closed) => Effective(k)' \in Closed
      <4>1. SUFFICES ASSUME NEW m \in in, Effective(m)' \in Closed PROVE s \in Closed
        BY <1>2, <1>8
      <4>2. QED BY <1>4, <1>5, <1>6, <1>9, <4>1
    <3>4. QED BY <1>1, <1>2, <1>5, <1>11, <2>1, <3>1, <3>2, <3>3
  <2>2. CASE c # k
    <3>1. c \in staged /\ c \in Keys /\ c \in Registered
      BY <1>11, <2>2 DEF TypeOK, Registered
    <3>2. /\ status'[c] = status[c] /\ plan'[c] = plan[c] /\ parents'[c] = parents[c]
          /\ parents[c] \subseteq Registered /\ parents[c] \subseteq Keys
      BY <1>2, <2>2, <3>1 DEF TypeOK, Registered
    <3>3. /\ c \in Trains => plan[c] = openPlan
          /\ status[c] \in {"waiting", "todo"} \cup Closed
          /\ (status[c] = "todo") <=> (\A m \in parents[c] : status[m] = "done")
          /\ status[c] \in Closed => \E m \in parents[c] : Effective(m) \in Closed
          /\ (\E m \in parents[c] : Effective(m) \in Closed) => Effective(c) \in Closed
      BY <3>1 DEF StagedCurrent
    <3>4. (status'[c] = "todo") <=> (\A m \in parents'[c] : status'[m] = "done")
      BY <1>7, <3>2, <3>3
    <3>5. status'[c] \in Closed => \E m \in parents'[c] : Effective(m)' \in Closed
      BY <1>4, <3>2, <3>3
    <3>6. ASSUME NEW m \in parents[c], Effective(m)' \in Closed PROVE Effective(c)' \in Closed
      <4>1. CASE Effective(m) \in Closed
        BY <1>4, <3>1, <3>3, <4>1
      <4>2. CASE s \in Closed /\ p # NoPlan /\ planStatus'[p] \in Closed
        <5>1. k \in Trains
          BY <4>2 DEF Created, Keys
        <5>2. plan'[c] = p
          BY <1>11, <3>1, <3>2, <3>3, <5>1 DEF Keys
        <5>3. status'[m] # "done"
          BY <3>6 DEF Effective, EffectiveIn, Closed
        <5>4. status'[c] \in {"waiting"} \cup Closed
          BY <3>2, <3>3, <3>4, <5>3
        <5>5. QED BY <4>2, <5>2, <5>4 DEF Effective, EffectiveIn, Closed
      <4>3. QED BY <1>4, <3>2, <3>6, <4>1, <4>2
    <3>7. QED BY <1>1, <3>2, <3>3, <3>4, <3>5, <3>6
  <2>3. QED BY <2>1, <2>2
<1>12. StagedCurrent'
  <2>1. CASE Idle /\ UNCHANGED staged
    BY <2>1 DEF StagedFresh, StagedCurrent
  <2>2. CASE /\ ~Idle /\ staged' = staged \cup {k}
             /\ k \in Trains => p = openPlan /\ staged \cap Testtuples = {}
    BY <1>11, <2>2 DEF StagedCurrent
  <2>3. QED BY <2>1, <2>2 DEF Created
<1>13. QED BY <1>10, <1>12

\* Between batches there is nothing to leave.
LEMMA BatchKept ==
  ASSUME Inductive, UNCHANGED <<parents, plan>>, staged' = {}
  PROVE  TestsJoin' /\ StagedCurrent'
BY DEF Inductive, TestsJoin, StagedCurrent

LEMMA CreatedInductive ==
  ASSUME Inductive, NEW k \in Keys, NEW in \in SUBSET Trains, NEW p \in Plans \cup {NoPlan},
         NEW r \in 0..MaxRank, NEW s \in InitialStatuses, Created(k, in, p, r, s)
  PROVE  Inductive'
<1> USE DEF Inductive
<1>1. TypeOK'
  BY CreatedType
<1>2. /\ status' = [status EXCEPT ![k] = s]
      /\ parents' = [parents EXCEPT ![k] = in]
      /\ plan' = [plan EXCEPT ![k] = p]
      /\ index' = index \cup {<<k, s>>}
      /\ notified' = Notify(k, s)
      /\ UNCHANGED <<reported, openPlan>>
  BY DEF Created, Register
<1>3. \A q \in Plans : planStatus[q] \in Closed => planStatus'[q] \in Closed
  <2>1. CASE p = NoPlan
    BY <2>1 DEF Created, Register, AddTuple
  <2>2. CASE p # NoPlan
    <3>1. planStatus' = [planStatus EXCEPT ![p] = UpdateState(@, s)]
      BY <2>2 DEF Created, Register, AddTuple
    <3>2. QED BY <3>1, UpdateStateClosed DEF TypeOK
  <2>3. QED BY <2>1, <2>2
<1>4. k \notin reported /\ s # "doing" /\ s # "done"
  BY DEF Created, Register, KeyFree, StagedFresh, TypeOK, Registered, InitialStatuses, Closed
<1>5. k \notin Registered \/ (k \in staged /\ ~Idle)
  BY DEF Created, Register, KeyFree, Registered, StagedFresh
<1>6. \A m \in Keys : status'[m] = "done" => m # k /\ status[m] = "done"
  BY <1>2, <1>4 DEF TypeOK
<1>7. ASSUME NEW c \in Keys, c # k
      PROVE  /\ status'[c] = status[c] /\ parents'[c] = parents[c]
             /\ Effective(c)' = "waiting" => Effective(c) = "waiting"
  <2>1. /\ status'[c] = status[c] /\ parents'[c] = parents[c] /\ plan'[c] = plan[c]
    BY <1>2, <1>7 DEF TypeOK
  <2>2. Effective(c)' = "waiting" => status[c] = "waiting"
    BY <2>1 DEF Effective, EffectiveIn
  <2>3. QED BY <1>3, <2>1, <2>2, StillWaiting
<1>8. /\ status'[k] = s /\ parents'[k] = in /\ plan'[k] = p
      /\ Effective(k)' = "waiting" => s = "waiting"
  <2>1. status'[k] = s /\ parents'[k] = in /\ plan'[k] = p
    BY <1>2 DEF TypeOK
  <2>2. QED BY <2>1 DEF Effective, EffectiveIn
<1>9. StagedFresh'
  BY <1>2, <1>4 DEF Created, StagedFresh, Idle
<1>10. DoneReported'
  BY <1>2, <1>6 DEF DoneReported
<1>11. TestsOne'
  <2>1. ASSUME NEW t \in Testtuples, NEW m \in parents'[t], NEW o \in parents'[t]
        PROVE  m = o
    <3>1. CASE t = k
      BY <1>8, <2>1, <3>1 DEF Created
    <3>2. CASE t # k
      BY <1>7, <2>1, <3>2 DEF TestsOne, Keys
    <3>3. QED BY <3>1, <3>2
  <2>2. QED BY <2>1 DEF TestsOne
<1>12. InModelsAvailable'
  <2>1. s = "todo" => in \subseteq reported
    <3>1. s = "todo" => \A m \in in : status[m] = "done"
      BY EffectiveFacts DEF Created
    <3>2. QED BY <3>1 DEF DoneReported, Keys
  <2>2. QED BY <1>2, <1>4, <1>7, <1>8, <2>1 DEF InModelsAvailable
<1>13. NoLostWakeup'
  <2>1. ASSUME NEW c \in Keys, Effective(c)' = "waiting"
        PROVE  \E m \in parents'[c] : m \in Keys /\ status[m] # "done"
    <3>1. CASE c = k
      BY <1>8, <2>1, <3>1, EffectiveFacts DEF Created, Keys
    <3>2. CASE c # k
      BY <1>7, <2>1, <3>2 DEF NoLostWakeup, TypeOK, Keys
    <3>3. QED BY <3>1, <3>2
  <2>2. QED BY <1>6, <2>1 DEF NoLostWakeup
<1>14. FailurePropagated'
  <2>1. ASSUME NEW c \in Keys, Effective(c)' = "waiting", NEW m \in parents'[c],
               plan'[m] = NoPlan
        PROVE  status'[m] \notin Closed
    <3>1. m \in Keys
      BY <1>1 DEF TypeOK, Keys
    <3>2. CASE m = k
      <4>1. p = NoPlan
        BY <1>8, <2>1, <3>2
      <4>2. k \in Trains
        BY <1>1, <3>2 DEF TypeOK
      <4>3. openPlan # p \/ Idle
        BY <4>1 DEF Idle
      <4>4. Idle
        BY <4>2, <4>3, KindsAssumption DEF Created
      <4>5. k \notin Registered
        BY <1>5, <4>4
      <4>6. c # k => k \notin parents[c]
        BY <4>5 DEF TypeOK
      <4>7. k \notin in
        BY <4>5 DEF Created
      <4>8. QED BY <1>7, <1>8, <3>2, <4>6, <4>7
    <3>3. CASE m # k
      <4>1. status'[m] = status[m] /\ plan[m] = NoPlan
        BY <1>2, <1>7, <2>1, <3>1, <3>3 DEF TypeOK
      <4>2. CASE c = k
        <5>1. m \in in /\ Effective(m) \notin Closed
          BY <1>8, <2>1, <4>2 DEF Created
        <5>2. Effective(m) = status[m]
          BY <4>1 DEF Effective, EffectiveIn
        <5>3. QED BY <4>1, <5>1, <5>2
      <4>3. CASE c # k
        BY <1>7, <2>1, <4>1, <4>3 DEF FailurePropagated
      <4>4. QED BY <4>2, <4>3
    <3>4. QED BY <3>2, <3>3
  <2>2. QED BY <2>1 DEF FailurePropagated
<1>15. WorkDiscoverable'
  <2>1. ASSUME NEW c \in Registered'
        PROVE  <<c, status'[c]>> \in index' /\ (status'[c] = "todo" => c \in notified')
    <3>1. CASE c = k
      BY <1>2, <1>8, <3>1 DEF Notify
    <3>2. CASE c # k
      <4>1. c \in Registered
        BY <1>7, <3>2 DEF Registered
      <4>2. QED BY <1>2, <1>7, <3>2, <4>1 DEF WorkDiscoverable, Notify, Registered
    <3>3. QED BY <3>1, <3>2
  <2>2. QED BY <2>1 DEF WorkDiscoverable
<1>16. TestsJoin' /\ StagedCurrent'
  BY BatchCreated
<1>17. QED BY <1>1, <1>9, <1>10, <1>11, <1>12, <1>13, <1>14, <1>15, <1>16

LEMMA StartedInductive ==
  ASSUME Inductive, NEW n \in Nodes, NEW k \in Keys, LogStart(n, k)
  PROVE  Inductive'
<1> USE DEF Inductive
<1>1. TypeOK'
  BY StartedType
<1>2. /\ status' = [status EXCEPT ![k] = "doing"]
      /\ index' = Reindex({k}, "doing")
      /\ planStatus' = PlansAfter({k}, "doing")
      /\ UNCHANGED <<parents, plan, reported, notified, openPlan, staged>>
  BY DEF LogStart, batchVars
<1>3. status[k] = "todo"
  BY EffectiveFacts DEF LogStart, CheckUpdateTuple, StatusPossibilities, Closed
<1>4. \A q \in Plans : planStatus[q] \in Closed => planStatus'[q] \in Closed
  BY <1>2, PlansAfterFacts
<1>5. ASSUME NEW c \in Keys, Effective(c)' = "waiting"
      PROVE  c # k /\ Effective(c) = "waiting"
  <2>1. c # k /\ status[c] = "waiting"
    BY <1>2, <1>5 DEF Effective, EffectiveIn, TypeOK
  <2>2. QED BY <1>2, <1>4, <1>5, <2>1, StillWaiting
<1>6. \A m \in Keys : m # k => status'[m] = status[m]
  BY <1>2 DEF TypeOK
<1>7. status'[k] = "doing"
  BY <1>2 DEF TypeOK
<1>8. StagedFresh' /\ TestsOne'
  BY <1>2 DEF StagedFresh, TestsOne, Idle
<1>9. DoneReported' /\ InModelsAvailable'
  BY <1>2, <1>3, <1>6, <1>7 DEF DoneReported, InModelsAvailable
<1>10. NoLostWakeup'
  BY <1>2, <1>5, <1>6, <1>7 DEF NoLostWakeup, TypeOK, Keys
<1>11. FailurePropagated'
  BY <1>2, <1>5, <1>6, <1>7 DEF FailurePropagated, TypeOK, Keys, Closed
<1>12. WorkDiscoverable'
  <2>1. ASSUME NEW c \in Registered'
        PROVE  <<c, status'[c]>> \in index' /\ (status'[c] = "todo" => c \in notified')
    <3>1. CASE c = k
      BY <1>2, <1>7, <3>1 DEF Reindex
    <3>2. CASE c # k
      BY <1>2, <1>6, <2>1, <3>2 DEF WorkDiscoverable, Registered, Reindex
    <3>3. QED BY <3>1, <3>2
  <2>2. QED BY <2>1 DEF WorkDiscoverable
<1>13. TestsJoin' /\ StagedCurrent'
  BY <1>2, BatchKept DEF LogStart, Authorized, StagedFresh
<1>14. QED BY <1>1, <1>8, <1>9, <1>10, <1>11, <1>12, <1>13

LEMMA SucceededInductive ==
  ASSUME Inductive, NEW k \in Keys, NEW woken \in SUBSET Keys, Succeeded(k, woken)
  PROVE  Inductive'
<1> USE DEF Inductive
<1>1. TypeOK'
  BY SucceededType
<1>2. /\ status' = [c \in Keys |-> IF c = k THEN "done"
                                   ELSE IF c \in woken THEN "todo" ELSE status[c]]
      /\ reported' = reported \cup {k}
      /\ index' = (index \ ({<<k, Effective(k)>>} \cup {<<c, "waiting">> : c \in woken}))
                     \cup {<<k, "done">>} \cup {<<c, "todo">> : c \in woken}
      /\ notified' = notified \cup woken
      /\ UNCHANGED <<parents, plan, openPlan, staged>>
  BY DEF Succeeded, RecordSuccess, batchVars
<1>3. /\ \A c \in woken : Effective(c) = "waiting" /\ c \in Children(k)
      /\ Idle /\ status[k] \in {"doing", "done"}
  BY DEF Succeeded
<1>4. \A q \in Plans : planStatus[q] \in Closed => planStatus'[q] \in Closed
  <2>1. \A q \in Plans : planStatus[q] \in Closed => PlanStatusAfterDone(k)[q] = planStatus[q]
    BY DEF PlanStatusAfterDone, Completes, Counts, Closed, TypeOK
  <2>2. QED BY <2>1, UpdateStateClosed DEF Succeeded, RecordSuccess
<1>5. k \notin woken
  BY <1>3, EffectiveFacts
<1>6. ASSUME NEW c \in Keys, Effective(c)' = "waiting"
      PROVE  c # k /\ c \notin woken /\ Effective(c) = "waiting"
  <2>1. c # k /\ c \notin woken /\ status[c] = "waiting"
    BY <1>2, <1>6 DEF Effective, EffectiveIn
  <2>2. QED BY <1>2, <1>4, <1>6, <2>1, StillWaiting
<1>7. StagedFresh' /\ TestsOne'
  BY <1>2, <1>3 DEF StagedFresh, TestsOne, Idle
<1>8. DoneReported'
  BY <1>2 DEF DoneReported
<1>9. InModelsAvailable'
  <2>1. ASSUME NEW c \in Keys, status'[c] \in {"todo", "doing", "done"}
        PROVE  parents[c] \subseteq reported \cup {k}
    <3>1. CASE c = k
      BY <1>3, <3>1 DEF InModelsAvailable
    <3>2. CASE c \in woken \cap Trains
      <4>1. \A m \in parents[c] \ {k} : status[m] = "done"
        BY <3>2 DEF Succeeded
      <4>2. QED BY <4>1 DEF DoneReported, TypeOK, Keys
    <3>3. CASE c \in woken \cap Testtuples
      <4>1. k \in parents[c]
        BY <1>3, <3>3 DEF Children, TrainChildren, TestChildren
      <4>2. QED BY <3>3, <4>1 DEF TestsOne
    <3>4. CASE c # k /\ c \notin woken
      BY <1>2, <2>1, <3>4 DEF InModelsAvailable
    <3>5. QED BY <3>1, <3>2, <3>3, <3>4 DEF Keys
  <2>2. QED BY <1>2, <2>1 DEF InModelsAvailable
<1>10. NoLostWakeup'
  <2>1. ASSUME NEW c \in Keys, Effective(c)' = "waiting"
        PROVE  \E m \in parents[c] \ {k} : status[m] # "done"
    <3>1. CASE k \in parents[c]
      <4>1. c \in Children(k)
        BY <3>1 DEF Children, TrainChildren, TestChildren, Keys
      <4>2. QED BY <1>6, <2>1, <4>1 DEF Succeeded
    <3>2. CASE k \notin parents[c]
      BY <1>6, <2>1, <3>2 DEF NoLostWakeup
    <3>3. QED BY <3>1, <3>2
  <2>2. \A m \in Keys : m # k /\ status[m] # "done" => status'[m] # "done"
    BY <1>2
  <2>3. QED BY <1>2, <2>1, <2>2 DEF NoLostWakeup, TypeOK, Keys
<1>11. FailurePropagated'
  <2>1. \A m \in Keys : status'[m] \in Closed => status[m] \in Closed
    BY <1>2 DEF Closed
  <2>2. QED BY <1>2, <1>6, <2>1 DEF FailurePropagated, TypeOK, Keys
<1>12. WorkDiscoverable'
  <2>1. ASSUME NEW c \in Registered'
        PROVE  <<c, status'[c]>> \in index' /\ (status'[c] = "todo" => c \in notified')
    <3>1. CASE c = k
      BY <1>2, <3>1
    <3>2. CASE c \in woken
      BY <1>2, <1>5, <3>2
    <3>3. CASE c # k /\ c \notin woken
      BY <1>2, <2>1, <3>3 DEF WorkDiscoverable, Registered
    <3>4. QED BY <3>1, <3>2, <3>3
  <2>2. QED BY <2>1 DEF WorkDiscoverable
<1>13. TestsJoin' /\ StagedCurrent'
  BY <1>2, <1>3, BatchKept DEF StagedFresh
<1>14. QED BY <1>1, <1>7, <1>8, <1>9, <1>10, <1>11, <1>12, <1>13

LEMMA FailedInductive ==
  ASSUME Inductive, NEW G \in SUBSET Keys, FailedWith(G)
  PROVE  Inductive'
<1> USE DEF Inductive
<1>1. TypeOK'
  BY FailedType
<1>2. /\ status' = [c \in Keys |-> IF c \in G THEN "failed" ELSE status[c]]
      /\ index' = Reindex(G, "failed")
      /\ planStatus' = PlansAfter(G, "failed")
      /\ UNCHANGED <<parents, plan, reported, notified, openPlan, staged>>
  BY DEF FailedWith, MarkFailed, batchVars
<1>3. \A q \in Plans : planStatus[q] \in Closed => planStatus'[q] \in Closed
  BY <1>2, PlansAfterFacts
<1>4. ASSUME NEW c \in Keys, Effective(c)' = "waiting"
      PROVE  /\ c \notin G /\ Effective(c) = "waiting"
             /\ EffectiveIn(PlansAfter(G, "failed"), c) = "waiting"
  <2>1. c \notin G /\ status[c] = "waiting"
    BY <1>2, <1>4 DEF Effective, EffectiveIn
  <2>2. EffectiveIn(PlansAfter(G, "failed"), c) = "waiting"
    BY <1>2, <1>4, <2>1 DEF Effective, EffectiveIn
  <2>3. QED BY <1>2, <1>3, <1>4, <2>1, <2>2, StillWaiting
<1>5. \A m \in Keys : status'[m] # status[m] => m \in G /\ status'[m] = "failed"
  BY <1>2
<1>6. StagedFresh' /\ TestsOne'
  BY <1>2 DEF StagedFresh, TestsOne, Idle
<1>7. DoneReported' /\ InModelsAvailable'
  BY <1>2, <1>5 DEF DoneReported, InModelsAvailable
<1>8. NoLostWakeup'
  BY <1>2, <1>4, <1>5 DEF NoLostWakeup, TypeOK, Keys
<1>9. FailurePropagated'
  <2>1. ASSUME NEW c \in Keys, Effective(c)' = "waiting", NEW m \in parents[c], plan[m] = NoPlan
        PROVE  m \notin G /\ status[m] \notin Closed
    <3>1. c \in Children(m)
      BY DEF Children, TrainChildren, TestChildren, Keys
    <3>2. QED BY <1>4, <2>1, <3>1 DEF FailedWith, FailurePropagated
  <2>2. QED BY <1>2, <1>5, <2>1 DEF FailurePropagated, TypeOK, Keys
<1>10. WorkDiscoverable'
  <2>1. ASSUME NEW c \in Registered'
        PROVE  <<c, status'[c]>> \in index' /\ (status'[c] = "todo" => c \in notified')
    <3>1. CASE c \in G
      BY <1>2, <3>1 DEF Reindex
    <3>2. CASE c \notin G
      BY <1>2, <2>1, <3>2 DEF WorkDiscoverable, Registered, Reindex
    <3>3. QED BY <3>1, <3>2
  <2>2. QED BY <2>1 DEF WorkDiscoverable
<1>11. TestsJoin' /\ StagedCurrent'
  BY <1>2, BatchKept DEF FailedWith, StagedFresh
<1>12. QED BY <1>1, <1>6, <1>7, <1>8, <1>9, <1>10, <1>11

LEMMA PlanStepInductive == ASSUME Inductive, PlanStep PROVE Inductive'
<1> USE DEF Inductive
<1>1. TypeOK'
  BY PlanStepType
<1>2. /\ UNCHANGED <<status, parents, plan, reported, index, notified>>
      /\ \A q \in Plans : planStatus[q] \in Closed => planStatus'[q] \in Closed
  BY DEF PlanStep, tupleVars, Closed, Absent
<1>3. ASSUME NEW c \in Keys, Effective(c)' = "waiting"
      PROVE  Effective(c) = "waiting"
  <2>1. status[c] = "waiting"
    BY <1>2, <1>3 DEF Effective, EffectiveIn
  <2>2. QED BY <1>2, <1>3, <2>1, StillWaiting
<1>4. StagedFresh' /\ TestsOne'
  BY <1>2 DEF PlanStep, StagedFresh, TestsOne
<1>5. DoneReported' /\ InModelsAvailable'
  BY <1>2 DEF DoneReported, InModelsAvailable
<1>6. NoLostWakeup' /\ FailurePropagated'
  BY <1>2, <1>3 DEF NoLostWakeup, FailurePropagated
<1>7. WorkDiscoverable'
  BY <1>2 DEF WorkDiscoverable, Registered
<1>8. TestsJoin' /\ StagedCurrent'
  BY BatchKept DEF PlanStep, tupleVars, StagedFresh
<1>9. QED BY <1>1, <1>4, <1>5, <1>6, <1>7, <1>8

LEMMA StutterInductive == ASSUME Inductive, UNCHANGED vars PROVE Inductive'
<1>1. TypeOK'
  BY StutterType DEF Inductive
<1>2. UNCHANGED <<status, parents, plan, reported, index, planStatus, notified, openPlan, staged>>
  BY DEF vars, tupleVars, planVars, batchVars
<1>3. QED
  BY <1>1, <1>2
     DEF Inductive, StagedFresh, DoneReported, TestsOne, TestsJoin, StagedCurrent,
         InModelsAvailable, NoLostWakeup, FailurePropagated, WorkDiscoverable, Effective,
         EffectiveIn, Registered, Idle

LEMMA InductiveStep == ASSUME Inductive, [Next]_vars PROVE Inductive'
<1>1. TypeOK
  BY DEF Inductive
<1>2. QED
  BY <1>1, NextCases, CreatedInductive, StartedInductive, SucceededInductive, FailedInductive,
     PlanStepInductive, StutterInductive

\* A result stays with a tuple that has ended, even when a request uses its key
\* twice.
LEMMA EndedStep == ASSUME Inductive, ReportedEnded, [Next]_vars PROVE ReportedEnded'
<1>1. TypeOK
  BY DEF Inductive
<1>2. ASSUME NEW k \in Keys, NEW in \in SUBSET Trains, NEW p \in Plans \cup {NoPlan},
             NEW r \in 0..MaxRank, NEW s \in InitialStatuses, Created(k, in, p, r, s)
      PROVE  ReportedEnded'
  <2>1. k \notin reported
    BY <1>1, <1>2 DEF Created, Register, KeyFree, Inductive, StagedFresh, TypeOK, Registered
  <2>2. QED
    BY <1>1, <1>2, <2>1 DEF Created, Register, ReportedEnded, TypeOK, Registered
<1>3. ASSUME NEW n \in Nodes, NEW k \in Keys, LogStart(n, k) PROVE ReportedEnded'
  <2>1. k \notin reported
    BY <1>3, EffectiveFacts
       DEF LogStart, CheckUpdateTuple, StatusPossibilities, ReportedEnded, Closed
  <2>2. QED BY <1>1, <1>3, <2>1 DEF LogStart, ReportedEnded, TypeOK, Registered
<1>4. ASSUME NEW k \in Keys, NEW woken \in SUBSET Keys, Succeeded(k, woken)
      PROVE  ReportedEnded'
  <2>1. \A c \in woken : c \notin reported
    BY <1>4, EffectiveFacts DEF Succeeded, ReportedEnded
  <2>2. QED
    BY <1>1, <1>4, <2>1 DEF Succeeded, RecordSuccess, ReportedEnded, TypeOK, Registered
<1>5. ASSUME NEW G \in SUBSET Keys, FailedWith(G) PROVE ReportedEnded'
  BY <1>1, <1>5 DEF FailedWith, MarkFailed, ReportedEnded, TypeOK, Registered
<1>6. CASE PlanStep
  BY <1>6 DEF PlanStep, tupleVars, ReportedEnded
<1>7. CASE UNCHANGED vars
  BY <1>7 DEF vars, tupleVars, ReportedEnded
<1>8. QED BY <1>1, <1>2, <1>3, <1>4, <1>5, <1>6, <1>7, NextCases

-----------------------------------------------------------------------------
(* The theorems *)

\* Every transaction preserves the inductive invariant, whatever the keys, the
\* plans, the workers and the requests.
THEOREM InductiveHolds == Spec => []Inductive
<1>1. QED BY InductiveInit, InductiveStep, PTL DEF Spec

\* No worker is asked to run, or runs, a tuple before all its in-models have
\* been reported to the ledger.
THEOREM InModelsReady == Spec => []InModelsAvailable
<1>1. Inductive => InModelsAvailable
  BY DEF Inductive
<1>2. QED BY <1>1, InductiveHolds, PTL

\* No success is forgotten: a tuple that reads as waiting has an in-model that is
\* not done, however registrations and reports interleave.
THEOREM WakeupsKept == Spec => []NoLostWakeup
<1>1. Inductive => NoLostWakeup
  BY DEF Inductive
<1>2. QED BY <1>1, InductiveHolds, PTL

\* A failure outside compute plans reaches every tuple that depends on it.
THEOREM FailuresReach == Spec => []FailurePropagated
<1>1. Inductive => FailurePropagated
  BY DEF Inductive
<1>2. QED BY <1>1, InductiveHolds, PTL

\* A worker can find every tuple: each is indexed under its stored status, and no
\* todo tuple went without an event.
THEOREM WorkIsFound == Spec => []WorkDiscoverable
<1>1. Inductive => WorkDiscoverable
  BY DEF Inductive
<1>2. QED BY <1>1, InductiveHolds, PTL

-----------------------------------------------------------------------------
(* Closed plans *)

\* A key that no transaction uses twice is not on the ledger when it is created.
LEMMA CreatedOnce ==
  ASSUME Inductive, ReuseLimit = 0, NEW k \in Keys, KeyFree(k)
  PROVE  status[k] = Absent
<1>1. SUFFICES ASSUME k \in staged, tupleCount[openPlan][Worker[k]] < ReuseLimit
               PROVE  FALSE
  BY DEF KeyFree
<1>2. openPlan \in Plans
  BY <1>1 DEF Inductive, StagedFresh, Idle, TypeOK
<1>3. tupleCount[openPlan][Worker[k]] \in Nat
  BY <1>2, WorkerAssumption DEF Inductive, TypeOK
<1>4. QED BY <1>1, <1>3

LEMMA ClosedPlanStep ==
  ASSUME Inductive, Next, NEW p \in Plans, planStatus[p] \in Closed
  PROVE  /\ planStatus'[p] \in Closed
         /\ \A k \in Keys : plan[k] = p /\ status[k] = "waiting"
                              => status'[k] \in {"waiting"} \cup Closed
<1> DEFINE Waits == \A k \in Keys : plan[k] = p /\ status[k] = "waiting"
                                    => status'[k] \in {"waiting"} \cup Closed
<1>1. \A k \in Keys : plan[k] = p /\ status[k] = "waiting" => Effective(k) = "canceled"
  BY PlansAssumption DEF Effective, EffectiveIn
<1>2. TypeOK
  BY DEF Inductive
<1>3. ASSUME NEW k \in Keys, NEW in \in SUBSET Trains, NEW q \in Plans \cup {NoPlan},
             NEW r \in 0..MaxRank, NEW s \in InitialStatuses, Created(k, in, q, r, s)
      PROVE  planStatus'[p] \in Closed /\ Waits
  <2>1. k \in Registered => (status[k] = "todo" <=> s = "todo")
    BY <1>3, CreatedReads
  <2>2. status' = [status EXCEPT ![k] = s]
    BY <1>3 DEF Created, Register
  <2>3. Waits
    BY <2>1, <2>2, <1>2 DEF TypeOK, Absent, Registered, InitialStatuses
  <2>4. planStatus'[p] \in Closed
    BY <1>3, CreatedReads
  <2>5. QED BY <2>3, <2>4
<1>4. ASSUME NEW n \in Nodes, NEW k \in Keys, LogStart(n, k)
      PROVE  planStatus'[p] \in Closed /\ Waits
  <2>1. status[k] = "todo"
    BY <1>4, EffectiveFacts DEF LogStart, CheckUpdateTuple, StatusPossibilities, Closed
  <2>2. QED BY <1>2, <1>4, <2>1, PlansAfterFacts DEF LogStart, TypeOK
<1>5. ASSUME NEW k \in Keys, NEW woken \in SUBSET Keys, Succeeded(k, woken)
      PROVE  planStatus'[p] \in Closed /\ Waits
  <2>1. PlanStatusAfterDone(k)[p] = planStatus[p]
    BY <1>2 DEF PlanStatusAfterDone, Completes, Counts, Closed, TypeOK
  <2>2. planStatus'[p] \in Closed
    BY <1>5, <2>1, UpdateStateClosed DEF Succeeded, RecordSuccess
  <2>3. \A c \in woken : Effective(c) = "waiting"
    BY <1>5 DEF Succeeded
  <2>4. Waits
    BY <1>1, <1>5, <2>3 DEF Succeeded, RecordSuccess
  <2>5. QED BY <2>2, <2>4
<1>6. ASSUME NEW G \in SUBSET Keys, FailedWith(G)
      PROVE  planStatus'[p] \in Closed /\ Waits
  <2>1. planStatus'[p] \in Closed
    BY <1>2, <1>6, PlansAfterFacts DEF FailedWith, MarkFailed
  <2>2. status' = [k \in Keys |-> IF k \in G THEN "failed" ELSE status[k]]
    BY <1>6 DEF FailedWith, MarkFailed
  <2>3. Waits
    BY <2>2 DEF Closed
  <2>4. QED BY <2>1, <2>3
<1>7. CASE PlanStep
  BY <1>7 DEF PlanStep, tupleVars, Closed, Absent
<1>8. QED BY <1>2, <1>3, <1>4, <1>5, <1>6, <1>7, NextCases

\* A failed or canceled plan stays closed and none of its waiting tuples is ever
\* started, not even by a request that uses a key twice.
THEOREM ClosedPlansStartNothing == Spec => ClosedPlanStartsNothing
<1>1. Inductive /\ [Next]_vars =>
        [\A p \in Plans : planStatus[p] \in Closed =>
           /\ planStatus'[p] \in Closed
           /\ \A k \in Keys : plan[k] = p /\ status[k] = "waiting"
                                => status'[k] \in {"waiting"} \cup Closed]_vars
  BY ClosedPlanStep
<1>2. QED BY <1>1, InductiveHolds, PTL DEF Spec, ClosedPlanStartsNothing
=============================================================================
