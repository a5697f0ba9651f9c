----------------------------- MODULE ModelKeys -----------------------------
(***************************************************************************)
(* The names of models.  A worker names the models it reports; the ledger  *)
(* stores the names in the tuple, indexes them, lists them for deletion    *)
(* and finds the tuple back by them (queryModel, isModelInUse).            *)
(*                                                                         *)
(* Module Workflow names a model by its tuple.  Each action here is one of *)
(* Workflow together with what it does to the names, to show what that     *)
(* abstraction keeps and what it hides: the two models of a composite      *)
(* traintuple, and a report repeated with other names.                     *)
(*                                                                         *)
(* Workers draw names at random, so that two tuples never share one.       *)
(***************************************************************************)
EXTENDS WorkflowProperties

CONSTANTS
  Names,      \* the keys of models
  NamesOf,    \* [Trains -> the names the worker of the tuple may draw]
  Renames     \* the tuples whose worker may draw again for a repeated report

ASSUME NamesAssumption ==
  /\ NamesOf \in [Trains -> SUBSET Names] /\ Renames \subseteq Trains
  /\ \A k, m \in Trains : k # m => NamesOf[k] \cap NamesOf[m] = {}

VARIABLES
  out,         \* [Trains -> OutModel, OutHeadModel and OutTrunkModel: role -> name]
  nameIndex,   \* entries <<name, key>> of tuple~modelKey~key
  listed,      \* [Plans -> [Nodes -> IntermediaryModelsInUse]]
  announced,   \* the names some event has announced for deletion
  answered     \* <<key, role, name>> of the reports that were accepted

nameVars == <<out, nameIndex, listed, announced, answered>>
allVars == <<vars, nameVars>>

NamesInit ==
  /\ Init
  /\ out = [k \in Trains |-> <<>>] /\ nameIndex = {}
  /\ listed = [p \in Plans |-> [n \in Nodes |-> {}]]
  /\ announced = {} /\ answered = {}

\* The models of a tuple.
Roles(k) == IF k \in CompositeTraintuples THEN {"head", "trunk"} ELSE {"model"}

\* The reports a worker may make on k.
Namings(k) ==
  {r \in [Roles(k) -> NamesOf[k]] : \A x, y \in Roles(k) : r[x] = r[y] => x = y}

Known(m) == \E k \in Trains : <<m, k>> \in nameIndex

\* The first tuple of the index under the name m.
Holder(m) == CHOOSE k \in Trains : <<m, k>> \in nameIndex

-----------------------------------------------------------------------------
(* The lists of models in use *)

\* A plausible bug: a name that is not found is that of a model nobody uses.
NameInUseIfKnown(m, k) ==
  Known(m) /\ \E c \in Children(Holder(m)) \ {k} : Effective(c) # "done"

\* isModelInUse, in the transaction that sets k done: a name reported in this
\* same transaction is not in the index yet.
NameInUse(m, k) ==
  ~Known(m) \/ \E c \in Children(Holder(m)) \ {k} : Effective(c) # "done"

\* TryAddIntermediaryModel for the model m of k, on a worker's list l.in, with
\* the names l.gone announced so far.
AddName(l, m, k) ==
  LET used == {x \in l.in : NameInUse(x, k)}
  IN  [in |-> used \cup {x \in {m} : TrainChildren(k) # {}}, gone |-> l.gone \cup (l.in \ used)]

\* The calls of logSuccess*, one for each model that the report r names.
AddNames(l, k, r) ==
  IF k \in CompositeTraintuples
  THEN AddName(AddName(l, r["head"], k), r["trunk"], k)
  ELSE AddName(l, r["model"], k)

\* removeAllIntermediaryModels
Emptied(p) == [listed EXCEPT ![p] = [n \in Nodes |-> {}]]
AllNames(p) == UNION {listed[p][n] : n \in Nodes}

\* What UpdateState, and then these calls, do to the lists.
ListNames(k, r) ==
  LET p == plan[k]
      before == IF Completes(k) THEN Emptied(p) ELSE listed
      cleared == IF Completes(k) THEN AllNames(p) ELSE {}
      calls == AddNames([in |-> before[p][Worker[k]], gone |-> cleared], k, r)
  IN  IF p \in CleanPlans
      THEN /\ listed' = [before EXCEPT ![p][Worker[k]] = calls.in]
           /\ announced' = announced \cup calls.gone
      ELSE listed' = before /\ announced' = announced \cup cleared

-----------------------------------------------------------------------------
(* The handlers *)

\* The tuple is stored with the names of its first report; commitStatusUpdate
\* returns before it stores those of a repeated one.
LogSuccessNamed(n, k, r) ==
  /\ LogSuccessTrain(n, k) \/ LogSuccessCompositeTrain(n, k) \/ LogSuccessAggregate(n, k)
  /\ Effective(k) = "done" /\ k \notin Renames => r = out[k]
  /\ out' = IF Effective(k) = "done" THEN out ELSE [out EXCEPT ![k] = r]
  /\ nameIndex' = nameIndex \cup {<<r[x], k>> : x \in Roles(k)}
  /\ answered' = answered \cup {<<k, x, r[x]>> : x \in Roles(k)}
  /\ ListNames(k, r)

\* A testtuple has no model, but may be the last of its plan.
LogSuccessTestNamed(n, k) ==
  /\ LogSuccessTest(n, k)
  /\ listed' = IF Completes(k) THEN Emptied(plan[k]) ELSE listed
  /\ announced' = IF Completes(k) THEN announced \cup AllNames(plan[k]) ELSE announced
  /\ UNCHANGED <<out, nameIndex, answered>>

CancelNamed(p) ==
  /\ CancelComputePlan(p)
  /\ listed' = Emptied(p)
  /\ announced' = announced \cup AllNames(p)
  /\ UNCHANGED <<out, nameIndex, answered>>

\* The handlers that neither name nor list a model.
Unnamed ==
  /\ \/ \E p \in Plans : CreateComputePlan(p) \/ UpdateComputePlan(p)
     \/ CommitComputePlan \/ Starts \/ Failures
     \/ \E k \in Keys : \/ CreateTraintuple(k)     \/ CreateCompositeTraintuple(k)
                        \/ CreateAggregatetuple(k) \/ CreateTesttuple(k)
  /\ UNCHANGED nameVars

NamesNext ==
  \/ \E n \in Nodes, k \in Trains : \E r \in Namings(k) : LogSuccessNamed(n, k, r)
  \/ \E n \in Nodes, k \in Testtuples : LogSuccessTestNamed(n, k)
  \/ \E p \in Plans : CancelNamed(p)
  \/ Unnamed

NamesSpec == NamesInit /\ [][NamesNext]_allVars

-----------------------------------------------------------------------------
(* queryModel *)

\* A plausible bug: the name is compared with that of the trunk first.
ModelOfSwapped(m) ==
  LET k == Holder(m)
  IN  <<k, IF k \notin CompositeTraintuples THEN "model"
           ELSE IF out[k]["trunk"] = m THEN "head" ELSE "trunk">>

\* The tuple, and the model of it, whose permissions and address are returned.
ModelOf(m) ==
  LET k == Holder(m)
  IN  <<k, IF k \notin CompositeTraintuples THEN "model"
           ELSE IF out[k]["head"] = m THEN "head" ELSE "trunk">>

-----------------------------------------------------------------------------
(* Properties *)

\* "If modelKey refers to the head out-model, return the head out-model
\* permissions": a model is found, with its own permissions, under the name it is
\* stored with, which its worker was answered; every other name an accepted report
\* gave leads to the tuple, whatever was reported since.
ModelsFound ==
  /\ \A a \in answered : Known(a[3]) /\ Holder(a[3]) = a[1]
  /\ \A k \in Trains \cap reported : \A x \in Roles(k) :
       <<k, x, out[k][x]>> \in answered /\ ModelOf(out[k][x]) = <<k, x>>

\* Each name an accepted report gave leads to the model it was given to, head or
\* trunk.  False of a tuple in Renames.
EveryAnswerFound == \A a \in answered : ModelOf(a[3]) = <<a[1], a[2]>>

\* The names a worker has listed, and those that were announced, are of the
\* models Workflow lists and announces, whatever the order of reports, the
\* repeated ones and the renamed ones included.
ListsAgree ==
  /\ \A p \in Plans, n \in Nodes : {Holder(m) : m \in listed[p][n]} = models[p][n]
  /\ {Holder(m) : m \in announced} = dropped

\* Neither the head nor the trunk of a model, under any of its names, goes
\* before every tuple of the plan that takes the model has reported its result,
\* unless the plan is being canceled.
NamesDroppedUnused ==
  [][\A m \in announced' \ announced :
       LET k == Holder(m)'
       IN  planStatus'[plan[k]] # "canceled" =>
             \A c \in Children(k) : plan[c] = plan[k] => c \in reported']_allVars

-----------------------------------------------------------------------------
(* The inductive invariant *)

\* Each entry of the index is a name its tuple may have been given, and there
\* is one for all that is listed or announced.
NamesIndexed ==
  /\ nameIndex \subseteq Names \X Trains
  /\ \A e \in nameIndex : e[1] \in NamesOf[e[2]]
  /\ listed \in [Plans -> [Nodes -> SUBSET Names]] /\ announced \subseteq Names
  /\ \A p \in Plans, n \in Nodes : \A m \in listed[p][n] : Known(m)
  /\ \A m \in announced : Known(m)

\* A tuple with a result has the names of a report, and keeps them.  What a worker
\* was answered is in the index, and in the tuple if it does not draw again.
AnswersKept ==
  /\ DOMAIN out = Trains
  /\ \A k \in Trains \cap reported :
       out[k] \in Namings(k) /\ \A x \in Roles(k) : <<k, x, out[k][x]>> \in answered
  /\ \A a \in answered :
       /\ a[1] \in Trains \cap reported /\ a[2] \in Roles(a[1])
       /\ <<a[3], a[1]>> \in nameIndex
       /\ a[1] \notin Renames => out[a[1]][a[2]] = a[3]

\* What every report, creation and cancellation preserves.
NamesInductive == ReportedEnded /\ NamesIndexed /\ AnswersKept /\ ListsAgree
=============================================================================
