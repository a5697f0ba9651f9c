--------------------------- MODULE ModelKeysProofs ---------------------------
(***************************************************************************)
(* Theorems about the names of models, for every set of tuples, plans,     *)
(* workers and names: what module Workflow says of models, named by their  *)
(* tuples, holds of the names workers give them.                           *)
(*                                                                         *)
(* Since no name is drawn for two tuples, the first tuple of the index     *)
(* under a name is its only one (HolderUnique), and keeps it.  The lists   *)
(* of names and those of Workflow are then changed alike: whether a name   *)
(* is in use depends on its tuple alone.                                   *)
(***************************************************************************)
EXTENDS ModelKeys, PlanProofs

-----------------------------------------------------------------------------
(* The steps are those of Workflow *)

LEMMA NamedSteps == ASSUME [NamesNext]_allVars PROVE [Next]_vars
<1>1. ASSUME NEW n \in Nodes, NEW k \in Trains, NEW r \in Namings(k), LogSuccessNamed(n, k, r)
      PROVE  Next
  BY <1>1 DEF LogSuccessNamed, Next, Successes, Keys, Trains
<1>2. ASSUME NEW n \in Nodes, NEW k \in Testtuples, LogSuccessTestNamed(n, k)
      PROVE  Next
  BY <1>2 DEF LogSuccessTestNamed, Next, Successes, Keys
<1>3. ASSUME NEW p \in Plans, CancelNamed(p) PROVE Next
  BY <1>3 DEF CancelNamed, Next, Clients
<1>4. CASE Unnamed
  BY <1>4 DEF Unnamed, Next, Clients
<1>5. CASE UNCHANGED allVars
  BY <1>5 DEF allVars
<1>6. QED BY <1>1, <1>2, <1>3, <1>4, <1>5 DEF NamesNext

\* What is known of tuples and plans holds of them whatever their models are
\* called.
LEMMA NamedSpecIsSpec == NamesSpec => Spec
<1>1. NamesInit => Init
  BY DEF NamesInit
<1>2. [NamesNext]_allVars => [Next]_vars
  BY NamedSteps
<1>3. QED BY <1>1, <1>2, PTL DEF NamesSpec, Spec

-----------------------------------------------------------------------------
(* Names and their tuples *)

\* An index in which names are with the tuples they may be drawn for.
Placed(I) == I \subseteq Names \X Trains /\ \A e \in I : e[1] \in NamesOf[e[2]]

LEMMA HolderUnique ==
  ASSUME NEW I, Placed(I), NEW m, NEW k, <<m, k>> \in I
  PROVE  (CHOOSE h \in Trains : <<m, h>> \in I) = k
<1>1. m \in NamesOf[k] /\ k \in Trains
  BY DEF Placed
<1>2. \A h \in Trains : <<m, h>> \in I => m \in NamesOf[h]
  BY DEF Placed
<1>3. \A h \in Trains : <<m, h>> \in I => h = k
  BY <1>1, <1>2, NamesAssumption
<1>4. QED BY <1>1, <1>3

LEMMA HolderFacts ==
  ASSUME NamesIndexed, NEW m, Known(m)
  PROVE  Holder(m) \in Trains /\ <<m, Holder(m)>> \in nameIndex /\ m \in NamesOf[Holder(m)]
<1>1. PICK k \in Trains : <<m, k>> \in nameIndex
  BY DEF Known
<1>2. Holder(m) = k
  BY <1>1, HolderUnique DEF Placed, NamesIndexed, Holder
<1>3. QED BY <1>1, <1>2 DEF NamesIndexed

\* A name keeps its tuple as the index grows.
LEMMA HolderKept ==
  ASSUME NamesIndexed, Placed(nameIndex'), nameIndex \subseteq nameIndex', NEW m, Known(m)
  PROVE  Known(m)' /\ Holder(m)' = Holder(m)
<1>1. Holder(m) \in Trains /\ <<m, Holder(m)>> \in nameIndex'
  BY HolderFacts
<1>2. Known(m)'
  BY <1>1 DEF Known
<1>3. (CHOOSE h \in Trains : <<m, h>> \in nameIndex') = Holder(m)
  BY <1>1, HolderUnique
<1>4. QED BY <1>2, <1>3 DEF Holder

LEMMA HoldersKept ==
  ASSUME NamesIndexed, Placed(nameIndex'), nameIndex \subseteq nameIndex',
         NEW S, \A m \in S : Known(m)
  PROVE  {Holder(m)' : m \in S} = {Holder(m) : m \in S}
<1>1. \A m \in S : Holder(m)' = Holder(m)
  BY HolderKept
<1> HIDE DEF Holder
<1>2. QED BY <1>1

-----------------------------------------------------------------------------
(* The lists *)

LEMMA AllNamesAgree ==
  ASSUME ListsAgree, NEW p \in Plans
  PROVE  {Holder(m) : m \in AllNames(p)} = ModelsOf(p)
<1>1. \A n \in Nodes : {Holder(m) : m \in listed[p][n]} = models[p][n]
  BY DEF ListsAgree
<1> HIDE DEF Holder
<1>2. QED BY <1>1 DEF AllNames, ModelsOf

\* The lists, and what is announced, once UpdateState has moved the plan of k.
ListedAfterDone(k) == IF Completes(k) THEN Emptied(plan[k]) ELSE listed
GoneAfterDone(k) == IF Completes(k) THEN AllNames(plan[k]) ELSE {}
DroppedAfterDone(k) == IF Completes(k) THEN dropped \cup ModelsOf(plan[k]) ELSE dropped

LEMMA EmptiedAgrees ==
  ASSUME TypeOK, NamesIndexed, ListsAgree, NEW p \in Plans
  PROVE  /\ Emptied(p) \in [Plans -> [Nodes -> SUBSET Names]]
         /\ \A q \in Plans, n \in Nodes :
              /\ Emptied(p)[q][n] \subseteq listed[q][n]
              /\ {Holder(m) : m \in Emptied(p)[q][n]} = ClearModels(p)[q][n]
         /\ {Holder(m) : m \in announced \cup AllNames(p)} = dropped \cup ModelsOf(p)
         /\ \A m \in AllNames(p) : m \in Names /\ Known(m)
<1>1. {Holder(m) : m \in AllNames(p)} = ModelsOf(p)
  BY AllNamesAgree
<1>2. {Holder(m) : m \in announced} = dropped
  BY DEF ListsAgree
<1>3. \A q \in Plans, n \in Nodes : {Holder(m) : m \in listed[q][n]} = models[q][n]
  BY DEF ListsAgree
<1>4. /\ Emptied(p) = [q \in Plans |-> IF q = p THEN [n \in Nodes |-> {}] ELSE listed[q]]
      /\ ClearModels(p) = [q \in Plans |-> IF q = p THEN [n \in Nodes |-> {}] ELSE models[q]]
  BY DEF Emptied, ClearModels, NamesIndexed, TypeOK
<1>5. \A q \in Plans, n \in Nodes : listed[q][n] \in SUBSET Names /\ \A m \in listed[q][n] : Known(m)
  BY DEF NamesIndexed
<1>6. Emptied(p) \in [Plans -> [Nodes -> SUBSET Names]]
  BY <1>4 DEF NamesIndexed
<1> HIDE DEF Holder, Known
<1>7. {Holder(m) : m \in announced \cup AllNames(p)} = dropped \cup ModelsOf(p)
  <2> DEFINE A == AllNames(p)
  <2>1. {Holder(m) : m \in A} = ModelsOf(p)
    BY <1>1
  <2> HIDE DEF A
  <2>2. {Holder(m) : m \in announced \cup A} = dropped \cup ModelsOf(p)
    BY <1>2, <2>1
  <2>3. QED BY <2>2 DEF A
<1>8. \A m \in AllNames(p) : m \in Names /\ Known(m)
  BY <1>5 DEF AllNames
<1>9. \A q \in Plans, n \in Nodes :
        /\ Emptied(p)[q][n] \subseteq listed[q][n]
        /\ {Holder(m) : m \in Emptied(p)[q][n]} = ClearModels(p)[q][n]
  <2> SUFFICES ASSUME NEW q \in Plans, NEW n \in Nodes
               PROVE  /\ Emptied(p)[q][n] \subseteq listed[q][n]
                      /\ {Holder(m) : m \in Emptied(p)[q][n]} = ClearModels(p)[q][n]
    OBVIOUS
  <2>1. CASE q = p
    <3>1. Emptied(p)[q][n] = {} /\ ClearModels(p)[q][n] = {}
      BY <1>4, <2>1
    <3>2. QED BY <3>1
  <2>2. CASE q # p
    <3>1. Emptied(p)[q][n] = listed[q][n] /\ ClearModels(p)[q][n] = models[q][n]
      BY <1>4, <2>2
    <3>2. QED BY <1>3, <3>1
  <2>3. QED BY <2>1, <2>2
<1>10. QED BY <1>6, <1>7, <1>8, <1>9

LEMMA AfterDoneAgrees ==
  ASSUME TypeOK, NamesIndexed, ListsAgree, NEW k \in Keys
  PROVE  /\ ListedAfterDone(k) \in [Plans -> [Nodes -> SUBSET Names]]
         /\ \A q \in Plans, n \in Nodes :
              /\ ListedAfterDone(k)[q][n] \subseteq listed[q][n]
              /\ {Holder(m) : m \in ListedAfterDone(k)[q][n]} = ModelsAfterDone(k)[q][n]
         /\ {Holder(m) : m \in announced \cup GoneAfterDone(k)} = DroppedAfterDone(k)
         /\ \A m \in GoneAfterDone(k) : m \in Names /\ Known(m)
<1>1. CASE Completes(k)
  <2>1. plan[k] \in Plans
    BY <1>1, AfterDoneType
  <2>2. /\ ListedAfterDone(k) = Emptied(plan[k]) /\ ModelsAfterDone(k) = ClearModels(plan[k])
        /\ GoneAfterDone(k) = AllNames(plan[k])
        /\ DroppedAfterDone(k) = dropped \cup ModelsOf(plan[k])
    BY <1>1 DEF ListedAfterDone, ModelsAfterDone, GoneAfterDone, DroppedAfterDone
  <2>3. QED BY <2>1, <2>2, EmptiedAgrees
<1>2. CASE ~Completes(k)
  <2>1. /\ ListedAfterDone(k) = listed /\ ModelsAfterDone(k) = models
        /\ GoneAfterDone(k) = {} /\ DroppedAfterDone(k) = dropped
    BY <1>2 DEF ListedAfterDone, ModelsAfterDone, GoneAfterDone, DroppedAfterDone
  <2>2. QED BY <2>1 DEF NamesIndexed, ListsAgree
<1>3. QED BY <1>1, <1>2

LEMMA NameInUseFacts ==
  ASSUME NamesIndexed, NEW k, NEW m, Known(m)
  PROVE  NameInUse(m, k) <=> InUse(Holder(m), k)
BY DEF NameInUse, InUse

\* The children of a tuple whose report is accepted have not reported, so that no
\* call drops a name that this report brings.
LEMMA ReportedInUse ==
  ASSUME NamesIndexed, NEW n \in Nodes, NEW k \in Trains, LogSuccess(n, k),
         TrainChildren(k) # {}, NEW m \in NamesOf[k]
  PROVE  NameInUse(m, k)
<1>1. SUFFICES ASSUME Known(m) PROVE NameInUse(m, k)
  BY DEF NameInUse
<1>2. Holder(m) = k
  BY <1>1, HolderFacts, NamesAssumption
<1>3. PICK c \in TrainChildren(k) : TRUE
  OBVIOUS
<1>4. Effective(c) \in Closed \cup {"waiting"}
  BY <1>3 DEF LogSuccess, ChildrenAcceptDone
<1>5. Effective(k) \in {"doing", "done"}
  BY DEF LogSuccess, CheckUpdateTuple, StatusPossibilities, Closed
<1>6. c \in Children(k) \ {k} /\ Effective(c) # "done"
  BY <1>3, <1>4, <1>5 DEF Children, Closed
<1>7. QED BY <1>1, <1>2, <1>6, NameInUseFacts DEF InUse

\* The names a report adds to a list.
NewNames(k, r) == {m \in {r[x] : x \in Roles(k)} : TrainChildren(k) # {}}
UsedNames(L, k) == {m \in L : NameInUse(m, k)}

\* However many models the report has, the lists change once: the names that are
\* not in use go, those of the report come.
LEMMA AddNamesOnce ==
  ASSUME NamesIndexed, NEW n \in Nodes, NEW k \in Trains, NEW r \in Namings(k),
         LogSuccess(n, k), NEW L, NEW G
  PROVE  AddNames([in |-> L, gone |-> G], k, r)
           = [in |-> UsedNames(L, k) \cup NewNames(k, r), gone |-> G \cup (L \ UsedNames(L, k))]
<1> DEFINE Added(m) == {x \in {m} : TrainChildren(k) # {}}
           U == UsedNames(L, k)
<1>1. ASSUME NEW S, NEW D, NEW m
      PROVE  AddName([in |-> S, gone |-> D], m, k)
               = [in |-> UsedNames(S, k) \cup Added(m), gone |-> D \cup (S \ UsedNames(S, k))]
  BY DEF AddName, UsedNames
<1>2. CASE k \notin CompositeTraintuples
  <2>1. NewNames(k, r) = Added(r["model"])
    BY <1>2 DEF NewNames, Roles
  <2>2. AddNames([in |-> L, gone |-> G], k, r) = AddName([in |-> L, gone |-> G], r["model"], k)
    BY <1>2 DEF AddNames
  <2>3. QED BY <1>1, <2>1, <2>2
<1>3. CASE k \in CompositeTraintuples
  <2> DEFINE H == Added(r["head"])
  <2>1. NewNames(k, r) = H \cup Added(r["trunk"])
    BY <1>3 DEF NewNames, Roles
  <2>2. \A m \in H : NameInUse(m, k)
    <3>1. r["head"] \in NamesOf[k]
      BY <1>3 DEF Namings, Roles
    <3>2. QED BY <3>1, ReportedInUse
  <2>3. UsedNames(U \cup H, k) = U \cup H
    BY <2>2 DEF UsedNames
  <2>4. AddName([in |-> L, gone |-> G], r["head"], k) = [in |-> U \cup H, gone |-> G \cup (L \ U)]
    BY <1>1
  <2>5. AddNames([in |-> L, gone |-> G], k, r)
          = AddName([in |-> U \cup H, gone |-> G \cup (L \ U)], r["trunk"], k)
    BY <1>3, <2>4 DEF AddNames
  <2> HIDE DEF U, H, Added
  <2>6. AddNames([in |-> L, gone |-> G], k, r)
          = [in |-> (U \cup H) \cup Added(r["trunk"]),
             gone |-> (G \cup (L \ U)) \cup ((U \cup H) \ (U \cup H))]
    BY <1>1, <2>3, <2>5
  <2>7. /\ (U \cup H) \cup Added(r["trunk"]) = U \cup NewNames(k, r)
        /\ (G \cup (L \ U)) \cup ((U \cup H) \ (U \cup H)) = G \cup (L \ U)
    BY <2>1
  <2>8. QED BY <2>6, <2>7 DEF U
<1>4. QED BY <1>2, <1>3

-----------------------------------------------------------------------------
(* The reports *)

LEMMA NamedReport ==
  ASSUME Inductive, NEW n \in Nodes, NEW k \in Trains, NEW r \in Namings(k),
         LogSuccessNamed(n, k, r)
  PROVE  /\ k \in Keys /\ LogSuccess(n, k) /\ TryAddIntermediaryModel(k)
         /\ reported' = reported \cup {k} /\ plan' = plan /\ parents' = parents
         /\ Worker[k] \in Nodes
<1>1. k \in Keys /\ LogSuccess(n, k)
  BY DEF LogSuccessNamed, LogSuccessTrain, LogSuccessCompositeTrain, LogSuccessAggregate, Keys
<1>2. QED BY <1>1, WorkerAssumption DEF LogSuccess, RecordSuccess

\* The index grows by names of the report, which all have k for their tuple.
LEMMA NamedIndex ==
  ASSUME NamesIndexed, NEW n \in Nodes, NEW k \in Trains, NEW r \in Namings(k),
         LogSuccessNamed(n, k, r)
  PROVE  /\ Placed(nameIndex') /\ nameIndex \subseteq nameIndex'
         /\ \A x \in Roles(k) : /\ r[x] \in NamesOf[k] /\ r[x] \in Names
                                /\ <<r[x], k>> \in nameIndex'
                                /\ Known(r[x])' /\ Holder(r[x])' = k
<1>1. nameIndex' = nameIndex \cup {<<r[x], k>> : x \in Roles(k)}
  BY DEF LogSuccessNamed
<1>2. \A x \in Roles(k) : r[x] \in NamesOf[k]
  BY DEF Namings
<1>3. NamesOf[k] \subseteq Names
  BY NamesAssumption
<1>4. Placed(nameIndex')
  BY <1>1, <1>2, <1>3 DEF Placed, NamesIndexed
<1>5. \A x \in Roles(k) : <<r[x], k>> \in nameIndex'
  BY <1>1
<1>6. \A x \in Roles(k) : Known(r[x])'
  BY <1>5 DEF Known
<1>7. \A x \in Roles(k) : (CHOOSE h \in Trains : <<r[x], h>> \in nameIndex') = k
  BY <1>4, <1>5, HolderUnique
<1>8. QED BY <1>1, <1>2, <1>3, <1>4, <1>5, <1>6, <1>7 DEF Holder

\* The lists after a report, in a plan that does not clean its models or in none.
LEMMA KeptReportLists ==
  ASSUME Inductive, NamesIndexed, ListsAgree, NEW n \in Nodes, NEW k \in Trains,
         NEW r \in Namings(k), LogSuccessNamed(n, k, r), plan[k] \notin CleanPlans
  PROVE  /\ listed' = ListedAfterDone(k) /\ announced' = announced \cup GoneAfterDone(k)
         /\ models' = ModelsAfterDone(k) /\ dropped' = DroppedAfterDone(k)
<1>1. TryAddIntermediaryModel(k) /\ ListNames(k, r)
  BY NamedReport DEF LogSuccessNamed
<1>2. QED
  BY <1>1 DEF TryAddIntermediaryModel, ListNames, ListedAfterDone, GoneAfterDone,
              DroppedAfterDone

\* In a plan that cleans them, the list of k's worker changes besides.
LEMMA CleanedReportLists ==
  ASSUME Inductive, NamesIndexed, ListsAgree, NEW n \in Nodes, NEW k \in Trains,
         NEW r \in Namings(k), LogSuccessNamed(n, k, r), plan[k] \in CleanPlans
  PROVE  LET p == plan[k]
             L == ListedAfterDone(k)[p][Worker[k]]
             M == ModelsAfterDone(k)[p][Worker[k]]
             used == {m \in M : InUse(m, k)}
         IN  /\ listed' = [ListedAfterDone(k) EXCEPT ![p][Worker[k]] =
                              UsedNames(L, k) \cup NewNames(k, r)]
             /\ announced' = announced \cup (GoneAfterDone(k) \cup (L \ UsedNames(L, k)))
             /\ models' = [ModelsAfterDone(k) EXCEPT ![p][Worker[k]] =
                              used \cup {m \in {k} : TrainChildren(m) # {}}]
             /\ dropped' = DroppedAfterDone(k) \cup (M \ used)
<1> DEFINE p == plan[k]
           L == ListedAfterDone(k)[p][Worker[k]]
           M == ModelsAfterDone(k)[p][Worker[k]]
           used == {m \in M : InUse(m, k)}
           calls == AddNames([in |-> L, gone |-> GoneAfterDone(k)], k, r)
<1>1. TryAddIntermediaryModel(k) /\ ListNames(k, r) /\ LogSuccess(n, k)
  BY NamedReport DEF LogSuccessNamed
<1>2. /\ listed' = [ListedAfterDone(k) EXCEPT ![p][Worker[k]] = calls.in]
      /\ announced' = announced \cup calls.gone
  BY <1>1 DEF ListNames, ListedAfterDone, GoneAfterDone
<1>3. calls = [in |-> UsedNames(L, k) \cup NewNames(k, r),
               gone |-> GoneAfterDone(k) \cup (L \ UsedNames(L, k))]
  <2> HIDE DEF L
  <2>1. QED BY <1>1, AddNamesOnce
<1>4. /\ models' = [ModelsAfterDone(k) EXCEPT ![p][Worker[k]] =
                       used \cup {m \in {k} : TrainChildren(m) # {}}]
      /\ dropped' = DroppedAfterDone(k) \cup (M \ used)
  BY <1>1 DEF TryAddIntermediaryModel, DroppedAfterDone
<1> HIDE DEF calls, L, M, used
<1>5. /\ calls.in = UsedNames(L, k) \cup NewNames(k, r)
      /\ calls.gone = GoneAfterDone(k) \cup (L \ UsedNames(L, k))
  BY <1>3
<1>6. QED BY <1>2, <1>4, <1>5 DEF L, M, used

\* Of a list of names that agrees with a list of models, the names in use and the
\* others agree with the models in use and the others.
LEMMA UsedAgree ==
  ASSUME NamesIndexed, NEW k, NEW L, NEW M, \A m \in L : Known(m),
         {Holder(m) : m \in L} = M
  PROVE  /\ {Holder(m) : m \in UsedNames(L, k)} = {m \in M : InUse(m, k)}
         /\ {Holder(m) : m \in L \ UsedNames(L, k)} = M \ {m \in M : InUse(m, k)}
<1>1. \A m \in L : NameInUse(m, k) <=> InUse(Holder(m), k)
  BY NameInUseFacts
<1> HIDE DEF Holder, Known
<1>2. UsedNames(L, k) = {m \in L : InUse(Holder(m), k)}
  BY <1>1 DEF UsedNames
<1> HIDE DEF UsedNames, InUse
<1>3. QED BY <1>2

\* A report changes the lists of names as it changes those of models.
LEMMA ReportListsAgree ==
  ASSUME Inductive, NamesIndexed, ListsAgree, NEW n \in Nodes, NEW k \in Trains,
         NEW r \in Namings(k), LogSuccessNamed(n, k, r)
  PROVE  NamesIndexed' /\ ListsAgree'
<1> DEFINE D == ListedAfterDone(k)
           G == GoneAfterDone(k)
           p == plan[k]
           w == Worker[k]
           L == D[p][w]
           M == ModelsAfterDone(k)[p][w]
<1>1. /\ TypeOK /\ k \in Keys /\ w \in Nodes
  BY NamedReport DEF Inductive
<1>2. /\ D \in [Plans -> [Nodes -> SUBSET Names]]
      /\ \A q \in Plans, v \in Nodes : /\ D[q][v] \subseteq listed[q][v]
                                     /\ {Holder(m) : m \in D[q][v]} = ModelsAfterDone(k)[q][v]
      /\ {Holder(m) : m \in announced \cup G} = DroppedAfterDone(k)
      /\ \A m \in G : m \in Names /\ Known(m)
  BY <1>1, AfterDoneAgrees
<1>3. \A q \in Plans, v \in Nodes : \A m \in D[q][v] : Known(m)
  BY <1>2 DEF NamesIndexed
<1>4. \A m \in announced \cup G : Known(m)
  BY <1>2 DEF NamesIndexed
<1>5. Placed(nameIndex') /\ nameIndex \subseteq nameIndex'
  BY NamedIndex
<1>6. \A m : Known(m) => Known(m)' /\ Holder(m)' = Holder(m)
  BY <1>5, HolderKept
<1>7. \A q \in Plans, v \in Nodes : {Holder(m)' : m \in D[q][v]} = ModelsAfterDone(k)[q][v]
  <2> SUFFICES ASSUME NEW q \in Plans, NEW v \in Nodes
               PROVE  {Holder(m)' : m \in D[q][v]} = ModelsAfterDone(k)[q][v]
    OBVIOUS
  <2>1. {Holder(m)' : m \in D[q][v]} = {Holder(m) : m \in D[q][v]}
    BY <1>3, <1>5, HoldersKept
  <2>2. QED BY <1>2, <2>1
<1>8. {Holder(m)' : m \in announced \cup G} = DroppedAfterDone(k)
  <2>1. {Holder(m)' : m \in announced \cup G} = {Holder(m) : m \in announced \cup G}
    BY <1>4, <1>5, HoldersKept
  <2>2. QED BY <1>2, <2>1
<1>9. CASE p \notin CleanPlans
  <2>1. /\ listed' = D /\ announced' = announced \cup G
        /\ models' = ModelsAfterDone(k) /\ dropped' = DroppedAfterDone(k)
    BY <1>9, KeptReportLists
  <2>2. ListsAgree'
    BY <1>7, <1>8, <2>1 DEF ListsAgree
  <2>3. /\ \A q \in Plans, v \in Nodes : \A m \in D[q][v] : Known(m)'
        /\ \A m \in announced \cup G : Known(m)'
    BY <1>3, <1>4, <1>6
  <2>4. NamesIndexed'
    <3> HIDE DEF D, G
    <3>1. QED BY <1>2, <1>5, <2>1, <2>3 DEF NamesIndexed, Placed
  <2>5. QED BY <2>2, <2>4
<1>10. CASE p \in CleanPlans
  <2> DEFINE U == UsedNames(L, k)
             N == NewNames(k, r)
             used == {m \in M : InUse(m, k)}
             added == {m \in {k} : TrainChildren(m) # {}}
  <2>1. /\ listed' = [D EXCEPT ![p][w] = U \cup N]
        /\ announced' = announced \cup (G \cup (L \ U))
        /\ models' = [ModelsAfterDone(k) EXCEPT ![p][w] = used \cup added]
        /\ dropped' = DroppedAfterDone(k) \cup (M \ used)
    BY <1>10, CleanedReportLists
  <2>2. p \in Plans
    BY <1>10, PlansAssumption
  <2>3. U \subseteq L
    BY DEF UsedNames
  <2>4. \A m \in L : Known(m) /\ m \in Names
    BY <1>1, <1>2, <1>3, <2>2
  <2>5. /\ {Holder(m) : m \in U} = used
        /\ {Holder(m) : m \in L \ U} = M \ used
    <3>1. {Holder(m) : m \in L} = M
      BY <1>1, <1>2, <2>2
    <3> HIDE DEF L, M
    <3>2. QED BY <2>4, <3>1, UsedAgree
  <2>6. /\ {Holder(m)' : m \in U} = used
        /\ {Holder(m)' : m \in L \ U} = M \ used
    <3> HIDE DEF U, L, M, used
    <3>1. {Holder(m)' : m \in U} = {Holder(m) : m \in U}
      BY <1>5, <2>3, <2>4, HoldersKept
    <3>2. {Holder(m)' : m \in L \ U} = {Holder(m) : m \in L \ U}
      BY <1>5, <2>4, HoldersKept
    <3>3. QED BY <2>5, <3>1, <3>2
  <2>7. \A m \in N : m \in Names /\ Known(m)' /\ Holder(m)' = k
    <3>1. \A x \in Roles(k) : r[x] \in Names /\ Known(r[x])' /\ Holder(r[x])' = k
      BY NamedIndex
    <3>2. \A m \in N : \E x \in Roles(k) : m = r[x]
      BY DEF NewNames
    <3> HIDE DEF N, Holder, Known
    <3>3. QED BY <3>1, <3>2
  <2>8. {Holder(m)' : m \in N} = added
    <3>1. N = {} <=> TrainChildren(k) = {}
      BY DEF NewNames, Roles
    <3> HIDE DEF N, Holder
    <3>2. QED BY <2>7, <3>1
  <2>9. {Holder(m)' : m \in U \cup N} = used \cup added
    <3> HIDE DEF U, N, used, added, Holder
    <3>1. QED BY <2>6, <2>8
  <2>10. {Holder(m)' : m \in announced'} = dropped'
    <3> HIDE DEF U, L, M, G, used, Holder
    <3>1. QED BY <1>8, <2>1, <2>6
  <2>11. ASSUME NEW q \in Plans, NEW v \in Nodes
         PROVE  /\ {Holder(m)' : m \in listed'[q][v]} = models'[q][v]
                /\ listed'[q][v] \subseteq Names /\ \A m \in listed'[q][v] : Known(m)'
    <3> HIDE DEF U, N, L, M, used, added, Holder, Known
    <3>1. ModelsAfterDone(k) \in [Plans -> [Nodes -> SUBSET Keys]]
      BY <1>1, AfterDoneType
    <3>2. CASE q = p /\ v = w
      <4>1. listed'[q][v] = U \cup N /\ models'[q][v] = used \cup added
        <5> HIDE DEF D, p, w
        <5>1. QED BY <1>2, <2>1, <3>1, <3>2
      <4>2. \A m \in U : m \in Names /\ Known(m)'
        BY <1>6, <2>3, <2>4
      <4>3. QED BY <2>7, <2>9, <4>1, <4>2
    <3>3. CASE ~(q = p /\ v = w)
      <4>1. listed'[q][v] = D[q][v] /\ models'[q][v] = ModelsAfterDone(k)[q][v]
        <5> HIDE DEF D, p, w
        <5>1. QED BY <1>2, <2>1, <3>1, <3>3
      <4>2. QED BY <1>2, <1>3, <1>6, <1>7, <4>1
    <3>4. QED BY <3>2, <3>3
  <2>12. ListsAgree'
    BY <2>10, <2>11 DEF ListsAgree
  <2>13. \A m \in announced' : m \in Names /\ Known(m)'
    <3> HIDE DEF L, U, G, Known
    <3>1. \A m \in announced \cup G : Known(m)' /\ m \in Names
      BY <1>2, <1>4, <1>6 DEF NamesIndexed
    <3>2. \A m \in L : Known(m)' /\ m \in Names
      BY <1>6, <2>4
    <3>3. QED BY <2>1, <3>1, <3>2
  <2>14. listed' \in [Plans -> [Nodes -> SUBSET Names]]
    <3>1. U \cup N \in SUBSET Names
      BY <2>3, <2>4, <2>7
    <3> HIDE DEF U, N, D, p, w
    <3>2. QED BY <1>2, <2>1, <3>1
  <2>15. QED
    BY <1>5, <2>11, <2>12, <2>13, <2>14 DEF NamesIndexed, Placed
<1>11. QED BY <1>9, <1>10

-----------------------------------------------------------------------------
(* The other steps *)

LEMMA UnnamedKeepsModels ==
  ASSUME TypeOK, Unnamed
  PROVE  UNCHANGED <<models, dropped, reported, nameVars>>
<1>1. ASSUME NEW p \in Plans, CreateComputePlan(p) \/ UpdateComputePlan(p)
      PROVE  UNCHANGED <<models, dropped, reported>>
  BY <1>1 DEF CreateComputePlan, UpdateComputePlan, planVars, tupleVars
<1>2. ASSUME CommitComputePlan PROVE UNCHANGED <<models, dropped, reported>>
  BY <1>2 DEF CommitComputePlan, planVars, tupleVars
<1>3. ASSUME Starts PROVE UNCHANGED <<models, dropped, reported>>
  BY <1>3 DEF Starts, LogStartTrain, LogStartCompositeTrain, LogStartAggregate, LogStartTest,
              LogStart
<1>4. ASSUME Failures PROVE UNCHANGED <<models, dropped, reported>>
  BY <1>4 DEF Failures, Fails, LogFailTrain, LogFailCompositeTrain, LogFailAggregate,
              LogFailTest, LogFail, MarkFailed
<1>5. ASSUME NEW k \in Keys, NEW in, CreateTrain(k, in) PROVE UNCHANGED <<models, dropped, reported>>
  BY <1>5 DEF CreateTrain, CreateAlone, CreateInBatch, Register
<1>6. ASSUME NEW k \in Keys, CreateTesttuple(k) PROVE UNCHANGED <<models, dropped, reported>>
  BY <1>6 DEF CreateTesttuple, Register
<1>7. ASSUME NEW k \in Keys, CreateTraintuple(k) \/ CreateCompositeTraintuple(k)
                             \/ CreateAggregatetuple(k)
      PROVE  UNCHANGED <<models, dropped, reported>>
  BY <1>5, <1>7 DEF CreateTraintuple, CreateCompositeTraintuple, CreateAggregatetuple
<1>8. QED BY <1>1, <1>2, <1>3, <1>4, <1>6, <1>7 DEF Unnamed

\* A step that leaves names and models alone.
LEMMA SameListsAgree ==
  ASSUME NamesIndexed, ListsAgree, UNCHANGED <<models, dropped, nameVars>>
  PROVE  NamesIndexed' /\ ListsAgree'
<1>1. UNCHANGED <<nameIndex, listed, announced>>
  BY DEF nameVars
<1>2. \A m : (Known(m)' <=> Known(m)) /\ Holder(m)' = Holder(m)
  BY <1>1 DEF Known, Holder
<1> HIDE DEF Known, Holder
<1>3. ListsAgree'
  BY <1>1, <1>2 DEF ListsAgree
<1>4. QED BY <1>1, <1>2, <1>3 DEF NamesIndexed

\* A plan that is done or canceled empties its lists.
LEMMA EmptyingAgrees ==
  ASSUME TypeOK, NamesIndexed, ListsAgree, NEW p \in Plans, UNCHANGED nameIndex,
         listed' = Emptied(p), announced' = announced \cup AllNames(p),
         models' = ClearModels(p), dropped' = dropped \cup ModelsOf(p)
  PROVE  NamesIndexed' /\ ListsAgree'
<1>1. \A m : (Known(m)' <=> Known(m)) /\ Holder(m)' = Holder(m)
  BY DEF Known, Holder
<1>2. /\ Emptied(p) \in [Plans -> [Nodes -> SUBSET Names]]
      /\ \A q \in Plans, n \in Nodes :
           /\ Emptied(p)[q][n] \subseteq listed[q][n]
           /\ {Holder(m) : m \in Emptied(p)[q][n]} = ClearModels(p)[q][n]
      /\ {Holder(m) : m \in announced \cup AllNames(p)} = dropped \cup ModelsOf(p)
      /\ \A m \in AllNames(p) : m \in Names /\ Known(m)
  BY EmptiedAgrees
<1> HIDE DEF Holder, Known
<1>3. ListsAgree'
  BY <1>1, <1>2 DEF ListsAgree
<1>4. /\ \A q \in Plans, n \in Nodes : \A m \in listed'[q][n] : Known(m)'
      /\ \A m \in announced' : m \in Names /\ Known(m)'
  BY <1>1, <1>2 DEF NamesIndexed
<1>5. QED BY <1>2, <1>3, <1>4 DEF NamesIndexed

LEMMA NamesListsStep ==
  ASSUME Inductive, NamesIndexed, ListsAgree, [NamesNext]_allVars
  PROVE  NamesIndexed' /\ ListsAgree'
<1>1. TypeOK
  BY DEF Inductive
<1>2. ASSUME NEW n \in Nodes, NEW k \in Testtuples, LogSuccessTestNamed(n, k)
      PROVE  NamesIndexed' /\ ListsAgree'
  <2>1. LogSuccessTest(n, k) /\ UNCHANGED nameIndex /\ k \in Keys
    BY <1>2 DEF LogSuccessTestNamed, Keys
  <2>2. CASE Completes(k)
    <3>1. plan[k] \in Plans
      BY <1>1, <2>1, <2>2, AfterDoneType
    <3>2. /\ listed' = Emptied(plan[k]) /\ announced' = announced \cup AllNames(plan[k])
          /\ models' = ClearModels(plan[k]) /\ dropped' = dropped \cup ModelsOf(plan[k])
      BY <1>2, <2>2 DEF LogSuccessTestNamed, LogSuccessTest, ModelsAfterDone
    <3>3. QED BY <1>1, <2>1, <3>1, <3>2, EmptyingAgrees
  <2>3. CASE ~Completes(k)
    <3>1. UNCHANGED <<models, dropped, nameVars>>
      BY <1>2, <2>3 DEF LogSuccessTestNamed, LogSuccessTest, ModelsAfterDone, nameVars
    <3>2. QED BY <3>1, SameListsAgree
  <2>4. QED BY <2>2, <2>3
<1>3. ASSUME NEW p \in Plans, CancelNamed(p) PROVE NamesIndexed' /\ ListsAgree'
  <2>1. /\ listed' = Emptied(p) /\ announced' = announced \cup AllNames(p)
        /\ models' = ClearModels(p) /\ dropped' = dropped \cup ModelsOf(p)
        /\ UNCHANGED nameIndex
    BY <1>3 DEF CancelNamed, CancelComputePlan
  <2>2. QED BY <1>1, <2>1, EmptyingAgrees
<1>4. CASE Unnamed
  BY <1>1, <1>4, UnnamedKeepsModels, SameListsAgree
<1>5. CASE UNCHANGED allVars
  <2>1. UNCHANGED <<models, dropped, nameVars>>
    BY <1>5 DEF allVars, vars, planVars
  <2>2. QED BY <2>1, SameListsAgree
<1>6. QED BY <1>2, <1>3, <1>4, <1>5, ReportListsAgree DEF NamesNext

\* A tuple is stored with the names of its first report, as one that has a result
\* is not started again.
LEMMA NamesStored ==
  ASSUME Inductive, ReportedEnded, AnswersKept, NEW n \in Nodes, NEW k \in Trains,
         NEW r \in Namings(k), LogSuccessNamed(n, k, r)
  PROVE  /\ DOMAIN out' = Trains
         /\ \A h \in Trains : h # k => out'[h] = out[h]
         /\ IF k \in reported THEN out' = out ELSE out'[k] = r
         /\ k \in reported /\ k \notin Renames => r = out[k]
<1>1. k \in Keys /\ LogSuccess(n, k)
  BY NamedReport
<1>2. k \in reported <=> Effective(k) = "done"
  <2>1. ASSUME k \in reported PROVE Effective(k) = "done"
    <3>1. status[k] \in {"done", "failed"}
      BY <2>1 DEF ReportedEnded
    <3>2. QED
      BY <1>1, <3>1, EffectiveFacts DEF LogSuccess, CheckUpdateTuple, StatusPossibilities, Closed
  <2>2. ASSUME Effective(k) = "done" PROVE k \in reported
    BY <1>1, <2>2, EffectiveFacts DEF Inductive, DoneReported
  <2>3. QED BY <2>1, <2>2
<1>3. out' = IF Effective(k) = "done" THEN out ELSE [out EXCEPT ![k] = r]
  BY DEF LogSuccessNamed
<1>4. Effective(k) = "done" /\ k \notin Renames => r = out[k]
  BY DEF LogSuccessNamed
<1>5. QED BY <1>2, <1>3, <1>4 DEF AnswersKept

LEMMA AnswersStep ==
  ASSUME Inductive, ReportedEnded, NamesIndexed, AnswersKept, [NamesNext]_allVars
  PROVE  AnswersKept'
<1>1. ASSUME NEW n \in Nodes, NEW k \in Trains, NEW r \in Namings(k), LogSuccessNamed(n, k, r)
      PROVE  AnswersKept'
  <2> DEFINE stored == \A h \in Trains \cap reported :
                         /\ out[h] \in Namings(h)
                         /\ \A x \in Roles(h) : <<h, x, out[h][x]>> \in answered
  <2>1. reported' = reported \cup {k}
    BY <1>1, NamedReport
  <2>2. /\ nameIndex \subseteq nameIndex'
        /\ answered' = answered \cup {<<k, x, r[x]>> : x \in Roles(k)}
        /\ \A x \in Roles(k) : <<r[x], k>> \in nameIndex'
    BY <1>1 DEF LogSuccessNamed
  <2>3. /\ DOMAIN out' = Trains
        /\ \A h \in Trains : h # k => out'[h] = out[h]
        /\ IF k \in reported THEN out' = out ELSE out'[k] = r
        /\ k \in reported /\ k \notin Renames => r = out[k]
    BY <1>1, NamesStored
  <2> HIDE DEF Namings, Roles
  <2>4. stored
    BY DEF AnswersKept
  <2>5. stored'
    BY <2>1, <2>2, <2>3, <2>4 DEF Namings, Roles
  <2>6. ASSUME NEW a \in answered
        PROVE  /\ a[1] \in Trains \cap reported' /\ a[2] \in Roles(a[1])
               /\ <<a[3], a[1]>> \in nameIndex'
               /\ a[1] \notin Renames => out'[a[1]][a[2]] = a[3]
    <3>1. /\ a[1] \in Trains \cap reported /\ a[2] \in Roles(a[1])
          /\ <<a[3], a[1]>> \in nameIndex
          /\ a[1] \notin Renames => out[a[1]][a[2]] = a[3]
      BY DEF AnswersKept
    <3>2. out'[a[1]] = out[a[1]]
      BY <2>3, <3>1
    <3>3. QED BY <2>1, <2>2, <3>1, <3>2
  <2>7. ASSUME NEW x \in Roles(k), NEW a, a = <<k, x, r[x]>>
        PROVE  /\ a[1] \in Trains \cap reported' /\ a[2] \in Roles(a[1])
               /\ <<a[3], a[1]>> \in nameIndex'
               /\ a[1] \notin Renames => out'[a[1]][a[2]] = a[3]
    <3>1. a[1] = k /\ a[2] = x /\ a[3] = r[x]
      BY <2>7
    <3>2. k \notin Renames => out'[k] = r
      BY <2>3
    <3>3. QED BY <2>1, <2>2, <3>1, <3>2
  <2>8. QED BY <2>2, <2>3, <2>5, <2>6, <2>7 DEF AnswersKept
<1>2. ASSUME UNCHANGED <<out, answered, nameIndex>>,
             \A k \in Trains : k \in reported' <=> k \in reported
      PROVE  AnswersKept'
  BY <1>2 DEF AnswersKept, Namings, Roles
<1>3. ASSUME NEW n \in Nodes, NEW k \in Testtuples, LogSuccessTestNamed(n, k) PROVE AnswersKept'
  <2>1. UNCHANGED <<out, answered, nameIndex>> /\ reported' = reported \cup {k}
    BY <1>3 DEF LogSuccessTestNamed, LogSuccessTest, RecordSuccess
  <2>2. k \notin Trains
    BY KindsAssumption
  <2>3. QED BY <1>2, <2>1, <2>2
<1>4. ASSUME NEW p \in Plans, CancelNamed(p) PROVE AnswersKept'
  <2>1. UNCHANGED <<out, answered, nameIndex, reported>>
    BY <1>4 DEF CancelNamed, CancelComputePlan, tupleVars
  <2>2. QED BY <1>2, <2>1
<1>5. CASE Unnamed
  <2>1. UNCHANGED <<out, answered, nameIndex, reported>>
    BY <1>5, UnnamedKeepsModels DEF Inductive, nameVars
  <2>2. QED BY <1>2, <2>1
<1>6. CASE UNCHANGED allVars
  <2>1. UNCHANGED <<out, answered, nameIndex, reported>>
    BY <1>6 DEF allVars, nameVars, vars, tupleVars
  <2>2. QED BY <1>2, <2>1
<1>7. QED BY <1>1, <1>3, <1>4, <1>5, <1>6 DEF NamesNext

LEMMA NamesInductiveInit == ASSUME NamesInit PROVE NamesInductive
<1>1. ReportedEnded
  BY DEF NamesInit, Init, ReportedEnded
<1>2. NamesIndexed
  BY DEF NamesInit, NamesIndexed
<1>3. AnswersKept
  BY DEF NamesInit, Init, AnswersKept
<1>4. ListsAgree
  BY DEF NamesInit, Init, ListsAgree
<1>5. QED BY <1>1, <1>2, <1>3, <1>4 DEF NamesInductive

-----------------------------------------------------------------------------
(* The theorems *)

\* The index, the lists and the answers to reports fit together after every
\* transaction.
THEOREM NamesInductiveHolds == NamesSpec => []NamesInductive
<1>1. Inductive /\ NamesInductive /\ [NamesNext]_allVars => NamesInductive'
  BY NamedSteps, EndedStep, NamesListsStep, AnswersStep DEF NamesInductive
<1>2. NamesSpec => []Inductive
  BY NamedSpecIsSpec, InductiveHolds, PTL
<1>3. QED BY <1>1, <1>2, NamesInductiveInit, PTL DEF NamesSpec

\* The names the workers' lists hold, and those announced for deletion, are names of
\* the models that Workflow lists and announces, repeated and renamed reports included.
THEOREM NameListsAgree == NamesSpec => []ListsAgree
<1>1. NamesInductive => ListsAgree
  BY DEF NamesInductive
<1>2. QED BY <1>1, NamesInductiveHolds, PTL

\* A name an accepted report gave leads to its tuple.
LEMMA AnswerLeads ==
  ASSUME NamesInductive, NEW a \in answered
  PROVE  /\ a[1] \in Trains \cap reported /\ a[2] \in Roles(a[1])
         /\ Known(a[3]) /\ Holder(a[3]) = a[1]
         /\ a[1] \notin Renames => out[a[1]][a[2]] = a[3]
<1>1. /\ a[1] \in Trains \cap reported /\ a[2] \in Roles(a[1]) /\ <<a[3], a[1]>> \in nameIndex
      /\ a[1] \notin Renames => out[a[1]][a[2]] = a[3]
  BY DEF NamesInductive, AnswersKept
<1>2. Placed(nameIndex)
  BY DEF NamesInductive, NamesIndexed, Placed
<1>3. QED BY <1>1, <1>2, HolderUnique DEF Known, Holder

\* The name a model is stored with is that of no other model.
LEMMA StoredLeads ==
  ASSUME NamesInductive, NEW k \in Trains \cap reported, NEW x \in Roles(k)
  PROVE  <<k, x, out[k][x]>> \in answered /\ ModelOf(out[k][x]) = <<k, x>>
<1>1. out[k] \in Namings(k) /\ <<k, x, out[k][x]>> \in answered
  BY DEF NamesInductive, AnswersKept
<1>2. Holder(out[k][x]) = k
  <2> DEFINE a == <<k, x, out[k][x]>>
  <2>1. a \in answered /\ a[1] = k /\ a[3] = out[k][x]
    BY <1>1
  <2> HIDE DEF a
  <2>2. QED BY <2>1, AnswerLeads
<1>3. CASE k \notin CompositeTraintuples
  BY <1>1, <1>2, <1>3 DEF ModelOf, Roles
<1>4. CASE k \in CompositeTraintuples
  <2>1. x \in {"head", "trunk"}
    BY <1>4 DEF Roles
  <2>2. (out[k]["head"] = out[k][x]) <=> (x = "head")
    BY <1>1, <1>4, <2>1 DEF Namings, Roles
  <2>3. QED BY <1>1, <1>2, <1>4, <2>1, <2>2 DEF ModelOf
<1>5. QED BY <1>3, <1>4

\* queryModel finds each model, the head of a tuple or its trunk, under the name it
\* is stored with, and its tuple under every name a report gave, with whatever names
\* reports are repeated.
THEOREM NamesLeadToModels == NamesSpec => []ModelsFound
<1>1. NamesInductive => ModelsFound
  BY AnswerLeads, StoredLeads DEF ModelsFound
<1>2. QED BY <1>1, NamesInductiveHolds, PTL

\* When reports are repeated with the names of the first one, queryModel finds for
\* each name the model that was given it.
THEOREM AnswersLeadToModels ==
  ASSUME Renames = {}
  PROVE  NamesSpec => []EveryAnswerFound
<1>1. ASSUME NamesInductive, NEW a \in answered PROVE ModelOf(a[3]) = <<a[1], a[2]>>
  <2>1. a[1] \in Trains \cap reported /\ a[2] \in Roles(a[1]) /\ out[a[1]][a[2]] = a[3]
    BY <1>1, AnswerLeads
  <2>2. QED BY <1>1, <2>1, StoredLeads
<1>2. NamesInductive => EveryAnswerFound
  BY <1>1 DEF EveryAnswerFound
<1>3. QED BY <1>2, NamesInductiveHolds, PTL

\* What a step announces for deletion.
LEMMA NameDropStep ==
  ASSUME ReuseLimit = 0, Inductive, PlanInductive, NamesInductive, NamesNext,
         NEW m \in announced' \ announced, planStatus'[plan[Holder(m)']] # "canceled",
         NEW c \in Children(Holder(m)'), plan[c] = plan[Holder(m)']
  PROVE  c \in reported'
<1>1. TypeOK /\ NamesIndexed /\ ListsAgree
  BY DEF Inductive, NamesInductive
<1>2. \A q \in Plans : \A h \in ModelsOf(q) : plan[h] = q
  BY DEF ModelsOf, PlanInductive, ModelsPlaced
<1>3. \A q \in Plans : \A x \in AllNames(q) : Known(x) /\ Holder(x) \in ModelsOf(q)
  <2>1. \A q \in Plans : {Holder(x) : x \in AllNames(q)} = ModelsOf(q)
    BY <1>1, AllNamesAgree
  <2>2. \A q \in Plans : \A x \in AllNames(q) : Known(x)
    BY <1>1, EmptiedAgrees
  <2> HIDE DEF Holder
  <2>3. QED BY <2>1, <2>2
<1>4. ASSUME NEW n \in Nodes, NEW k \in Trains, NEW r \in Namings(k), LogSuccessNamed(n, k, r)
      PROVE  c \in reported'
  <2> DEFINE p == plan[k]
             L == ListedAfterDone(k)[p][Worker[k]]
  <2>1. k \in Keys /\ reported' = reported \cup {k} /\ Worker[k] \in Nodes
    BY <1>4, NamedReport
  <2>2. /\ Placed(nameIndex') /\ nameIndex \subseteq nameIndex'
    BY <1>1, <1>4, NamedIndex
  <2>3. ASSUME m \in GoneAfterDone(k)
        PROVE  Completes(k) /\ p \in Plans /\ Known(m) /\ Holder(m) \in ModelsOf(p)
    <3>1. Completes(k) /\ m \in AllNames(p)
      BY <2>3 DEF GoneAfterDone
    <3>2. p \in Plans
      BY <1>1, <2>1, <3>1, AfterDoneType
    <3>3. QED BY <1>3, <3>1, <3>2
  <2>4. ASSUME m \notin GoneAfterDone(k)
        PROVE  p \in Plans /\ Known(m) /\ Holder(m) \in ModelsOf(p) /\ ~InUse(Holder(m), k)
    <3>1. p \in CleanPlans
      BY <1>1, <1>4, <2>4, KeptReportLists
    <3>2. p \in Plans
      BY <3>1, PlansAssumption
    <3>3. announced' = announced \cup (GoneAfterDone(k) \cup (L \ UsedNames(L, k)))
      BY <1>1, <1>4, <3>1, CleanedReportLists
    <3>4. m \in L /\ ~NameInUse(m, k)
      <4> HIDE DEF L
      <4>1. QED BY <2>4, <3>3 DEF UsedNames
    <3>5. m \in listed[p][Worker[k]]
      BY <1>1, <2>1, <3>2, <3>4, AfterDoneAgrees
    <3>6. m \in AllNames(p)
      BY <2>1, <3>5 DEF AllNames
    <3>7. Known(m) /\ Holder(m) \in ModelsOf(p)
      BY <1>3, <3>2, <3>6
    <3>8. QED BY <1>1, <3>2, <3>4, <3>7, NameInUseFacts
  <2>5. /\ p \in Plans /\ Known(m) /\ Holder(m) \in ModelsOf(p)
        /\ Completes(k) \/ ~InUse(Holder(m), k)
    BY <2>3, <2>4
  <2>6. Holder(m)' = Holder(m) /\ plan[Holder(m)] = p
    BY <1>1, <1>2, <2>2, <2>5, HolderKept
  <2> HIDE DEF Holder
  <2>7. c \in reported \cup {k}
    BY <2>1, <2>5, <2>6, UsersReported
  <2>8. QED BY <2>1, <2>7
<1>5. ASSUME NEW n \in Nodes, NEW k \in Testtuples, LogSuccessTestNamed(n, k)
      PROVE  c \in reported'
  <2>1. /\ k \in Keys /\ reported' = reported \cup {k} /\ UNCHANGED nameIndex
        /\ Completes(k) /\ m \in AllNames(plan[k])
    BY <1>5 DEF LogSuccessTestNamed, LogSuccessTest, RecordSuccess, Keys
  <2>2. plan[k] \in Plans
    BY <1>1, <2>1, AfterDoneType
  <2>3. Holder(m)' = Holder(m) /\ Holder(m) \in ModelsOf(plan[k])
    BY <1>3, <2>1, <2>2 DEF Holder
  <2> HIDE DEF Holder
  <2>4. plan[Holder(m)] = plan[k]
    BY <1>2, <2>2, <2>3
  <2>5. c \in reported \cup {k}
    BY <2>1, <2>2, <2>3, <2>4, UsersReported
  <2>6. QED BY <2>1, <2>5
<1>6. ASSUME NEW p \in Plans, CancelNamed(p) PROVE FALSE
  <2>1. /\ planStatus' = [planStatus EXCEPT ![p] = "canceled"] /\ UNCHANGED nameIndex
        /\ m \in AllNames(p)
    BY <1>6 DEF CancelNamed, CancelComputePlan
  <2>2. Holder(m)' = Holder(m) /\ Holder(m) \in ModelsOf(p)
    BY <1>3, <2>1 DEF Holder
  <2> HIDE DEF Holder
  <2>3. plan[Holder(m)] = p
    BY <1>2, <2>2
  <2>4. QED BY <1>1, <2>1, <2>2, <2>3 DEF TypeOK
<1>7. CASE Unnamed
  BY <1>7 DEF Unnamed, nameVars
<1>8. QED BY <1>4, <1>5, <1>6, <1>7 DEF NamesNext

\* No name, of a head or of a trunk, is announced for deletion before the tuples of
\* the plan that take its model have reported, unless the plan is being canceled.
THEOREM NamesAreDroppedUnused ==
  ASSUME ReuseLimit = 0
  PROVE  NamesSpec => NamesDroppedUnused
<1>1. Inductive /\ PlanInductive /\ NamesInductive /\ [NamesNext]_allVars =>
        [\A m \in announced' \ announced :
           LET k == Holder(m)'
           IN  planStatus'[plan[k]] # "canceled" =>
                 \A c \in Children(k) : plan[c] = plan[k] => c \in reported']_allVars
  BY NameDropStep
<1>2. NamesSpec => []Inductive /\ []PlanInductive
  BY NamedSpecIsSpec, InductiveHolds, PlanInductiveHolds, PTL
<1>3. QED BY <1>1, <1>2, NamesInductiveHolds, PTL DEF NamesSpec, NamesDroppedUnused
=============================================================================
