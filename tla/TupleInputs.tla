---------------------------- MODULE TupleInputs ----------------------------
(***************************************************************************)
(* What the creation of a tuple checks and derives from the assets it      *)
(* names (SetFromInput, SetFromParents, SetFromTraintuple): data, workers, *)
(* permissions and certification; and the queries that read tuples back.   *)
(* Module Workflow takes over from there: statuses and compute plans are   *)
(* left out here, but for the testtuples that have a result.               *)
(*                                                                         *)
(* The lists of data samples are sets: a testtuple that repeats a sample   *)
(* of its objective's dataset is not told from one that does not.          *)
(***************************************************************************)
EXTENDS Assets, FiniteSetsExt

CONSTANTS
  Traintuples, CompositeTraintuples, Aggregatetuples, Testtuples,
  Tagged      \* the keys of the tuples that clients create with the tag

Trains == Traintuples \cup CompositeTraintuples \cup Aggregatetuples
TupleKeys == Trains \cup Testtuples

ASSUME TupleKeysAssumption == Testtuples \cap Trains = {}

VARIABLES
  tuple,      \* [TupleKeys -> record of the tuple, or None]
  tagIndex,   \* entries <<type, key>> of the *~tag~key indexes, for one tag
  done        \* the testtuples that have reported their performance

vars == <<assetVars, tuple, tagIndex, done>>

Created == {k \in TupleKeys : tuple[k] # None}

Init == /\ AssetInit
        /\ tuple = [k \in TupleKeys |-> None]
        /\ tagIndex = {} /\ done = {}

-----------------------------------------------------------------------------
(* Training tuples *)

\* The algo is of the type the tuple needs, and the caller may process it.
MayUseAlgo(n, a, type) ==
  a \in type /\ Known(a) /\ CanProcess(permissions[a], owner[a], n)

\* Train samples of a data manager that the caller may process; maybe none, as a
\* compute plan's items are not validated one by one.
MayTrainOn(n, d) ==
  /\ SameDataManager(d.manager, d.samples) /\ AllTrainOnly(d.samples)
  /\ Known(d.manager)
  /\ CanProcess(permissions[d.manager], owner[d.manager], n)

\* Add of a tuple, with its entry in a tag index.
AddTuple(k, rec, type) ==
  /\ tuple[k] = None
  /\ tuple' = [tuple EXCEPT ![k] = rec]
  /\ tagIndex' = IF k \in Tagged THEN tagIndex \cup {<<type, k>>} ELSE tagIndex
  /\ UNCHANGED <<assetVars, done>>

CreateTraintuple(n, k) ==
  \E a \in AllAlgos, d \in Dataset, ins \in SUBSET (Created \cap Trains) :
    /\ MayUseAlgo(n, a, Algos) /\ MayTrainOn(n, d)
    /\ AddTuple(k, [creator |-> n, algo |-> a, data |-> d, worker |-> owner[d.manager],
                    parents |-> ins,
                    out |-> MergePermissions(permissions[d.manager], permissions[a])],
                "traintuple")

\* Without in-models, or with the head of a composite traintuple of the same
\* worker and the trunk or model of any training tuple.
CompositeInModels(w) ==
  {{}} \cup {{head, trunk} : head \in {c \in Created \cap CompositeTraintuples :
                                          tuple[c].worker = w},
                             trunk \in Created \cap Trains}

\* The head stays with the worker, the trunk has the permissions asked for.
CreateCompositeTraintuple(n, k) ==
  \E a \in AllAlgos, d \in Dataset, in \in InputPermissions :
    /\ MayUseAlgo(n, a, CompositeAlgos) /\ MayTrainOn(n, d) /\ Granted(in)
    /\ \E ins \in CompositeInModels(owner[d.manager]) :
         AddTuple(k, [creator |-> n, algo |-> a, data |-> d, worker |-> owner[d.manager],
                      parents |-> ins, out |-> NewPermission(in, n),
                      head |-> [public |-> FALSE, ids |-> {owner[d.manager]}]],
                "compositeTraintuple")

\* The caller and whoever may process one of the in-models.
UnionOfParents(n, ins) ==
  FoldSet(UnionPermissions, [public |-> FALSE, ids |-> {n}], {tuple[k].out : k \in ins})

\* The worker is any registered node.
CreateAggregatetuple(n, k) ==
  \E a \in AllAlgos, w \in nodes, ins \in SUBSET (Created \cap Trains) :
    /\ MayUseAlgo(n, a, AggregateAlgos)
    /\ AddTuple(k, [creator |-> n, algo |-> a, data |-> None, worker |-> w,
                    parents |-> ins, out |-> UnionOfParents(n, ins)],
                "aggregatetuple")

-----------------------------------------------------------------------------
(* Testtuples *)

\* The permissions a testtuple of m needs: those of the head, if m has one.
TestPermissions(m) ==
  IF m \in CompositeTraintuples THEN tuple[m].head ELSE tuple[m].out

\* A plausible bug: any test on the objective's data manager is certified.
CertifiedByManager(o, d) == testDataset[o] # None /\ testDataset[o].manager = d.manager

Certified(o, d) == testDataset[o] = d

\* The dataset of a testtuple of objective o: given in the request, or that of
\* the objective.
TestData(o) ==
  {d \in Dataset : d.samples # {} /\ SameDataManager(d.manager, d.samples)}
    \cup ({testDataset[o]} \ {None})

\* The algo and the rest of the record are those of the tuple under test; the
\* tag is indexed under the object type of traintuples.
CreateTesttuple(n, k) ==
  \E m \in Created \cap Trains, o \in Objectives :
    /\ CanProcess(TestPermissions(m), tuple[m].creator, n)
    /\ Known(o)
    /\ \E d \in TestData(o) :
         /\ Known(d.manager)
         /\ AddTuple(k, [creator |-> n, algo |-> tuple[m].algo, data |-> d,
                         worker |-> owner[d.manager], parents |-> {m},
                         objective |-> o, certified |-> Certified(o, d)],
                "traintuple")

\* logSuccessTest, after its logStartTest.
LogSuccessTest(k) ==
  /\ k \in Created /\ done' = done \cup {k}
  /\ UNCHANGED <<assetVars, tuple, tagIndex>>

TupleNext ==
  \/ \E n \in Nodes :
       \/ \E k \in Traintuples : CreateTraintuple(n, k)
       \/ \E k \in CompositeTraintuples : CreateCompositeTraintuple(n, k)
       \/ \E k \in Aggregatetuples : CreateAggregatetuple(n, k)
       \/ \E k \in Testtuples : CreateTesttuple(n, k)
  \/ \E k \in Testtuples : LogSuccessTest(k)

Next == (AssetNext /\ UNCHANGED <<tuple, tagIndex, done>>) \/ TupleNext

Spec == Init /\ [][Next]_vars

-----------------------------------------------------------------------------
(* Queries *)

CertifiedTests(o) ==
  {t \in Created \cap Testtuples : tuple[t].objective = o /\ tuple[t].certified}

\* outputBoardTuple.Fill looks the algo up among the algos of traintuples.
FillsLine(t) == tuple[t].algo \in Algos

\* queryObjectiveLeaderboard: a line that cannot be filled ends the query with an
\* error.
Leaderboard(o) ==
  LET ranked == CertifiedTests(o) \cap done
  IN  IF \A t \in ranked : FillsLine(t) THEN ranked ELSE None

\* queryFilter by tag looks under the object type of the index it is asked for.
FilterByTag(type) == {e[2] : e \in {e \in tagIndex : e[1] = type}}

\* queryModelDetails has one place for a certified testtuple, which each one
\* overwrites, and a list for the others: the sets it can return.
ModelDetails(m) ==
  LET tests == {t \in Created \cap Testtuples : m \in tuple[t].parents}
      certified == {t \in tests : tuple[t].certified}
  IN  {(tests \ certified) \cup {last} : last \in certified}
        \cup {t \in {tests} : certified = {}}

-----------------------------------------------------------------------------
(* Properties *)

WithData == {k \in Created : tuple[k].data # None}

\* No model is ever certified on data it, or any other model, was trained on:
\* whatever is registered, associated and created in whatever order, the samples
\* of certified testtuples are in no training tuple's dataset.
NotTestedOnTrainData ==
  \A o \in Objectives : \A t \in CertifiedTests(o) : \A k \in WithData \cap Trains :
    tuple[t].data.samples \cap tuple[k].data.samples = {}

\* The lines of a leaderboard are comparable: all certified testtuples of an
\* objective ran on the same samples, whichever way they got them.
CertifiedTestsComparable ==
  \A o \in Objectives : \A t, u \in CertifiedTests(o) : tuple[t].data = tuple[u].data

\* A worker is only given tuples whose samples are all its own, although the
\* worker is read off the data manager and the samples were registered, and
\* associated with it, by other requests.
WorkersOwnTheirData ==
  \A k \in WithData : \A s \in tuple[k].data.samples : owner[s] = tuple[k].worker

\* "returns for an objective, all its certified testtuples with a done status"
LeaderboardComplete ==
  \A o \in Objectives : Leaderboard(o) = CertifiedTests(o) \cap done

\* "returns all elements of the ledger matching some filters": a tuple with the
\* tag is among the results of the filter for its type.
TaggedTestsFound ==
  \A t \in Testtuples : \A type \in {"traintuple", "testtuple"} :
    <<type, t>> \in tagIndex => t \in FilterByTag("testtuple")

\* "get certified and non-certified testtuples related to traintuple"
ModelDetailsComplete ==
  \A m \in Created \cap Trains :
    ModelDetails(m) = {{t \in Created \cap Testtuples : m \in tuple[t].parents}}
=============================================================================
