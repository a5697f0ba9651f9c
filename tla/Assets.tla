------------------------------- MODULE Assets -------------------------------
(***************************************************************************)
(* The registries of the ledger: nodes, algos, data managers, data samples *)
(* and objectives, with the associations between them.  One action is one  *)
(* smart contract; a refused request is no step.                           *)
(*                                                                         *)
(* Clients use different keys for different types of assets, as the Get*   *)
(* functions, which test the asset type, make sure.  Names, checksums,     *)
(* addresses and metadata are left out.                                    *)
(***************************************************************************)
EXTENDS Permissions, FiniteSets

CONSTANTS
  Algos, CompositeAlgos, AggregateAlgos,   \* the keys of each type of asset
  DataManagers, DataSamples, Objectives,
  None,               \* no node, no key, no dataset
  InputPermissions    \* the permissions clients ask for

AllAlgos  == Algos \cup CompositeAlgos \cup AggregateAlgos
AssetKeys == AllAlgos \cup DataManagers \cup DataSamples \cup Objectives

Dataset == [manager : DataManagers, samples : SUBSET DataSamples]

ASSUME InputAssumption == InputPermissions \subseteq Permission
ASSUME NoneAssumption == None \notin Nodes \cup AssetKeys \cup Dataset

VARIABLES
  nodes,        \* the registered nodes
  owner,        \* [AssetKeys -> Nodes, or None for an unused key]
  permissions,  \* [AssetKeys -> Permission] (samples have none of their own)
  managersOf,   \* [DataSamples -> its data managers]
  testOnly,     \* the samples registered for tests only
  objectiveOf,  \* [DataManagers -> its objective, or None]
  testDataset,  \* [Objectives -> Dataset, or None]
  sampleIndex   \* entries of dataSample~dataManager~testOnly~key

assetVars == <<nodes, owner, permissions, managersOf, testOnly,
               objectiveOf, testDataset, sampleIndex>>

Known(k) == owner[k] # None

AssetInit ==
  /\ nodes = {}
  /\ owner = [k \in AssetKeys |-> None]
  /\ permissions = [k \in AssetKeys |-> [public |-> FALSE, ids |-> {}]]
  /\ managersOf = [s \in DataSamples |-> {}] /\ testOnly = {}
  /\ objectiveOf = [m \in DataManagers |-> None]
  /\ testDataset = [o \in Objectives |-> None]
  /\ sampleIndex = {}

-----------------------------------------------------------------------------
(* The caller n is any node of the channel, registered or not. *)

RegisterNode(n) ==
  /\ nodes' = nodes \cup {n}
  /\ UNCHANGED <<owner, permissions, managersOf, testOnly, objectiveOf,
                 testDataset, sampleIndex>>

\* NewPermissions: the nodes listed for a private asset must be registered.
Granted(in) == in.public \/ in.ids \subseteq nodes

\* LedgerDB.Add of an asset of the caller, with the permissions asked for.
AddAsset(n, k, in) ==
  /\ ~Known(k) /\ Granted(in)
  /\ owner' = [owner EXCEPT ![k] = n]
  /\ permissions' = [permissions EXCEPT ![k] = NewPermission(in, n)]

\* The three registries of algos differ in the type of what they store.
AddAlgo(n, a, in) ==
  /\ AddAsset(n, a, in)
  /\ UNCHANGED <<nodes, managersOf, testOnly, objectiveOf, testDataset,
                 sampleIndex>>

RegisterAlgo(n, a, in)          == a \in Algos /\ AddAlgo(n, a, in)
RegisterCompositeAlgo(n, a, in) == a \in CompositeAlgos /\ AddAlgo(n, a, in)
RegisterAggregateAlgo(n, a, in) == a \in AggregateAlgos /\ AddAlgo(n, a, in)

RegisterDataManager(n, m, o, in) ==
  /\ o # None => Known(o)
  /\ AddAsset(n, m, in)
  /\ objectiveOf' = [objectiveOf EXCEPT ![m] = o]
  /\ UNCHANGED <<nodes, managersOf, testOnly, testDataset, sampleIndex>>

\* A plausible bug: it is enough that the data managers exist.
OwnsNone(n, M) == \A m \in M : Known(m)

\* checkDataManagerOwner
OwnsManagers(n, M) == \A m \in M : owner[m] = n

\* A plausible bug: new entries are all put among the train samples.
IndexedForTraining(S, M, forTest) == {<<m, FALSE, s>> : m \in M, s \in S}

\* The index entries of the samples S under the data managers M.
Indexed(S, M, forTest) == {<<m, s \in forTest, s>> : m \in M, s \in S}

\* The samples of a request share their data managers and their purpose.
RegisterDataSample(n, S, M, test) ==
  /\ S # {} /\ \A s \in S : ~Known(s)
  /\ OwnsManagers(n, M)
  /\ owner' = [k \in AssetKeys |-> IF k \in S THEN n ELSE owner[k]]
  /\ managersOf' = [s \in DataSamples |-> IF s \in S THEN M ELSE managersOf[s]]
  /\ testOnly' = IF test THEN testOnly \cup S ELSE testOnly
  /\ sampleIndex' = sampleIndex \cup Indexed(S, M, testOnly')
  /\ UNCHANGED <<nodes, permissions, objectiveOf, testDataset>>

\* A plausible bug: the samples' owner is not compared with the caller.
SamplesUnchecked(n, S) == \A s \in S : Known(s)

\* checkDataSampleOwner
OwnsSamples(n, S) == \A s \in S : owner[s] = n

UpdateDataSample(n, S, M) ==
  /\ S # {} /\ M # {}
  /\ OwnsManagers(n, M) /\ OwnsSamples(n, S)
  /\ managersOf' = [s \in DataSamples |-> managersOf[s] \cup (IF s \in S THEN M ELSE {})]
  /\ sampleIndex' = sampleIndex \cup Indexed(S, M, testOnly)
  /\ UNCHANGED <<nodes, owner, permissions, testOnly, objectiveOf, testDataset>>

\* A plausible bug: the last objective wins.
ObjectiveReplaced(m, o) ==
  objectiveOf' = [d \in DataManagers |-> IF d = m /\ Known(m) THEN o ELSE objectiveOf[d]]

\* addObjectiveDataManager: nothing happens to a data manager that does not
\* exist; one that has an objective refuses another.
AddObjectiveDataManager(m, o) ==
  \/ ~Known(m) /\ UNCHANGED objectiveOf
  \/ /\ Known(m) /\ objectiveOf[m] = None
     /\ objectiveOf' = [objectiveOf EXCEPT ![m] = o]

\* Whoever asks, and whether o is an objective or not.
UpdateDataManager(m, o) ==
  /\ AddObjectiveDataManager(m, o)
  /\ UNCHANGED <<nodes, owner, permissions, managersOf, testOnly, testDataset,
                 sampleIndex>>

\* checkSameDataManager
SameDataManager(m, S) == \A s \in S : Known(s) /\ m \in managersOf[s]

AllTestOnly(S) == S \subseteq testOnly

\* A plausible bug: a dataset that is not test only is taken for train only.
NotAllTestOnly(S) == ~AllTestOnly(S)

AllTrainOnly(S) == S \cap testOnly = {}

\* With a test dataset or without one; the data manager of the dataset is only
\* looked up through its samples.
RegisterObjective(n, o, d, in) ==
  /\ \/ d = None /\ UNCHANGED objectiveOf
     \/ /\ d # None
        /\ SameDataManager(d.manager, d.samples) /\ AllTestOnly(d.samples)
        /\ AddObjectiveDataManager(d.manager, o)
  /\ AddAsset(n, o, in)
  /\ testDataset' = [testDataset EXCEPT ![o] = d]
  /\ UNCHANGED <<nodes, managersOf, testOnly, sampleIndex>>

AssetNext ==
  \E n \in Nodes :
    \/ RegisterNode(n)
    \/ \E in \in InputPermissions :
         \/ \E a \in AllAlgos : \/ RegisterAlgo(n, a, in)
                               \/ RegisterCompositeAlgo(n, a, in)
                               \/ RegisterAggregateAlgo(n, a, in)
         \/ \E m \in DataManagers, o \in Objectives \cup {None} :
              RegisterDataManager(n, m, o, in)
         \/ \E o \in Objectives, d \in Dataset \cup {None} :
              RegisterObjective(n, o, d, in)
    \/ \E S \in SUBSET DataSamples, M \in SUBSET DataManagers :
         \/ \E test \in BOOLEAN : RegisterDataSample(n, S, M, test)
         \/ UpdateDataSample(n, S, M)
    \/ \E m \in DataManagers, o \in Objectives : UpdateDataManager(m, o)

AssetSpec == AssetInit /\ [][AssetNext]_assetVars

-----------------------------------------------------------------------------
(* queryDataset *)

\* getDataset, for the train and the test samples of m.
DatasetSamples(m, test) == {s \in DataSamples : <<m, test, s>> \in sampleIndex}

-----------------------------------------------------------------------------
(* Properties *)

AssetTypeOK ==
  /\ nodes \subseteq Nodes
  /\ owner \in [AssetKeys -> Nodes \cup {None}]
  /\ permissions \in [AssetKeys -> Permission]
  /\ managersOf \in [DataSamples -> SUBSET DataManagers]
  /\ testOnly \subseteq {s \in DataSamples : Known(s)}
  /\ objectiveOf \in [DataManagers -> Objectives \cup {None}]
  /\ testDataset \in [Objectives -> Dataset \cup {None}]
  /\ sampleIndex \subseteq DataManagers \X BOOLEAN \X DataSamples

\* No node ever gets its samples into the dataset of another one, nor those of
\* another one into its own: a sample and all its data managers have one owner,
\* by whatever sequence of registrations and updates they came together.
DatasetsOfOneOwner ==
  \A s \in DataSamples : \A m \in managersOf[s] : Known(s) /\ owner[m] = owner[s]

\* A dataset as queryDataset lists it, from the index, is the dataset the checks
\* of tuples and objectives use, from the samples, split by purpose.
DatasetsListed ==
  \A m \in DataManagers :
    /\ DatasetSamples(m, FALSE) = {s \in DataSamples \ testOnly : m \in managersOf[s]}
    /\ DatasetSamples(m, TRUE)  = {s \in testOnly : m \in managersOf[s]}

\* The test dataset of an objective is made of test samples of one data manager
\* that belongs to this objective: no other objective is evaluated on it.
TestDatasetsExclusive ==
  \A o \in Objectives :
    testDataset[o] # None /\ testDataset[o].samples # {} =>
      LET d == testDataset[o]
      IN  /\ objectiveOf[d.manager] = o
          /\ d.samples \subseteq DatasetSamples(d.manager, TRUE)
=============================================================================
