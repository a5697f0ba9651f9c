------------------------- MODULE TupleInputsProofs -------------------------
(***************************************************************************)
(* Theorems about assets and the tuples created from them, for every set   *)
(* of nodes, keys and permissions.                                         *)
(***************************************************************************)
EXTENDS TupleInputs, TLAPS

-----------------------------------------------------------------------------
(* Permissions *)

\* mergePermissions lets in exactly the nodes both permissions let in, so that
\* an out-model is never open to a node that may not process one of the assets
\* it was made from.
THEOREM MergeAdmitsBoth ==
  ASSUME NEW x \in Permission, NEW y \in Permission
  PROVE  /\ MergePermissions(x, y) \in Permission
         /\ Admitted(MergePermissions(x, y)) = Admitted(x) \cap Admitted(y)
<1>1. MergePermissions(x, y) \in Permission
  BY DEF Permission, MergePermissions
<1>2. ASSUME NEW n \in Nodes
      PROVE  n \in Admitted(MergePermissions(x, y))
               <=> n \in Admitted(x) /\ n \in Admitted(y)
  <2>1. CASE x.public /\ y.public
    BY <2>1 DEF Permission, MergePermissions, Admitted
  <2>2. CASE x.public /\ ~y.public
    BY <2>2 DEF Permission, MergePermissions, Admitted
  <2>3. CASE ~x.public /\ y.public
    BY <2>3 DEF Permission, MergePermissions, Admitted
  <2>4. CASE ~x.public /\ ~y.public
    BY <2>4 DEF Permission, MergePermissions, Admitted
  <2> QED BY <2>1, <2>2, <2>3, <2>4
<1> QED BY <1>1, <1>2 DEF Admitted

\* getNodesUnion and Union let in the nodes either permission lets in, so that
\* whoever may process an in-model of an aggregate may process the aggregate.
THEOREM UnionAdmitsEither ==
  ASSUME NEW x \in Permission, NEW y \in Permission
  PROVE  /\ UnionPermissions(x, y) \in Permission
         /\ Admitted(UnionPermissions(x, y)) = Admitted(x) \cup Admitted(y)
<1>1. CASE x.public \/ y.public
  BY <1>1 DEF Permission, UnionPermissions, Admitted
<1>2. CASE ~x.public /\ ~y.public
  BY <1>2 DEF Permission, UnionPermissions, Admitted
<1> QED BY <1>1, <1>2

\* include answers whether every node that other lets in is let in.  For private
\* permissions and for public ones this is exact; a private list that names every
\* node does not include a public permission, though it lets in the same nodes.
THEOREM IncludesIsSound ==
  ASSUME NEW x \in Permission, NEW y \in Permission, Includes(x, y)
  PROVE  Admitted(y) \subseteq Admitted(x)
<1>1. CASE x.public
  BY <1>1 DEF Permission, Admitted
<1>2. CASE ~x.public
  BY <1>2 DEF Permission, Includes, Admitted
<1> QED BY <1>1, <1>2

\* The three operations agree: a merge is included in each permission it was
\* made from, and each of these in their union.
THEOREM MergeIncluded ==
  ASSUME NEW x \in Permission, NEW y \in Permission
  PROVE  /\ Includes(x, MergePermissions(x, y))
         /\ Includes(y, MergePermissions(x, y))
         /\ Includes(UnionPermissions(x, y), x)
         /\ Includes(UnionPermissions(x, y), y)
BY DEF Permission, Includes, MergePermissions, UnionPermissions

-----------------------------------------------------------------------------
(* Assets *)

\* What no smart contract takes back: an asset keeps its owner, a sample its
\* purpose and its data managers, an objective its test dataset, a data manager
\* the objective it has.
Kept ==
  /\ \A k \in AssetKeys : Known(k) => owner'[k] = owner[k]
  /\ \A s \in DataSamples : Known(s) => /\ (s \in testOnly') <=> (s \in testOnly)
                                        /\ managersOf[s] \subseteq managersOf'[s]
  /\ \A o \in Objectives : Known(o) => testDataset'[o] = testDataset[o]
  /\ \A m \in DataManagers :
       Known(m) /\ objectiveOf[m] # None => objectiveOf'[m] = objectiveOf[m]

LEMMA NewPermissionType ==
  ASSUME NEW in \in InputPermissions, NEW n \in Nodes
  PROVE  NewPermission(in, n) \in Permission
BY InputAssumption DEF NewPermission, Permission

LEMMA AddAssetFacts ==
  ASSUME AssetTypeOK, NEW n \in Nodes, NEW k \in AssetKeys,
         NEW in \in InputPermissions, AddAsset(n, k, in)
  PROVE  /\ owner[k] = None
         /\ owner' \in [AssetKeys -> Nodes \cup {None}] /\ owner'[k] = n
         /\ \A x \in AssetKeys \ {k} : owner'[x] = owner[x]
         /\ permissions' \in [AssetKeys -> Permission]
BY NewPermissionType DEF AddAsset, AssetTypeOK, Known

LEMMA AddObjectiveFacts ==
  ASSUME AssetTypeOK, NEW m \in DataManagers, NEW o \in Objectives,
         AddObjectiveDataManager(m, o)
  PROVE  /\ objectiveOf' \in [DataManagers -> Objectives \cup {None}]
         /\ Known(m) => objectiveOf[m] = None /\ objectiveOf'[m] = o
         /\ \A d \in DataManagers :
              Known(d) /\ objectiveOf[d] # None => objectiveOf'[d] = objectiveOf[d]
BY DEF AddObjectiveDataManager, AssetTypeOK

LEMMA IndexedType ==
  ASSUME NEW S \in SUBSET DataSamples, NEW M \in SUBSET DataManagers, NEW T
  PROVE  Indexed(S, M, T) \subseteq DataManagers \X BOOLEAN \X DataSamples
<1> SUFFICES ASSUME NEW m \in M, NEW s \in S
             PROVE  <<m, s \in T, s>> \in DataManagers \X BOOLEAN \X DataSamples
  BY DEF Indexed
<1>1. (s \in T) \in BOOLEAN
  OBVIOUS
<1>2. \A b \in BOOLEAN : <<m, b, s>> \in DataManagers \X BOOLEAN \X DataSamples
  OBVIOUS
<1> QED BY <1>1, <1>2

\* The smart contracts that change the registries.
LEMMA AssetCases ==
  ASSUME AssetNext
  PROVE  \E n \in Nodes :
    \/ RegisterNode(n)
    \/ \E in \in InputPermissions, a \in AllAlgos : AddAlgo(n, a, in)
    \/ \E in \in InputPermissions, m \in DataManagers, o \in Objectives \cup {None} :
         RegisterDataManager(n, m, o, in)
    \/ \E in \in InputPermissions, o \in Objectives, d \in Dataset \cup {None} :
         RegisterObjective(n, o, d, in)
    \/ \E S \in SUBSET DataSamples, M \in SUBSET DataManagers, test \in BOOLEAN :
         RegisterDataSample(n, S, M, test)
    \/ \E S \in SUBSET DataSamples, M \in SUBSET DataManagers : UpdateDataSample(n, S, M)
    \/ \E m \in DataManagers, o \in Objectives : UpdateDataManager(m, o)
BY DEF AssetNext, RegisterAlgo, RegisterCompositeAlgo, RegisterAggregateAlgo

LEMMA AssetStepTypeAndKept ==
  ASSUME AssetTypeOK, AssetNext
  PROVE  AssetTypeOK' /\ Kept
<1>1. PICK n \in Nodes :
    \/ RegisterNode(n)
    \/ \E in \in InputPermissions, a \in AllAlgos : AddAlgo(n, a, in)
    \/ \E in \in InputPermissions, m \in DataManagers, o \in Objectives \cup {None} :
         RegisterDataManager(n, m, o, in)
    \/ \E in \in InputPermissions, o \in Objectives, d \in Dataset \cup {None} :
         RegisterObjective(n, o, d, in)
    \/ \E S \in SUBSET DataSamples, M \in SUBSET DataManagers, test \in BOOLEAN :
         RegisterDataSample(n, S, M, test)
    \/ \E S \in SUBSET DataSamples, M \in SUBSET DataManagers : UpdateDataSample(n, S, M)
    \/ \E m \in DataManagers, o \in Objectives : UpdateDataManager(m, o)
  BY AssetCases
<1>a. n # None /\ DataSamples \subseteq AssetKeys
  BY NoneAssumption DEF AssetKeys
<1>2. CASE RegisterNode(n)
  BY <1>2 DEF RegisterNode, AssetTypeOK, Kept, Known
<1>3. CASE \E in \in InputPermissions, a \in AllAlgos : AddAlgo(n, a, in)
  <2> PICK in \in InputPermissions, a \in AllAlgos : AddAlgo(n, a, in)
    BY <1>3
  <2>1. /\ a \in AssetKeys /\ AddAsset(n, a, in)
        /\ UNCHANGED <<nodes, managersOf, testOnly, objectiveOf, testDataset, sampleIndex>>
    BY DEF AddAlgo, AssetKeys
  <2>2. /\ owner[a] = None
        /\ owner' \in [AssetKeys -> Nodes \cup {None}] /\ owner'[a] = n
        /\ \A x \in AssetKeys \ {a} : owner'[x] = owner[x]
        /\ permissions' \in [AssetKeys -> Permission]
    BY <2>1, AddAssetFacts
  <2>3. AssetTypeOK'
    BY <2>1, <2>2, <1>a DEF AssetTypeOK, Known
  <2>4. Kept
    BY <2>1, <2>2 DEF AssetTypeOK, Kept, Known, AssetKeys
  <2> QED BY <2>3, <2>4
<1>4. CASE \E in \in InputPermissions, m \in DataManagers, o \in Objectives \cup {None} :
             RegisterDataManager(n, m, o, in)
  <2> PICK in \in InputPermissions, m \in DataManagers, o \in Objectives \cup {None} :
        RegisterDataManager(n, m, o, in)
    BY <1>4
  <2>1. /\ m \in AssetKeys /\ AddAsset(n, m, in)
        /\ objectiveOf' = [objectiveOf EXCEPT ![m] = o]
        /\ UNCHANGED <<nodes, managersOf, testOnly, testDataset, sampleIndex>>
    BY DEF RegisterDataManager, AssetKeys
  <2>2. /\ owner[m] = None
        /\ owner' \in [AssetKeys -> Nodes \cup {None}] /\ owner'[m] = n
        /\ \A x \in AssetKeys \ {m} : owner'[x] = owner[x]
        /\ permissions' \in [AssetKeys -> Permission]
    BY <2>1, AddAssetFacts
  <2>3. AssetTypeOK'
    BY <2>1, <2>2, <1>a DEF AssetTypeOK, Known
  <2>4. Kept
    BY <2>1, <2>2 DEF AssetTypeOK, Kept, Known, AssetKeys
  <2> QED BY <2>3, <2>4
<1>5. CASE \E in \in InputPermissions, o \in Objectives, d \in Dataset \cup {None} :
             RegisterObjective(n, o, d, in)
  <2> PICK in \in InputPermissions, o \in Objectives, d \in Dataset \cup {None} :
        RegisterObjective(n, o, d, in)
    BY <1>5
  <2>1. /\ o \in AssetKeys /\ AddAsset(n, o, in)
        /\ testDataset' = [testDataset EXCEPT ![o] = d]
        /\ UNCHANGED <<nodes, managersOf, testOnly, sampleIndex>>
    BY DEF RegisterObjective, AssetKeys
  <2>2. \/ UNCHANGED objectiveOf
        \/ d.manager \in DataManagers /\ AddObjectiveDataManager(d.manager, o)
    BY DEF RegisterObjective, Dataset
  <2>3. /\ objectiveOf' \in [DataManagers -> Objectives \cup {None}]
        /\ \A m \in DataManagers :
             Known(m) /\ objectiveOf[m] # None => objectiveOf'[m] = objectiveOf[m]
    BY <2>2, AddObjectiveFacts DEF AssetTypeOK
  <2>4. /\ owner[o] = None
        /\ owner' \in [AssetKeys -> Nodes \cup {None}] /\ owner'[o] = n
        /\ \A x \in AssetKeys \ {o} : owner'[x] = owner[x]
        /\ permissions' \in [AssetKeys -> Permission]
    BY <2>1, AddAssetFacts
  <2>5. AssetTypeOK'
    BY <2>1, <2>3, <2>4, <1>a DEF AssetTypeOK, Known
  <2>6. Kept
    BY <2>1, <2>3, <2>4 DEF AssetTypeOK, Kept, Known, AssetKeys
  <2> QED BY <2>5, <2>6
<1>6. CASE \E S \in SUBSET DataSamples, M \in SUBSET DataManagers, test \in BOOLEAN :
             RegisterDataSample(n, S, M, test)
  <2> PICK S \in SUBSET DataSamples, M \in SUBSET DataManagers, test \in BOOLEAN :
        RegisterDataSample(n, S, M, test)
    BY <1>6
  <2>1. sampleIndex' \subseteq DataManagers \X BOOLEAN \X DataSamples
    BY IndexedType DEF RegisterDataSample, AssetTypeOK
  <2>2. /\ owner' \in [AssetKeys -> Nodes \cup {None}]
        /\ managersOf' \in [DataSamples -> SUBSET DataManagers]
        /\ testOnly' \subseteq {s \in DataSamples : owner'[s] # None}
    BY NoneAssumption DEF RegisterDataSample, AssetTypeOK, Known, AssetKeys
  <2>3. Kept
    BY DEF RegisterDataSample, AssetTypeOK, Kept, Known, AssetKeys
  <2> QED BY <2>1, <2>2, <2>3 DEF RegisterDataSample, AssetTypeOK, Known
<1>7. CASE \E S \in SUBSET DataSamples, M \in SUBSET DataManagers : UpdateDataSample(n, S, M)
  <2> PICK S \in SUBSET DataSamples, M \in SUBSET DataManagers : UpdateDataSample(n, S, M)
    BY <1>7
  <2>1. sampleIndex' \subseteq DataManagers \X BOOLEAN \X DataSamples
    BY IndexedType DEF UpdateDataSample, AssetTypeOK
  <2>2. AssetTypeOK'
    BY <2>1 DEF UpdateDataSample, AssetTypeOK, Known
  <2>3. Kept
    BY DEF UpdateDataSample, AssetTypeOK, Kept
  <2> QED BY <2>2, <2>3
<1>8. CASE \E m \in DataManagers, o \in Objectives : UpdateDataManager(m, o)
  <2> PICK m \in DataManagers, o \in Objectives : UpdateDataManager(m, o)
    BY <1>8
  <2>1. /\ objectiveOf' \in [DataManagers -> Objectives \cup {None}]
        /\ \A d \in DataManagers :
             Known(d) /\ objectiveOf[d] # None => objectiveOf'[d] = objectiveOf[d]
    BY AddObjectiveFacts DEF UpdateDataManager
  <2> QED BY <2>1 DEF UpdateDataManager, AssetTypeOK, Kept, Known
<1> QED BY <1>1, <1>2, <1>3, <1>4, <1>5, <1>6, <1>7, <1>8

-----------------------------------------------------------------------------
(* Datasets *)

\* The test dataset of an objective is one of test samples, and the objective's.
TestSets ==
  \A o \in Objectives : testDataset[o] # None =>
    LET d == testDataset[o]
    IN  /\ Known(o) /\ d \in Dataset
        /\ SameDataManager(d.manager, d.samples) /\ AllTestOnly(d.samples)
        /\ d.samples # {} => objectiveOf[d.manager] = o

AssetInductive == AssetTypeOK /\ DatasetsOfOneOwner /\ DatasetsListed /\ TestSets

LEMMA AssetInductiveInit == ASSUME AssetInit PROVE AssetInductive
<1>1. AssetTypeOK
  BY DEF AssetInit, AssetTypeOK, Known, Permission
<1>2. DatasetsOfOneOwner /\ DatasetsListed /\ TestSets
  BY DEF AssetInit, DatasetsOfOneOwner, DatasetsListed, TestSets, DatasetSamples
<1> QED BY <1>1, <1>2 DEF AssetInductive

\* The index after samples of S were put under the data managers M.
LEMMA IndexGrows ==
  ASSUME NEW S \in SUBSET DataSamples, NEW M \in SUBSET DataManagers,
         NEW m \in DataManagers, NEW s \in DataSamples, NEW b \in BOOLEAN,
         sampleIndex' = sampleIndex \cup Indexed(S, M, testOnly')
  PROVE  <<m, b, s>> \in sampleIndex' <=>
           \/ <<m, b, s>> \in sampleIndex
           \/ m \in M /\ s \in S /\ (b <=> s \in testOnly')
<1>1. <<m, b, s>> \in Indexed(S, M, testOnly')
        <=> \E x \in M, y \in S : <<m, b, s>> = <<x, y \in testOnly', y>>
  BY DEF Indexed
<1>2. \A x, y : <<m, b, s>> = <<x, y \in testOnly', y>>
        <=> m = x /\ b = (y \in testOnly') /\ s = y
  OBVIOUS
<1>3. \A y : (b = (y \in testOnly')) <=> (b <=> y \in testOnly')
  OBVIOUS
<1> QED BY <1>1, <1>2, <1>3

LEMMA ListedFacts ==
  ASSUME DatasetsListed, NEW m \in DataManagers, NEW s \in DataSamples, NEW b \in BOOLEAN
  PROVE  <<m, b, s>> \in sampleIndex <=> m \in managersOf[s] /\ (b <=> s \in testOnly)
<1>1. s \in DatasetSamples(m, b) <=> <<m, b, s>> \in sampleIndex
  BY DEF DatasetSamples
<1>2. CASE b = TRUE
  BY <1>1, <1>2 DEF DatasetsListed
<1>3. CASE b = FALSE
  BY <1>1, <1>3 DEF DatasetsListed
<1> QED BY <1>2, <1>3

\* Datasets are untouched by whatever leaves the samples and the index alone.
LEMMA SamplesUntouched ==
  ASSUME AssetInductive, Kept, UNCHANGED <<managersOf, testOnly, sampleIndex>>
  PROVE  DatasetsOfOneOwner' /\ DatasetsListed'
<1>1. DatasetsListed'
  BY DEF AssetInductive, DatasetsListed, DatasetSamples
<1>2. ASSUME NEW s \in DataSamples, NEW m \in managersOf[s]
      PROVE  Known(s)' /\ owner'[m] = owner'[s]
  <2>1. m \in DataManagers
    BY DEF AssetInductive, AssetTypeOK
  <2>2. Known(s) /\ owner[m] = owner[s]
    BY DEF AssetInductive, DatasetsOfOneOwner
  <2>3. Known(m) /\ s \in AssetKeys /\ m \in AssetKeys
    BY <2>1, <2>2 DEF Known, AssetKeys
  <2> QED BY <2>2, <2>3 DEF Kept, Known
<1> QED BY <1>1, <1>2 DEF DatasetsOfOneOwner

\* An objective's test dataset stays what it was, and fit for tests.
LEMMA TestSetKept ==
  ASSUME AssetInductive, Kept, NEW o \in Objectives, testDataset[o] # None
  PROVE  /\ testDataset'[o] = testDataset[o] /\ testDataset[o] \in Dataset
         /\ Known(o)'
         /\ \A s \in testDataset[o].samples :
              Known(s)' /\ testDataset[o].manager \in managersOf'[s] /\ s \in testOnly'
         /\ testDataset[o].samples # {} => objectiveOf'[testDataset[o].manager] = o
<1> DEFINE d == testDataset[o]
<1>1. /\ Known(o) /\ d \in Dataset
      /\ SameDataManager(d.manager, d.samples) /\ AllTestOnly(d.samples)
      /\ d.samples # {} => objectiveOf[d.manager] = o
  BY DEF AssetInductive, TestSets
<1>2. d.manager \in DataManagers /\ d.samples \subseteq DataSamples
  BY <1>1 DEF Dataset
<1>3. testDataset'[o] = d /\ Known(o)'
  BY <1>1 DEF Kept, Known, AssetKeys
<1>4. \A s \in d.samples : Known(s)' /\ d.manager \in managersOf'[s] /\ s \in testOnly'
  BY <1>1, <1>2 DEF Kept, Known, AssetKeys, SameDataManager, AllTestOnly
<1>5. ASSUME NEW s \in d.samples PROVE objectiveOf'[d.manager] = o
  <2>1. owner[d.manager] = owner[s] /\ Known(s)
    BY <1>1, <1>2 DEF SameDataManager, AssetInductive, DatasetsOfOneOwner
  <2>2. o # None
    BY NoneAssumption DEF AssetKeys
  <2> QED BY <1>1, <1>2, <2>1, <2>2 DEF Kept, Known
<1> QED BY <1>1, <1>3, <1>4, <1>5

\* The test datasets after a step that registers no objective.
LEMMA TestSetsKept ==
  ASSUME AssetInductive, Kept, UNCHANGED testDataset
  PROVE  TestSets'
<1> SUFFICES ASSUME NEW o \in Objectives, testDataset'[o] # None
             PROVE  LET d == testDataset'[o]
                    IN  /\ Known(o)' /\ d \in Dataset
                        /\ \A s \in d.samples : Known(s)' /\ d.manager \in managersOf'[s]
                        /\ \A s \in d.samples : s \in testOnly'
                        /\ d.samples # {} => objectiveOf'[d.manager] = o
  BY DEF TestSets, SameDataManager, AllTestOnly
<1> QED BY TestSetKept

LEMMA RegisterObjectiveStep ==
  ASSUME AssetInductive, Kept, AssetTypeOK', NEW n \in Nodes, NEW in \in InputPermissions,
         NEW o \in Objectives, NEW d \in Dataset \cup {None}, RegisterObjective(n, o, d, in)
  PROVE  TestSets'
<1>1. /\ ~Known(o) /\ Known(o)' /\ testDataset' = [testDataset EXCEPT ![o] = d]
      /\ UNCHANGED <<managersOf, testOnly>>
  BY NoneAssumption DEF RegisterObjective, AddAsset, AssetTypeOK, AssetInductive,
                        Known, AssetKeys
<1>2. SUFFICES ASSUME NEW p \in Objectives, testDataset'[p] # None
               PROVE  LET e == testDataset'[p]
                      IN  /\ Known(p)' /\ e \in Dataset
                          /\ \A s \in e.samples : Known(s)' /\ e.manager \in managersOf'[s]
                          /\ \A s \in e.samples : s \in testOnly'
                          /\ e.samples # {} => objectiveOf'[e.manager] = p
  BY DEF TestSets, SameDataManager, AllTestOnly
<1>3. CASE p # o
  <2>1. testDataset[p] # None
    BY <1>1, <1>2, <1>3 DEF AssetInductive, AssetTypeOK
  <2> QED BY <2>1, TestSetKept
<1>4. CASE p = o
  <2>1. testDataset'[p] = d /\ d # None
    BY <1>1, <1>2, <1>4 DEF AssetInductive, AssetTypeOK
  <2>2. /\ d \in Dataset /\ d.manager \in DataManagers /\ d.samples \subseteq DataSamples
        /\ SameDataManager(d.manager, d.samples) /\ AllTestOnly(d.samples)
        /\ AddObjectiveDataManager(d.manager, o)
    BY <2>1 DEF RegisterObjective, Dataset
  <2>3. \A s \in d.samples : Known(s)' /\ d.manager \in managersOf'[s] /\ s \in testOnly'
    BY <2>2, <1>1 DEF Kept, Known, AssetKeys, SameDataManager, AllTestOnly
  <2>4. ASSUME NEW s \in d.samples PROVE objectiveOf'[d.manager] = o
    <3>1. Known(d.manager)
      BY <2>2 DEF SameDataManager, AssetInductive, DatasetsOfOneOwner, Known
    <3> QED BY <3>1, <2>2, AddObjectiveFacts DEF AssetInductive
  <2> QED BY <1>1, <1>4, <2>1, <2>2, <2>3, <2>4
<1> QED BY <1>3, <1>4

LEMMA RegisterDataSampleStep ==
  ASSUME AssetInductive, AssetTypeOK', Kept, NEW n \in Nodes, NEW S \in SUBSET DataSamples,
         NEW M \in SUBSET DataManagers, NEW test \in BOOLEAN,
         RegisterDataSample(n, S, M, test)
  PROVE  DatasetsOfOneOwner' /\ DatasetsListed'
<1>1. /\ n # None /\ DataSamples \subseteq AssetKeys /\ DataManagers \subseteq AssetKeys
      /\ \A s \in S : ~Known(s) /\ managersOf[s] = {}
      /\ \A m \in M : owner[m] = n
      /\ \A k \in AssetKeys : owner'[k] = IF k \in S THEN n ELSE owner[k]
      /\ \A s \in DataSamples : managersOf'[s] = IF s \in S THEN M ELSE managersOf[s]
      /\ \A s \in DataSamples : s \notin S => (s \in testOnly' <=> s \in testOnly)
  BY NoneAssumption DEF RegisterDataSample, OwnsManagers, AssetKeys, AssetInductive,
                        DatasetsOfOneOwner
<1>a. sampleIndex' = sampleIndex \cup Indexed(S, M, testOnly')
  BY DEF RegisterDataSample
<1>2. M \cap S = {}
  BY <1>1 DEF Known
<1>3. ASSUME NEW s \in DataSamples, NEW m \in managersOf'[s]
      PROVE  Known(s)' /\ owner'[m] = owner'[s]
  <2>1. CASE s \in S
    BY <2>1, <1>1, <1>2 DEF Known
  <2>2. CASE s \notin S
    <3>1. m \in managersOf[s] /\ m \in DataManagers
      BY <2>2, <1>1, <1>3 DEF AssetInductive, AssetTypeOK
    <3>2. Known(s) /\ owner[m] = owner[s]
      BY <3>1 DEF AssetInductive, DatasetsOfOneOwner
    <3> QED BY <2>2, <3>1, <3>2, <1>1 DEF Known
  <2> QED BY <2>1, <2>2
<1>4. ASSUME NEW m \in DataManagers, NEW s \in DataSamples, NEW b \in BOOLEAN
      PROVE  <<m, b, s>> \in sampleIndex' <=>
               m \in managersOf'[s] /\ (b <=> s \in testOnly')
  <2>1. <<m, b, s>> \in sampleIndex <=> m \in managersOf[s] /\ (b <=> s \in testOnly)
    BY ListedFacts DEF AssetInductive
  <2>2. <<m, b, s>> \in sampleIndex' <=>
           \/ <<m, b, s>> \in sampleIndex
           \/ m \in M /\ s \in S /\ (b <=> s \in testOnly')
    BY <1>a, IndexGrows
  <2> QED BY <2>1, <2>2, <1>1
<1>5. DatasetsListed'
  BY <1>4 DEF DatasetsListed, DatasetSamples, AssetTypeOK
<1> QED BY <1>3, <1>5 DEF DatasetsOfOneOwner

LEMMA UpdateDataSampleStep ==
  ASSUME AssetInductive, AssetTypeOK', Kept, NEW n \in Nodes, NEW S \in SUBSET DataSamples,
         NEW M \in SUBSET DataManagers, UpdateDataSample(n, S, M)
  PROVE  DatasetsOfOneOwner' /\ DatasetsListed'
<1>1. /\ n # None
      /\ \A s \in S : owner[s] = n
      /\ \A m \in M : owner[m] = n
      /\ \A s \in DataSamples :
           managersOf'[s] = managersOf[s] \cup (IF s \in S THEN M ELSE {})
      /\ sampleIndex' = sampleIndex \cup Indexed(S, M, testOnly')
      /\ UNCHANGED <<owner, testOnly>>
  BY NoneAssumption DEF UpdateDataSample, OwnsManagers, OwnsSamples
<1>2. \A s \in DataSamples : \A m \in managersOf'[s] : Known(s)' /\ owner'[m] = owner'[s]
  BY <1>1 DEF AssetInductive, DatasetsOfOneOwner, Known
<1>3. ASSUME NEW m \in DataManagers, NEW s \in DataSamples, NEW b \in BOOLEAN
      PROVE  <<m, b, s>> \in sampleIndex' <=>
               m \in managersOf'[s] /\ (b <=> s \in testOnly')
  <2>1. <<m, b, s>> \in sampleIndex <=> m \in managersOf[s] /\ (b <=> s \in testOnly)
    BY ListedFacts DEF AssetInductive
  <2>2. <<m, b, s>> \in sampleIndex' <=>
           \/ <<m, b, s>> \in sampleIndex
           \/ m \in M /\ s \in S /\ (b <=> s \in testOnly')
    BY <1>1, IndexGrows
  <2> QED BY <2>1, <2>2, <1>1
<1>4. DatasetsListed'
  BY <1>3 DEF DatasetsListed, DatasetSamples, AssetTypeOK
<1> QED BY <1>2, <1>4 DEF DatasetsOfOneOwner

LEMMA AssetStep ==
  ASSUME AssetInductive, AssetNext
  PROVE  AssetInductive' /\ Kept
<1>1. AssetTypeOK' /\ Kept
  BY AssetStepTypeAndKept DEF AssetInductive
<1>2. PICK n \in Nodes :
    \/ RegisterNode(n)
    \/ \E in \in InputPermissions, a \in AllAlgos : AddAlgo(n, a, in)
    \/ \E in \in InputPermissions, m \in DataManagers, o \in Objectives \cup {None} :
         RegisterDataManager(n, m, o, in)
    \/ \E in \in InputPermissions, o \in Objectives, d \in Dataset \cup {None} :
         RegisterObjective(n, o, d, in)
    \/ \E S \in SUBSET DataSamples, M \in SUBSET DataManagers, test \in BOOLEAN :
         RegisterDataSample(n, S, M, test)
    \/ \E S \in SUBSET DataSamples, M \in SUBSET DataManagers : UpdateDataSample(n, S, M)
    \/ \E m \in DataManagers, o \in Objectives : UpdateDataManager(m, o)
  BY AssetCases
<1>3. CASE UNCHANGED <<managersOf, testOnly, sampleIndex, testDataset>>
  BY <1>1, <1>3, SamplesUntouched, TestSetsKept DEF AssetInductive
<1>4. CASE \E in \in InputPermissions, o \in Objectives, d \in Dataset \cup {None} :
             RegisterObjective(n, o, d, in)
  <2> PICK in \in InputPermissions, o \in Objectives, d \in Dataset \cup {None} :
        RegisterObjective(n, o, d, in)
    BY <1>4
  <2>1. UNCHANGED <<managersOf, testOnly, sampleIndex>>
    BY DEF RegisterObjective
  <2>2. DatasetsOfOneOwner' /\ DatasetsListed'
    BY <2>1, <1>1, SamplesUntouched
  <2> QED BY <1>1, <2>2, RegisterObjectiveStep DEF AssetInductive
<1>5. CASE \E S \in SUBSET DataSamples, M \in SUBSET DataManagers, test \in BOOLEAN :
             RegisterDataSample(n, S, M, test)
  <2>1. UNCHANGED testDataset
    BY <1>5 DEF RegisterDataSample
  <2> QED BY <1>1, <1>5, <2>1, TestSetsKept, RegisterDataSampleStep DEF AssetInductive
<1>6. CASE \E S \in SUBSET DataSamples, M \in SUBSET DataManagers : UpdateDataSample(n, S, M)
  <2>1. UNCHANGED testDataset
    BY <1>6 DEF UpdateDataSample
  <2> QED BY <1>1, <1>6, <2>1, TestSetsKept, UpdateDataSampleStep DEF AssetInductive
<1> QED
  BY <1>2, <1>3, <1>4, <1>5, <1>6
     DEF RegisterNode, AddAlgo, RegisterDataManager, UpdateDataManager

LEMMA AssetStutter ==
  ASSUME AssetInductive, UNCHANGED assetVars
  PROVE  AssetInductive' /\ Kept
<1>1. AssetTypeOK'
  BY DEF assetVars, AssetInductive, AssetTypeOK, Known
<1>2. Kept
  BY DEF assetVars, Kept
<1>3. UNCHANGED <<managersOf, testOnly, sampleIndex, testDataset>>
  BY DEF assetVars
<1> QED BY <1>1, <1>2, <1>3, SamplesUntouched, TestSetsKept DEF AssetInductive

LEMMA AssetInductiveHolds == AssetSpec => []AssetInductive
<1>1. AssetInit => AssetInductive
  BY AssetInductiveInit
<1>2. AssetInductive /\ [AssetNext]_assetVars => AssetInductive'
  <2> SUFFICES ASSUME AssetInductive, [AssetNext]_assetVars PROVE AssetInductive'
    OBVIOUS
  <2>1. CASE AssetNext
    BY <2>1, AssetStep
  <2>2. CASE UNCHANGED assetVars
    BY <2>2, AssetStutter
  <2> QED BY <2>1, <2>2
<1> QED BY <1>1, <1>2, PTL DEF AssetSpec

\* A sample and its data managers belong to one node, through any registrations
\* and updates by any number of nodes.
THEOREM DatasetsKeepOwner == AssetSpec => []DatasetsOfOneOwner
<1>1. AssetInductive => DatasetsOfOneOwner
  BY DEF AssetInductive
<1> QED BY <1>1, AssetInductiveHolds, PTL

\* The index of samples is the datasets, split by purpose.
THEOREM DatasetsAreListed == AssetSpec => []DatasetsListed
<1>1. AssetInductive => DatasetsListed
  BY DEF AssetInductive
<1> QED BY <1>1, AssetInductiveHolds, PTL

\* No two objectives are evaluated on the same samples of a data manager.
THEOREM TestDatasetsAreExclusive == AssetSpec => []TestDatasetsExclusive
<1>1. AssetInductive => TestDatasetsExclusive
  <2> SUFFICES ASSUME AssetInductive, NEW o \in Objectives, testDataset[o] # None,
                      testDataset[o].samples # {}
               PROVE  /\ objectiveOf[testDataset[o].manager] = o
                      /\ testDataset[o].samples
                           \subseteq DatasetSamples(testDataset[o].manager, TRUE)
    BY DEF TestDatasetsExclusive
  <2> DEFINE d == testDataset[o]
  <2>1. /\ d \in Dataset /\ SameDataManager(d.manager, d.samples) /\ AllTestOnly(d.samples)
        /\ objectiveOf[d.manager] = o
    BY DEF AssetInductive, TestSets
  <2>2. d.manager \in DataManagers
    BY <2>1 DEF Dataset
  <2>3. d.samples \subseteq {s \in testOnly : d.manager \in managersOf[s]}
    BY <2>1 DEF SameDataManager, AllTestOnly
  <2> QED BY <2>1, <2>2, <2>3 DEF AssetInductive, DatasetsListed
<1> QED BY <1>1, AssetInductiveHolds, PTL

-----------------------------------------------------------------------------
(* Tuples *)

\* The samples a tuple was given are its worker's; those it trains on are not
\* for tests; those it is certified on are the objective's.
TuplesGrounded ==
  /\ tuple = [k \in TupleKeys |-> tuple[k]]
  /\ \A k \in WithData : /\ tuple[k].data \in Dataset /\ tuple[k].worker \in Nodes
                         /\ \A s \in tuple[k].data.samples : owner[s] = tuple[k].worker
  /\ \A k \in WithData \cap Trains : AllTrainOnly(tuple[k].data.samples)
  /\ \A t \in Created \cap Testtuples : tuple[t].certified =>
       /\ tuple[t].objective \in Objectives /\ Known(tuple[t].objective)
       /\ tuple[t].data # None /\ tuple[t].data = testDataset[tuple[t].objective]

InputsInductive == AssetInductive /\ TuplesGrounded

\* What the registries do afterwards changes nothing about a tuple.
LEMMA GroundedAfterAssets ==
  ASSUME AssetInductive, TuplesGrounded, Kept, UNCHANGED tuple
  PROVE  TuplesGrounded'
<1>1. Created' = Created /\ WithData' = WithData
  BY DEF Created, WithData
<1>2. ASSUME NEW k \in WithData
      PROVE  /\ tuple[k].data \in Dataset /\ tuple[k].worker \in Nodes
             /\ tuple[k].data.samples \subseteq DataSamples
             /\ \A s \in tuple[k].data.samples :
                  Known(s) /\ owner'[s] = tuple[k].worker
  <2>1. /\ tuple[k].data \in Dataset /\ tuple[k].worker \in Nodes
        /\ \A s \in tuple[k].data.samples : owner[s] = tuple[k].worker
    BY DEF TuplesGrounded
  <2>2. tuple[k].data.samples \subseteq DataSamples /\ tuple[k].worker # None
    BY <2>1, NoneAssumption DEF Dataset
  <2> QED BY <2>1, <2>2 DEF Kept, Known, AssetKeys
<1>3. ASSUME NEW k \in WithData \cap Trains
      PROVE  AllTrainOnly(tuple[k].data.samples)'
  <2>1. AllTrainOnly(tuple[k].data.samples)
    BY DEF TuplesGrounded
  <2> QED BY <1>2, <2>1 DEF AllTrainOnly, Kept
<1>4. ASSUME NEW t \in Created \cap Testtuples, tuple[t].certified
      PROVE  /\ tuple[t].objective \in Objectives /\ Known(tuple[t].objective)'
             /\ tuple[t].data # None /\ tuple[t].data = testDataset'[tuple[t].objective]
  BY <1>4 DEF TuplesGrounded, Kept, Known, AssetKeys
<1> QED BY <1>1, <1>2, <1>3, <1>4 DEF TuplesGrounded

\* A new tuple leaves the others as they are.
LEMMA GroundedAfterAdd ==
  ASSUME TuplesGrounded, NEW k \in TupleKeys, NEW rec, NEW type, AddTuple(k, rec, type),
         rec.data # None =>
           /\ rec.data \in Dataset /\ rec.worker \in Nodes
           /\ \A s \in rec.data.samples : owner[s] = rec.worker
           /\ k \in Trains => AllTrainOnly(rec.data.samples),
         k \in Testtuples /\ rec.certified =>
           /\ rec.objective \in Objectives /\ Known(rec.objective)
           /\ rec.data # None /\ rec.data = testDataset[rec.objective]
  PROVE  TuplesGrounded'
<1>1. /\ tuple' = [tuple EXCEPT ![k] = rec] /\ UNCHANGED assetVars
  BY DEF AddTuple
<1>2. /\ tuple'[k] = rec /\ \A x \in TupleKeys \ {k} : tuple'[x] = tuple[x]
      /\ tuple' = [x \in TupleKeys |-> tuple'[x]]
  BY <1>1 DEF TuplesGrounded
<1>3. UNCHANGED <<owner, testOnly, testDataset>>
  BY <1>1 DEF assetVars
<1>4. ASSUME NEW x \in WithData'
      PROVE  /\ tuple'[x].data \in Dataset /\ tuple'[x].worker \in Nodes
             /\ \A s \in tuple'[x].data.samples : owner'[s] = tuple'[x].worker
             /\ x \in Trains => AllTrainOnly(tuple'[x].data.samples)
  BY <1>2, <1>3 DEF TuplesGrounded, WithData, Created
<1>5. ASSUME NEW t \in Created' \cap Testtuples, tuple'[t].certified
      PROVE  /\ tuple'[t].objective \in Objectives /\ Known(tuple'[t].objective)
             /\ tuple'[t].data # None /\ tuple'[t].data = testDataset'[tuple'[t].objective]
  BY <1>2, <1>3, <1>5 DEF TuplesGrounded, Created
<1> QED BY <1>2, <1>3, <1>4, <1>5 DEF TuplesGrounded, AllTrainOnly, Known

\* Samples of a known data manager are those of its owner.
LEMMA SamplesOfOwner ==
  ASSUME AssetInductive, NEW d \in Dataset, SameDataManager(d.manager, d.samples),
         Known(d.manager)
  PROVE  owner[d.manager] \in Nodes /\ \A s \in d.samples : owner[s] = owner[d.manager]
<1>1. d.manager \in DataManagers /\ d.samples \subseteq DataSamples
  BY DEF Dataset
<1>2. owner[d.manager] \in Nodes
  BY <1>1 DEF AssetInductive, AssetTypeOK, Known, AssetKeys
<1> QED BY <1>1, <1>2 DEF AssetInductive, DatasetsOfOneOwner, SameDataManager

LEMMA CreateTraintupleStep ==
  ASSUME InputsInductive, NEW n \in Nodes, NEW k \in Traintuples, CreateTraintuple(n, k)
  PROVE  TuplesGrounded'
<1>1. PICK a \in AllAlgos, d \in Dataset, ins \in SUBSET (Created \cap Trains) :
        /\ MayTrainOn(n, d)
        /\ AddTuple(k, [creator |-> n, algo |-> a, data |-> d, worker |-> owner[d.manager],
                        parents |-> ins,
                        out |-> MergePermissions(permissions[d.manager], permissions[a])],
                    "traintuple")
  BY DEF CreateTraintuple
<1>2. /\ d \in Dataset /\ SameDataManager(d.manager, d.samples)
      /\ Known(d.manager) /\ AllTrainOnly(d.samples)
  BY <1>1 DEF MayTrainOn
<1>3. owner[d.manager] \in Nodes /\ \A s \in d.samples : owner[s] = owner[d.manager]
  BY <1>2, SamplesOfOwner DEF InputsInductive
<1>4. k \in TupleKeys /\ k \notin Testtuples
  BY TupleKeysAssumption DEF TupleKeys, Trains
<1> QED BY <1>1, <1>2, <1>3, <1>4, GroundedAfterAdd DEF InputsInductive

LEMMA CreateCompositeTraintupleStep ==
  ASSUME InputsInductive, NEW n \in Nodes, NEW k \in CompositeTraintuples,
         CreateCompositeTraintuple(n, k)
  PROVE  TuplesGrounded'
<1>1. PICK a \in AllAlgos, d \in Dataset, in \in InputPermissions :
        /\ MayTrainOn(n, d)
        /\ \E ins \in CompositeInModels(owner[d.manager]) :
             AddTuple(k, [creator |-> n, algo |-> a, data |-> d, worker |-> owner[d.manager],
                          parents |-> ins, out |-> NewPermission(in, n),
                          head |-> [public |-> FALSE, ids |-> {owner[d.manager]}]],
                      "compositeTraintuple")
  BY DEF CreateCompositeTraintuple
<1>2. /\ d \in Dataset /\ SameDataManager(d.manager, d.samples)
      /\ Known(d.manager) /\ AllTrainOnly(d.samples)
  BY <1>1 DEF MayTrainOn
<1>3. owner[d.manager] \in Nodes /\ \A s \in d.samples : owner[s] = owner[d.manager]
  BY <1>2, SamplesOfOwner DEF InputsInductive
<1>4. k \in TupleKeys /\ k \notin Testtuples
  BY TupleKeysAssumption DEF TupleKeys, Trains
<1> QED BY <1>1, <1>2, <1>3, <1>4, GroundedAfterAdd DEF InputsInductive

LEMMA CreateAggregatetupleStep ==
  ASSUME InputsInductive, NEW n \in Nodes, NEW k \in Aggregatetuples,
         CreateAggregatetuple(n, k)
  PROVE  TuplesGrounded'
<1>1. PICK a \in AllAlgos, w \in nodes, ins \in SUBSET (Created \cap Trains) :
        AddTuple(k, [creator |-> n, algo |-> a, data |-> None, worker |-> w,
                     parents |-> ins, out |-> UnionOfParents(n, ins)],
                 "aggregatetuple")
  BY DEF CreateAggregatetuple
<1>2. k \in TupleKeys /\ k \notin Testtuples
  BY TupleKeysAssumption DEF TupleKeys, Trains
<1> QED BY <1>1, <1>2, GroundedAfterAdd DEF InputsInductive

\* With a dataset of the request, or with that of the objective, whose samples
\* were checked when the objective was registered.
LEMMA CreateTesttupleStep ==
  ASSUME InputsInductive, NEW n \in Nodes, NEW k \in Testtuples, CreateTesttuple(n, k)
  PROVE  TuplesGrounded'
<1>1. PICK m \in Created \cap Trains, o \in Objectives :
        /\ Known(o)
        /\ \E d \in TestData(o) :
             /\ Known(d.manager)
             /\ AddTuple(k, [creator |-> n, algo |-> tuple[m].algo, data |-> d,
                             worker |-> owner[d.manager], parents |-> {m},
                             objective |-> o, certified |-> Certified(o, d)],
                         "traintuple")
  BY DEF CreateTesttuple
<1>2. PICK d \in TestData(o) :
        /\ Known(d.manager)
        /\ AddTuple(k, [creator |-> n, algo |-> tuple[m].algo, data |-> d,
                        worker |-> owner[d.manager], parents |-> {m},
                        objective |-> o, certified |-> Certified(o, d)],
                    "traintuple")
  BY <1>1
<1>3. d \in Dataset /\ SameDataManager(d.manager, d.samples)
  <2>1. CASE d \in Dataset /\ SameDataManager(d.manager, d.samples)
    BY <2>1
  <2>2. CASE d = testDataset[o] /\ d # None
    BY <2>2 DEF InputsInductive, AssetInductive, TestSets
  <2> QED BY <1>2, <2>1, <2>2 DEF TestData
<1>4. d # None
  BY <1>3, NoneAssumption
<1>5. owner[d.manager] \in Nodes /\ \A s \in d.samples : owner[s] = owner[d.manager]
  BY <1>2, <1>3, SamplesOfOwner DEF InputsInductive
<1>6. k \in TupleKeys /\ k \notin Trains
  BY TupleKeysAssumption DEF TupleKeys
<1>7. Certified(o, d) => d = testDataset[o]
  BY DEF Certified
<1> HIDE DEF Certified
<1> QED BY <1>1, <1>2, <1>3, <1>4, <1>5, <1>6, <1>7, GroundedAfterAdd DEF InputsInductive

LEMMA InputsInductiveHolds == Spec => []InputsInductive
<1>1. Init => InputsInductive
  <2> SUFFICES ASSUME Init PROVE InputsInductive
    OBVIOUS
  <2>1. Created = {} /\ WithData = {}
    BY DEF Init, Created, WithData
  <2> QED BY <2>1, AssetInductiveInit DEF Init, InputsInductive, TuplesGrounded
<1>2. InputsInductive /\ [Next]_vars => InputsInductive'
  <2> SUFFICES ASSUME InputsInductive, [Next]_vars PROVE InputsInductive'
    OBVIOUS
  <2>1. CASE AssetNext /\ UNCHANGED <<tuple, tagIndex, done>>
    BY <2>1, AssetStep, GroundedAfterAssets DEF InputsInductive
  <2>2. CASE UNCHANGED assetVars /\ TuplesGrounded'
    BY <2>2, AssetStutter DEF InputsInductive
  <2>3. ASSUME NEW n \in Nodes, NEW k \in TupleKeys,
               \/ k \in Traintuples /\ CreateTraintuple(n, k)
               \/ k \in CompositeTraintuples /\ CreateCompositeTraintuple(n, k)
               \/ k \in Aggregatetuples /\ CreateAggregatetuple(n, k)
               \/ k \in Testtuples /\ CreateTesttuple(n, k)
        PROVE  InputsInductive'
    <3>1. TuplesGrounded'
      BY <2>3, CreateTraintupleStep, CreateCompositeTraintupleStep,
         CreateAggregatetupleStep, CreateTesttupleStep
    <3>2. UNCHANGED assetVars
      BY <2>3 DEF CreateTraintuple, CreateCompositeTraintuple, CreateAggregatetuple,
                  CreateTesttuple, AddTuple
    <3> QED BY <3>1, <3>2, <2>2
  <2>4. CASE \E k \in Testtuples : LogSuccessTest(k)
    <3>1. UNCHANGED <<assetVars, tuple>>
      BY <2>4 DEF LogSuccessTest
    <3> QED BY <3>1, AssetStutter, GroundedAfterAssets DEF InputsInductive
  <2>5. CASE UNCHANGED vars
    <3>1. UNCHANGED <<assetVars, tuple>>
      BY <2>5 DEF vars
    <3> QED BY <3>1, AssetStutter, GroundedAfterAssets DEF InputsInductive
  <2> QED BY <2>1, <2>3, <2>4, <2>5 DEF Next, TupleNext, TupleKeys, Trains
<1> QED BY <1>1, <1>2, PTL DEF Spec

\* No certified testtuple runs on a sample that some tuple trains on, whatever
\* the nodes register and in whatever order.
THEOREM NeverTestedOnTrainData == Spec => []NotTestedOnTrainData
<1>1. InputsInductive => NotTestedOnTrainData
  <2> SUFFICES ASSUME InputsInductive, NEW o \in Objectives, NEW t \in CertifiedTests(o),
                      NEW k \in WithData \cap Trains
               PROVE  tuple[t].data.samples \cap tuple[k].data.samples = {}
    BY DEF NotTestedOnTrainData
  <2>1. AllTrainOnly(tuple[k].data.samples)
    BY DEF InputsInductive, TuplesGrounded
  <2>2. tuple[t].data # None /\ tuple[t].data = testDataset[o]
    BY DEF CertifiedTests, InputsInductive, TuplesGrounded
  <2>3. AllTestOnly(tuple[t].data.samples)
    BY <2>2 DEF InputsInductive, AssetInductive, TestSets
  <2> QED BY <2>1, <2>3 DEF AllTestOnly, AllTrainOnly
<1> QED BY <1>1, InputsInductiveHolds, PTL

\* All lines of a leaderboard come from one dataset.
THEOREM CertifiedTestsAreComparable == Spec => []CertifiedTestsComparable
<1>1. InputsInductive => CertifiedTestsComparable
  BY DEF CertifiedTestsComparable, CertifiedTests, InputsInductive, TuplesGrounded
<1> QED BY <1>1, InputsInductiveHolds, PTL

\* The samples of a tuple belong to the worker it is given to.
THEOREM WorkersOwnSamples == Spec => []WorkersOwnTheirData
<1>1. InputsInductive => WorkersOwnTheirData
  BY DEF WorkersOwnTheirData, InputsInductive, TuplesGrounded
<1> QED BY <1>1, InputsInductiveHolds, PTL
=============================================================================
