--------------------------- MODULE MCTupleInputs ---------------------------
(***************************************************************************)
(* Instances of TupleInputs for TLC.                                       *)
(***************************************************************************)
EXTENDS TupleInputs, TLC

\* For everybody; for the owner only.
MCOpen    == {[public |-> TRUE, ids |-> {}]}
MCPrivate == {[public |-> FALSE, ids |-> {}]}

MCSymmetry ==
  Permutations(Nodes) \cup Permutations(DataManagers) \cup Permutations(DataSamples)
    \cup Permutations(Objectives) \cup Permutations(Testtuples)

\* The nodes are registered before anything else and the algos before data and
\* objectives, whose registrations are in no order.
NodesFirst == nodes' # nodes => \A k \in AssetKeys : ~Known(k)
AlgosFirst ==
  owner' # owner => \/ \A k \in AssetKeys \ AllAlgos : owner'[k] = None
                    \/ \A k \in AllAlgos : owner[k] # None /\ nodes = Nodes

PreparedSpec == Init /\ [][Next /\ NodesFirst /\ AlgosFirst]_vars
=============================================================================
