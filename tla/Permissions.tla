---------------------------- MODULE Permissions ----------------------------
(***************************************************************************)
(* Who may process an asset: the permissions given at registration, and    *)
(* how those of an out-model follow from those of the assets it was made   *)
(* from.  Pure operators.                                                  *)
(*                                                                         *)
(* The lists of nodes are sets here.  Download is always equal to Process  *)
(* and both are combined by the same functions, so there is one of them.   *)
(***************************************************************************)
CONSTANT Nodes    \* the organisations of the channel

Permission == [public : BOOLEAN, ids : SUBSET Nodes]

CanProcess(perm, owner, node) == owner = node \/ perm.public \/ node \in perm.ids

\* newPermission: the owner is always in the list.
NewPermission(in, owner) == [public |-> in.public, ids |-> in.ids \cup {owner}]

\* include: whoever other admits, perm admits.
Includes(perm, other) ==
  perm.public \/ (~other.public /\ other.ids \subseteq perm.ids)

\* mergePermissions: the list of a public permission does not count.
MergePermissions(x, y) ==
  [public |-> x.public /\ y.public,
   ids    |-> IF x.public /\ ~y.public THEN y.ids
              ELSE IF ~x.public /\ y.public THEN x.ids ELSE x.ids \cap y.ids]

\* unionPermissions: a public permission has no list.
UnionPermissions(x, y) ==
  [public |-> x.public \/ y.public,
   ids    |-> IF x.public \/ y.public THEN {} ELSE x.ids \cup y.ids]

-----------------------------------------------------------------------------
(* The reference: the nodes a permission admits, its owner aside. *)

Admitted(perm) == {n \in Nodes : perm.public \/ n \in perm.ids}
=============================================================================
