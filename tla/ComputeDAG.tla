----------------------------- MODULE ComputeDAG -----------------------------
(***************************************************************************)
(* ComputeDAG.sort: the training tasks of a createComputePlan or an        *)
(* updateComputePlan are put in an order in which each comes after its     *)
(* in-models, with its depth, by passes over the tasks that are left.      *)
(* One step is one iteration of the loop.                                  *)
(*                                                                         *)
(* The three lists of a request are one sequence, in the order             *)
(* createComputeDAG concatenates them; the empty in-model IDs that the     *)
(* loop skips are left out.                                                *)
(***************************************************************************)
EXTENDS Naturals, Sequences, FiniteSets

CONSTANTS
  IDs,          \* the IDs clients give to tasks
  MaxTasks,     \* bound on the number of tasks of a request
  MaxInModels,  \* bound on the number of in-models of a task
  KnownIDs,     \* the IDs earlier requests of the same plan may have used
  MaxDepth      \* bound on the depth of those

ASSUME DAGAssumption ==
  /\ KnownIDs \subseteq IDs
  /\ MaxTasks \in Nat /\ MaxInModels \in Nat /\ MaxDepth \in Nat

VARIABLES
  orderTasks, \* the tasks of the request
  known,      \* [ID -> depth], the plan's tasks before the request
  current,    \* the tasks of this pass
  i,          \* the position in current
  temp,       \* the tasks put off to the next pass
  final,      \* the tasks ordered so far, with their depth
  depths,     \* [ID -> depth] (IDToTrainTask)
  result      \* "sorting", then "sorted", "duplicate" or "cyclic"

vars == <<orderTasks, known, current, i, temp, final, depths, result>>

InModelSets == {m \in SUBSET IDs : IsFiniteSet(m) /\ Cardinality(m) <= MaxInModels}

Task == [id : IDs, in : InModelSets]

Requests == UNION {[1..n -> Task] : n \in 0..MaxTasks}

Init ==
  /\ orderTasks \in Requests
  /\ known \in UNION {[S -> 0..MaxDepth] : S \in SUBSET KnownIDs}
  /\ current = orderTasks /\ i = 1
  /\ temp = <<>> /\ final = <<>>
  /\ depths = known
  /\ result = IF orderTasks = <<>> THEN "sorted" ELSE "sorting"

Sorting == result = "sorting"

\* A plausible bug: one in-model that is there is enough.
SomeReady(t) == t.in = {} \/ t.in \cap DOMAIN depths # {}

Ready(t) == t.in \subseteq DOMAIN depths

\* A plausible bug: the depth of the first in-model that is found.
FirstDepth(t) == IF t.in = {} THEN 0 ELSE depths[CHOOSE m \in t.in : TRUE] + 1

\* One above the deepest in-model.
Depth(t) ==
  LET found == {depths[m] : m \in t.in \cap DOMAIN depths}
  IN  IF found = {} THEN 0 ELSE 1 + CHOOSE d \in found : \A e \in found : e <= d

\* A plausible bug: a pass that orders nothing is followed by another one.
AdvanceForever(later) ==
  IF i < Len(current)
  THEN i' = i + 1 /\ temp' = later /\ UNCHANGED <<current, result>>
  ELSE /\ i' = 1 /\ temp' = <<>> /\ current' = later
       /\ result' = IF later = <<>> THEN "sorted" ELSE "sorting"

\* A plausible bug: the last pass counts as one that orders nothing.
AdvanceStopsEarly(later) ==
  IF i < Len(current)
  THEN i' = i + 1 /\ temp' = later /\ UNCHANGED <<current, result>>
  ELSE /\ i' = 1 /\ temp' = <<>> /\ current' = later
       /\ result' = IF Len(later) + 1 >= Len(current) /\ later # <<>> THEN "cyclic"
                    ELSE IF later = <<>> THEN "sorted" ELSE "sorting"

\* The next task of the pass, or the next pass, over the tasks put off.  A pass
\* that has put all its tasks off is the last.
Advance(later) ==
  IF i < Len(current)
  THEN i' = i + 1 /\ temp' = later /\ UNCHANGED <<current, result>>
  ELSE /\ i' = 1 /\ temp' = <<>> /\ current' = later
       /\ result' = IF Len(later) = Len(current) THEN "cyclic"
                    ELSE IF later = <<>> THEN "sorted" ELSE "sorting"

IsNew(id) == id \notin DOMAIN depths

Order ==
  /\ Sorting /\ Ready(current[i]) /\ IsNew(current[i].id)
  /\ final' = Append(final, [id |-> current[i].id, in |-> current[i].in,
                             depth |-> Depth(current[i])])
  /\ depths' = [id \in DOMAIN depths \cup {current[i].id} |->
                  IF id = current[i].id THEN Depth(current[i]) ELSE depths[id]]
  /\ Advance(temp)
  /\ UNCHANGED <<orderTasks, known>>

PutOff ==
  /\ Sorting /\ ~Ready(current[i])
  /\ Advance(Append(temp, current[i]))
  /\ UNCHANGED <<orderTasks, known, final, depths>>

Duplicate ==
  /\ Sorting /\ Ready(current[i]) /\ ~IsNew(current[i].id)
  /\ result' = "duplicate"
  /\ UNCHANGED <<orderTasks, known, current, i, temp, final, depths>>

Next == Order \/ PutOff \/ Duplicate

Spec == Init /\ [][Next]_vars

\* The loop runs until it returns.
FairSpec == Spec /\ WF_vars(Next)

-----------------------------------------------------------------------------
(* Properties *)

\* The tasks are tasks, the position is in the pass, and the map of IDs holds the
\* depths of those of the plan and of the tasks ordered so far.
TypeOK ==
  /\ orderTasks \in Seq(Task) /\ current \in Seq(Task) /\ temp \in Seq(Task)
  /\ final \in Seq([id : IDs, in : SUBSET IDs, depth : Nat])
  /\ DOMAIN depths \subseteq IDs /\ \A id \in DOMAIN depths : depths[id] \in Nat
  /\ DOMAIN depths = DOMAIN known \cup {final[l].id : l \in 1..Len(final)}
  /\ i \in 1..(Len(current) + 1) /\ (Sorting => i <= Len(current))
  /\ result \in {"sorting", "sorted", "duplicate", "cyclic"}

\* The IDs available before the position j of the order: those the plan knew
\* and those of the tasks ordered before.
Before(j) == DOMAIN known \cup {final[l].id : l \in 1..(j - 1)}

\* At every point of the loop, the order so far puts each task after all its
\* in-models and uses no ID twice, nor one the plan already had.
DependenciesFirst ==
  \A j \in 1..Len(final) : final[j].in \subseteq Before(j) /\ final[j].id \notin Before(j)

\* Each ordered task is one level above the deepest of its in-models.
DepthsExact ==
  \A j \in 1..Len(final) :
    LET t == final[j]
    IN  /\ t.depth = depths[t.id]
        /\ t.in = {} => t.depth = 0
        /\ \A m \in t.in : depths[m] < t.depth
        /\ t.in # {} => \E m \in t.in : t.depth = depths[m] + 1

\* What can be ordered at all: some order of the request's tasks puts each after
\* its in-models, and no ID is used twice.
Orderable ==
  /\ \A j, l \in DOMAIN orderTasks : orderTasks[j].id = orderTasks[l].id => j = l
  /\ \A j \in DOMAIN orderTasks : orderTasks[j].id \notin DOMAIN known
  /\ \E rank \in [DOMAIN orderTasks -> DOMAIN orderTasks] :
       \A j \in DOMAIN orderTasks : \A m \in orderTasks[j].in :
         \/ m \in DOMAIN known
         \/ \E l \in DOMAIN orderTasks : orderTasks[l].id = m /\ rank[l] < rank[j]

\* The sort orders the whole request exactly when that is possible: it never
\* refuses a request that has an order, nor accepts a cyclic one.
DecidesOrderability ==
  /\ result = "sorted" => /\ Orderable
                          /\ {final[j].id : j \in 1..Len(final)}
                               = {orderTasks[j].id : j \in DOMAIN orderTasks}
  /\ result \in {"cyclic", "duplicate"} => ~Orderable

-----------------------------------------------------------------------------
(* The inductive invariant *)

\* A task, with or without its depth, and the tasks of s from the position n on.
TaskOf(t) == [id |-> t.id, in |-> t.in]
TasksFrom(s, n) == {TaskOf(s[j]) : j \in n..Len(s)}

\* Those ordered, put off to the list later and left in cur from n on are the
\* tasks of the request: none is lost or made up.
AllTasks(ordered, later, cur, n) ==
  /\ Len(ordered) + Len(later) + Len(cur) + 1 = Len(orderTasks) + n
  /\ TasksFrom(ordered, 1) \cup TasksFrom(later, 1) \cup TasksFrom(cur, n)
       = TasksFrom(orderTasks, 1)

UsedOnce(s, n) == \A j, l \in n..Len(s) : s[j].id = s[l].id => j = l
Apart(s, t, n) == \A j \in 1..Len(s), l \in n..Len(t) : s[j].id # t[l].id

\* An ID that the request uses once is used once in all of them.
IDsApart(ordered, later, cur, n) ==
  UsedOnce(orderTasks, 1) =>
    /\ UsedOnce(later, 1) /\ UsedOnce(cur, n)
    /\ Apart(ordered, later, 1) /\ Apart(ordered, cur, n) /\ Apart(later, cur, n)

\* When the pass has put off as many tasks as it has seen, none was ready.
NoneOrdered ==
  /\ Len(temp) < i
  /\ Len(temp) = i - 1 => \A j \in 1..(i - 1) : temp[j] = current[j] /\ ~Ready(current[j])

\* What the loop has found when it returns.
Outcome ==
  /\ result = "sorted" => temp = <<>> /\ current = <<>> /\ i = 1
  /\ result = "cyclic" => /\ temp = <<>> /\ current # <<>> /\ i = 1
                          /\ \A j \in 1..Len(current) : ~Ready(current[j])
  /\ result = "duplicate" => i <= Len(current) /\ current[i].id \in DOMAIN depths

\* What every iteration preserves: the order so far is right, and the passes lose
\* nothing of the request.
SortInductive ==
  /\ TypeOK /\ DependenciesFirst /\ DepthsExact
  /\ AllTasks(final, temp, current, i) /\ IDsApart(final, temp, current, i)
  /\ NoneOrdered /\ Outcome

-----------------------------------------------------------------------------
\* The passes end, with an order or with an error.
SortEnds == <>(~Sorting)

\* "Traintuples, CompositeTraintuples and Aggregatetuples are ordered by
\* ascending rank": their keys are listed in the order of the sort.
AscendingRank ==
  result = "sorted" =>
    \A j, l \in 1..Len(final) : j < l => final[j].depth <= final[l].depth
=============================================================================
