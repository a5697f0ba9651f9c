-------------------------- MODULE ComputeDAGProofs --------------------------
(***************************************************************************)
(* ComputeDAG.sort is right for every request, of any length and with any  *)
(* in-models: the order it computes puts every task after its in-models,   *)
(* the depths are those of the graph, and it refuses a request only when   *)
(* there is no such order.                                                 *)
(*                                                                         *)
(* Each iteration first moves a task from the pass to the order or to the  *)
(* list of those put off, then advances to the next position or the next   *)
(* pass.  The lemmas on lists follow these two moves.                      *)
(***************************************************************************)
EXTENDS ComputeDAG, SumProofs

-----------------------------------------------------------------------------
(* Lists *)

OrderedTask == [id : IDs, in : SUBSET IDs, depth : Nat]

\* What one more element at the end of a sequence changes.
LEMMA AppendFacts ==
  ASSUME NEW S, NEW s \in Seq(S), NEW e \in S
  PROVE  /\ Append(s, e) \in Seq(S)
         /\ Len(s) \in Nat /\ Len(Append(s, e)) = Len(s) + 1
         /\ \A l \in 1..Len(s) : Append(s, e)[l] = s[l]
         /\ Append(s, e)[Len(s) + 1] = e
OBVIOUS

LEMMA TasksFromAppend ==
  ASSUME NEW S, NEW s \in Seq(S), NEW e \in S
  PROVE  TasksFrom(Append(s, e), 1) = TasksFrom(s, 1) \cup {TaskOf(e)}
<1>1. 1..(Len(s) + 1) = (1..Len(s)) \cup {Len(s) + 1}
  BY AppendFacts
<1>2. QED BY <1>1, AppendFacts DEF TasksFrom

LEMMA TasksFromNext ==
  ASSUME NEW S, NEW s \in Seq(S), NEW n \in 1..Len(s)
  PROVE  TasksFrom(s, n) = TasksFrom(s, n + 1) \cup {TaskOf(s[n])}
<1>1. n..Len(s) = ((n + 1)..Len(s)) \cup {n}
  OBVIOUS
<1>2. QED BY <1>1 DEF TasksFrom

LEMMA TasksFromEnd ==
  ASSUME NEW S, NEW s \in Seq(S)
  PROVE  TasksFrom(s, Len(s) + 1) = {}
<1>1. (Len(s) + 1)..Len(s) = {}
  OBVIOUS
<1>2. QED BY <1>1 DEF TasksFrom

LEMMA TypesFacts ==
  ASSUME TypeOK
  PROVE  /\ orderTasks \in Seq(Task) /\ current \in Seq(Task) /\ temp \in Seq(Task)
         /\ final \in Seq(OrderedTask)
         /\ Len(orderTasks) \in Nat /\ Len(current) \in Nat /\ Len(temp) \in Nat
         /\ Len(final) \in Nat /\ i \in Nat \ {0} /\ i <= Len(current) + 1
         /\ \A j \in 1..Len(current) : current[j] \in Task
BY DEF TypeOK, OrderedTask

LEMMA TaskFacts ==
  ASSUME NEW t \in Task
  PROVE  t.id \in IDs /\ t.in \in SUBSET IDs /\ IsFiniteSet(t.in)
BY DEF Task, InModelSets

\* Depth is what it is called: one above the deepest in-model.
LEMMA DepthFacts ==
  ASSUME TypeOK, NEW t \in Task, Ready(t)
  PROVE  /\ Depth(t) \in Nat
         /\ t.in = {} => Depth(t) = 0
         /\ \A m \in t.in : depths[m] < Depth(t)
         /\ t.in # {} => \E m \in t.in : Depth(t) = depths[m] + 1
<1> DEFINE found == {depths[m] : m \in t.in \cap DOMAIN depths}
<1>1. t.in \subseteq DOMAIN depths
  BY DEF Ready
<1>2. found \subseteq Nat /\ found = {depths[m] : m \in t.in}
  BY <1>1 DEF TypeOK
<1>3. IsFiniteSet(found)
  <2> DEFINE f == [m \in t.in |-> depths[m]]
  <2>1. f \in Surjection(t.in, found)
    BY <1>2 DEF Surjection
  <2>2. QED BY <2>1, TaskFacts, FS_Surjection
<1>4. CASE t.in = {}
  <2>1. found = {}
    BY <1>2, <1>4
  <2>2. QED BY <1>4, <2>1 DEF Depth
<1>5. CASE t.in # {}
  <2>1. found # {}
    BY <1>2, <1>5
  <2> DEFINE top == CHOOSE d \in found : \A e \in found : e <= d
  <2>2. top \in found /\ \A e \in found : e <= top
    BY <1>2, <1>3, <2>1, HasMaximum
  <2>3. Depth(t) = 1 + top
    BY <2>1 DEF Depth
  <2> HIDE DEF top
  <2>4. top \in Nat /\ \E m \in t.in : top = depths[m]
    BY <1>2, <2>2
  <2>5. \A m \in t.in : depths[m] \in Nat /\ depths[m] <= top
    BY <1>2, <2>2
  <2> HIDE DEF found
  <2>6. QED BY <1>5, <2>3, <2>4, <2>5
<1>6. QED BY <1>4, <1>5

-----------------------------------------------------------------------------
(* An iteration moves a task, then advances *)

LEMMA AdvanceCases ==
  ASSUME TypeOK, Sorting, NEW later, Advance(later)
  PROVE  \/ /\ i < Len(current) /\ i' = i + 1 /\ temp' = later /\ current' = current
            /\ result' = "sorting"
         \/ /\ i = Len(current) /\ i' = 1 /\ temp' = <<>> /\ current' = later
            /\ result' = IF Len(later) = Len(current) THEN "cyclic"
                         ELSE IF later = <<>> THEN "sorted" ELSE "sorting"
<1>1. i <= Len(current) /\ i \in Nat /\ Len(current) \in Nat
  BY TypesFacts DEF TypeOK
<1>2. QED BY <1>1 DEF Advance, Sorting

LEMMA AdvanceTypes ==
  ASSUME TypeOK, Sorting, NEW later \in Seq(Task), Advance(later)
  PROVE  /\ current' \in Seq(Task) /\ temp' \in Seq(Task)
         /\ i' \in 1..(Len(current') + 1) /\ (result' = "sorting" => i' <= Len(current'))
         /\ result' \in {"sorting", "sorted", "duplicate", "cyclic"}
<1>1. CASE i < Len(current) /\ i' = i + 1 /\ temp' = later /\ current' = current
             /\ result' = "sorting"
  BY <1>1, TypesFacts
<1>2. CASE /\ i = Len(current) /\ i' = 1 /\ temp' = <<>> /\ current' = later
           /\ result' = IF Len(later) = Len(current) THEN "cyclic"
                        ELSE IF later = <<>> THEN "sorted" ELSE "sorting"
  <2>1. <<>> \in Seq(Task) /\ Len(later) \in Nat /\ (later # <<>> => Len(later) >= 1)
    OBVIOUS
  <2>2. QED BY <1>2, <2>1
<1>3. QED BY <1>1, <1>2, AdvanceCases

LEMMA AdvanceKeeps ==
  ASSUME TypeOK, Sorting, NEW ordered \in Seq(OrderedTask), NEW later \in Seq(Task),
         Advance(later),
         AllTasks(ordered, later, current, i + 1), IDsApart(ordered, later, current, i + 1)
  PROVE  AllTasks(ordered, temp', current', i') /\ IDsApart(ordered, temp', current', i')
<1>1. CASE i' = i + 1 /\ temp' = later /\ current' = current
  BY <1>1
<1>2. CASE i = Len(current) /\ i' = 1 /\ temp' = <<>> /\ current' = later
  <2>1. TasksFrom(current, i + 1) = {} /\ TasksFrom(<<>>, 1) = {} /\ Len(<<>>) = 0
    BY <1>2, TypesFacts, TasksFromEnd DEF TasksFrom
  <2>2. Len(ordered) \in Nat /\ Len(later) \in Nat
    OBVIOUS
  <2>3. AllTasks(ordered, <<>>, later, 1)
    <3>1. Len(ordered) + Len(<<>>) + Len(later) + 1 = Len(orderTasks) + 1
      BY <1>2, <2>1, <2>2, TypesFacts DEF AllTasks
    <3>2. TasksFrom(ordered, 1) \cup TasksFrom(<<>>, 1) \cup TasksFrom(later, 1)
            = TasksFrom(orderTasks, 1)
      BY <2>1 DEF AllTasks
    <3>3. QED BY <3>1, <3>2 DEF AllTasks
  <2>4. IDsApart(ordered, <<>>, later, 1)
    BY <2>1 DEF IDsApart, UsedOnce, Apart
  <2>5. QED BY <1>2, <2>3, <2>4
<1>3. QED BY <1>1, <1>2, AdvanceCases

\* The request itself does not change.
LEMMA SameRequest ==
  ASSUME orderTasks' = orderTasks,
         AllTasks(final', temp', current', i'), IDsApart(final', temp', current', i')
  PROVE  AllTasks(final, temp, current, i)' /\ IDsApart(final, temp, current, i)'
<1>1. AllTasks(final, temp, current, i)'
  BY DEF AllTasks, TasksFrom
<1>2. IDsApart(final, temp, current, i)'
  BY DEF IDsApart, UsedOnce, Apart
<1>3. QED BY <1>1, <1>2

\* The two moves.
LEMMA OrderMoves ==
  ASSUME SortInductive, Order
  PROVE  /\ final' \in Seq(OrderedTask)
         /\ AllTasks(final', temp, current, i + 1) /\ IDsApart(final', temp, current, i + 1)
<1> USE DEF SortInductive
<1> DEFINE t == current[i]
           e == [id |-> t.id, in |-> t.in, depth |-> Depth(t)]
           n == Len(final)
<1>1. t \in Task /\ i \in 1..Len(current) /\ Ready(t) /\ final' = Append(final, e)
  BY TypesFacts DEF Order, TypeOK
<1>2. e \in OrderedTask /\ TaskOf(e) = TaskOf(t) /\ e.id = t.id
  BY <1>1, TaskFacts, DepthFacts DEF OrderedTask, TaskOf
<1> HIDE DEF e, t
<1>3. /\ final' \in Seq(OrderedTask) /\ Len(final') = n + 1
      /\ \A l \in 1..n : final'[l] = final[l]
      /\ final'[n + 1] = e
  BY <1>1, <1>2, TypesFacts, AppendFacts
<1>4. AllTasks(final', temp, current, i + 1)
  <2>1. TasksFrom(final', 1) = TasksFrom(final, 1) \cup {TaskOf(t)}
    BY <1>1, <1>2, TypesFacts, TasksFromAppend
  <2>2. TasksFrom(current, i) = TasksFrom(current, i + 1) \cup {TaskOf(t)}
    BY <1>1, TypesFacts, TasksFromNext DEF t
  <2>3. QED BY <1>3, <2>1, <2>2, TypesFacts DEF AllTasks
<1>5. IDsApart(final', temp, current, i + 1)
  <2> SUFFICES ASSUME UsedOnce(orderTasks, 1)
               PROVE  /\ UsedOnce(temp, 1) /\ UsedOnce(current, i + 1)
                      /\ Apart(final', temp, 1) /\ Apart(final', current, i + 1)
                      /\ Apart(temp, current, i + 1)
    BY DEF IDsApart
  <2>1. /\ UsedOnce(temp, 1) /\ UsedOnce(current, i)
        /\ Apart(final, temp, 1) /\ Apart(final, current, i) /\ Apart(temp, current, i)
    BY DEF IDsApart
  <2>2. /\ (i + 1)..Len(current) \subseteq i..Len(current)
        /\ i \in i..Len(current) /\ i \notin (i + 1)..Len(current)
    BY <1>1
  <2>3. UsedOnce(current, i + 1) /\ Apart(temp, current, i + 1)
    BY <2>1, <2>2 DEF UsedOnce, Apart
  <2>4. ASSUME NEW j \in 1..Len(final') PROVE (j \in 1..n /\ final'[j] = final[j]) \/ final'[j].id = t.id
    BY <1>2, <1>3, TypesFacts
  <2>5. Apart(final', temp, 1)
    BY <2>1, <2>2, <2>4 DEF Apart, t
  <2>6. Apart(final', current, i + 1)
    BY <2>1, <2>2, <2>4 DEF Apart, UsedOnce, t
  <2>7. QED BY <2>1, <2>3, <2>5, <2>6
<1>6. QED BY <1>3, <1>4, <1>5

LEMMA PutOffMoves ==
  ASSUME SortInductive, PutOff
  PROVE  /\ Append(temp, current[i]) \in Seq(Task)
         /\ AllTasks(final, Append(temp, current[i]), current, i + 1)
         /\ IDsApart(final, Append(temp, current[i]), current, i + 1)
<1> USE DEF SortInductive
<1> DEFINE t == current[i]
           later == Append(temp, t)
           n == Len(temp)
<1>1. t \in Task /\ i \in 1..Len(current)
  BY TypesFacts DEF PutOff, TypeOK
<1> HIDE DEF t
<1>2. /\ later \in Seq(Task) /\ Len(later) = n + 1
      /\ \A l \in 1..n : later[l] = temp[l]
      /\ later[n + 1] = t
  BY <1>1, TypesFacts, AppendFacts
<1>3. TasksFrom(later, 1) = TasksFrom(temp, 1) \cup {TaskOf(t)}
  BY <1>1, TypesFacts, TasksFromAppend
<1> HIDE DEF later
<1>4. AllTasks(final, later, current, i + 1)
  <2>1. TasksFrom(current, i) = TasksFrom(current, i + 1) \cup {TaskOf(t)}
    BY <1>1, TypesFacts, TasksFromNext DEF t
  <2>2. QED BY <1>2, <1>3, <2>1, TypesFacts DEF AllTasks
<1>5. IDsApart(final, later, current, i + 1)
  <2> SUFFICES ASSUME UsedOnce(orderTasks, 1)
               PROVE  /\ UsedOnce(later, 1) /\ UsedOnce(current, i + 1)
                      /\ Apart(final, later, 1) /\ Apart(final, current, i + 1)
                      /\ Apart(later, current, i + 1)
    BY DEF IDsApart
  <2>1. /\ UsedOnce(temp, 1) /\ UsedOnce(current, i)
        /\ Apart(final, temp, 1) /\ Apart(final, current, i) /\ Apart(temp, current, i)
    BY DEF IDsApart
  <2>2. /\ (i + 1)..Len(current) \subseteq i..Len(current)
        /\ i \in i..Len(current) /\ i \notin (i + 1)..Len(current)
    BY <1>1
  <2>3. UsedOnce(current, i + 1) /\ Apart(final, current, i + 1)
    BY <2>1, <2>2 DEF UsedOnce, Apart
  <2>4. \A j \in 1..Len(later) : (j \in 1..n /\ later[j] = temp[j]) \/ (j = n + 1 /\ later[j] = t)
    BY <1>2, TypesFacts
  <2>5. Apart(final, later, 1)
    BY <2>1, <2>2, <2>4 DEF Apart, t
  <2>6. Apart(later, current, i + 1)
    BY <2>1, <2>2, <2>4 DEF Apart, UsedOnce, t
  <2>7. UsedOnce(later, 1)
    <3>1. \A j \in 1..n : temp[j].id # t.id
      BY <2>1, <2>2 DEF Apart, t
    <3>2. SUFFICES ASSUME NEW j \in 1..Len(later), NEW l \in 1..Len(later),
                          later[j].id = later[l].id
                   PROVE  j = l
      BY DEF UsedOnce
    <3>3. CASE j \in 1..n /\ l \in 1..n
      BY <2>1, <2>4, <3>2, <3>3 DEF UsedOnce
    <3>4. CASE j = n + 1 \/ l = n + 1
      BY <2>4, <3>1, <3>2, <3>4
    <3>5. QED BY <2>4, <3>3, <3>4
  <2>8. QED BY <2>3, <2>5, <2>6, <2>7
<1>6. QED BY <1>2, <1>4, <1>5 DEF later, t

-----------------------------------------------------------------------------
(* Every iteration preserves the invariant *)

LEMMA SortInit == ASSUME Init PROVE SortInductive
<1>1. /\ orderTasks \in Seq(Task) /\ Len(orderTasks) \in Nat
      /\ DOMAIN known \subseteq IDs /\ \A id \in DOMAIN known : known[id] \in Nat
  <2>1. orderTasks \in Seq(Task)
    BY DEF Init, Requests
  <2>2. PICK S \in SUBSET KnownIDs : known \in [S -> 0..MaxDepth]
    BY DEF Init
  <2>3. QED BY <2>1, <2>2, DAGAssumption
<1>2. /\ current = orderTasks /\ i = 1 /\ temp = <<>> /\ final = <<>> /\ depths = known
      /\ result = IF orderTasks = <<>> THEN "sorted" ELSE "sorting"
  BY DEF Init
<1>3. /\ Len(<<>>) = 0 /\ 1..0 = {} /\ TasksFrom(<<>>, 1) = {}
      /\ orderTasks # <<>> => Len(orderTasks) >= 1
  BY <1>1 DEF TasksFrom
<1>4. TypeOK
  <2>1. i \in 1..(Len(current) + 1) /\ (Sorting => i <= Len(current))
    BY <1>1, <1>2, <1>3 DEF Sorting
  <2>2. DOMAIN depths = DOMAIN known \cup {final[l].id : l \in 1..Len(final)}
    BY <1>2, <1>3
  <2>3. <<>> \in Seq(Task) /\ <<>> \in Seq([id : IDs, in : SUBSET IDs, depth : Nat])
    OBVIOUS
  <2>4. QED BY <1>1, <1>2, <2>1, <2>2, <2>3 DEF TypeOK
<1>5. DependenciesFirst /\ DepthsExact /\ NoneOrdered
  BY <1>1, <1>2, <1>3 DEF DependenciesFirst, DepthsExact, NoneOrdered
<1>6. AllTasks(final, temp, current, i)
  BY <1>1, <1>2, <1>3 DEF AllTasks
<1>7. IDsApart(final, temp, current, i) /\ Outcome
  BY <1>2, <1>3 DEF IDsApart, UsedOnce, Apart, Outcome
<1>8. QED BY <1>4, <1>5, <1>6, <1>7 DEF SortInductive

\* One more task in the order leaves the part before it as it was.
LEMMA OrderExtends ==
  ASSUME SortInductive, Order
  PROVE  DependenciesFirst' /\ DepthsExact'
<1> USE DEF SortInductive
<1> DEFINE t == current[i]
           e == [id |-> t.id, in |-> t.in, depth |-> Depth(t)]
           n == Len(final)
<1>1. /\ t \in Task /\ t.in \subseteq DOMAIN depths /\ t.id \notin DOMAIN depths
      /\ Ready(t) /\ final' = Append(final, e) /\ known' = known
      /\ depths' = [id \in DOMAIN depths \cup {t.id} |->
                      IF id = t.id THEN Depth(t) ELSE depths[id]]
  BY TypesFacts DEF Order, TypeOK, Ready, IsNew
<1>2. e \in OrderedTask /\ e.id = t.id /\ e.in = t.in /\ e.depth = Depth(t)
  BY <1>1, TaskFacts, DepthFacts DEF OrderedTask
<1>3. /\ n \in Nat /\ Len(final') = n + 1
      /\ \A l \in 1..n : final'[l] = final[l]
      /\ final'[n + 1] = e
  BY <1>1, <1>2, TypesFacts, AppendFacts
<1> HIDE DEF e, t
<1>4. DOMAIN depths = Before(n + 1)
  BY <1>3 DEF TypeOK, Before
<1>5. \A j \in 1..(n + 1) : Before(j)' = Before(j)
  <2> TAKE j \in 1..(n + 1)
  <2>1. \A l \in 1..(j - 1) : final'[l] = final[l]
    BY <1>3
  <2>2. QED BY <1>1, <2>1 DEF Before
<1>6. DependenciesFirst'
  <2> SUFFICES ASSUME NEW j \in 1..(n + 1)
               PROVE  final'[j].in \subseteq Before(j) /\ final'[j].id \notin Before(j)
    BY <1>3, <1>5 DEF DependenciesFirst
  <2>1. CASE j = n + 1
    BY <1>1, <1>2, <1>3, <1>4, <2>1
  <2>2. CASE j # n + 1
    BY <1>3, <2>2 DEF DependenciesFirst
  <2>3. QED BY <2>1, <2>2
<1>7. /\ \A id \in DOMAIN depths : depths'[id] = depths[id]
      /\ depths'[t.id] = Depth(t)
  BY <1>1
<1>8. \A j \in 1..n : final[j].id \in DOMAIN depths /\ final[j].in \subseteq DOMAIN depths
  <2> SUFFICES ASSUME NEW j \in 1..n
               PROVE  final[j].id \in DOMAIN depths /\ final[j].in \subseteq DOMAIN depths
    OBVIOUS
  <2>1. 1..(j - 1) \subseteq 1..n
    BY <1>3
  <2>2. Before(j) \subseteq DOMAIN depths
    BY <1>3, <2>1 DEF TypeOK, Before
  <2>3. QED BY <2>2 DEF DependenciesFirst, TypeOK
<1>9. DepthsExact'
  <2> SUFFICES ASSUME NEW j \in 1..(n + 1)
               PROVE  /\ final'[j].depth = depths'[final'[j].id]
                      /\ final'[j].in = {} => final'[j].depth = 0
                      /\ \A m \in final'[j].in : depths'[m] < final'[j].depth
                      /\ final'[j].in # {} => \E m \in final'[j].in : final'[j].depth = depths'[m] + 1
    BY <1>3 DEF DepthsExact
  <2>1. CASE j = n + 1
    <3>1. /\ t.in = {} => Depth(t) = 0
          /\ \A m \in t.in : depths[m] < Depth(t)
          /\ t.in # {} => \E m \in t.in : Depth(t) = depths[m] + 1
      BY <1>1, DepthFacts
    <3>2. QED BY <1>1, <1>2, <1>3, <1>7, <2>1, <3>1
  <2>2. CASE j # n + 1
    <3>1. j \in 1..n /\ final'[j] = final[j]
      BY <1>3, <2>2
    <3>2. QED BY <1>7, <1>8, <3>1 DEF DepthsExact
  <2>3. QED BY <2>1, <2>2
<1>10. QED BY <1>6, <1>9

LEMMA OrderPreserves == ASSUME SortInductive, Order PROVE SortInductive'
<1> USE DEF SortInductive
<1>1. /\ Sorting /\ Ready(current[i]) /\ Advance(temp) /\ UNCHANGED <<orderTasks, known>>
      /\ current[i] \in Task
      /\ depths' = [id \in DOMAIN depths \cup {current[i].id} |->
                      IF id = current[i].id THEN Depth(current[i]) ELSE depths[id]]
      /\ final' = Append(final, [id |-> current[i].id, in |-> current[i].in,
                                 depth |-> Depth(current[i])])
  BY TypesFacts DEF Order, TypeOK
<1>2. DependenciesFirst' /\ DepthsExact'
  BY OrderExtends
<1>3. /\ final' \in Seq(OrderedTask)
      /\ AllTasks(final', temp', current', i') /\ IDsApart(final', temp', current', i')
  BY <1>1, OrderMoves, AdvanceKeeps, TypesFacts
<1>4. AllTasks(final, temp, current, i)' /\ IDsApart(final, temp, current, i)'
  BY <1>1, <1>3, SameRequest
<1>5. DOMAIN depths' = DOMAIN known' \cup {final'[l].id : l \in 1..Len(final')}
  <2> DEFINE e == [id |-> current[i].id, in |-> current[i].in, depth |-> Depth(current[i])]
             n == Len(final)
  <2>1. e \in OrderedTask /\ e.id = current[i].id
    BY <1>1, TaskFacts, DepthFacts DEF OrderedTask
  <2> HIDE DEF e
  <2>2. /\ n \in Nat /\ Len(final') = n + 1 /\ final'[n + 1] = e
        /\ \A l \in 1..n : final'[l] = final[l]
    BY <1>1, <2>1, TypesFacts, AppendFacts DEF e
  <2>3. 1..(n + 1) = (1..n) \cup {n + 1}
    BY <2>2
  <2>4. {final'[l].id : l \in 1..(n + 1)} = {final[l].id : l \in 1..n} \cup {e.id}
    BY <2>2, <2>3
  <2>5. QED BY <1>1, <2>1, <2>2, <2>4 DEF TypeOK
<1>6. \A id \in DOMAIN depths' : id \in IDs /\ depths'[id] \in Nat
  BY <1>1, TaskFacts, DepthFacts DEF TypeOK
<1>7. Len(temp) < i
  BY DEF NoneOrdered
<1>8. TypeOK'
  <2>1. /\ orderTasks' \in Seq(Task) /\ current' \in Seq(Task) /\ temp' \in Seq(Task)
        /\ i' \in 1..(Len(current') + 1) /\ (result' = "sorting" => i' <= Len(current'))
        /\ result' \in {"sorting", "sorted", "duplicate", "cyclic"}
    BY <1>1, AdvanceTypes, TypesFacts
  <2>2. QED BY <1>3, <1>5, <1>6, <2>1 DEF TypeOK, Sorting, OrderedTask
<1>9. NoneOrdered' /\ Outcome'
  <2>1. CASE i' = i + 1 /\ temp' = temp /\ result' = "sorting"
    BY <1>7, <2>1, TypesFacts DEF NoneOrdered, Outcome
  <2>2. CASE /\ i = Len(current) /\ i' = 1 /\ temp' = <<>> /\ current' = temp
             /\ result' = IF Len(temp) = Len(current) THEN "cyclic"
                          ELSE IF temp = <<>> THEN "sorted" ELSE "sorting"
    <3>1. Len(temp) # Len(current) /\ Len(<<>>) = 0 /\ 1..0 = {}
      BY <1>7, <2>2, TypesFacts
    <3>2. QED BY <2>2, <3>1 DEF NoneOrdered, Outcome
  <2>3. QED BY <1>1, <2>1, <2>2, AdvanceCases
<1>10. QED BY <1>2, <1>4, <1>8, <1>9

LEMMA PutOffPreserves == ASSUME SortInductive, PutOff PROVE SortInductive'
<1> USE DEF SortInductive
<1> DEFINE t == current[i]
           later == Append(temp, t)
           n == Len(temp)
<1>1. /\ Sorting /\ ~Ready(t) /\ Advance(later) /\ t \in Task
      /\ UNCHANGED <<orderTasks, known, final, depths>>
  BY TypesFacts DEF PutOff, TypeOK
<1>2. /\ later \in Seq(Task) /\ n \in Nat /\ Len(later) = n + 1
      /\ \A l \in 1..n : later[l] = temp[l]
      /\ later[n + 1] = t
  BY <1>1, TypesFacts, AppendFacts
<1>3. AllTasks(final, temp', current', i') /\ IDsApart(final, temp', current', i')
  BY <1>1, PutOffMoves, AdvanceKeeps, TypesFacts
<1> HIDE DEF later
<1>4. AllTasks(final, temp, current, i)' /\ IDsApart(final, temp, current, i)'
  BY <1>1, <1>3, SameRequest
<1>5. DependenciesFirst' /\ DepthsExact'
  BY <1>1 DEF DependenciesFirst, DepthsExact, Before
<1>6. TypeOK'
  <2>1. /\ orderTasks' \in Seq(Task) /\ current' \in Seq(Task) /\ temp' \in Seq(Task)
        /\ i' \in 1..(Len(current') + 1) /\ (result' = "sorting" => i' <= Len(current'))
        /\ result' \in {"sorting", "sorted", "duplicate", "cyclic"}
    BY <1>1, <1>2, AdvanceTypes, TypesFacts
  <2>2. QED BY <1>1, <2>1 DEF TypeOK, Sorting
<1>7. /\ n < i
      /\ n = i - 1 => \A j \in 1..(i - 1) : temp[j] = current[j] /\ ~Ready(current[j])
  BY DEF NoneOrdered
<1>8. \A u : Ready(u)' <=> Ready(u)
  BY <1>1 DEF Ready
<1>9. Len(later) = i => \A j \in 1..i : later[j] = current[j] /\ ~Ready(later[j])
  <2> SUFFICES ASSUME Len(later) = i, NEW j \in 1..i
               PROVE  later[j] = current[j] /\ ~Ready(later[j])
    OBVIOUS
  <2>1. n = i - 1 /\ i \in Nat
    BY <1>2, TypesFacts
  <2>2. CASE j = i
    BY <1>1, <1>2, <2>1, <2>2
  <2>3. CASE j # i
    BY <1>2, <1>7, <2>1, <2>3
  <2>4. QED BY <2>2, <2>3
<1>10. NoneOrdered' /\ Outcome'
  <2>1. CASE i' = i + 1 /\ temp' = later /\ current' = current /\ result' = "sorting"
    BY <1>2, <1>7, <1>8, <1>9, <2>1, TypesFacts DEF NoneOrdered, Outcome
  <2>2. CASE /\ i = Len(current) /\ i' = 1 /\ temp' = <<>> /\ current' = later
             /\ result' = IF Len(later) = Len(current) THEN "cyclic"
                          ELSE IF later = <<>> THEN "sorted" ELSE "sorting"
    <3>1. Len(<<>>) = 0 /\ 1..0 = {} /\ later # <<>>
      BY <1>2
    <3>2. NoneOrdered'
      BY <2>2, <3>1 DEF NoneOrdered
    <3>3. QED BY <1>8, <1>9, <2>2, <3>1, <3>2 DEF Outcome
  <2>3. QED BY <1>1, <2>1, <2>2, AdvanceCases
<1>11. QED BY <1>4, <1>5, <1>6, <1>10

LEMMA SameLists ==
  ASSUME SortInductive, UNCHANGED <<orderTasks, known, current, i, temp, final, depths>>
  PROVE  /\ DependenciesFirst' /\ DepthsExact' /\ NoneOrdered'
         /\ AllTasks(final, temp, current, i)' /\ IDsApart(final, temp, current, i)'
<1> USE DEF SortInductive
<1>1. DependenciesFirst'
  BY DEF DependenciesFirst, Before
<1>2. DepthsExact'
  BY DEF DepthsExact
<1>3. NoneOrdered'
  BY DEF NoneOrdered, Ready
<1>4. AllTasks(final, temp, current, i)' /\ IDsApart(final, temp, current, i)'
  BY SameRequest
<1>5. QED BY <1>1, <1>2, <1>3, <1>4

LEMMA DuplicatePreserves == ASSUME SortInductive, Duplicate PROVE SortInductive'
<1>1. /\ result' = "duplicate" /\ i <= Len(current) /\ current[i].id \in DOMAIN depths
      /\ UNCHANGED <<orderTasks, known, current, i, temp, final, depths>>
  BY DEF Duplicate, IsNew, TypeOK, SortInductive
<1>2. TypeOK'
  BY <1>1 DEF TypeOK, Sorting, SortInductive
<1>3. Outcome'
  BY <1>1 DEF Outcome
<1>4. QED BY <1>1, <1>2, <1>3, SameLists DEF SortInductive

LEMMA SortStep == ASSUME SortInductive, [Next]_vars PROVE SortInductive'
<1>1. CASE UNCHANGED vars
  <2>1. UNCHANGED <<orderTasks, known, current, i, temp, final, depths, result>>
    BY <1>1 DEF vars
  <2>2. TypeOK'
    BY <2>1 DEF TypeOK, Sorting, SortInductive
  <2>3. Outcome'
    BY <2>1 DEF Outcome, Ready, SortInductive
  <2>4. QED BY <2>1, <2>2, <2>3, SameLists DEF SortInductive
<1>2. QED BY <1>1, OrderPreserves, PutOffPreserves, DuplicatePreserves DEF Next

-----------------------------------------------------------------------------
(* What the result says of the request *)

\* A set of numbers that is not empty has a minimum.
LEMMA HasMinimum ==
  ASSUME NEW T \in SUBSET Nat, T # {}
  PROVE  \E x \in T : \A y \in T : x <= y
<1>1. PICK x \in T : \A y \in T : <<y, x>> \notin OpToRel(<, Nat)
  BY NatLessThanWellFounded, WFMin
<1>2. \A y \in T : x \in Nat /\ y \in Nat /\ ~(y < x)
  BY <1>1 DEF OpToRel
<1>3. QED BY <1>2

\* A task that waits in this pass is one of the request.
LEMMA WaitingIsRequested ==
  ASSUME SortInductive, NEW k \in i..Len(current)
  PROVE  \E j \in DOMAIN orderTasks : TaskOf(orderTasks[j]) = TaskOf(current[k])
<1>1. DOMAIN orderTasks = 1..Len(orderTasks)
  BY DEF SortInductive, TypeOK
<1>2. QED BY <1>1 DEF SortInductive, AllTasks, TasksFrom

LEMMA TaskOfFields ==
  ASSUME NEW s, NEW t, TaskOf(s) = TaskOf(t)
  PROVE  s.id = t.id /\ s.in = t.in
BY DEF TaskOf

\* The IDs of the tasks of a list.
IDsOf(s) == {s[j].id : j \in 1..Len(s)}

LEMMA SameTasksSameIDs ==
  ASSUME NEW s, NEW t, TasksFrom(s, 1) = TasksFrom(t, 1)
  PROVE  IDsOf(s) = IDsOf(t)
<1>1. ASSUME NEW u, NEW v, TasksFrom(u, 1) = TasksFrom(v, 1), NEW j \in 1..Len(u)
      PROVE  u[j].id \in IDsOf(v)
  <2>1. PICK l \in 1..Len(v) : TaskOf(u[j]) = TaskOf(v[l])
    BY <1>1 DEF TasksFrom
  <2>2. u[j].id = v[l].id
    BY <2>1, TaskOfFields
  <2>3. QED BY <2>2 DEF IDsOf
<1>2. ASSUME NEW u, NEW v, TasksFrom(u, 1) = TasksFrom(v, 1)
      PROVE  IDsOf(u) \subseteq IDsOf(v)
  <2> SUFFICES ASSUME NEW id \in IDsOf(u) PROVE id \in IDsOf(v)
    OBVIOUS
  <2>1. PICK j \in 1..Len(u) : id = u[j].id
    BY DEF IDsOf
  <2>2. QED BY <1>1, <1>2, <2>1
<1>3. QED BY <1>2

\* A task whose ID is there already has it from the plan or from another task.
LEMMA DuplicateIsUnorderable ==
  ASSUME SortInductive, result = "duplicate"
  PROVE  ~Orderable
<1> SUFFICES ASSUME Orderable PROVE FALSE
  OBVIOUS
<1>1. i \in i..Len(current) /\ current[i].id \in DOMAIN depths
  BY TypesFacts DEF SortInductive, Outcome
<1>2. PICK j \in DOMAIN orderTasks : TaskOf(orderTasks[j]) = TaskOf(current[i])
  BY <1>1, WaitingIsRequested
<1>3. current[i].id \notin DOMAIN known
  BY <1>2, TaskOfFields DEF Orderable
<1>4. PICK l \in 1..Len(final) : final[l].id = current[i].id
  BY <1>1, <1>3 DEF SortInductive, TypeOK
<1>5. UsedOnce(orderTasks, 1)
  <2>1. DOMAIN orderTasks = 1..Len(orderTasks)
    BY DEF SortInductive, TypeOK
  <2>2. QED BY <2>1 DEF Orderable, UsedOnce
<1>6. Apart(final, current, i)
  BY <1>5 DEF SortInductive, IDsApart
<1>7. QED BY <1>1, <1>4, <1>6 DEF Apart

\* If there were an order, the first of the tasks left in it would be ready.
LEMMA CyclicIsUnorderable ==
  ASSUME SortInductive, result = "cyclic"
  PROVE  ~Orderable
<1> SUFFICES ASSUME Orderable PROVE FALSE
  OBVIOUS
<1> DEFINE D == DOMAIN orderTasks
<1>1. /\ temp = <<>> /\ i = 1 /\ D = 1..Len(orderTasks)
      /\ Len(current) \in Nat \ {0} /\ Len(orderTasks) \in Nat
      /\ \A k \in 1..Len(current) : ~Ready(current[k])
  BY TypesFacts DEF SortInductive, Outcome
<1>2. PICK rank \in [D -> D] :
        \A j \in D : \A m \in orderTasks[j].in :
          \/ m \in DOMAIN known
          \/ \E l \in D : orderTasks[l].id = m /\ rank[l] < rank[j]
  BY DEF Orderable
<1> DEFINE Left == {j \in D : \E k \in 1..Len(current) : TaskOf(current[k]) = TaskOf(orderTasks[j])}
<1>3. Left # {}
  BY <1>1, WaitingIsRequested
<1>4. PICK j \in Left : \A l \in Left : rank[j] <= rank[l]
  <2> DEFINE R == {rank[l] : l \in Left}
  <2>1. R \in SUBSET Nat /\ R # {}
    BY <1>1, <1>2, <1>3
  <2>2. PICK r \in R : \A q \in R : r <= q
    BY <2>1, HasMinimum
  <2>3. QED BY <2>2
<1>5. PICK k \in 1..Len(current) : TaskOf(current[k]) = TaskOf(orderTasks[j])
  BY <1>4
<1>6. PICK m \in orderTasks[j].in : m \notin DOMAIN depths
  BY <1>1, <1>5, TaskOfFields DEF Ready
<1>7. m \notin DOMAIN known /\ \A q \in 1..Len(final) : final[q].id # m
  BY <1>6 DEF SortInductive, TypeOK
<1>8. PICK l \in D : orderTasks[l].id = m /\ rank[l] < rank[j]
  BY <1>2, <1>4, <1>7
<1>9. l \notin Left
  <2>1. rank[l] \in Nat /\ rank[j] \in Nat
    BY <1>1, <1>2, <1>4
  <2>2. QED BY <1>4, <1>8, <2>1
<1>10. TaskOf(orderTasks[l]) \in TasksFrom(final, 1)
  <2>1. TaskOf(orderTasks[l]) \in TasksFrom(orderTasks, 1)
    BY <1>1 DEF TasksFrom
  <2>2. TaskOf(orderTasks[l]) \notin TasksFrom(current, 1)
    BY <1>9 DEF TasksFrom
  <2>3. TasksFrom(<<>>, 1) = {}
    BY DEF TasksFrom
  <2>4. QED BY <1>1, <2>1, <2>2, <2>3 DEF SortInductive, AllTasks
<1>11. PICK q \in 1..Len(final) : TaskOf(final[q]) = TaskOf(orderTasks[l])
  BY <1>10 DEF TasksFrom
<1>12. QED BY <1>7, <1>8, <1>11, TaskOfFields

\* The order holds no ID twice.
LEMMA FinalUsedOnce ==
  ASSUME TypeOK, DependenciesFirst
  PROVE  UsedOnce(final, 1)
<1>1. SUFFICES ASSUME NEW j \in 1..Len(final), NEW l \in 1..Len(final), j < l
               PROVE  final[j].id # final[l].id
  BY TypesFacts DEF UsedOnce
<1>2. j \in 1..(l - 1)
  BY <1>1, TypesFacts
<1>3. QED BY <1>2 DEF DependenciesFirst, Before

\* A list of as many tasks as there are IDs in it holds none twice.
LEMMA CountedOnce ==
  ASSUME NEW s, NEW t, Len(s) \in Nat, Len(t) = Len(s),
         TasksFrom(s, 1) = TasksFrom(t, 1), UsedOnce(s, 1)
  PROVE  UsedOnce(t, 1)
<1> DEFINE N == Len(s)
           I == IDsOf(s)
           f == [j \in 1..N |-> s[j].id]
           g == [j \in 1..N |-> t[j].id]
<1>1. I = {s[j].id : j \in 1..N} /\ I = {t[j].id : j \in 1..N}
  <2>1. I = IDsOf(t)
    BY SameTasksSameIDs
  <2>2. QED BY <2>1, Len(t) = N DEF IDsOf
<1>2. IsFiniteSet(1..N)
  BY FS_Interval
<1>3. f \in Surjection(1..N, I) /\ f \in Injection(1..N, I)
  BY <1>1 DEF Surjection, Injection, IsInjective, UsedOnce
<1>4. g \in Surjection(1..N, I)
  BY <1>1 DEF Surjection
<1>5. Cardinality(I) = Cardinality(1..N)
  BY <1>2, <1>3, FS_Surjection
<1>6. g \in Injection(1..N, I)
  BY <1>2, <1>4, <1>5, FS_Surjection
<1>7. QED BY <1>6 DEF Injection, IsInjective, UsedOnce

\* The order itself is the evidence.
LEMMA SortedIsOrderable ==
  ASSUME SortInductive, result = "sorted"
  PROVE  /\ Orderable
         /\ {final[j].id : j \in 1..Len(final)} = {orderTasks[j].id : j \in DOMAIN orderTasks}
<1> DEFINE N == Len(orderTasks)
           rank == [j \in 1..N |-> CHOOSE l \in 1..N : TaskOf(final[l]) = TaskOf(orderTasks[j])]
<1>1. /\ DOMAIN orderTasks = 1..N /\ N \in Nat /\ Len(final) = N
      /\ TasksFrom(final, 1) = TasksFrom(orderTasks, 1)
  <2>1. temp = <<>> /\ current = <<>> /\ i = 1
    BY DEF SortInductive, Outcome
  <2>2. Len(<<>>) = 0 /\ TasksFrom(<<>>, 1) = {}
    BY DEF TasksFrom
  <2>3. N \in Nat /\ Len(final) \in Nat /\ DOMAIN orderTasks = 1..N
    BY TypesFacts DEF SortInductive
  <2>4. Len(final) = N
    <3>1. Len(final) + Len(<<>>) + Len(<<>>) + 1 = N + 1
      BY <2>1 DEF SortInductive, AllTasks
    <3>2. QED BY <2>2, <2>3, <3>1
  <2>5. TasksFrom(final, 1) = TasksFrom(orderTasks, 1)
    BY <2>1, <2>2 DEF SortInductive, AllTasks
  <2>6. QED BY <2>3, <2>4, <2>5
<1>2. \A j \in 1..N : rank[j] \in 1..N /\ TaskOf(final[rank[j]]) = TaskOf(orderTasks[j])
  BY <1>1 DEF TasksFrom
<1>3. IDsOf(final) = IDsOf(orderTasks)
  BY <1>1, SameTasksSameIDs
<1>4. UsedOnce(final, 1)
  BY FinalUsedOnce DEF SortInductive
<1>5. UsedOnce(orderTasks, 1)
  BY <1>1, <1>4, CountedOnce
<1>6. \A j \in 1..N : /\ final[rank[j]].id = orderTasks[j].id
                      /\ final[rank[j]].in = orderTasks[j].in
  BY <1>2, TaskOfFields
<1> HIDE DEF rank
<1>7. \A j \in 1..N : orderTasks[j].id \notin DOMAIN known
  BY <1>1, <1>2, <1>6 DEF SortInductive, DependenciesFirst, Before
<1>8. ASSUME NEW j \in 1..N, NEW m \in orderTasks[j].in
      PROVE  \/ m \in DOMAIN known
             \/ \E l \in 1..N : orderTasks[l].id = m /\ rank[l] < rank[j]
  <2>1. m \in Before(rank[j])
    BY <1>1, <1>2, <1>6 DEF SortInductive, DependenciesFirst
  <2>2. CASE m \in DOMAIN known
    BY <2>2
  <2>3. CASE m \notin DOMAIN known
    <3>1. PICK q \in 1..(rank[j] - 1) : final[q].id = m
      BY <2>1, <2>3 DEF Before
    <3>2. q \in 1..N /\ q < rank[j]
      BY <1>1, <1>2
    <3>3. PICK l \in 1..N : orderTasks[l].id = m
      BY <1>1, <1>3, <3>1, <3>2 DEF IDsOf
    <3>4. rank[l] = q
      BY <1>1, <1>2, <1>4, <1>6, <3>1, <3>2, <3>3 DEF UsedOnce
    <3>5. QED BY <3>2, <3>3, <3>4
  <2>4. QED BY <2>2, <2>3
<1>9. rank \in [1..N -> 1..N]
  BY <1>2 DEF rank
<1>10. Orderable
  BY <1>1, <1>5, <1>7, <1>8, <1>9 DEF Orderable, UsedOnce
<1>11. QED BY <1>1, <1>3, <1>10 DEF IDsOf

-----------------------------------------------------------------------------
(* The theorems *)

\* Every iteration of the loop keeps the order right and loses no task.
THEOREM SortInductiveHolds == Spec => []SortInductive
<1>1. Init => SortInductive
  BY SortInit
<1>2. SortInductive /\ [Next]_vars => SortInductive'
  BY SortStep
<1>3. QED BY <1>1, <1>2, PTL DEF Spec

\* In the order the sort builds, every task comes after those of its in-models
\* that the plan did not have already; no ID comes twice, nor one of the plan's.
THEOREM OrderIsTopological == Spec => []DependenciesFirst
<1>1. SortInductive => DependenciesFirst
  BY DEF SortInductive
<1>2. QED BY <1>1, SortInductiveHolds, PTL

\* The depth given to a task is one above that of its deepest in-model.
THEOREM DepthsAreExact == Spec => []DepthsExact
<1>1. SortInductive => DepthsExact
  BY DEF SortInductive
<1>2. QED BY <1>1, SortInductiveHolds, PTL

\* When the sort returns an order the request has one, and the order is of all its
\* tasks; when it returns an error, about an ID or a cycle, there is none.
THEOREM SortDecides == Spec => []DecidesOrderability
<1>1. SortInductive => DecidesOrderability
  BY SortedIsOrderable, CyclicIsUnorderable, DuplicateIsUnorderable DEF DecidesOrderability
<1>2. QED BY <1>1, SortInductiveHolds, PTL
=============================================================================
