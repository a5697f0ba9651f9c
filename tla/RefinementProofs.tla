--------------------------- MODULE RefinementProofs ---------------------------
(***************************************************************************)
(* Theorems: whatever the keys, plans and workers, the life cycle of       *)
(* tuples implements TaskGraph, and the transactions of the training       *)
(* reports, walked child by child, implement that life cycle.              *)
(*                                                                         *)
(* The steps of Workflow map as follows: creating a tuple submits a task,  *)
(* creating it again in one request abandons nothing but waiting tuples,   *)
(* starting it starts the task, its first report delivers the task and     *)
(* repeated ones are stuttering; failures, and the cancellation of a plan, *)
(* abandon the tuples that fail and the waiting ones of the plans they     *)
(* close.                                                                  *)
(*                                                                         *)
(* The steps of ReportTransaction map to stuttering but for Commit.  That  *)
(* it writes what LogSuccess or LogFail writes follows from                *)
(* ReportInductive: a running handler has written its part of it, and the  *)
(* children that are missing are left in some call of its stack.           *)
(***************************************************************************)
EXTENDS WorkflowRefinement, ReportTransaction, WorkflowProofs, SequenceTheorems

-----------------------------------------------------------------------------
(* Tuples as tasks *)

PhaseMap == [k \in Keys |-> Phase(k)]

\* The waiting tuples a step cancels by closing their plan.
NewlyAbandoned == {c \in Keys : Phase(c) = "pending" /\ Phase(c)' = "abandoned"}

LEMMA PhaseFacts ==
  ASSUME TypeOK, NEW k \in Keys
  PROVE  /\ (Phase(k) = "pending") <=> (Effective(k) = "waiting")
         /\ (Phase(k) = "runnable") <=> (status[k] = "todo")
         /\ (Phase(k) = "running") <=> (status[k] = "doing")
         /\ (Phase(k) = "delivered") <=> (status[k] = "done")
         /\ (Phase(k) = "unknown") <=> (status[k] = Absent)
         /\ (Phase(k) = "abandoned") <=> (Effective(k) \in Closed)
BY DEF TypeOK, Phase, Effective, EffectiveIn, Statuses, Closed, Absent

\* A step that does not write a tuple can only cancel it, by closing its plan.
LEMMA PhaseKept ==
  ASSUME TypeOK, NEW c \in Keys, status'[c] = status[c], plan'[c] = plan[c],
         \A q \in Plans : planStatus[q] \in Closed => planStatus'[q] \in Closed
  PROVE  /\ \/ Phase(c)' = Phase(c)
            \/ c \in NewlyAbandoned
         /\ (\A q \in Plans : planStatus'[q] \in Closed => planStatus[q] \in Closed)
              => Phase(c)' = Phase(c)
<1>1. plan[c] \in Plans \cup {NoPlan}
  BY DEF TypeOK
<1>2. QED BY <1>1 DEF Phase, Effective, EffectiveIn, NewlyAbandoned, Closed

LEMMA GraphInit == ASSUME Init PROVE TG!Init
<1>1. \A k \in Keys : Phase(k) = "unknown"
  BY DEF Init, Phase, Effective, EffectiveIn, Absent, Closed
<1>2. QED BY <1>1 DEF Init, TG!Init

\* Waiting tuples can be abandoned together.
LEMMA WaitingAbandoned ==
  ASSUME UNCHANGED <<parents, reported>>,
         \A c \in Keys : Phase(c)' = IF c \in NewlyAbandoned THEN "abandoned" ELSE Phase(c)
  PROVE  TG!Abandon(NewlyAbandoned) \/ UNCHANGED TG!graph
<1>1. CASE NewlyAbandoned = {}
  BY <1>1 DEF TG!graph
<1>2. CASE NewlyAbandoned # {}
  <2>1. \E k \in Keys : \A c \in NewlyAbandoned \ {k} : PhaseMap[c] = "pending"
    BY <1>2 DEF PhaseMap, NewlyAbandoned
  <2>2. NewlyAbandoned \cap TG!Among("unknown") = {}
    BY DEF TG!Among, NewlyAbandoned
  <2>3. QED BY <2>1, <2>2 DEF TG!Abandon, PhaseMap
<1>3. QED BY <1>1, <1>2

LEMMA CreatedSubmits ==
  ASSUME Inductive,
         NEW k \in Keys, NEW in \in SUBSET Trains, NEW p \in Plans \cup {NoPlan},
         NEW r \in 0..MaxRank, NEW s \in InitialStatuses, Created(k, in, p, r, s),
         k \notin Registered
  PROVE  TG!Submit(k, in)
<1>1. TypeOK
  BY DEF Inductive
<1>2. status[k] = Absent
  BY DEF Registered
<1>3. /\ status'[k] = s /\ plan'[k] = p
      /\ \A c \in Keys : c # k => status'[c] = status[c] /\ plan'[c] = plan[c]
      /\ parents' = [parents EXCEPT ![k] = in] /\ reported' = reported
  BY <1>1 DEF Created, Register, TypeOK
<1>4. s \in {"waiting", "todo", "failed", "canceled"}
  BY DEF InitialStatuses, Closed
<1>5. /\ \A q \in Plans : planStatus[q] \in Closed => planStatus'[q] \in Closed
      /\ s \notin Closed => \A q \in Plans : planStatus'[q] \in Closed => planStatus[q] \in Closed
  BY CreatedReads
<1>6. \A m \in in : m \in Keys /\ status[m] # Absent
  BY DEF Created, Registered
<1> DEFINE ph == Phase(k)'
<1>7. ph \in {"pending", "runnable", "abandoned"}
  BY <1>3, <1>4 DEF Phase, Effective, EffectiveIn, Closed
<1>8. /\ s = "todo" => ph = "runnable"
      /\ s \in Closed => ph = "abandoned"
      /\ s = "waiting" => ph # "runnable"
  BY <1>3 DEF Phase, Effective, EffectiveIn, Closed
<1>9. (ph = "runnable") <=> (in \subseteq TG!Among("delivered"))
  <2>1. (in \subseteq TG!Among("delivered")) <=> \A m \in in : status[m] = "done"
    BY <1>1, <1>6, PhaseFacts DEF TG!Among
  <2>2. CASE s = "todo"
    BY <1>8, <2>1, <2>2, EffectiveFacts DEF Created
  <2>3. CASE s = "waiting"
    <3>1. \E m \in in : status[m] # "done"
      BY <2>3, EffectiveFacts DEF Created
    <3>2. QED BY <1>8, <2>1, <2>3, <3>1
  <2>4. CASE s \in Closed
    <3>1. \E m \in in : status[m] # "done"
      BY <2>4, EffectiveFacts DEF Created, Closed
    <3>2. QED BY <1>8, <2>1, <2>4, <3>1
  <2>5. QED BY <1>4, <2>2, <2>3, <2>4 DEF Closed
<1>10. in \cap TG!Among("abandoned") # {} => ph = "abandoned"
  <2>1. SUFFICES ASSUME NEW m \in in, Effective(m) \in Closed PROVE ph = "abandoned"
    BY <1>1, <1>6, PhaseFacts DEF TG!Among
  <2>2. s \in Closed
    BY <1>4, <2>1 DEF Created, Closed
  <2>3. QED BY <1>8, <2>2
<1> DEFINE S == NewlyAbandoned \ {k}
<1>11. S \in SUBSET TG!Among("pending")
  BY DEF NewlyAbandoned, TG!Among
<1>12. S # {} => ph = "abandoned"
  <2>1. SUFFICES ASSUME NEW c \in S, s \notin Closed PROVE FALSE
    BY <1>8
  <2>2. c \in Keys /\ Phase(c)' = Phase(c)
    BY <1>1, <1>3, <1>5, <2>1, PhaseKept DEF NewlyAbandoned
  <2>3. QED BY <2>2 DEF NewlyAbandoned
<1>13. TG!Move(k, ph, S)
  <2>1. ASSUME NEW c \in Keys, c # k
        PROVE  Phase(c)' = IF c \in S THEN "abandoned" ELSE Phase(c)
    BY <1>1, <1>3, <1>5, <2>1, PhaseKept DEF NewlyAbandoned
  <2>2. QED BY <2>1 DEF TG!Move
<1>14. Phase(k) = "unknown" /\ in \subseteq Keys \ TG!Among("unknown")
  BY <1>1, <1>2, <1>6, PhaseFacts DEF TG!Among
<1> HIDE DEF ph, S
<1>15. QED
  BY <1>3, <1>7, <1>9, <1>10, <1>11, <1>12, <1>13, <1>14 DEF TG!Submit

\* A key used twice by a request stutters, or gives up the waiting tuples of its
\* plan that its second use closes.
LEMMA RepeatedAbandons ==
  ASSUME Inductive,
         NEW k \in Keys, NEW in \in SUBSET Trains, NEW p \in Plans \cup {NoPlan},
         NEW r \in 0..MaxRank, NEW s \in InitialStatuses, Created(k, in, p, r, s),
         k \in Registered
  PROVE  TG!Abandon(NewlyAbandoned) \/ UNCHANGED TG!graph
<1>1. TypeOK
  BY DEF Inductive
<1>2. /\ status' = [status EXCEPT ![k] = s] /\ plan' = [plan EXCEPT ![k] = p]
      /\ parents' = [parents EXCEPT ![k] = in] /\ reported' = reported
  BY DEF Created, Register
<1>3. /\ k \in staged /\ in = parents[k] /\ (status[k] = "todo" <=> s = "todo")
      /\ Effective(k)' \in Closed <=> Effective(k) \in Closed
      /\ \A q \in Plans : planStatus[q] \in Closed => planStatus'[q] \in Closed
  BY CreatedReads
<1>4. UNCHANGED <<parents, reported>>
  BY <1>1, <1>2, <1>3 DEF TypeOK
<1>5. Phase(k)' = Phase(k)
  <2>1. /\ status[k] \in {"waiting", "todo"} \cup Closed
        /\ status'[k] = s /\ s \in {"waiting", "todo"} \cup Closed
    BY <1>1, <1>2, <1>3 DEF Inductive, StagedCurrent, TypeOK, InitialStatuses
  <2>2. /\ status[k] \in Closed => Effective(k) \in Closed
        /\ s \in Closed => Effective(k)' \in Closed
    BY <2>1 DEF Effective, EffectiveIn, Closed
  <2>3. QED BY <1>3, <2>1, <2>2 DEF Phase
<1>6. ASSUME NEW c \in Keys
      PROVE  Phase(c)' = IF c \in NewlyAbandoned THEN "abandoned" ELSE Phase(c)
  <2>1. CASE c = k
    BY <1>5, <2>1 DEF NewlyAbandoned
  <2>2. CASE c # k
    <3>1. status'[c] = status[c] /\ plan'[c] = plan[c]
      BY <1>1, <1>2, <2>2 DEF TypeOK
    <3>2. QED BY <1>1, <1>3, <3>1, PhaseKept DEF NewlyAbandoned
  <2>3. QED BY <2>1, <2>2
<1>7. QED BY <1>4, <1>6, WaitingAbandoned

LEMMA StartedStarts ==
  ASSUME Inductive, NEW n \in Nodes, NEW k \in Keys, LogStart(n, k)
  PROVE  TG!Start(k)
<1>1. TypeOK
  BY DEF Inductive
<1>2. /\ status' = [status EXCEPT ![k] = "doing"]
      /\ planStatus' = PlansAfter({k}, "doing")
      /\ UNCHANGED <<plan, parents, reported>>
  BY DEF LogStart
<1>3. status[k] = "todo"
  BY EffectiveFacts DEF LogStart, CheckUpdateTuple, StatusPossibilities, Closed
<1>4. \A q \in Plans : planStatus[q] \in Closed <=> planStatus'[q] \in Closed
  BY <1>2 DEF PlansAfter, UpdateState, PlanMoves, Closed
<1>5. \A c \in Keys : c # k => Phase(c)' = Phase(c)
  <2> SUFFICES ASSUME NEW c \in Keys, c # k PROVE Phase(c)' = Phase(c)
    OBVIOUS
  <2>1. status'[c] = status[c] /\ plan'[c] = plan[c]
    BY <1>1, <1>2 DEF TypeOK
  <2>2. QED BY <1>1, <1>4, <2>1, PhaseKept
<1>6. Phase(k)' = "running"
  BY <1>1, <1>2 DEF Phase, Effective, EffectiveIn, TypeOK, Closed
<1>7. Phase(k) = "runnable"
  BY <1>1, <1>3, PhaseFacts
<1>8. QED BY <1>2, <1>5, <1>6, <1>7 DEF TG!Start

LEMMA SucceededDelivers ==
  ASSUME Inductive, NEW k \in Keys, NEW woken \in SUBSET Keys, Succeeded(k, woken)
  PROVE  TG!Deliver(k) \/ UNCHANGED TG!graph
<1>1. TypeOK
  BY DEF Inductive
<1>2. /\ status' = [c \in Keys |-> IF c = k THEN "done"
                                   ELSE IF c \in woken THEN "todo" ELSE status[c]]
      /\ reported' = reported \cup {k}
      /\ UNCHANGED <<plan, parents>>
  BY DEF Succeeded, RecordSuccess
<1>3. \A c \in woken : c \in Children(k) /\ Effective(c) = "waiting" /\ status[c] = "waiting"
  BY EffectiveFacts DEF Succeeded
<1>4. status[k] \in {"doing", "done"} /\ k \notin woken
  BY <1>3 DEF Succeeded
<1>5. \A q \in Plans : planStatus[q] \in Closed <=> planStatus'[q] \in Closed
  <2>1. \A q \in Plans : planStatus[q] \in Closed <=> PlanStatusAfterDone(k)[q] \in Closed
    BY <1>1 DEF PlanStatusAfterDone, Completes, Counts, Closed, TypeOK
  <2>2. ASSUME NEW old PROVE old \in Closed <=> UpdateState(old, "todo") \in Closed
    BY DEF UpdateState, PlanMoves, Closed
  <2>3. QED BY <2>1, <2>2 DEF Succeeded, RecordSuccess
<1>6. ASSUME NEW c \in Keys
      PROVE  Phase(c)' = IF c = k THEN "delivered" ELSE IF c \in woken THEN "runnable" ELSE Phase(c)
  <2>1. CASE c = k \/ c \in woken
    BY <1>2, <1>4, <2>1 DEF Phase, Effective, EffectiveIn, Closed
  <2>2. CASE c # k /\ c \notin woken
    <3>1. status'[c] = status[c] /\ plan'[c] = plan[c]
      BY <1>2, <2>2
    <3>2. QED BY <1>1, <1>5, <2>2, <3>1, PhaseKept
  <2>3. QED BY <2>1, <2>2
<1>7. woken = TG!Released(k)
  <2>1. ASSUME NEW c \in woken PROVE c \in TG!Released(k)
    <3>1. c \in Keys /\ k \in parents[c] /\ Phase(c) = "pending"
      BY <1>1, <1>3, PhaseFacts DEF Children, TrainChildren, TestChildren
    <3>2. \A m \in parents[c] \ {k} : m \in Keys /\ status[m] = "done"
      <4>1. CASE c \in Trains
        BY <1>1, <3>1, <4>1 DEF Succeeded, TypeOK, Registered
      <4>2. CASE c \in Testtuples
        BY <3>1, <4>2 DEF Inductive, TestsOne
      <4>3. QED BY <3>1, <4>1, <4>2 DEF Keys
    <3>3. QED BY <1>1, <3>1, <3>2, PhaseFacts DEF TG!Released, TG!Among
  <2>2. ASSUME NEW c \in TG!Released(k) PROVE c \in woken
    <3>1. c \in Keys /\ k \in parents[c] /\ Phase(c) = "pending"
      BY DEF TG!Released, TG!Among
    <3>2. c \in Children(k) /\ Effective(c) = "waiting"
      BY <1>1, <3>1, PhaseFacts DEF Children, TrainChildren, TestChildren, Keys
    <3>3. \A m \in parents[c] \ {k} : status[m] = "done"
      BY <1>1, PhaseFacts DEF TG!Released, TG!Among
    <3>4. QED BY <3>2, <3>3 DEF Succeeded
  <2>3. QED BY <2>1, <2>2
<1>8. CASE status[k] = "doing"
  <2>1. Phase(k) = "running"
    BY <1>1, <1>8, PhaseFacts
  <2>2. QED BY <1>2, <1>6, <1>7, <2>1 DEF TG!Deliver
<1>9. CASE status[k] = "done"
  <2>1. woken = {}
    <3>1. SUFFICES ASSUME NEW c \in woken PROVE FALSE
      OBVIOUS
    <3>2. PICK m \in parents[c] : status[m] # "done"
      BY <1>3 DEF Inductive, NoLostWakeup
    <3>3. m \in TG!Among("delivered") /\ m \in Keys
      BY <1>7, <1>9, <3>2 DEF TG!Released, TG!Among
    <3>4. QED BY <1>1, <3>2, <3>3, PhaseFacts DEF TG!Among
  <2>2. k \in reported /\ Phase(k) = "delivered"
    BY <1>1, <1>9, PhaseFacts DEF Inductive, DoneReported
  <2>3. \A c \in Keys : Phase(c)' = Phase(c)
    BY <1>6, <2>1, <2>2
  <2>4. reported' = reported
    BY <1>2, <2>2
  <2>5. QED BY <1>2, <2>3, <2>4 DEF TG!graph
<1>10. QED BY <1>4, <1>8, <1>9

LEMMA FailedAbandons ==
  ASSUME Inductive, NEW G \in SUBSET Keys, FailedWith(G)
  PROVE  TG!Abandon(G \cup NewlyAbandoned)
<1>1. TypeOK
  BY DEF Inductive
<1>2. /\ status' = [c \in Keys |-> IF c \in G THEN "failed" ELSE status[c]]
      /\ planStatus' = PlansAfter(G, "failed") /\ G \subseteq Registered
      /\ UNCHANGED <<plan, parents, reported>>
  BY DEF FailedWith, MarkFailed
<1>3. \A q \in Plans : planStatus[q] \in Closed => planStatus'[q] \in Closed
  BY <1>1, <1>2, PlansAfterFacts
<1> DEFINE S == G \cup NewlyAbandoned
<1>4. S \cap TG!Among("unknown") = {}
  BY <1>1, <1>2, PhaseFacts DEF TG!Among, NewlyAbandoned, Registered
<1>5. \E k \in Keys : \A c \in S \ {k} : PhaseMap[c] = "pending" \/ parents[c] \cap S # {}
  <2>1. PICK k \in G : \A c \in G \ {k} : Effective(c) = "waiting" \/ parents[c] \cap G # {}
    BY DEF FailedWith
  <2>2. \A c \in S \ {k} : PhaseMap[c] = "pending" \/ parents[c] \cap S # {}
    BY <1>1, <2>1, PhaseFacts DEF PhaseMap, NewlyAbandoned
  <2>3. QED BY <2>1, <2>2
<1>6. ASSUME NEW c \in Keys
      PROVE  Phase(c)' = IF c \in S THEN "abandoned" ELSE Phase(c)
  <2>1. CASE c \in G
    BY <1>2, <2>1 DEF Phase, Effective, EffectiveIn, Closed
  <2>2. CASE c \notin G
    <3>1. status'[c] = status[c] /\ plan'[c] = plan[c]
      BY <1>2, <2>2
    <3>2. QED BY <1>1, <1>3, <2>2, <3>1, PhaseKept DEF NewlyAbandoned
  <2>3. QED BY <2>1, <2>2
<1> HIDE DEF S
<1>7. TG!Abandon(S)
  BY <1>2, <1>4, <1>5, <1>6 DEF TG!Abandon, PhaseMap
<1>8. QED BY <1>7 DEF S

LEMMA PlanStepAbandons ==
  ASSUME Inductive, PlanStep
  PROVE  TG!Abandon(NewlyAbandoned) \/ UNCHANGED TG!graph
<1>1. TypeOK
  BY DEF Inductive
<1>2. /\ UNCHANGED <<status, plan, parents, reported>>
      /\ \A q \in Plans : planStatus[q] \in Closed => planStatus'[q] \in Closed
  BY DEF PlanStep, tupleVars, Closed, Absent
<1>3. ASSUME NEW c \in Keys
      PROVE  Phase(c)' = IF c \in NewlyAbandoned THEN "abandoned" ELSE Phase(c)
  BY <1>1, <1>2, PhaseKept DEF NewlyAbandoned
<1>4. QED BY <1>2, <1>3, WaitingAbandoned

LEMMA GraphStep ==
  ASSUME Inductive, [Next]_vars
  PROVE  [TG!Next]_(TG!graph)
<1>1. TypeOK
  BY DEF Inductive
<1>2. CASE UNCHANGED vars
  <2>1. UNCHANGED <<status, plan, planStatus, parents, reported>>
    BY <1>2 DEF vars, tupleVars, planVars
  <2>2. \A c \in Keys : Phase(c)' = Phase(c)
    BY <2>1 DEF Phase, Effective, EffectiveIn
  <2>3. QED BY <2>1, <2>2 DEF TG!graph
<1>3. CASE Next
  <2>1. ASSUME NEW k \in Keys, NEW in \in SUBSET Trains, NEW p \in Plans \cup {NoPlan},
               NEW r \in 0..MaxRank, NEW s \in InitialStatuses, Created(k, in, p, r, s)
        PROVE  TG!Next \/ UNCHANGED TG!graph
    <3>1. NewlyAbandoned \in SUBSET Keys
      BY DEF NewlyAbandoned
    <3>2. QED BY <2>1, <3>1, CreatedSubmits, RepeatedAbandons DEF TG!Next, Keys
  <2>2. ASSUME NEW n \in Nodes, NEW k \in Keys, LogStart(n, k) PROVE TG!Next
    BY <2>2, StartedStarts DEF TG!Next
  <2>3. ASSUME NEW k \in Keys, NEW woken \in SUBSET Keys, Succeeded(k, woken)
        PROVE  TG!Next \/ UNCHANGED TG!graph
    BY <2>3, SucceededDelivers DEF TG!Next
  <2>4. ASSUME NEW G \in SUBSET Keys, FailedWith(G) PROVE TG!Next
    <3>1. G \cup NewlyAbandoned \in SUBSET Keys
      BY DEF NewlyAbandoned
    <3>2. QED BY <2>4, <3>1, FailedAbandons DEF TG!Next
  <2>5. CASE PlanStep
    <3>1. NewlyAbandoned \in SUBSET Keys
      BY DEF NewlyAbandoned
    <3>2. QED BY <2>5, <3>1, PlanStepAbandons DEF TG!Next
  <2>6. QED BY <1>1, <1>3, <2>1, <2>2, <2>3, <2>4, <2>5, NextCases
<1>4. QED BY <1>2, <1>3

\* Read as a graph of tasks, the ledger does what the graph promises: tasks become
\* runnable with the delivery of the last task they need, in the same transaction,
\* and an abandoned one never comes back.
THEOREM WorkflowImplementsTaskGraph == Spec => ImplementsTaskGraph
<1>1. Inductive /\ [Next]_vars => [TG!Next]_(TG!graph)
  BY GraphStep
<1>2. QED BY <1>1, GraphInit, InductiveHolds, PTL DEF Spec, ImplementsTaskGraph, TG!Spec

-----------------------------------------------------------------------------
(* Reports, child by child: the committed ledger *)

\* In-models are on the ledger before the tuple, and a key used twice keeps its own.
LEMMA GroundedStep == ASSUME Inductive, Grounded, [Next]_vars PROVE Grounded'
<1>1. TypeOK
  BY DEF Inductive
<1>2. CASE UNCHANGED parents
  BY <1>2 DEF Grounded
<1>3. ASSUME NEW k \in Keys, NEW in \in SUBSET Trains, NEW p \in Plans \cup {NoPlan},
             NEW r \in 0..MaxRank, NEW s \in InitialStatuses, Created(k, in, p, r, s)
      PROVE  Grounded'
  <2>1. parents' = [parents EXCEPT ![k] = in]
    BY <1>3 DEF Created, Register
  <2>2. CASE k \in Registered
    <3>1. in = parents[k]
      BY <1>3, <2>2, CreatedReads
    <3>2. QED BY <1>1, <1>2, <2>1, <3>1 DEF TypeOK
  <2>3. CASE k \notin Registered
    <3>1. k \notin in /\ \A c \in Keys : k \notin parents[c]
      BY <1>1, <1>3, <2>3 DEF Created, TypeOK
    <3>2. /\ parents'[k] = in
          /\ \A c \in Keys \ {k} : parents'[c] = parents[c]
      BY <1>1, <2>1 DEF TypeOK
    <3>3. ASSUME NEW S \in SUBSET Keys, S # {} PROVE \E c \in S : parents'[c] \cap S = {}
      <4>1. CASE S = {k}
        BY <3>1, <3>2, <4>1
      <4>2. CASE S # {k}
        <5>1. S \ {k} \in SUBSET Keys /\ S \ {k} # {}
          BY <3>3, <4>2
        <5>2. PICK c \in S \ {k} : parents[c] \cap (S \ {k}) = {}
          BY <5>1 DEF Grounded
        <5>3. parents'[c] \cap S = {}
          BY <3>1, <3>2, <5>2
        <5>4. QED BY <5>2, <5>3
      <4>3. QED BY <4>1, <4>2
    <3>4. QED BY <3>3 DEF Grounded
  <2>4. QED BY <2>2, <2>3
<1>4. UNCHANGED parents \/ \E k \in Keys, in \in SUBSET Trains, p \in Plans \cup {NoPlan},
                              r \in 0..MaxRank, s \in InitialStatuses : Created(k, in, p, r, s)
  <2>1. CASE UNCHANGED vars
    BY <2>1 DEF vars, tupleVars
  <2>2. CASE Next
    BY <1>1, <2>2, NextCases
       DEF LogStart, Succeeded, RecordSuccess, FailedWith, MarkFailed, PlanStep, tupleVars
  <2>3. QED BY <2>1, <2>2
<1>5. QED BY <1>2, <1>3, <1>4

\* Nothing that follows from a tuple is an in-model of it.
LEMMA NothingLeadsBack ==
  ASSUME Grounded, NEW k \in Keys, NEW F \in SUBSET Keys,
         \A c \in F : parents[c] \cap (F \cup {k}) # {}
  PROVE  parents[k] \cap (F \cup {k}) = {}
<1>1. F \cup {k} \in SUBSET Keys /\ F \cup {k} # {}
  OBVIOUS
<1>2. QED BY <1>1 DEF Grounded

-----------------------------------------------------------------------------
(* The stack of calls *)

LEMMA StackPop ==
  ASSUME NEW S, NEW s \in Seq(S), s # <<>>
  PROVE  /\ Len(s) \in Nat \ {0} /\ Head(s) \in S /\ Head(s) = s[1] /\ Tail(s) \in Seq(S)
         /\ Len(Tail(s)) = Len(s) - 1
         /\ \A i \in 1..Len(Tail(s)) : Tail(s)[i] = s[i + 1]
BY HeadTailProperties, EmptySeq

LEMMA StackTop ==
  ASSUME NEW S, NEW s \in Seq(S), s # <<>>, NEW x \in S
  PROVE  /\ <<x>> \o Tail(s) \in Seq(S) /\ Len(<<x>> \o Tail(s)) = Len(s)
         /\ (<<x>> \o Tail(s))[1] = x
         /\ \A i \in 2..Len(s) : (<<x>> \o Tail(s))[i] = s[i]
<1>1. <<x>> \in Seq(S) /\ Len(<<x>>) = 1 /\ <<x>>[1] = x
  OBVIOUS
<1>2. /\ Tail(s) \in Seq(S) /\ Len(Tail(s)) = Len(s) - 1 /\ Len(s) \in Nat \ {0}
      /\ \A i \in 1..Len(Tail(s)) : Tail(s)[i] = s[i + 1]
  BY StackPop
<1> DEFINE t == <<x>> \o Tail(s)
<1>3. /\ t \in Seq(S) /\ Len(t) = Len(s)
      /\ \A i \in 1..Len(s) : t[i] = IF i <= 1 THEN <<x>>[i] ELSE Tail(s)[i - 1]
  BY <1>1, <1>2, ConcatProperties
<1> HIDE DEF t
<1>4. \A i \in 2..Len(s) : t[i] = s[i]
  BY <1>2, <1>3
<1>5. t[1] = x
  BY <1>1, <1>2, <1>3
<1>6. QED BY <1>3, <1>4, <1>5 DEF t

LEMMA StackPush ==
  ASSUME NEW S, NEW s \in Seq(S), s # <<>>, NEW x \in S, NEW y \in S, NEW z \in S,
         NEW t, t = <<x, y, z>> \o Tail(s)
  PROVE  /\ t \in Seq(S) /\ Len(t) = Len(s) + 2
         /\ t[1] = x /\ t[2] = y /\ t[3] = z
         /\ \A i \in 2..Len(s) : t[i + 2] = s[i]
<1> DEFINE u == <<x, y, z>>
<1>1. u \in Seq(S) /\ Len(u) = 3 /\ u[1] = x /\ u[2] = y /\ u[3] = z
  OBVIOUS
<1>2. /\ Tail(s) \in Seq(S) /\ Len(Tail(s)) = Len(s) - 1 /\ Len(s) \in Nat \ {0}
      /\ \A i \in 1..Len(Tail(s)) : Tail(s)[i] = s[i + 1]
  BY StackPop
<1>3. t = u \o Tail(s)
  OBVIOUS
<1> HIDE DEF u
<1>4. /\ t \in Seq(S) /\ Len(t) = Len(s) + 2
      /\ \A i \in 1..(Len(s) + 2) : t[i] = IF i <= 3 THEN u[i] ELSE Tail(s)[i - 3]
  BY <1>1, <1>2, <1>3, ConcatProperties
<1>5. \A i \in 2..Len(s) : t[i + 2] = s[i]
  BY <1>2, <1>4
<1>6. t[1] = x /\ t[2] = y /\ t[3] = z
  BY <1>1, <1>2, <1>4
<1>7. QED BY <1>4, <1>5, <1>6

\* What is left of the calls when the innermost one returns, deals with a child,
\* or makes two more.
LEMMA PendingPop ==
  ASSUME agenda \in Seq(Calls), agenda # <<>>, agenda' = Tail(agenda),
         NEW call, NEW m, NEW d, Pending(call, m, d)
  PROVE  Pending(call, m, d)' \/ (call = Top.call /\ m = Top.of /\ d \in Top.left)
<1>1. /\ Len(agenda) \in Nat \ {0} /\ Top = agenda[1] /\ Len(agenda') = Len(agenda) - 1
      /\ \A i \in 1..Len(agenda') : agenda'[i] = agenda[i + 1]
  BY StackPop DEF Top
<1>2. PICK i \in 1..Len(agenda) : agenda[i].call = call /\ agenda[i].of = m /\ d \in agenda[i].left
  BY DEF Pending
<1>3. CASE i = 1
  BY <1>1, <1>2, <1>3
<1>4. CASE i # 1
  <2>1. i - 1 \in 1..Len(agenda') /\ agenda'[i - 1] = agenda[i]
    BY <1>1, <1>4
  <2>2. QED BY <1>2, <2>1 DEF Pending
<1>5. QED BY <1>3, <1>4

LEMMA PendingTop ==
  ASSUME agenda \in Seq(Calls), agenda # <<>>, NEW c, NEW x \in Calls,
         agenda' = <<x>> \o Tail(agenda),
         x.call = Top.call, x.of = Top.of, x.left = Top.left \ {c},
         NEW call, NEW m, NEW d, Pending(call, m, d)
  PROVE  Pending(call, m, d)' \/ (call = Top.call /\ m = Top.of /\ d = c)
<1>1. /\ Len(agenda) \in Nat \ {0} /\ Top = agenda[1] /\ Len(agenda') = Len(agenda)
      /\ agenda'[1] = x /\ \A i \in 2..Len(agenda) : agenda'[i] = agenda[i]
  BY StackPop, StackTop DEF Top
<1>2. PICK i \in 1..Len(agenda) : agenda[i].call = call /\ agenda[i].of = m /\ d \in agenda[i].left
  BY DEF Pending
<1>3. CASE i = 1
  BY <1>1, <1>2, <1>3 DEF Pending
<1>4. CASE i # 1
  <2>1. i \in 2..Len(agenda) /\ i \in 1..Len(agenda')
    BY <1>1, <1>4
  <2>2. QED BY <1>1, <1>2, <2>1 DEF Pending
<1>5. QED BY <1>3, <1>4

LEMMA PendingPush ==
  ASSUME agenda \in Seq(Calls), agenda # <<>>, NEW c,
         NEW x \in Calls, NEW y \in Calls, NEW z \in Calls,
         agenda' = <<x, y, z>> \o Tail(agenda),
         z.call = Top.call, z.of = Top.of, z.left = Top.left \ {c}
  PROVE  \A call, m, d : Pending(call, m, d) =>
           Pending(call, m, d)' \/ (call = Top.call /\ m = Top.of /\ d = c)
<1>1. /\ Len(agenda) \in Nat \ {0} /\ Top = agenda[1] /\ Len(agenda') = Len(agenda) + 2
      /\ agenda'[1] = x /\ agenda'[2] = y /\ agenda'[3] = z
      /\ \A i \in 2..Len(agenda) : agenda'[i + 2] = agenda[i]
  BY StackPop, StackPush DEF Top
<1>2. ASSUME NEW call, NEW m, NEW d, Pending(call, m, d)
      PROVE  Pending(call, m, d)' \/ (call = Top.call /\ m = Top.of /\ d = c)
  <2>1. PICK i \in 1..Len(agenda) :
               agenda[i].call = call /\ agenda[i].of = m /\ d \in agenda[i].left
    BY <1>2 DEF Pending
  <2>2. CASE i = 1
    <3>1. 3 \in 1..Len(agenda')
      BY <1>1
    <3>2. QED BY <1>1, <2>1, <2>2, <3>1 DEF Pending
  <2>3. CASE i # 1
    <3>1. i \in 2..Len(agenda) /\ i + 2 \in 1..Len(agenda')
      BY <1>1, <2>3
    <3>2. agenda'[i + 2] = agenda[i]
      BY <1>1, <3>1
    <3>3. QED BY <2>1, <3>1, <3>2 DEF Pending
  <2>4. QED BY <2>2, <2>3
<1>3. QED BY <1>2

-----------------------------------------------------------------------------
(* What the transaction sees *)

LEMMA OwnFacts ==
  ASSUME NEW c
  PROVE  Own!Effective(c) = IF /\ view.status[c] = "waiting" /\ plan[c] # NoPlan
                               /\ view.planStatus[plan[c]] \in Closed
                            THEN "canceled" ELSE view.status[c]
BY DEF Own!Effective, Own!EffectiveIn, Own!Closed, Closed

LEMMA WrittenFacts ==
  ASSUME view \in Views, NEW c \in Keys, NEW s \in {"todo", "failed"},
         view' = Written(c, s)
  PROVE  /\ view' \in Views
         /\ view'.status = [view.status EXCEPT ![c] = s]
         /\ view'.index = (view.index \ {<<c, Own!Effective(c)>>}) \cup {<<c, s>>}
         /\ view'.planStatus = [p \in Plans |-> IF plan[c] = p
                                               THEN UpdateState(view.planStatus[p], s)
                                               ELSE view.planStatus[p]]
         /\ view'.notified = IF s = "todo" THEN view.notified \cup {c} ELSE view.notified
         /\ view'.doneCount = view.doneCount /\ view'.models = view.models
         /\ view'.reported = view.reported /\ view'.dropped = view.dropped
<1>1. \A old : Own!UpdateState(old, s) = UpdateState(old, s)
  BY DEF Own!UpdateState, Own!PlanMoves, UpdateState, PlanMoves
<1> DEFINE ps == [p \in Plans |-> IF plan[c] = p THEN UpdateState(view.planStatus[p], s)
                                                 ELSE view.planStatus[p]]
           ix == (view.index \ {<<c, Own!Effective(c)>>}) \cup {<<c, s>>}
           nt == IF s = "todo" THEN view.notified \cup {c} ELSE view.notified
<1>2. Own!PlansAfter({c}, s) = ps
  BY <1>1 DEF Own!PlansAfter
<1>3. ps \in [Plans -> PlanStatuses \cup {Absent}]
  BY UpdateStateType DEF Views
<1>4. ix \in SUBSET (Keys \X Statuses) /\ nt \in SUBSET Keys
  BY DEF Views, Statuses
<1>5. view' = [view EXCEPT !.status[c] = s, !.index = ix, !.planStatus = ps, !.notified = nt]
  BY <1>2 DEF Written, Views
<1> HIDE DEF ps, ix, nt
<1>6. [view.status EXCEPT ![c] = s] \in [Keys -> Statuses \cup {Absent}]
  BY DEF Views, Statuses
<1>7. view' = [status |-> [view.status EXCEPT ![c] = s], index |-> ix, planStatus |-> ps,
           doneCount |-> view.doneCount, models |-> view.models,
           reported |-> view.reported, notified |-> nt, dropped |-> view.dropped]
  BY <1>5 DEF Views
<1>8. view' \in Views
  BY <1>3, <1>4, <1>6, <1>7 DEF Views
<1>9. QED BY <1>7, <1>8 DEF ps, ix, nt

\* While a handler runs the committed ledger reads the same.
LEMMA CommittedSame ==
  ASSUME UNCHANGED vars
  PROVE  /\ \A c : /\ Effective(c)' = Effective(c)
                   /\ TrainChildren(c)' = TrainChildren(c) /\ TestChildren(c)' = TestChildren(c)
                   /\ Woken(c)' = Woken(c) /\ WokenTests(c)' = WokenTests(c)
         /\ \A c : /\ Completes(c)' <=> Completes(c)
                   /\ PlanStatusAfterDone(c)' = PlanStatusAfterDone(c)
                   /\ DoneCountAfter(c)' = DoneCountAfter(c)
                   /\ ModelsAfterDone(c)' = ModelsAfterDone(c)
         /\ \A p : ModelsOf(p)' = ModelsOf(p)
         /\ \A m, c : InUse(m, c)' <=> InUse(m, c)
         /\ \A F, s : PlansAfter(F, s)' = PlansAfter(F, s) /\ Reindex(F, s)' = Reindex(F, s)
         /\ \A ps, c : EffectiveIn(ps, c)' = EffectiveIn(ps, c)
         /\ Registered' = Registered /\ Idle' = Idle
         /\ \A c : CanFill(c)' = CanFill(c)
<1>1. /\ UNCHANGED <<status, parents, plan, index, planStatus, tupleCount, doneCount, models>>
      /\ UNCHANGED openPlan
  BY DEF vars, tupleVars, planVars, batchVars
<1>2. /\ \A ps, c : EffectiveIn(ps, c)' = EffectiveIn(ps, c)
      /\ \A c : Effective(c)' = Effective(c)
  BY <1>1 DEF Effective, EffectiveIn
<1>3. \A c : TrainChildren(c)' = TrainChildren(c) /\ TestChildren(c)' = TestChildren(c)
  BY <1>1 DEF TrainChildren, TestChildren
<1>4. \A c : Woken(c)' = Woken(c) /\ WokenTests(c)' = WokenTests(c)
  BY <1>1, <1>2, <1>3 DEF Woken, WokenTests
<1>5. \A c : (Counts(c)' <=> Counts(c)) /\ DoneCountAfter(c)' = DoneCountAfter(c)
  BY <1>1 DEF DoneCountAfter, Counts
<1>6. \A c : Completes(c)' <=> Completes(c)
  BY <1>1, <1>5 DEF Completes
<1>7. \A c : /\ PlanStatusAfterDone(c)' = PlanStatusAfterDone(c)
             /\ ModelsAfterDone(c)' = ModelsAfterDone(c)
  BY <1>1, <1>6 DEF PlanStatusAfterDone, ModelsAfterDone, ClearModels
<1>8. \A p : ModelsOf(p)' = ModelsOf(p)
  BY <1>1 DEF ModelsOf
<1>9. \A m, c : InUse(m, c)' <=> InUse(m, c)
  BY <1>2, <1>3 DEF InUse, Children
<1>10. \A F, s : PlansAfter(F, s)' = PlansAfter(F, s) /\ Reindex(F, s)' = Reindex(F, s)
  BY <1>1, <1>2 DEF PlansAfter, Reindex
<1>11. Registered' = Registered /\ Idle' = Idle /\ \A c : CanFill(c)' = CanFill(c)
  BY <1>1 DEF Registered, Idle, CanFill
<1>12. QED BY <1>2, <1>3, <1>4, <1>5, <1>6, <1>7, <1>8, <1>9, <1>10, <1>11

\* Nothing that is closed or waiting is both, and only a waiting tuple is woken.
LEMMA WokenFacts ==
  ASSUME NEW k, NEW c \in Woken(k) \cup WokenTests(k)
  PROVE  Effective(c) = "waiting" /\ status[c] = "waiting" /\ k \in parents[c] /\ c \in Keys
BY EffectiveFacts DEF Woken, WokenTests, TrainChildren, TestChildren, Keys

-----------------------------------------------------------------------------
(* The walk of logSuccess *)

\* A done plan is not closed, nor was it before its last tuple was done.
LEMMA AfterDoneClosed ==
  ASSUME TypeOK, NEW k \in Keys, NEW p \in Plans
  PROVE  /\ PlanStatusAfterDone(k) \in [Plans -> PlanStatuses \cup {Absent}]
         /\ PlanStatusAfterDone(k)[p] \in Closed <=> planStatus[p] \in Closed
<1>1. Completes(k) => plan[k] \in Plans /\ planStatus[plan[k]] = "doing"
  BY DEF Completes, Counts, TypeOK
<1>2. QED BY <1>1 DEF PlanStatusAfterDone, TypeOK, PlanStatuses, Closed

\* What the transaction reads through its own writes.
LEMMA SuccessReads ==
  ASSUME TypeOK, subject \in Keys, SuccessWritten, NEW c \in Keys
  PROVE  Own!Effective(c) = IF c = subject THEN "done"
                            ELSE IF c \in Changed THEN "todo" ELSE Effective(c)
<1>1. view.status[c] = IF c = subject THEN "done" ELSE IF c \in Changed THEN "todo" ELSE status[c]
  BY DEF SuccessWritten
<1>2. CASE c = subject \/ c \in Changed
  BY <1>1, <1>2, OwnFacts
<1>3. CASE c # subject /\ c \notin Changed
  <2>1. CASE status[c] = "waiting" /\ plan[c] # NoPlan
    <3>1. plan[c] \in Plans
      BY <2>1 DEF TypeOK
    <3>2. \A x : UpdateState(x, "todo") \in Closed <=> x \in Closed
      BY DEF UpdateState, PlanMoves, Closed
    <3>3. view.planStatus[plan[c]] \in Closed <=> planStatus[plan[c]] \in Closed
      BY <3>1, <3>2, AfterDoneClosed DEF SuccessWritten
    <3>4. QED BY <1>1, <1>3, <2>1, <3>3, OwnFacts DEF Effective, EffectiveIn
  <2>2. CASE ~(status[c] = "waiting" /\ plan[c] # NoPlan)
    BY <1>1, <1>3, <2>2, OwnFacts DEF Effective, EffectiveIn
  <2>3. QED BY <2>1, <2>2
<1>4. QED BY <1>2, <1>3

\* A child moved to todo is written as one step of Workflow would have it.
LEMMA SuccessWrites ==
  ASSUME TypeOK, UNCHANGED <<vars, subject>>, view \in Views, subject \in Keys, SuccessWritten,
         NEW c \in Keys \ {subject}, c \notin Changed, Effective(c) = "waiting",
         view' = Written(c, "todo")
  PROVE  /\ view' \in Views /\ Changed' = Changed \cup {c} /\ SuccessWritten'
         /\ view'.models = view.models /\ view'.dropped = view.dropped
<1> DEFINE k == subject
           C == Changed \cup {c}
<1>1. /\ view' \in Views
      /\ view'.status = [view.status EXCEPT ![c] = "todo"]
      /\ view'.index = (view.index \ {<<c, "waiting">>}) \cup {<<c, "todo">>}
      /\ view'.planStatus = [p \in Plans |-> IF plan[c] = p THEN UpdateState(view.planStatus[p], "todo")
                                                            ELSE view.planStatus[p]]
      /\ view'.notified = view.notified \cup {c}
      /\ view'.doneCount = view.doneCount /\ view'.models = view.models
      /\ view'.reported = view.reported /\ view'.dropped = view.dropped
  <2>1. Own!Effective(c) = "waiting"
    BY SuccessReads
  <2>2. "todo" \in {"todo", "failed"}
    OBVIOUS
  <2>3. QED BY <2>1, <2>2, WrittenFacts
<1>2. /\ status' = status /\ plan' = plan /\ index' = index /\ reported' = reported
      /\ notified' = notified /\ subject' = k
      /\ Effective(k)' = Effective(k) /\ PlanStatusAfterDone(k)' = PlanStatusAfterDone(k)
      /\ DoneCountAfter(k)' = DoneCountAfter(k)
  BY CommittedSame DEF vars, tupleVars, planVars
<1>3. status[c] = "waiting"
  BY EffectiveFacts
<1>4. Changed' = C
  BY <1>1, <1>2, <1>3 DEF Changed, Views
<1>5. view'.status = [d \in Keys |-> IF d = k THEN "done" ELSE IF d \in C THEN "todo" ELSE status[d]]
  BY <1>1 DEF SuccessWritten, Views
<1>6. view'.index = (index \ ({<<k, Effective(k)>>} \cup {<<d, "waiting">> : d \in C}))
                       \cup {<<k, "done">>} \cup {<<d, "todo">> : d \in C}
  <2>1. view.index = (index \ ({<<k, Effective(k)>>} \cup {<<d, "waiting">> : d \in Changed}))
                       \cup {<<k, "done">>} \cup {<<d, "todo">> : d \in Changed}
    BY DEF SuccessWritten
  <2> DEFINE e == Effective(k)
  <2> HIDE DEF e
  <2>2. (((index \ ({<<k, e>>} \cup {<<d, "waiting">> : d \in Changed}))
            \cup {<<k, "done">>} \cup {<<d, "todo">> : d \in Changed}) \ {<<c, "waiting">>})
           \cup {<<c, "todo">>}
        = (index \ ({<<k, e>>} \cup {<<d, "waiting">> : d \in C}))
            \cup {<<k, "done">>} \cup {<<d, "todo">> : d \in C}
    OBVIOUS
  <2>3. QED BY <1>1, <2>1, <2>2 DEF e
<1>7. view'.planStatus = [p \in Plans |-> IF \E d \in C : plan[d] = p
                                          THEN UpdateState(PlanStatusAfterDone(k)[p], "todo")
                                          ELSE PlanStatusAfterDone(k)[p]]
  <2>1. \A x : UpdateState(UpdateState(x, "todo"), "todo") = UpdateState(x, "todo")
    BY DEF UpdateState, PlanMoves
  <2>2. view.planStatus = [p \in Plans |-> IF \E d \in Changed : plan[d] = p
                                           THEN UpdateState(PlanStatusAfterDone(k)[p], "todo")
                                           ELSE PlanStatusAfterDone(k)[p]]
    BY DEF SuccessWritten
  <2>3. QED BY <1>1, <2>1, <2>2
<1>8. /\ view'.reported = reported \cup {k} /\ view'.notified = notified \cup C
      /\ view'.doneCount = DoneCountAfter(k)
  BY <1>1 DEF SuccessWritten
<1> HIDE DEF C
<1>9. SuccessWritten'
  BY <1>2, <1>4, <1>5, <1>6, <1>7, <1>8 DEF SuccessWritten
<1>10. QED BY <1>1, <1>4, <1>9 DEF C

\* Where the innermost call of logSuccess is, by the height of the stack.
LEMMA SuccessTop ==
  ASSUME agenda \in Seq(Calls), agenda # <<>>, SuccessCalls
  PROVE  /\ Top \in Calls /\ Top.of = subject
         /\ Len(agenda) \in Nat \ {0}
         /\ Top.call = "model" <=> Len(agenda) = 3
         /\ Top.call = "train" <=> Len(agenda) = 2
         /\ Top.call = "test" <=> Len(agenda) = 1
         /\ Top.call = "model" => Top.left = {}
         /\ Top.call = "train" => /\ Top.left \subseteq TrainChildren(subject) \ Changed
                                  /\ Top.updated \cap Top.left = {}
         /\ Top.call = "test" => Top.left \subseteq TestChildren(subject) \ Changed
<1>1. Len(agenda) \in Nat \ {0} /\ Top \in Calls /\ Top = agenda[1]
  BY StackPop DEF Top
<1>2. 1 \in 1..Len(agenda) /\ Len(agenda) <= 3
  BY <1>1 DEF SuccessCalls
<1>3. Top.call \in {"train", "test", "model"}
  BY <1>1 DEF Calls
<1>4. /\ Top.of = subject
      /\ Top.call = "test" <=> 1 = Len(agenda)
      /\ Top.call = "train" <=> 1 = Len(agenda) - 1
  BY <1>1, <1>2 DEF SuccessCalls
<1>5. /\ Top.call = "model" => Top.left = {}
      /\ Top.call = "train" => /\ Top.left \subseteq TrainChildren(subject) \ Changed
                               /\ Top.updated \cap Top.left = {}
      /\ Top.call = "test" => Top.left \subseteq TestChildren(subject) \ Changed
  BY <1>1, <1>2 DEF SuccessCalls
<1> DEFINE n == Len(agenda)
<1> HIDE DEF n
<1>6. n \in Nat /\ n # 0 /\ n <= 3
  BY <1>1, <1>2 DEF n
<1>7. /\ Top.call = "model" <=> n = 3
      /\ Top.call = "train" <=> n = 2
      /\ Top.call = "test" <=> n = 1
  <2>1. n = 1 \/ n = 2 \/ n = 3
    BY <1>6
  <2>2. /\ Top.call = "test" <=> n = 1
        /\ Top.call = "train" <=> n = 2
    BY <1>4, <1>6 DEF n
  <2>3. QED BY <1>3, <2>1, <2>2
<1>8. QED BY <1>1, <1>4, <1>5, <1>7 DEF n

\* The innermost call of logSuccess has come to its child c: it is moved to todo,
\* or need not be.
LEMMA SuccessVisit ==
  ASSUME Inductive, TxTypeOK, handler = "success", SuccessUnderWay, agenda # <<>>,
         UNCHANGED <<vars, handler, subject>>,
         Top.call \in {"train", "test"}, NEW c \in Top.left, NEW x \in Calls,
         agenda' = <<x>> \o Tail(agenda), x.call = Top.call, x.of = Top.of,
         x.left = Top.left \ {c}, x.updated \cap x.left = {} \/ Top.call = "test",
         c # subject,
         \/ view' = view /\ c \notin Woken(subject) \cup WokenTests(subject)
         \/ view' = Written(c, "todo") /\ c \in Woken(subject) \cup WokenTests(subject),
         Top.call = "train" => Effective(c) \in Closed \cup {"waiting"},
         Top.call = "test" => \/ Effective(c) \in {"canceled", "todo"}
                              \/ CheckUpdateTuple(Effective(c), "todo")
  PROVE  TxTypeOK' /\ SuccessUnderWay'
<1> DEFINE k == subject
           C == Changed \cup {d \in {c} : d \in Woken(subject) \cup WokenTests(subject)}
<1>1. /\ TypeOK /\ Running /\ agenda \in Seq(Calls) /\ view \in Views /\ k \in Trains \cap Registered
      /\ k \in Keys /\ SuccessCalls /\ SuccessSettled /\ SuccessWritten
  BY DEF Inductive, TxTypeOK, Running, SuccessUnderWay, Registered
<1>2. /\ Len(agenda) \in Nat \ {0} /\ Top = agenda[1] /\ Top \in Calls
      /\ agenda' \in Seq(Calls) /\ Len(agenda') = Len(agenda)
      /\ agenda'[1] = x /\ \A i \in 2..Len(agenda) : agenda'[i] = agenda[i]
  BY <1>1, StackPop, StackTop DEF Top
<1>3. c \in Keys /\ c \notin Changed
  BY <1>1, SuccessTop DEF TrainChildren, TestChildren, Keys
<1>4. view' \in Views /\ Changed' = C /\ SuccessWritten'
      /\ view'.models = view.models /\ view'.dropped = view.dropped
  <2>1. CASE view' = view /\ c \notin Woken(k) \cup WokenTests(k)
    <3>1. C = Changed /\ Changed' = Changed
      BY <2>1 DEF Changed, vars, tupleVars
    <3>2. SuccessWritten'
      BY <1>1, <2>1, <3>1, CommittedSame DEF SuccessWritten, vars, tupleVars, planVars
    <3>3. QED BY <1>1, <2>1, <3>1, <3>2
  <2>2. CASE view' = Written(c, "todo") /\ c \in Woken(k) \cup WokenTests(k)
    <3>1. Effective(c) = "waiting" /\ C = Changed \cup {c}
      BY <2>2, WokenFacts
    <3>2. QED BY <1>1, <1>3, <2>2, <3>1, SuccessWrites
  <2>3. QED BY <2>1, <2>2
<1>5. /\ \A d : /\ Effective(d)' = Effective(d) /\ TrainChildren(d)' = TrainChildren(d)
                /\ TestChildren(d)' = TestChildren(d)
                /\ Woken(d)' = Woken(d) /\ WokenTests(d)' = WokenTests(d)
      /\ subject' = k /\ handler' = handler
  BY CommittedSame
<1>6. TxTypeOK'
  BY <1>1, <1>2, <1>4, <1>5, CommittedSame DEF TxTypeOK, Running
<1>7. ModelsWritten'
  <2>1. /\ models' = models /\ dropped' = dropped /\ plan' = plan
        /\ Completes(k)' <=> Completes(k)
        /\ ModelsAfterDone(k)' = ModelsAfterDone(k)
        /\ \A p : ModelsOf(p)' = ModelsOf(p)
        /\ \A m : InUse(m, k)' <=> InUse(m, k)
    BY CommittedSame DEF vars, tupleVars, planVars
  <2>2. ModelsWritten
    BY DEF SuccessUnderWay
  <2>3. QED BY <1>2, <1>4, <1>5, <2>1, <2>2 DEF ModelsWritten
<1>8. SuccessCalls'
  <2>1. ASSUME NEW i \in 1..Len(agenda'), i # 1
        PROVE  i \in 2..Len(agenda) /\ agenda'[i] = agenda[i] /\ i \in 1..Len(agenda)
    BY <1>2, <2>1
  <2>2. /\ x.of = k /\ x.call # "model"
        /\ x.call = "test" <=> 1 = Len(agenda)
        /\ x.call = "train" <=> 1 = Len(agenda) - 1
        /\ x.call = "train" => /\ x.left \subseteq TrainChildren(k) \ C
                               /\ x.updated \cap x.left = {}
        /\ x.call = "test" => x.left \subseteq TestChildren(k) \ C
    BY <1>1, <1>2, SuccessTop
  <2>3. ASSUME NEW i \in 1..Len(agenda'), i # 1
        PROVE  /\ agenda'[i].of = k /\ agenda'[i].call = "test" /\ i = Len(agenda)
               /\ agenda'[i].left \subseteq TestChildren(k) \ C
    <3>1. Len(agenda) \in {1, 2} /\ Len(agenda) # 1
      BY <1>1, <1>2, <2>1, <2>3, SuccessTop
    <3>2. i = 2 /\ Top.call = "train" /\ c \in TrainChildren(k)
      BY <1>1, <1>2, <2>1, <2>3, <3>1, SuccessTop
    <3>3. /\ agenda[i].of = k /\ agenda[i].call = "test"
          /\ agenda[i].left \subseteq TestChildren(k) \ Changed
      BY <1>1, <2>1, <2>3, <3>1, <3>2 DEF SuccessCalls
    <3>4. c \notin TestChildren(k)
      BY <3>2, KindsAssumption DEF TrainChildren, TestChildren
    <3>5. QED BY <2>1, <2>3, <3>1, <3>2, <3>3, <3>4
  <2>4. Len(agenda') <= 3
    BY <1>1, <1>2 DEF SuccessCalls
  <2> HIDE DEF C
  <2>5. QED BY <1>2, <1>4, <1>5, <2>2, <2>3, <2>4 DEF SuccessCalls
<1>9. SuccessSettled'
  <2>1. ASSUME NEW call, NEW d, Pending(call, k, d)
        PROVE  Pending(call, k, d)' \/ (call = Top.call /\ d = c)
    BY <1>1, <1>2, <2>1, PendingTop
  <2>2. ASSUME NEW d \in TrainChildren(k), ~Pending("train", k, d)'
        PROVE  /\ Effective(d) \in Closed \cup {"waiting"}
               /\ d \in Woken(k) => d \in C
    BY <1>1, <2>1, <2>2 DEF SuccessSettled
  <2>3. ASSUME NEW d \in TestChildren(k), ~Pending("test", k, d)'
        PROVE  /\ Effective(d) \in {"canceled", "todo"} \/ CheckUpdateTuple(Effective(d), "todo")
               /\ d \in WokenTests(k) => d \in C
    BY <1>1, <2>1, <2>3 DEF SuccessSettled
  <2> HIDE DEF C
  <2>4. QED BY <1>4, <1>5, <2>2, <2>3 DEF SuccessSettled
<1>10. QED BY <1>4, <1>5, <1>6, <1>7, <1>8, <1>9 DEF SuccessUnderWay

\* The innermost call returns, with no child left.
LEMMA SuccessPop ==
  ASSUME agenda \in Seq(Calls), agenda # <<>>, SuccessCalls, SuccessSettled, SuccessWritten,
         UNCHANGED <<vars, handler, subject>>, Top.left = {}, agenda' = Tail(agenda),
         view'.status = view.status, view'.index = view.index,
         view'.planStatus = view.planStatus, view'.doneCount = view.doneCount,
         view'.reported = view.reported, view'.notified = view.notified
  PROVE  /\ agenda' \in Seq(Calls) /\ Len(agenda') = Len(agenda) - 1 /\ Changed' = Changed
         /\ SuccessWritten' /\ SuccessCalls' /\ SuccessSettled'
<1> DEFINE k == subject
<1>1. /\ Len(agenda) \in Nat \ {0} /\ Top = agenda[1] /\ Top \in Calls
      /\ agenda' \in Seq(Calls) /\ Len(agenda') = Len(agenda) - 1
      /\ \A i \in 1..Len(agenda') : agenda'[i] = agenda[i + 1]
  BY StackPop DEF Top
<1>2. /\ \A d : /\ Effective(d)' = Effective(d) /\ TrainChildren(d)' = TrainChildren(d)
                /\ TestChildren(d)' = TestChildren(d)
                /\ Woken(d)' = Woken(d) /\ WokenTests(d)' = WokenTests(d)
      /\ subject' = k
  BY CommittedSame
<1>3. Changed' = Changed
  BY DEF Changed, vars, tupleVars
<1>4. SuccessWritten'
  <2>1. /\ status' = status /\ plan' = plan /\ index' = index /\ reported' = reported
        /\ notified' = notified
        /\ PlanStatusAfterDone(k)' = PlanStatusAfterDone(k)
        /\ DoneCountAfter(k)' = DoneCountAfter(k)
    BY CommittedSame DEF vars, tupleVars, planVars
  <2>2. QED BY <1>2, <1>3, <2>1 DEF SuccessWritten
<1>5. SuccessCalls'
  <2>1. ASSUME NEW i \in 1..Len(agenda')
        PROVE  /\ i + 1 \in 1..Len(agenda) /\ agenda'[i] = agenda[i + 1]
               /\ i = Len(agenda') <=> i + 1 = Len(agenda)
               /\ i = Len(agenda') - 1 <=> i + 1 = Len(agenda) - 1
    BY <1>1, <2>1
  <2>2. Len(agenda') <= 3
    BY <1>1 DEF SuccessCalls
  <2>3. QED BY <1>2, <1>3, <2>1, <2>2 DEF SuccessCalls
<1>6. SuccessSettled'
  <2>1. ASSUME NEW call, NEW d, Pending(call, k, d) PROVE Pending(call, k, d)'
    BY <2>1, PendingPop
  <2>2. QED BY <1>2, <1>3, <2>1 DEF SuccessSettled
<1>7. QED BY <1>1, <1>3, <1>4, <1>5, <1>6

LEMMA SuccessReturns ==
  ASSUME Inductive, TxTypeOK, handler = "success", SuccessUnderWay, Return
  PROVE  TxTypeOK' /\ SuccessUnderWay'
<1> DEFINE k == subject
<1>1. /\ Running /\ agenda \in Seq(Calls) /\ view \in Views /\ Top.left = {}
      /\ SuccessCalls /\ SuccessSettled /\ SuccessWritten /\ ModelsWritten
  BY DEF TxTypeOK, Return, SuccessUnderWay
<1>2. /\ agenda' \in Seq(Calls) /\ Len(agenda') = Len(agenda) - 1 /\ Changed' = Changed
      /\ SuccessWritten' /\ SuccessCalls' /\ SuccessSettled'
  BY <1>1, SuccessPop DEF Return
<1>3. TxTypeOK'
  BY <1>1, <1>2, CommittedSame DEF TxTypeOK, Running, Return
<1>4. ModelsWritten'
  <2>1. /\ models' = models /\ dropped' = dropped /\ plan' = plan /\ view' = view
        /\ subject' = k
        /\ Completes(k)' <=> Completes(k)
        /\ ModelsAfterDone(k)' = ModelsAfterDone(k)
        /\ \A p : ModelsOf(p)' = ModelsOf(p)
        /\ \A m : InUse(m, k)' <=> InUse(m, k)
        /\ \A m : TrainChildren(m)' = TrainChildren(m)
    BY CommittedSame DEF Return, vars, tupleVars, planVars
  <2>2. agenda # <<>> /\ Top.call # "model"
    BY DEF Return
  <2>3. Len(agenda) # 3
    BY <1>1, <2>2, SuccessTop
  <2>4. Len(agenda) \in Nat /\ Len(agenda) <= 3
    BY <1>1, <2>2, SuccessTop DEF SuccessCalls
  <2>5. Len(agenda') # 3
    BY <1>2, <2>4
  <2>6. QED BY <1>1, <2>1, <2>3, <2>5 DEF ModelsWritten
<1>5. /\ Effective(subject)' = Effective(k) /\ Woken(subject)' = Woken(k)
      /\ WokenTests(subject)' = WokenTests(k)
  BY CommittedSame DEF Return
<1>6. QED BY <1>2, <1>3, <1>4, <1>5 DEF SuccessUnderWay

\* The users of a model are read after the tuple itself is done, and before or
\* after other children are moved to todo: that does not matter.
LEMMA SuccessAddsModel ==
  ASSUME Inductive, TxTypeOK, handler = "success", SuccessUnderWay, TryAddModel
  PROVE  TxTypeOK' /\ SuccessUnderWay'
<1> DEFINE k == subject
           p == plan[k]
           w == Worker[k]
           listed == ModelsAfterDone(k)[p][w]
           used == {m \in listed : InUse(m, k)}
           added == {m \in {k} : TrainChildren(m) # {}}
           all == dropped \cup (IF Completes(k) THEN ModelsOf(p) ELSE {})
<1>1. /\ Running /\ agenda \in Seq(Calls) /\ agenda # <<>> /\ view \in Views /\ TypeOK
      /\ SuccessCalls /\ SuccessSettled /\ SuccessWritten /\ ModelsWritten
      /\ k \in Keys /\ Changed \subseteq Woken(k) \cup WokenTests(k)
  BY DEF TxTypeOK, TryAddModel, SuccessUnderWay, Inductive, Registered
<1>2. Top.left = {} /\ Len(agenda) = 3
  BY <1>1, SuccessTop DEF TryAddModel
<1>3. view.models = ModelsAfterDone(k) /\ view.dropped = all
  BY <1>1, <1>2 DEF ModelsWritten
<1>4. ASSUME NEW m PROVE (\E c \in Children(m) : Own!Effective(c) # "done") <=> InUse(m, k)
  <2>1. ASSUME NEW c \in Children(m)
        PROVE  Own!Effective(c) # "done" <=> c # k /\ Effective(c) # "done"
    <3>1. c \in Keys
      BY DEF Children, TrainChildren, TestChildren, Keys
    <3>2. c \in Changed => Effective(c) = "waiting"
      BY <1>1, WokenFacts
    <3>3. Own!Effective(c) = IF c = k THEN "done" ELSE IF c \in Changed THEN "todo" ELSE Effective(c)
      BY <1>1, <3>1, SuccessReads
    <3>4. QED BY <3>2, <3>3
  <2>2. QED BY <2>1 DEF InUse
<1>5. /\ UNCHANGED vars /\ handler' = handler /\ subject' = k /\ agenda' = Tail(agenda)
      /\ models' = models /\ dropped' = dropped /\ plan' = plan
  BY DEF TryAddModel, vars, tupleVars, planVars
<1>6. /\ Completes(k)' <=> Completes(k)
      /\ ModelsAfterDone(k)' = ModelsAfterDone(k)
      /\ \A q : ModelsOf(q)' = ModelsOf(q)
      /\ \A m : InUse(m, k)' <=> InUse(m, k)
      /\ \A m : TrainChildren(m)' = TrainChildren(m)
      /\ Effective(k)' = Effective(k)
      /\ Woken(k)' = Woken(k) /\ WokenTests(k)' = WokenTests(k)
  BY <1>5, CommittedSame
<1>7. /\ view' \in Views /\ view'.status = view.status /\ view'.index = view.index
      /\ view'.planStatus = view.planStatus /\ view'.doneCount = view.doneCount
      /\ view'.reported = view.reported /\ view'.notified = view.notified
      /\ p \notin CleanPlans => view'.models = view.models /\ view'.dropped = view.dropped
      /\ p \in CleanPlans => /\ view'.models = [ModelsAfterDone(k) EXCEPT ![p][w] = used \cup added]
                             /\ view'.dropped = all \cup (listed \ used)
  <2>1. CASE p \notin CleanPlans
    BY <1>1, <2>1 DEF TryAddModel
  <2>2. CASE p \in CleanPlans
    <3>1. used = {m \in view.models[p][w] : \E c \in Children(m) : Own!Effective(c) # "done"}
      BY <1>3, <1>4
    <3>2. view' = [view EXCEPT !.models[p][w] = used \cup added, !.dropped = @ \cup (listed \ used)]
      BY <1>3, <2>2, <3>1 DEF TryAddModel
    <3>3. p \in Plans /\ w \in Nodes /\ listed \subseteq Keys /\ used \cup added \subseteq Keys
          /\ ModelsAfterDone(k) \in [Plans -> [Nodes -> SUBSET Keys]]
      BY <1>1, <2>2, AfterDoneType, PlansAssumption, WorkerAssumption
    <3> HIDE DEF used, added, listed, all, p, w
    <3>4. view' = [status |-> view.status, index |-> view.index, planStatus |-> view.planStatus,
                   doneCount |-> view.doneCount,
                   models |-> [ModelsAfterDone(k) EXCEPT ![p][w] = used \cup added],
                   reported |-> view.reported, notified |-> view.notified,
                   dropped |-> all \cup (listed \ used)]
      BY <1>1, <1>3, <3>2 DEF Views
    <3>5. /\ [ModelsAfterDone(k) EXCEPT ![p][w] = used \cup added] \in [Plans -> [Nodes -> SUBSET Keys]]
          /\ all \cup (listed \ used) \in SUBSET Keys
      BY <1>1, <1>3, <3>3 DEF Views
    <3>6. view' \in Views
      BY <1>1, <3>4, <3>5 DEF Views
    <3>7. QED BY <2>2, <3>4, <3>6
  <2>3. QED BY <2>1, <2>2
<1>8. /\ agenda' \in Seq(Calls) /\ Len(agenda') = Len(agenda) - 1 /\ Changed' = Changed
      /\ SuccessWritten' /\ SuccessCalls' /\ SuccessSettled'
  BY <1>1, <1>2, <1>5, <1>7, SuccessPop
<1>9. TxTypeOK'
  BY <1>1, <1>5, <1>7, <1>8, CommittedSame DEF TxTypeOK, Running
<1>10. ModelsWritten'
  <2>1. Len(agenda') # 3
    BY <1>2, <1>8
  <2>2. CASE p \in CleanPlans
    BY <1>5, <1>6, <1>7, <2>1, <2>2 DEF ModelsWritten
  <2>3. CASE p \notin CleanPlans
    BY <1>3, <1>5, <1>6, <1>7, <2>3 DEF ModelsWritten
  <2>4. QED BY <2>2, <2>3
<1>11. QED BY <1>5, <1>6, <1>8, <1>9, <1>10 DEF SuccessUnderWay

LEMMA SuccessBegins ==
  ASSUME Inductive, TxTypeOK, NEW n \in Nodes, NEW k \in Trains, BeginSuccess(n, k)
  PROVE  TxTypeOK' /\ SuccessUnderWay'
<1> DEFINE x == [call |-> "model", of |-> k, left |-> {}, updated |-> {}]
           y == UpdateTraintupleChildren(k, {})
           z == UpdateTesttupleChildren(k)
<1>1. /\ TypeOK /\ k \in Keys /\ k \in Registered /\ Idle
      /\ k \in Traintuples => CanFill(k)
      /\ handler' = "success" /\ subject' = k /\ UNCHANGED vars /\ agenda' = <<x, y, z>>
      /\ Effective(k) = "done" \/ CheckUpdateTuple(Effective(k), "done")
  BY DEF Inductive, BeginSuccess, Authorized, Keys, AddModel
<1>2. /\ \A d : /\ Effective(d)' = Effective(d) /\ TrainChildren(d)' = TrainChildren(d)
                /\ TestChildren(d)' = TestChildren(d)
                /\ Woken(d)' = Woken(d) /\ WokenTests(d)' = WokenTests(d)
                /\ PlanStatusAfterDone(d)' = PlanStatusAfterDone(d)
                /\ DoneCountAfter(d)' = DoneCountAfter(d)
                /\ ModelsAfterDone(d)' = ModelsAfterDone(d)
      /\ \A d : Completes(d)' <=> Completes(d)
      /\ \A p : ModelsOf(p)' = ModelsOf(p)
      /\ Registered' = Registered /\ Idle' = Idle /\ CanFill(k)' = CanFill(k)
      /\ status' = status /\ plan' = plan /\ index' = index /\ reported' = reported
      /\ notified' = notified /\ dropped' = dropped
  BY <1>1, CommittedSame DEF vars, tupleVars, planVars
<1>3. /\ x \in Calls /\ y \in Calls /\ z \in Calls
      /\ x.of = k /\ x.call = "model" /\ x.left = {}
      /\ y.of = k /\ y.call = "train" /\ y.left = TrainChildren(k) /\ y.updated = {}
      /\ z.of = k /\ z.call = "test" /\ z.left = TestChildren(k)
  BY <1>1 DEF Calls, UpdateTraintupleChildren, UpdateTesttupleChildren, TrainChildren,
              TestChildren, Keys
<1> HIDE DEF x, y, z
<1>4. /\ agenda' \in Seq(Calls) /\ Len(agenda') = 3
      /\ agenda'[1] = x /\ agenda'[2] = y /\ agenda'[3] = z
  BY <1>1, <1>3
<1>5. view' = [status |-> [status EXCEPT ![k] = "done"],
               index |-> (index \ {<<k, Effective(k)>>}) \cup {<<k, "done">>},
               planStatus |-> PlanStatusAfterDone(k), doneCount |-> DoneCountAfter(k),
               models |-> ModelsAfterDone(k), reported |-> reported \cup {k},
               notified |-> notified,
               dropped |-> dropped \cup (IF Completes(k) THEN ModelsOf(plan[k]) ELSE {})]
  BY DEF BeginSuccess, Committed
<1>6. view' \in Views
  <2>1. DoneCountAfter(k) \in [Plans -> [Nodes -> Nat]]
    <3>1. Counts(k) => plan[k] \in Plans
      BY <1>1 DEF Counts, TypeOK
    <3>2. Worker[k] \in Nodes
      BY <1>1, WorkerAssumption
    <3>3. QED BY <1>1, <3>1, <3>2 DEF DoneCountAfter, TypeOK
  <2>2. PlanStatusAfterDone(k) \in [Plans -> PlanStatuses \cup {Absent}]
    BY <1>1 DEF PlanStatusAfterDone, Completes, Counts, TypeOK, PlanStatuses
  <2>3. /\ ModelsAfterDone(k) \in [Plans -> [Nodes -> SUBSET Keys]]
        /\ dropped \cup (IF Completes(k) THEN ModelsOf(plan[k]) ELSE {}) \in SUBSET Keys
    BY <1>1, AfterDoneType DEF TypeOK
  <2>4. /\ [status EXCEPT ![k] = "done"] \in [Keys -> Statuses \cup {Absent}]
        /\ (index \ {<<k, Effective(k)>>}) \cup {<<k, "done">>} \in SUBSET (Keys \X Statuses)
    BY <1>1 DEF TypeOK, Statuses
  <2>5. reported \cup {k} \in SUBSET Keys /\ notified \in SUBSET Keys
    BY <1>1 DEF TypeOK, Registered
  <2>6. QED BY <1>5, <2>1, <2>2, <2>3, <2>4, <2>5 DEF Views
<1>7. Changed' = {}
  BY <1>1, <1>2, <1>5 DEF Changed, TypeOK
<1>8. TxTypeOK'
  BY <1>1, <1>2, <1>4, <1>6 DEF TxTypeOK, Running
<1>9. SuccessWritten'
  <2>1. view'.status = [c \in Keys |-> IF c = k THEN "done" ELSE status[c]]
    BY <1>1, <1>5 DEF TypeOK
  <2>2. view'.planStatus = [p \in Plans |-> PlanStatusAfterDone(k)[p]]
    BY <1>1, <1>5 DEF PlanStatusAfterDone, TypeOK
  <2>3. QED BY <1>1, <1>2, <1>5, <1>7, <2>1, <2>2 DEF SuccessWritten
<1>10. ModelsWritten'
  BY <1>1, <1>2, <1>4, <1>5 DEF ModelsWritten
<1>11. SuccessCalls'
  BY <1>1, <1>2, <1>3, <1>4, <1>7 DEF SuccessCalls
<1>12. SuccessSettled'
  <2>1. /\ \A c \in TrainChildren(k) : Pending("train", k, c)'
        /\ \A c \in TestChildren(k) : Pending("test", k, c)'
    BY <1>3, <1>4 DEF Pending
  <2>2. QED BY <1>1, <1>2, <2>1 DEF SuccessSettled
<1>13. QED BY <1>1, <1>2, <1>7, <1>8, <1>9, <1>10, <1>11, <1>12 DEF SuccessUnderWay

\* An in-model is another tuple.
LEMMA NoOwnChild == ASSUME Grounded, NEW k \in Keys PROVE k \notin TrainChildren(k) \cup TestChildren(k)
<1>1. \A c \in {} : parents[c] \cap ({} \cup {k}) # {}
  OBVIOUS
<1>2. parents[k] \cap ({} \cup {k}) = {}
  BY <1>1, NothingLeadsBack
<1>3. QED BY <1>2 DEF TrainChildren, TestChildren

LEMMA SuccessVisitsTrain ==
  ASSUME Inductive, Grounded, TxTypeOK, handler = "success", SuccessUnderWay,
         NEW c \in Keys, VisitTrainChild(c)
  PROVE  TxTypeOK' /\ SuccessUnderWay'
<1> DEFINE k == subject
<1>1. /\ TypeOK /\ k \in Keys /\ agenda \in Seq(Calls) /\ agenda # <<>> /\ c \in Top.left
      /\ Top.call = "train" /\ UNCHANGED <<vars, handler, subject>>
      /\ SuccessCalls /\ SuccessWritten /\ Changed \subseteq Woken(k) \cup WokenTests(k)
  BY DEF Inductive, TxTypeOK, Running, Registered, VisitTrainChild, SuccessUnderWay
<1>2. /\ Top \in Calls /\ Top.of = k /\ c \in TrainChildren(k) \ Changed
      /\ Top.updated \cap Top.left = {}
  BY <1>1, SuccessTop
<1>3. c # k
  BY <1>1, <1>2, NoOwnChild
<1>4. Own!Effective(c) = Effective(c)
  BY <1>1, <1>2, <1>3, SuccessReads
<1>5. c \notin WokenTests(k)
  BY <1>2, KindsAssumption DEF WokenTests, TestChildren, TrainChildren
<1>6. CASE Skipped(c)
  <2> DEFINE x == [Top EXCEPT !.left = @ \ {c}]
  <2>1. agenda' = <<x>> \o Tail(agenda) /\ view' = view
    BY <1>1, <1>6 DEF VisitTrainChild
  <2>2. /\ x \in Calls /\ x.call = Top.call /\ x.of = Top.of /\ x.left = Top.left \ {c}
        /\ x.updated = Top.updated
    BY <1>2 DEF Calls
  <2> HIDE DEF x
  <2>3. Effective(c) \in Closed
    BY <1>1, <1>2, <1>4, <1>6 DEF Skipped
  <2>4. c \notin Woken(k) \cup WokenTests(k) /\ Effective(c) \in Closed \cup {"waiting"}
    BY <1>5, <2>3, WokenFacts DEF Closed
  <2>5. x.updated \cap x.left = {} /\ Top.call \in {"train", "test"} /\ Top.call # "test"
    BY <1>1, <1>2, <2>2
  <2>6. QED BY <1>1, <1>3, <2>1, <2>2, <2>4, <2>5, SuccessVisit
<1>7. CASE ~Skipped(c)
  <2> DEFINE x == Visited(c)
  <2>1. /\ agenda' = <<x>> \o Tail(agenda) /\ Own!Effective(c) = "waiting"
        /\ view' = IF Ready(c) THEN Written(c, "todo") ELSE view
    BY <1>1, <1>7 DEF VisitTrainChild
  <2>2. /\ x \in Calls /\ x.call = Top.call /\ x.of = Top.of /\ x.left = Top.left \ {c}
        /\ x.updated = Top.updated \cup {c}
    BY <1>2 DEF Calls, Visited
  <2> HIDE DEF x
  <2>3. Ready(c) <=> c \in Woken(k)
    <3>1. ASSUME NEW m \in parents[c] \ {k} PROVE Own!Effective(m) = "done" <=> Effective(m) = "done"
      <4>1. m \in Keys
        BY <1>1 DEF TypeOK, Keys
      <4>2. m \in Changed => Effective(m) = "waiting"
        BY <1>1, WokenFacts
      <4>3. QED BY <1>1, <3>1, <4>1, <4>2, SuccessReads
    <3>2. QED BY <1>2, <1>4, <2>1, <3>1 DEF Ready, Woken
  <2>4. /\ \/ view' = view /\ c \notin Woken(k) \cup WokenTests(k)
           \/ view' = Written(c, "todo") /\ c \in Woken(k) \cup WokenTests(k)
        /\ Effective(c) \in Closed \cup {"waiting"}
    BY <1>4, <1>5, <2>1, <2>3
  <2>5. x.updated \cap x.left = {} /\ Top.call \in {"train", "test"} /\ Top.call # "test"
    BY <1>1, <1>2, <2>2
  <2>6. QED BY <1>1, <1>3, <2>1, <2>2, <2>4, <2>5, SuccessVisit
<1>8. QED BY <1>6, <1>7

LEMMA SuccessVisitsTest ==
  ASSUME Inductive, Grounded, TxTypeOK, handler = "success", SuccessUnderWay,
         NEW t \in Keys, VisitTestChild(t)
  PROVE  TxTypeOK' /\ SuccessUnderWay'
<1> DEFINE k == subject
           x == Visited(t)
<1>1. /\ TypeOK /\ k \in Keys /\ agenda \in Seq(Calls) /\ agenda # <<>> /\ t \in Top.left
      /\ Top.call = "test" /\ UNCHANGED <<vars, handler, subject>> /\ TestStatus = "todo"
      /\ agenda' = <<x>> \o Tail(agenda)
      /\ SuccessCalls /\ SuccessWritten /\ Changed \subseteq Woken(k) \cup WokenTests(k)
  BY DEF Inductive, TxTypeOK, Running, Registered, VisitTestChild, SuccessUnderWay, TestStatus
<1>2. Top \in Calls /\ Top.of = k /\ t \in TestChildren(k) \ Changed
  BY <1>1, SuccessTop
<1>3. t # k
  BY <1>1, <1>2, NoOwnChild
<1>4. Own!Effective(t) = Effective(t)
  BY <1>1, <1>2, <1>3, SuccessReads
<1>5. t \notin Woken(k)
  BY <1>2, KindsAssumption DEF Woken, TestChildren, TrainChildren
<1>6. x \in Calls /\ x.call = Top.call /\ x.of = Top.of /\ x.left = Top.left \ {t}
  BY <1>2 DEF Calls, Visited
<1> HIDE DEF x
<1>7. CASE Own!Effective(t) \in {"canceled", TestStatus}
  <2>1. view' = view
    BY <1>7 DEF VisitTestChild
  <2>2. Effective(t) \in {"canceled", "todo"} /\ t \notin Woken(k) \cup WokenTests(k)
    BY <1>1, <1>4, <1>5, <1>7 DEF WokenTests
  <2>3. QED BY <1>1, <1>3, <1>6, <2>1, <2>2, SuccessVisit
<1>8. CASE Own!Effective(t) \notin {"canceled", TestStatus}
  <2>1. view' = Written(t, "todo") /\ CheckUpdateTuple(Effective(t), "todo")
    BY <1>1, <1>4, <1>8 DEF VisitTestChild
  <2>2. Effective(t) = "waiting"
    BY <2>1 DEF CheckUpdateTuple, StatusPossibilities, Closed
  <2>3. t \in Woken(k) \cup WokenTests(k)
    BY <1>2, <2>2 DEF WokenTests
  <2>4. QED BY <1>1, <1>3, <1>6, <2>1, <2>3, SuccessVisit
<1>9. QED BY <1>7, <1>8

\* The transaction of logSuccess commits: what it has written is what LogSuccess
\* writes.
LEMMA SuccessCommits ==
  ASSUME Inductive, Grounded, TxTypeOK, handler = "success", SuccessUnderWay, Commit
  PROVE  Next
<1> DEFINE k == subject
           n == Worker[k]
<1>1. /\ TypeOK /\ Idle /\ k \in Trains \cap Registered /\ k \in Keys
      /\ k \in Traintuples => CanFill(k)
      /\ agenda = <<>> /\ SuccessWritten /\ ModelsWritten /\ SuccessSettled
      /\ Changed \subseteq Woken(k) \cup WokenTests(k)
  BY DEF Inductive, TxTypeOK, Running, Registered, Commit, SuccessUnderWay
<1>2. /\ status' = view.status         /\ index' = view.index
      /\ planStatus' = view.planStatus /\ doneCount' = view.doneCount
      /\ models' = view.models         /\ reported' = view.reported
      /\ notified' = view.notified     /\ dropped' = view.dropped
      /\ UNCHANGED <<parents, plan, rank, tasks, tupleCount, batchVars>>
  BY DEF Commit
<1>3. \A call, m, c : ~Pending(call, m, c)
  <2>1. 1..Len(agenda) = {}
    BY <1>1
  <2>2. QED BY <2>1 DEF Pending
<1>4. ChildrenAcceptDone(k) /\ Changed = Woken(k) \cup WokenTests(k)
  BY <1>1, <1>3 DEF SuccessSettled, ChildrenAcceptDone, Woken, WokenTests
<1>5. RecordSuccess(k, Woken(k) \cup WokenTests(k))
  BY <1>1, <1>2, <1>4 DEF SuccessWritten, RecordSuccess
<1>6. TryAddIntermediaryModel(k)
  <2>1. Len(agenda) # 3
    BY <1>1
  <2>2. CASE plan[k] \in CleanPlans
    <3> DEFINE listed == ModelsAfterDone(k)[plan[k]][Worker[k]]
               used   == {m \in listed : InUse(m, k)}
               added  == {m \in {k} : TrainChildren(m) # {}}
               all    == dropped \cup (IF Completes(k) THEN ModelsOf(plan[k]) ELSE {})
    <3>1. /\ models' = [ModelsAfterDone(k) EXCEPT ![plan[k]][Worker[k]] = used \cup added]
          /\ dropped' = all \cup (listed \ used)
      BY <1>1, <1>2, <2>1, <2>2 DEF ModelsWritten
    <3>2. all \cup (listed \ used) = dropped \cup (listed \ used)
                                       \cup (IF Completes(k) THEN ModelsOf(plan[k]) ELSE {})
      OBVIOUS
    <3>3. QED BY <2>2, <3>1, <3>2 DEF TryAddIntermediaryModel
  <2>3. CASE plan[k] \notin CleanPlans
    BY <1>1, <1>2, <2>3 DEF ModelsWritten, TryAddIntermediaryModel
  <2>4. QED BY <2>2, <2>3
<1>7. Authorized(n, k) /\ n \in Nodes
  BY <1>1, WorkerAssumption DEF Authorized
<1>8. LogSuccess(n, k)
  BY <1>4, <1>5, <1>6, <1>7 DEF LogSuccess, SuccessUnderWay
<1>9. QED
  BY <1>1, <1>7, <1>8
     DEF Next, Successes, LogSuccessTrain, LogSuccessCompositeTrain, LogSuccessAggregate, Trains

-----------------------------------------------------------------------------
(* The walk of logFail *)

\* Failing more tuples closes more plans, and reopens none.
LEMMA StillClosed ==
  ASSUME TypeOK, NEW F, NEW G, F \subseteq G, NEW c \in Keys,
         EffectiveIn(PlansAfter(F, "failed"), c) \in Closed
  PROVE  EffectiveIn(PlansAfter(G, "failed"), c) \in Closed
<1>1. CASE status[c] = "waiting" /\ plan[c] # NoPlan
  <2>1. plan[c] \in Plans
    BY <1>1 DEF TypeOK
  <2>2. PlansAfter(F, "failed")[plan[c]] \in Closed
    BY <1>1 DEF EffectiveIn, Closed
  <2>3. QED BY <1>1, <2>1, <2>2, PlansAfterMonotone DEF EffectiveIn, Closed
<1>2. CASE ~(status[c] = "waiting" /\ plan[c] # NoPlan)
  BY <1>2 DEF EffectiveIn
<1>3. QED BY <1>1, <1>2

\* What the transaction reads through its own writes.
LEMMA FailReads ==
  ASSUME NEW c \in Keys, FailWritten
  PROVE  Own!Effective(c) = IF c \in {subject} \cup Changed THEN "failed"
                            ELSE EffectiveIn(view.planStatus, c)
BY OwnFacts DEF FailWritten, EffectiveIn

\* A tuple that does not read as closed reads as it did before the walk, and as it
\* is stored.
LEMMA NotClosedReads ==
  ASSUME TypeOK, NEW F, NEW c \in Keys, EffectiveIn(PlansAfter(F, "failed"), c) # "canceled"
  PROVE  EffectiveIn(PlansAfter(F, "failed"), c) = Effective(c) /\ Effective(c) = status[c]
<1>1. CASE status[c] = "waiting" /\ plan[c] # NoPlan
  <2>1. plan[c] \in Plans
    BY <1>1 DEF TypeOK
  <2>2. PlansAfter(F, "failed")[plan[c]] \notin Closed
    BY <1>1 DEF EffectiveIn
  <2>3. planStatus[plan[c]] \notin Closed
    BY <2>1, <2>2, PlansAfterFacts
  <2>4. QED BY <1>1, <2>2, <2>3 DEF EffectiveIn, Effective
<1>2. CASE ~(status[c] = "waiting" /\ plan[c] # NoPlan)
  BY <1>2 DEF EffectiveIn, Effective
<1>3. QED BY <1>1, <1>2

\* A tuple failed on the way is written as one step of Workflow would have it.
LEMMA FailWrites ==
  ASSUME TypeOK, UNCHANGED <<vars, subject>>, view \in Views, subject \in Keys, FailWritten,
         NEW F, view.planStatus = PlansAfter(F, "failed"),
         NEW c \in Keys \ {subject}, c \notin Changed,
         Own!Effective(c) \notin Closed, view' = Written(c, "failed")
  PROVE  /\ view' \in Views /\ Changed' = Changed \cup {c} /\ FailWritten'
         /\ view'.planStatus = PlansAfter(F \cup {c}, "failed")
<1> DEFINE k == subject
           C == Changed \cup {c}
<1>1. /\ view' \in Views
      /\ view'.status = [view.status EXCEPT ![c] = "failed"]
      /\ view'.index = (view.index \ {<<c, Own!Effective(c)>>}) \cup {<<c, "failed">>}
      /\ view'.planStatus = [p \in Plans |-> IF plan[c] = p
                                            THEN UpdateState(view.planStatus[p], "failed")
                                            ELSE view.planStatus[p]]
      /\ view'.notified = view.notified
      /\ view'.doneCount = view.doneCount /\ view'.models = view.models
      /\ view'.reported = view.reported /\ view'.dropped = view.dropped
  <2>1. "failed" \in {"todo", "failed"} /\ "failed" # "todo"
    OBVIOUS
  <2>2. QED BY <2>1, WrittenFacts
<1>2. Own!Effective(c) = Effective(c) /\ Effective(c) = status[c] /\ status[c] \notin Closed
  <2>1. Own!Effective(c) = EffectiveIn(view.planStatus, c)
    BY FailReads
  <2>2. QED BY <2>1, NotClosedReads DEF Closed
<1>3. /\ status' = status /\ plan' = plan /\ index' = index /\ doneCount' = doneCount
      /\ models' = models /\ reported' = reported /\ notified' = notified
      /\ dropped' = dropped /\ subject' = k
      /\ \A G : Reindex(G, "failed")' = Reindex(G, "failed")
  BY CommittedSame DEF vars, tupleVars, planVars
<1>4. Changed' = C
  BY <1>1, <1>2, <1>3 DEF Changed, Views, Closed
<1>5. view'.status = [d \in Keys |-> IF d \in {k} \cup C THEN "failed" ELSE status[d]]
  BY <1>1 DEF FailWritten, Views
<1>6. view'.index = Reindex({k} \cup C, "failed")
  <2> DEFINE e == Effective(c)
             I(G) == (index \ {<<d, Effective(d)>> : d \in G}) \cup {<<d, "failed">> : d \in G}
  <2>1. \A G : Reindex(G, "failed") = I(G)
    BY DEF Reindex
  <2>2. view.index = I({k} \cup Changed)
    BY <2>1 DEF FailWritten
  <2>3. e # "failed" /\ c \notin {k} \cup Changed
    BY <1>2 DEF Closed
  <2>4. (I({k} \cup Changed) \ {<<c, e>>}) \cup {<<c, "failed">>} = I({k} \cup C)
    BY <2>3
  <2> HIDE DEF I
  <2>5. QED BY <1>1, <1>2, <2>1, <2>2, <2>4
<1>7. view'.planStatus = PlansAfter(F \cup {c}, "failed")
  <2>1. \A x : UpdateState(UpdateState(x, "failed"), "failed") = UpdateState(x, "failed")
    BY DEF UpdateState, PlanMoves
  <2>2. QED BY <1>1, <2>1 DEF PlansAfter
<1> HIDE DEF C
<1>8. FailWritten'
  BY <1>1, <1>3, <1>4, <1>5, <1>6 DEF FailWritten
<1>9. QED BY <1>1, <1>4, <1>7, <1>8 DEF C

FailState == /\ FailWritten
             /\ plan[subject] = NoPlan => FailUnderWay
             /\ plan[subject] # NoPlan => FailInPlan

LEMMA FailBegins ==
  ASSUME Inductive, TxTypeOK, NEW n \in Nodes, NEW k \in Trains, BeginFail(n, k)
  PROVE  TxTypeOK' /\ FailState'
<1> DEFINE y == UpdateTesttupleChildren(k)
           z == UpdateTraintupleChildren(k, {})
           ps == IF Effective(k) = "failed" THEN planStatus ELSE PlansAfter({k}, "failed")
<1>1. /\ TypeOK /\ k \in Keys /\ k \in Registered /\ Idle
      /\ k \in Traintuples => CanFill(k)
      /\ handler' = "fail" /\ subject' = k /\ UNCHANGED vars
      /\ agenda' = IF plan[k] # NoPlan THEN <<>> ELSE <<y, z>>
  BY DEF Inductive, BeginFail, Authorized, Keys, FailAgenda
<1>2. /\ \A d : /\ Effective(d)' = Effective(d) /\ TrainChildren(d)' = TrainChildren(d)
                /\ TestChildren(d)' = TestChildren(d)
      /\ Registered' = Registered /\ Idle' = Idle /\ CanFill(k)' = CanFill(k)
      /\ \A F : /\ PlansAfter(F, "failed")' = PlansAfter(F, "failed")
                /\ Reindex(F, "failed")' = Reindex(F, "failed")
      /\ status' = status /\ plan' = plan /\ index' = index /\ reported' = reported
      /\ notified' = notified /\ dropped' = dropped /\ planStatus' = planStatus
      /\ doneCount' = doneCount /\ models' = models
  BY <1>1, CommittedSame DEF vars, tupleVars, planVars
<1>3. /\ y \in Calls /\ z \in Calls
      /\ y.of = k /\ y.call = "test" /\ y.left = TestChildren(k)
      /\ z.of = k /\ z.call = "train" /\ z.left = TrainChildren(k) /\ z.updated = {}
  BY <1>1 DEF Calls, UpdateTraintupleChildren, UpdateTesttupleChildren, TrainChildren,
              TestChildren, Keys
<1> HIDE DEF y, z
<1>4. agenda' \in Seq(Calls)
  BY <1>1, <1>3
<1>5. view' = [status |-> [status EXCEPT ![k] = "failed"],
               index |-> (index \ {<<k, Effective(k)>>}) \cup {<<k, "failed">>},
               planStatus |-> ps, doneCount |-> doneCount, models |-> models,
               reported |-> reported, notified |-> notified, dropped |-> dropped]
  BY DEF BeginFail, Committed
<1>6. view' \in Views
  <2>1. /\ [status EXCEPT ![k] = "failed"] \in [Keys -> Statuses \cup {Absent}]
        /\ (index \ {<<k, Effective(k)>>}) \cup {<<k, "failed">>} \in SUBSET (Keys \X Statuses)
    BY <1>1 DEF TypeOK, Statuses
  <2>2. ps \in [Plans -> PlanStatuses \cup {Absent}]
    BY <1>1, PlansAfterFacts DEF TypeOK
  <2>3. reported \in SUBSET Keys /\ notified \in SUBSET Keys /\ dropped \in SUBSET Keys
    BY <1>1 DEF TypeOK, Registered
  <2> HIDE DEF ps
  <2>4. QED BY <1>1, <1>5, <2>1, <2>2, <2>3 DEF Views, TypeOK
<1>7. Changed' = {}
  BY <1>1, <1>2, <1>5 DEF Changed, TypeOK
<1>8. TxTypeOK'
  BY <1>1, <1>2, <1>4, <1>6 DEF TxTypeOK, Running
<1>9. FailWritten'
  <2>1. view'.status = [c \in Keys |-> IF c \in {k} \cup {} THEN "failed" ELSE status[c]]
    BY <1>1, <1>5 DEF TypeOK
  <2>2. view'.index = Reindex({k} \cup {}, "failed")
    BY <1>5 DEF Reindex
  <2>3. QED BY <1>1, <1>2, <1>5, <1>7, <2>1, <2>2 DEF FailWritten
<1>10. CASE plan[k] # NoPlan
  <2>1. FailInPlan'
    BY <1>1, <1>2, <1>5, <1>7, <1>10 DEF FailInPlan
  <2>2. QED BY <1>1, <1>2, <1>8, <1>9, <1>10, <2>1 DEF FailState
<1>11. CASE plan[k] = NoPlan
  <2>1. /\ agenda' = <<y, z>> /\ Len(agenda') = 2 /\ agenda'[1] = y /\ agenda'[2] = z
    BY <1>1, <1>3, <1>11
  <2>2. FailedTrains' = {} /\ Failing' = {k}
    BY <1>1, <1>7 DEF FailedTrains, Failing
  <2>3. ps = PlansAfter({}, "failed")
    <3>1. planStatus = [p \in Plans |-> planStatus[p]]
      BY <1>1 DEF TypeOK
    <3>2. \A p \in Plans : plan[k] # p
      BY <1>11, PlansAssumption
    <3>3. PlansAfter({k}, "failed") = PlansAfter({}, "failed")
      BY <3>2 DEF PlansAfter
    <3>4. PlansAfter({}, "failed") = planStatus
      BY <3>1 DEF PlansAfter
    <3>5. QED BY <3>3, <3>4
  <2>4. FailCalls'
    BY <1>1, <1>2, <1>3, <2>1, <2>2 DEF FailCalls
  <2>5. FailSettled'
    <3>1. /\ \A c \in TrainChildren(k) : Pending("train", k, c)'
          /\ \A c \in TestChildren(k) : Pending("test", k, c)'
      BY <1>3, <2>1 DEF Pending
    <3>2. QED BY <1>2, <2>2, <3>1 DEF FailSettled
  <2>6. FailUnderWay'
    BY <1>2, <1>5, <1>7, <2>2, <2>3, <2>4, <2>5 DEF FailUnderWay
  <2>7. QED BY <1>1, <1>2, <1>8, <1>9, <1>11, <2>6 DEF FailState
<1>12. QED BY <1>10, <1>11

\* What has been dealt with stays so, and what is failed next has all its children
\* ahead.
LEMMA FailSettles ==
  ASSUME TypeOK, UNCHANGED <<vars, subject>>, FailUnderWay,
         NEW C \in SUBSET Keys, Changed' = Changed \cup C,
         view'.planStatus = PlansAfter(FailedTrains \cup (C \cap Trains), "failed"),
         \A m \in C \cap Trains : /\ \A c \in TrainChildren(m) : Pending("train", m, c)'
                                  /\ \A t \in TestChildren(m) : Pending("test", m, t)',
         \A m : \A c \in TrainChildren(m) : Pending("train", m, c) =>
           \/ Pending("train", m, c)'
           \/ c \in Failing \cup C \/ EffectiveIn(view'.planStatus, c) \in Closed,
         \A m : \A t \in TestChildren(m) : Pending("test", m, t) =>
           \/ Pending("test", m, t)'
           \/ t \in Changed \cup C \/ EffectiveIn(view'.planStatus, t) \in Closed
  PROVE  /\ FailedTrains' = FailedTrains \cup (C \cap Trains)
         /\ Failing' = Failing \cup (C \cap Trains)
         /\ FailSettled'
<1>1. FailedTrains' = FailedTrains \cup (C \cap Trains)
  BY DEF FailedTrains
<1>2. Failing' = Failing \cup (C \cap Trains)
  BY <1>1 DEF Failing
<1>3. /\ \A d : TrainChildren(d)' = TrainChildren(d) /\ TestChildren(d)' = TestChildren(d)
      /\ \A ps, d : EffectiveIn(ps, d)' = EffectiveIn(ps, d)
  BY CommittedSame
<1>4. ASSUME NEW c \in Keys, EffectiveIn(view.planStatus, c) \in Closed
      PROVE  EffectiveIn(view'.planStatus, c) \in Closed
  <2>1. FailedTrains \subseteq FailedTrains \cup (C \cap Trains)
    OBVIOUS
  <2>2. view.planStatus = PlansAfter(FailedTrains, "failed")
    BY DEF FailUnderWay
  <2>3. QED BY <1>4, <2>1, <2>2, StillClosed
<1>5. ASSUME NEW m \in Failing', NEW c \in TrainChildren(m)
      PROVE  \/ Pending("train", m, c)'
             \/ c \in Failing' \/ EffectiveIn(view'.planStatus, c) \in Closed
  <2>1. c \in Keys /\ c \in Trains
    BY DEF TrainChildren, Keys
  <2>2. CASE m \in C \cap Trains
    BY <2>2
  <2>3. CASE m \in Failing
    BY <1>2, <1>4, <2>1, <2>3 DEF FailUnderWay, FailSettled
  <2>4. QED BY <1>2, <1>5, <2>2, <2>3
<1>6. ASSUME NEW m \in Failing', NEW t \in TestChildren(m)
      PROVE  \/ Pending("test", m, t)'
             \/ t \in Changed' \/ EffectiveIn(view'.planStatus, t) \in Closed
  <2>1. t \in Keys
    BY DEF TestChildren, Keys
  <2>2. CASE m \in C \cap Trains
    BY <2>2
  <2>3. CASE m \in Failing
    BY <1>2, <1>4, <2>1, <2>3 DEF FailUnderWay, FailSettled
  <2>4. QED BY <1>2, <1>6, <2>2, <2>3
<1>7. FailSettled'
  BY <1>3, <1>5, <1>6 DEF FailSettled
<1>8. QED BY <1>1, <1>2, <1>7

\* The walk moves on without writing anything.
LEMMA FailRests ==
  ASSUME TxTypeOK, Running, FailWritten, FailUnderWay, TypeOK, plan[subject] = NoPlan,
         UNCHANGED <<vars, handler, subject, view>>, agenda' \in Seq(Calls), FailCalls',
         \A m : \A c \in TrainChildren(m) : Pending("train", m, c) =>
           \/ Pending("train", m, c)'
           \/ c \in Failing \/ EffectiveIn(view.planStatus, c) \in Closed,
         \A m : \A t \in TestChildren(m) : Pending("test", m, t) =>
           \/ Pending("test", m, t)'
           \/ t \in Changed \/ EffectiveIn(view.planStatus, t) \in Closed
  PROVE  TxTypeOK' /\ FailState'
<1>1. /\ \A d : Effective(d)' = Effective(d)
      /\ \A ps, d : EffectiveIn(ps, d)' = EffectiveIn(ps, d)
      /\ \A F : /\ PlansAfter(F, "failed")' = PlansAfter(F, "failed")
                /\ Reindex(F, "failed")' = Reindex(F, "failed")
      /\ Registered' = Registered /\ Idle' = Idle /\ \A c : CanFill(c)' = CanFill(c)
      /\ status' = status /\ plan' = plan /\ planStatus' = planStatus /\ parents' = parents
      /\ notified' = notified /\ dropped' = dropped /\ reported' = reported
      /\ doneCount' = doneCount /\ models' = models
  BY CommittedSame DEF vars, tupleVars, planVars
<1>2. Changed' = Changed /\ FailedTrains' = FailedTrains /\ Failing' = Failing
  BY <1>1 DEF Changed, FailedTrains, Failing
<1>3. view.planStatus = PlansAfter(FailedTrains, "failed")
  BY DEF FailUnderWay
<1>4. FailSettled'
  <2>1. /\ {} \in SUBSET Keys /\ Changed' = Changed \cup {} /\ {} \cap Trains = {}
        /\ view'.planStatus = PlansAfter(FailedTrains \cup {}, "failed")
    BY <1>2, <1>3
  <2>2. QED BY <1>1, <2>1, FailSettles
<1>5. TxTypeOK'
  BY <1>1 DEF TxTypeOK, Running
<1>6. FailWritten'
  BY <1>1, <1>2 DEF FailWritten
<1>7. FailUnderWay'
  BY <1>1, <1>2, <1>4 DEF FailUnderWay
<1>8. QED BY <1>1, <1>5, <1>6, <1>7 DEF FailState

\* Where the innermost call of logFail is.
LEMMA FailTop ==
  ASSUME agenda \in Seq(Calls), agenda # <<>>, FailCalls
  PROVE  /\ Len(agenda) \in Nat \ {0} /\ Top \in Calls /\ Top = agenda[1]
         /\ Top.of \in Failing /\ Top.call # "model"
         /\ Top.call = "train" => /\ Top.left \subseteq TrainChildren(Top.of)
                                  /\ Top.updated \subseteq FailedTrains
         /\ Top.call = "test" => Top.left \subseteq TestChildren(Top.of)
<1>1. Len(agenda) \in Nat \ {0} /\ Top \in Calls /\ Top = agenda[1]
  BY StackPop DEF Top
<1>2. 1 \in 1..Len(agenda)
  BY <1>1
<1>3. QED BY <1>1, <1>2 DEF FailCalls

\* A failure in a plan makes no calls.
LEMMA FailWalks ==
  ASSUME TxTypeOK, handler = "fail", FailState, agenda # <<>>
  PROVE  /\ plan[subject] = NoPlan /\ FailUnderWay /\ FailWritten /\ FailCalls /\ Running
         /\ view.planStatus = PlansAfter(FailedTrains, "failed")
         /\ agenda \in Seq(Calls) /\ view \in Views /\ subject \in Trains \cap Keys
BY DEF TxTypeOK, FailState, FailInPlan, FailUnderWay, Running, Registered

LEMMA FailReturns ==
  ASSUME Inductive, TxTypeOK, handler = "fail", FailState, Return
  PROVE  TxTypeOK' /\ FailState'
<1>1. /\ agenda # <<>> /\ Top.left = {} /\ agenda' = Tail(agenda) /\ TypeOK
      /\ UNCHANGED <<vars, handler, subject, view>>
  BY DEF Return, Inductive
<1>2. /\ plan[subject] = NoPlan /\ FailUnderWay /\ FailWritten /\ FailCalls /\ Running
      /\ agenda \in Seq(Calls)
  BY <1>1, FailWalks
<1>3. /\ Len(agenda) \in Nat \ {0} /\ agenda' \in Seq(Calls) /\ Len(agenda') = Len(agenda) - 1
      /\ \A i \in 1..Len(agenda') : agenda'[i] = agenda[i + 1]
  BY <1>1, <1>2, StackPop
<1>4. /\ \A d : TrainChildren(d)' = TrainChildren(d) /\ TestChildren(d)' = TestChildren(d)
      /\ FailedTrains' = FailedTrains /\ Failing' = Failing
  BY <1>1, CommittedSame DEF FailedTrains, Failing, Changed, vars, tupleVars
<1>5. FailCalls'
  <2>1. ASSUME NEW i \in 1..Len(agenda')
        PROVE  i + 1 \in 1..Len(agenda) /\ agenda'[i] = agenda[i + 1]
    BY <1>3, <2>1
  <2>2. QED BY <1>2, <1>4, <2>1 DEF FailCalls
<1>6. \A call, m, c : Pending(call, m, c) => Pending(call, m, c)'
  BY <1>1, <1>2, PendingPop
<1>7. QED BY <1>1, <1>2, <1>3, <1>5, <1>6, FailRests

\* The innermost call has come to its child c and has nothing to write.
LEMMA FailSkips ==
  ASSUME Inductive, TxTypeOK, handler = "fail", FailState, agenda # <<>>,
         UNCHANGED <<vars, handler, subject, view>>,
         NEW c \in Top.left, NEW x \in Calls, agenda' = <<x>> \o Tail(agenda),
         x.call = Top.call, x.of = Top.of, x.left = Top.left \ {c},
         x.updated = Top.updated \/ Top.call = "test",
         Top.call = "train" => c \in Failing \/ EffectiveIn(view.planStatus, c) \in Closed,
         Top.call = "test" => c \in Changed \/ EffectiveIn(view.planStatus, c) \in Closed
  PROVE  TxTypeOK' /\ FailState'
<1>1. /\ plan[subject] = NoPlan /\ FailUnderWay /\ FailWritten /\ FailCalls /\ Running
      /\ agenda \in Seq(Calls) /\ TypeOK
  BY FailWalks DEF Inductive
<1>2. /\ Len(agenda) \in Nat \ {0} /\ agenda' \in Seq(Calls) /\ Len(agenda') = Len(agenda)
      /\ agenda'[1] = x /\ \A i \in 2..Len(agenda) : agenda'[i] = agenda[i]
  BY <1>1, StackPop, StackTop
<1>3. /\ \A d : TrainChildren(d)' = TrainChildren(d) /\ TestChildren(d)' = TestChildren(d)
      /\ FailedTrains' = FailedTrains /\ Failing' = Failing
  BY CommittedSame DEF FailedTrains, Failing, Changed, vars, tupleVars
<1>4. FailCalls'
  <2>1. /\ x.of \in Failing /\ x.call # "model"
        /\ x.call = "train" => /\ x.left \subseteq TrainChildren(x.of)
                               /\ x.updated \subseteq FailedTrains
        /\ x.call = "test" => x.left \subseteq TestChildren(x.of)
    BY <1>1, FailTop
  <2>2. ASSUME NEW i \in 1..Len(agenda'), i # 1
        PROVE  i \in 1..Len(agenda) /\ agenda'[i] = agenda[i]
    BY <1>2, <2>2
  <2>3. QED BY <1>1, <1>2, <1>3, <2>1, <2>2 DEF FailCalls
<1>5. \A call, m, d : Pending(call, m, d) =>
        Pending(call, m, d)' \/ (call = Top.call /\ m = Top.of /\ d = c)
  BY <1>1, PendingTop
<1>6. QED BY <1>1, <1>2, <1>4, <1>5, FailRests

\* Failing one more training tuple keeps what the walk knows of those before it.
LEMMA FailGrows ==
  ASSUME TypeOK, TestsJoin, plan[subject] = NoPlan, FailUnderWay, NEW c \in Trains,
         c \notin Failing,
         EffectiveIn(view.planStatus, c) = "waiting", parents[c] \cap Failing # {}
  PROVE  LET F == FailedTrains \cup {c} IN
         /\ \A d \in F : Effective(d) = "waiting" /\ parents[d] \cap (Failing \cup {c}) # {}
         /\ \A d, e \in F : /\ d # e /\ plan[d] = plan[e] /\ plan[d] # NoPlan
                            => planStatus[plan[d]] # "doing"
         /\ \A t \in Changed \ Trains :
              /\ parents[t] \cap (Failing \cup {c}) # {}
              /\ EffectiveIn(PlansAfter(F, "failed"), t) # "canceled"
<1> DEFINE F == FailedTrains \cup {c}
<1>1. view.planStatus = PlansAfter(FailedTrains, "failed") /\ c \in Keys
  BY DEF FailUnderWay, Keys
<1>2. Effective(c) = "waiting" /\ status[c] = "waiting"
  BY <1>1, NotClosedReads
<1>3. \A d \in F : Effective(d) = "waiting" /\ parents[d] \cap (Failing \cup {c}) # {}
  BY <1>2 DEF FailUnderWay
<1>4. ASSUME NEW d \in FailedTrains, plan[d] = plan[c], plan[c] # NoPlan
      PROVE  planStatus[plan[c]] # "doing"
  <2>1. SUFFICES ASSUME planStatus[plan[c]] = "doing" PROVE FALSE
    OBVIOUS
  <2>2. plan[c] \in Plans
    BY <1>1, <1>4 DEF TypeOK
  <2>3. PlansAfter(FailedTrains, "failed")[plan[c]] = "failed"
    BY <1>4, <2>1, <2>2 DEF PlansAfter, UpdateState, PlanMoves
  <2>4. QED BY <1>1, <1>2, <1>4, <2>3 DEF EffectiveIn, Closed
<1>5. \A d, e \in F : /\ d # e /\ plan[d] = plan[e] /\ plan[d] # NoPlan
                      => planStatus[plan[d]] # "doing"
  <2>1. \A d, e \in FailedTrains : /\ d # e /\ plan[d] = plan[e] /\ plan[d] # NoPlan
                                   => planStatus[plan[d]] # "doing"
    BY DEF FailUnderWay
  <2>2. QED BY <1>4, <2>1
<1>6. ASSUME NEW t \in Changed \ Trains
      PROVE  /\ parents[t] \cap Failing # {}
             /\ EffectiveIn(PlansAfter(F, "failed"), t) # "canceled"
  <2>1. /\ parents[t] \cap Failing # {} /\ t \in Testtuples
        /\ EffectiveIn(PlansAfter(FailedTrains, "failed"), t) # "canceled"
    BY <1>1 DEF FailUnderWay, Changed, Keys
  <2>2. PICK m \in parents[t] \cap Failing : plan[t] = plan[m]
    BY <2>1 DEF TestsJoin
  <2>3. CASE m = subject
    BY <2>1, <2>2, <2>3 DEF EffectiveIn
  <2>4. CASE m \in FailedTrains
    <3>1. ASSUME plan[t] # NoPlan
          PROVE  PlansAfter(F, "failed")[plan[t]] = PlansAfter(FailedTrains, "failed")[plan[t]]
      <4>1. plan[t] \in Plans
        BY <2>1, <3>1 DEF TypeOK, Keys
      <4>2. QED BY <2>2, <2>4, <4>1 DEF PlansAfter
    <3>2. QED BY <2>1, <3>1 DEF EffectiveIn
  <2>5. QED BY <2>1, <2>2, <2>3, <2>4 DEF Failing
<1>7. QED BY <1>3, <1>5, <1>6

LEMMA FailVisitsTrain ==
  ASSUME Inductive, Grounded, TxTypeOK, handler = "fail", FailState,
         NEW c \in Keys, VisitTrainChild(c)
  PROVE  TxTypeOK' /\ FailState'
<1> DEFINE k == subject
           x == UpdateTesttupleChildren(c)
           y == UpdateTraintupleChildren(c, Visited(c).updated)
           z == Visited(c)
<1>1. /\ TypeOK /\ TestsJoin /\ agenda # <<>> /\ c \in Top.left /\ Top.call = "train"
      /\ UNCHANGED <<vars, handler, subject>>
  BY DEF Inductive, VisitTrainChild
<1>2. /\ plan[k] = NoPlan /\ FailUnderWay /\ FailWritten /\ FailCalls /\ Running
      /\ view.planStatus = PlansAfter(FailedTrains, "failed")
      /\ agenda \in Seq(Calls) /\ view \in Views /\ k \in Trains \cap Keys
  BY <1>1, FailWalks
<1>3. /\ Top \in Calls /\ Top.of \in Failing /\ c \in TrainChildren(Top.of)
      /\ Top.updated \subseteq FailedTrains
  BY <1>1, <1>2, FailTop
<1>4. c \in Trains /\ Top.of \in parents[c]
  BY <1>3 DEF TrainChildren
<1>5. Own!Effective(c) = IF c \in {k} \cup Changed THEN "failed" ELSE EffectiveIn(view.planStatus, c)
  BY <1>2, FailReads
<1>6. CASE Skipped(c)
  <2> DEFINE v == [Top EXCEPT !.left = @ \ {c}]
  <2>1. agenda' = <<v>> \o Tail(agenda) /\ view' = view
    BY <1>1, <1>6 DEF VisitTrainChild
  <2>2. /\ v \in Calls /\ v.call = Top.call /\ v.of = Top.of /\ v.left = Top.left \ {c}
        /\ v.updated = Top.updated
    BY <1>3 DEF Calls
  <2> HIDE DEF v
  <2>3. c \in Failing \/ EffectiveIn(view.planStatus, c) \in Closed
    BY <1>3, <1>4, <1>5, <1>6 DEF Skipped, Failing, FailedTrains
  <2>4. UNCHANGED <<vars, handler, subject, view>> /\ Top.call # "test"
    BY <1>1, <2>1
  <2>5. QED BY <1>1, <2>1, <2>2, <2>3, <2>4, FailSkips
<1>7. CASE ~Skipped(c)
  <2>1. /\ Own!Effective(c) = "waiting" /\ view' = Written(c, "failed")
        /\ agenda' = <<x, y, z>> \o Tail(agenda)
    BY <1>1, <1>7 DEF VisitTrainChild
  <2>2. /\ x \in Calls /\ x.call = "test" /\ x.of = c /\ x.left = TestChildren(c)
        /\ y \in Calls /\ y.call = "train" /\ y.of = c /\ y.left = TrainChildren(c)
        /\ y.updated = Top.updated \cup {c}
        /\ z \in Calls /\ z.call = Top.call /\ z.of = Top.of /\ z.left = Top.left \ {c}
        /\ z.updated = Top.updated \cup {c}
    BY <1>3 DEF Calls, Visited, UpdateTesttupleChildren, UpdateTraintupleChildren,
                TestChildren, TrainChildren, Keys
  <2> HIDE DEF x, y, z
  <2>3. c \notin {k} \cup Changed /\ EffectiveIn(view.planStatus, c) = "waiting"
    BY <1>5, <2>1
  <2>4. /\ view' \in Views /\ Changed' = Changed \cup {c} /\ FailWritten'
        /\ view'.planStatus = PlansAfter(FailedTrains \cup {c}, "failed")
    <3>1. Own!Effective(c) \notin Closed
      BY <2>1 DEF Closed
    <3>2. QED BY <1>1, <1>2, <2>1, <2>3, <3>1, FailWrites
  <2>5. /\ Len(agenda) \in Nat \ {0} /\ agenda' \in Seq(Calls) /\ Len(agenda') = Len(agenda) + 2
        /\ agenda'[1] = x /\ agenda'[2] = y /\ agenda'[3] = z
        /\ \A i \in 2..Len(agenda) : agenda'[i + 2] = agenda[i]
    BY <1>1, <1>2, <2>1, <2>2, StackPop, StackPush
  <2>6. /\ \A call, m, d : Pending(call, m, d) =>
             Pending(call, m, d)' \/ (call = Top.call /\ m = Top.of /\ d = c)
        /\ \A d \in TestChildren(c) : Pending("test", c, d)'
        /\ \A d \in TrainChildren(c) : Pending("train", c, d)'
    <3>1. 1 \in 1..Len(agenda') /\ 2 \in 1..Len(agenda')
      BY <2>5
    <3>2. /\ \A d \in TestChildren(c) : Pending("test", c, d)'
          /\ \A d \in TrainChildren(c) : Pending("train", c, d)'
      BY <2>2, <2>5, <3>1 DEF Pending
    <3>3. QED BY <1>1, <1>2, <2>1, <2>2, <3>2, PendingPush
  <2>7. /\ FailedTrains' = FailedTrains \cup {c} /\ Failing' = Failing \cup {c} /\ FailSettled'
    <3>1. {c} \in SUBSET Keys /\ {c} \cap Trains = {c}
      BY <1>4
    <3>2. /\ view'.planStatus = PlansAfter(FailedTrains \cup ({c} \cap Trains), "failed")
          /\ \A m \in {c} \cap Trains : /\ \A d \in TrainChildren(m) : Pending("train", m, d)'
                                      /\ \A d \in TestChildren(m) : Pending("test", m, d)'
      BY <2>4, <2>6, <3>1
    <3>3. \A m : \A d \in TrainChildren(m) : Pending("train", m, d) =>
            Pending("train", m, d)' \/ d \in Failing \cup {c}
      BY <2>6
    <3>4. \A m : \A d \in TestChildren(m) : Pending("test", m, d) => Pending("test", m, d)'
      BY <1>1, <2>6
    <3>5. FailedTrains' = FailedTrains \cup ({c} \cap Trains)
          /\ Failing' = Failing \cup ({c} \cap Trains) /\ FailSettled'
      BY <1>1, <1>2, <2>4, <3>1, <3>2, <3>3, <3>4, FailSettles
    <3>6. QED BY <3>1, <3>5
  <2>8. /\ \A d : Effective(d)' = Effective(d) /\ CanFill(d)' = CanFill(d)
        /\ \A d : TrainChildren(d)' = TrainChildren(d) /\ TestChildren(d)' = TestChildren(d)
        /\ \A ps, d : EffectiveIn(ps, d)' = EffectiveIn(ps, d)
        /\ \A F : PlansAfter(F, "failed")' = PlansAfter(F, "failed")
        /\ Registered' = Registered /\ Idle' = Idle /\ subject' = k /\ handler' = handler
        /\ plan' = plan /\ planStatus' = planStatus /\ parents' = parents
    BY <1>1, CommittedSame DEF vars, tupleVars, planVars
  <2>9. FailCalls'
    <3>1. ASSUME NEW i \in 1..Len(agenda'), i \notin {1, 2, 3}
          PROVE  /\ i - 2 \in 1..Len(agenda) /\ agenda'[i] = agenda[i - 2]
      <4>1. i - 2 \in 2..Len(agenda) /\ i = (i - 2) + 2
        BY <2>5, <3>1
      <4>2. QED BY <2>5, <4>1
    <3>2. ASSUME NEW i \in 1..Len(agenda')
          PROVE  /\ agenda'[i].of \in Failing \cup {c} /\ agenda'[i].call # "model"
                 /\ agenda'[i].call = "train" =>
                      /\ agenda'[i].left \subseteq TrainChildren(agenda'[i].of)
                      /\ agenda'[i].updated \subseteq FailedTrains \cup {c}
                 /\ agenda'[i].call = "test" =>
                      agenda'[i].left \subseteq TestChildren(agenda'[i].of)
      <4>1. CASE i = 1
        BY <2>2, <2>5, <4>1
      <4>2. CASE i = 2
        BY <1>3, <2>2, <2>5, <4>2
      <4>3. CASE i = 3
        BY <1>1, <1>2, <1>3, <2>2, <2>5, <4>3, FailTop
      <4>4. CASE i \notin {1, 2, 3}
        BY <1>2, <3>1, <4>4 DEF FailCalls
      <4>5. QED BY <4>1, <4>2, <4>3, <4>4
    <3>3. QED BY <2>7, <2>8, <3>2 DEF FailCalls
  <2>10. FailUnderWay'
    <3>1. c \notin Failing /\ parents[c] \cap Failing # {}
      BY <1>3, <1>4, <2>3 DEF Failing, FailedTrains
    <3>2. /\ \A d \in FailedTrains \cup {c} :
               Effective(d) = "waiting" /\ parents[d] \cap (Failing \cup {c}) # {}
          /\ \A d, e \in FailedTrains \cup {c} :
               /\ d # e /\ plan[d] = plan[e] /\ plan[d] # NoPlan
               => planStatus[plan[d]] # "doing"
          /\ \A t \in Changed \ Trains :
               /\ parents[t] \cap (Failing \cup {c}) # {}
               /\ EffectiveIn(PlansAfter(FailedTrains \cup {c}, "failed"), t) # "canceled"
      BY <1>1, <1>2, <1>4, <2>3, <3>1, FailGrows
    <3>3. Changed' \ Trains = Changed \ Trains
      BY <1>4, <2>4
    <3>4. view'.planStatus = PlansAfter(FailedTrains, "failed")'
      BY <2>4, <2>7, <2>8
    <3>5. QED BY <2>4, <2>7, <2>8, <2>9, <3>2, <3>3, <3>4 DEF FailUnderWay
  <2>11. TxTypeOK'
    BY <1>2, <2>4, <2>5, <2>8 DEF TxTypeOK, Running
  <2>12. QED BY <1>2, <2>4, <2>8, <2>10, <2>11 DEF FailState
<1>8. QED BY <1>6, <1>7

\* A testtuple fails in the plan of the tuple it tests, which has heard of it.
LEMMA TestsFailAfter ==
  ASSUME TypeOK, TestsJoin, plan[subject] = NoPlan, NEW T \in SUBSET Testtuples,
         \A t \in T : parents[t] \cap Failing # {}
  PROVE  /\ PlansAfter(FailedTrains \cup T, "failed") = PlansAfter(FailedTrains, "failed")
         /\ PlansAfter(Failing \cup T, "failed") = PlansAfter(FailedTrains, "failed")
<1>1. ASSUME NEW t \in T, NEW p \in Plans, plan[t] = p PROVE \E m \in FailedTrains : plan[m] = p
  <2>1. PICK m \in parents[t] \cap Failing : plan[t] = plan[m]
    BY DEF TestsJoin
  <2>2. m # subject
    BY <1>1, <2>1, PlansAssumption
  <2>3. QED BY <1>1, <2>1, <2>2 DEF Failing
<1>2. \A p \in Plans : plan[subject] # p
  BY PlansAssumption
<1>3. \A p \in Plans : /\ (\E m \in FailedTrains \cup T : plan[m] = p)
                            <=> (\E m \in FailedTrains : plan[m] = p)
                       /\ (\E m \in Failing \cup T : plan[m] = p)
                            <=> (\E m \in FailedTrains : plan[m] = p)
  BY <1>1, <1>2 DEF Failing
<1>4. QED BY <1>3 DEF PlansAfter

LEMMA FailVisitsTest ==
  ASSUME Inductive, TxTypeOK, handler = "fail", FailState, NEW t \in Keys, VisitTestChild(t)
  PROVE  TxTypeOK' /\ FailState'
<1> DEFINE k == subject
           x == Visited(t)
<1>1. /\ TypeOK /\ TestsJoin /\ agenda # <<>> /\ t \in Top.left /\ Top.call = "test"
      /\ UNCHANGED <<vars, handler, subject>> /\ agenda' = <<x>> \o Tail(agenda)
      /\ TestStatus = "failed"
  BY DEF Inductive, VisitTestChild, TestStatus
<1>2. /\ plan[k] = NoPlan /\ FailUnderWay /\ FailWritten /\ FailCalls /\ Running
      /\ view.planStatus = PlansAfter(FailedTrains, "failed")
      /\ agenda \in Seq(Calls) /\ view \in Views /\ k \in Trains \cap Keys
  BY <1>1, FailWalks
<1>3. Top \in Calls /\ Top.of \in Failing /\ t \in TestChildren(Top.of)
  BY <1>1, <1>2, FailTop
<1>4. t \in Testtuples /\ t \notin Trains /\ t # k /\ Top.of \in parents[t]
  BY <1>2, <1>3, KindsAssumption DEF TestChildren
<1>5. Own!Effective(t) = IF t \in Changed THEN "failed" ELSE EffectiveIn(view.planStatus, t)
  BY <1>2, <1>4, FailReads
<1>6. /\ x \in Calls /\ x.call = Top.call /\ x.of = Top.of /\ x.left = Top.left \ {t}
  BY <1>3 DEF Calls, Visited
<1> HIDE DEF x
<1>7. CASE Own!Effective(t) \in {"canceled", TestStatus}
  <2>1. UNCHANGED <<vars, handler, subject, view>>
    BY <1>1, <1>7 DEF VisitTestChild
  <2>2. t \in Changed \/ EffectiveIn(view.planStatus, t) \in Closed
    BY <1>1, <1>5, <1>7 DEF Closed
  <2>3. Top.call # "train"
    BY <1>1
  <2>4. QED BY <1>1, <1>6, <2>1, <2>2, <2>3, FailSkips
<1>8. CASE Own!Effective(t) \notin {"canceled", TestStatus}
  <2>1. view' = Written(t, "failed") /\ Own!Effective(t) \notin Closed
    BY <1>1, <1>8 DEF VisitTestChild, Closed
  <2>2. t \notin Changed /\ EffectiveIn(view.planStatus, t) \notin Closed
    BY <1>5, <2>1 DEF Closed
  <2>3. /\ view' \in Views /\ Changed' = Changed \cup {t} /\ FailWritten'
        /\ view'.planStatus = PlansAfter(FailedTrains \cup {t}, "failed")
    BY <1>1, <1>2, <1>4, <2>1, <2>2, FailWrites
  <2>4. view'.planStatus = PlansAfter(FailedTrains, "failed")
    <3>1. {t} \in SUBSET Testtuples /\ \A u \in {t} : parents[u] \cap Failing # {}
      BY <1>3, <1>4
    <3>2. QED BY <1>1, <1>2, <2>3, <3>1, TestsFailAfter
  <2>5. /\ Len(agenda) \in Nat \ {0} /\ agenda' \in Seq(Calls) /\ Len(agenda') = Len(agenda)
        /\ agenda'[1] = x /\ \A i \in 2..Len(agenda) : agenda'[i] = agenda[i]
    BY <1>1, <1>2, <1>6, StackPop, StackTop
  <2>6. \A call, m, d : Pending(call, m, d) =>
          Pending(call, m, d)' \/ (call = Top.call /\ m = Top.of /\ d = t)
    BY <1>1, <1>2, <1>6, PendingTop
  <2>7. /\ FailedTrains' = FailedTrains /\ Failing' = Failing /\ FailSettled'
    <3>1. {t} \in SUBSET Keys /\ {t} \cap Trains = {}
      BY <1>4
    <3>2. /\ view'.planStatus = PlansAfter(FailedTrains \cup ({t} \cap Trains), "failed")
          /\ \A m \in {t} \cap Trains : /\ \A d \in TrainChildren(m) : Pending("train", m, d)'
                                      /\ \A d \in TestChildren(m) : Pending("test", m, d)'
      BY <2>4, <3>1
    <3>3. \A m : \A d \in TrainChildren(m) : Pending("train", m, d) => Pending("train", m, d)'
      BY <1>1, <2>6
    <3>4. \A m : \A d \in TestChildren(m) : Pending("test", m, d) =>
            Pending("test", m, d)' \/ d \in Changed \cup {t}
      BY <2>6
    <3>5. FailedTrains' = FailedTrains \cup ({t} \cap Trains)
          /\ Failing' = Failing \cup ({t} \cap Trains) /\ FailSettled'
      BY <1>1, <1>2, <2>3, <3>1, <3>2, <3>3, <3>4, FailSettles
    <3>6. QED BY <3>1, <3>5
  <2>8. /\ \A d : Effective(d)' = Effective(d) /\ CanFill(d)' = CanFill(d)
        /\ \A d : TrainChildren(d)' = TrainChildren(d) /\ TestChildren(d)' = TestChildren(d)
        /\ \A ps, d : EffectiveIn(ps, d)' = EffectiveIn(ps, d)
        /\ \A F : PlansAfter(F, "failed")' = PlansAfter(F, "failed")
        /\ Registered' = Registered /\ Idle' = Idle /\ subject' = k /\ handler' = handler
        /\ plan' = plan /\ planStatus' = planStatus /\ parents' = parents
    BY <1>1, CommittedSame DEF vars, tupleVars, planVars
  <2>9. FailCalls'
    <3>1. /\ x.of \in Failing /\ x.call = "test" /\ x.left \subseteq TestChildren(x.of)
      BY <1>1, <1>2, <1>6, FailTop
    <3>2. ASSUME NEW i \in 1..Len(agenda'), i # 1
          PROVE  i \in 1..Len(agenda) /\ agenda'[i] = agenda[i]
      BY <2>5, <3>2
    <3>3. QED BY <1>2, <2>5, <2>7, <2>8, <3>1, <3>2 DEF FailCalls
  <2>10. FailUnderWay'
    <3>1. ASSUME NEW u \in Changed' \ Trains
          PROVE  /\ parents[u] \cap Failing # {}
                 /\ EffectiveIn(view'.planStatus, u) # "canceled"
      <4>1. CASE u = t
        BY <1>2, <1>3, <1>4, <2>2, <2>4, <4>1 DEF Closed
      <4>2. CASE u # t
        BY <1>2, <2>3, <2>4, <3>1, <4>2 DEF FailUnderWay
      <4>3. QED BY <4>1, <4>2
    <3>2. view'.planStatus = PlansAfter(FailedTrains, "failed")'
      BY <2>4, <2>7, <2>8
    <3>3. QED BY <1>2, <2>7, <2>8, <2>9, <3>1, <3>2 DEF FailUnderWay
  <2>11. TxTypeOK'
    BY <1>2, <2>3, <2>5, <2>8 DEF TxTypeOK, Running
  <2>12. QED BY <1>2, <2>3, <2>8, <2>10, <2>11 DEF FailState
<1>9. QED BY <1>7, <1>8

\* Indexing as failed what is indexed as failed changes nothing.
LEMMA ReindexAgain ==
  ASSUME NEW C, NEW G, C \subseteq G,
         \A t \in G \ C : Effective(t) = "failed" /\ <<t, "failed">> \in index
  PROVE  Reindex(G, "failed") = Reindex(C, "failed")
<1> DEFINE Old(A) == {<<c, Effective(c)>> : c \in A}
           New(A) == {<<c, "failed">> : c \in A}
<1>1. Old(G) = Old(C) \cup New(G \ C) /\ New(G) = New(C) \cup New(G \ C)
  OBVIOUS
<1>2. New(G \ C) \subseteq index /\ New(G \ C) \cap Old(C) = {}
  OBVIOUS
<1>3. Reindex(G, "failed") = (index \ Old(G)) \cup New(G)
      /\ Reindex(C, "failed") = (index \ Old(C)) \cup New(C)
  BY DEF Reindex
<1> HIDE DEF Old, New
<1>4. QED BY <1>1, <1>2, <1>3

\* The transaction of logFail commits: what it has written is what LogFail
\* writes, whatever the order it went in.  A repeated report in a plan writes
\* nothing new.
LEMMA FailCommits ==
  ASSUME Inductive, Grounded, TxTypeOK, handler = "fail", FailState, Commit
  PROVE  [Next]_vars
<1> DEFINE k == subject
           n == Worker[k]
           F == FailedTrains
           G == {k} \cup F \cup FailedTests({k} \cup F)
<1>1. /\ TypeOK /\ TestsJoin /\ WorkDiscoverable /\ Idle /\ k \in Trains \cap Registered /\ k \in Keys
      /\ k \in Traintuples => CanFill(k)
      /\ agenda = <<>> /\ FailWritten
  BY DEF Inductive, TxTypeOK, Running, Registered, Commit, FailState
<1>2. /\ status' = view.status         /\ index' = view.index
      /\ planStatus' = view.planStatus /\ doneCount' = doneCount
      /\ models' = models              /\ reported' = reported
      /\ notified' = notified          /\ dropped' = dropped
      /\ UNCHANGED <<parents, plan, rank, tasks, tupleCount, batchVars>>
  BY <1>1 DEF Commit, FailWritten
<1>3. Authorized(n, k) /\ n \in Nodes
  BY <1>1, WorkerAssumption DEF Authorized
<1>4. ASSUME NEW A, view.status = [c \in Keys |-> IF c \in A THEN "failed" ELSE status[c]],
             view.index = Reindex(A, "failed"), view.planStatus = PlansAfter(A, "failed")
      PROVE  MarkFailed(A)
  BY <1>2, <1>4 DEF MarkFailed
<1>5. LogFail(n, k) => Next
  BY <1>1, <1>3
     DEF Next, Failures, Fails, LogFailTrain, LogFailCompositeTrain, LogFailAggregate, Trains
<1>6. CASE plan[k] # NoPlan
  <2>1. /\ Changed = {}
        /\ view.planStatus = IF Effective(k) = "failed" THEN planStatus
                             ELSE PlansAfter({k}, "failed")
    BY <1>6 DEF FailState, FailInPlan
  <2>2. /\ view.status = [c \in Keys |-> IF c \in {k} THEN "failed" ELSE status[c]]
        /\ view.index = Reindex({k}, "failed")
    BY <1>1, <2>1 DEF FailWritten
  <2>3. CASE Effective(k) # "failed"
    <3>1. MarkFailed({k})
      BY <1>4, <2>1, <2>2, <2>3
    <3>2. QED BY <1>3, <1>5, <1>6, <2>3, <3>1 DEF LogFail
  <2>4. CASE Effective(k) = "failed"
    <3>1. status[k] = "failed"
      BY <2>4, EffectiveFacts
    <3>2. view.status = status /\ <<k, "failed">> \in index
      BY <1>1, <2>2, <3>1 DEF TypeOK, WorkDiscoverable
    <3>3. view.index = index
      BY <2>2, <2>4, <3>2 DEF Reindex
    <3>4. UNCHANGED vars
      BY <1>2, <2>1, <2>4, <3>2, <3>3 DEF vars, tupleVars, planVars
    <3>5. QED BY <3>4
  <2>5. QED BY <2>3, <2>4
<1>7. CASE plan[k] = NoPlan
  <2>1. /\ FailUnderWay /\ FailSettled /\ F \subseteq Trains \ {k} /\ Failing = {k} \cup F
        /\ view.planStatus = PlansAfter(F, "failed")
    BY <1>7 DEF FailState, FailUnderWay, FailedTrains, Changed, Failing
  <2>2. \A call, m, c : ~Pending(call, m, c)
    <3>1. 1..Len(agenda) = {}
      BY <1>1
    <3>2. QED BY <3>1 DEF Pending
  <2>3. Propagates(k, F)
    <3>1. \A c \in F : Effective(c) = "waiting" /\ parents[c] \cap (F \cup {k}) # {}
      BY <2>1 DEF FailUnderWay, Failing
    <3>2. F \in SUBSET Keys
      BY <2>1 DEF Keys
    <3>3. parents[k] \cap (F \cup {k}) = {}
      BY <1>1, <3>1, <3>2, NothingLeadsBack
    <3>4. ASSUME NEW m \in F \cup {k}, NEW c \in TrainChildren(m)
          PROVE  c \in F \/ EffectiveIn(PlansAfter(F, "failed"), c) \in Closed
      <4>1. c # k
        BY <3>3 DEF TrainChildren
      <4>2. c \in Failing \/ EffectiveIn(view.planStatus, c) \in Closed
        BY <2>1, <2>2 DEF FailSettled
      <4>3. QED BY <2>1, <4>1, <4>2
    <3>5. \A c, d \in F : /\ c # d /\ plan[c] = plan[d] /\ plan[c] # NoPlan
                          => planStatus[plan[c]] # "doing"
      BY <2>1 DEF FailUnderWay
    <3> HIDE DEF F, k
    <3>6. QED BY <3>1, <3>4, <3>5 DEF Propagates
  <2>4. FailedTests({k} \cup F) \in SUBSET Testtuples
        /\ \A t \in FailedTests({k} \cup F) : parents[t] \cap Failing # {}
    BY <2>1 DEF FailedTests
  <2>5. PlansAfter({k} \cup F, "failed") = PlansAfter(F, "failed")
        /\ PlansAfter(G, "failed") = PlansAfter(F, "failed")
    <3>1. {} \in SUBSET Testtuples /\ \A t \in {} : parents[t] \cap Failing # {}
      OBVIOUS
    <3>2. PlansAfter(Failing \cup {}, "failed") = PlansAfter(F, "failed")
      BY <1>1, <1>7, <3>1, TestsFailAfter
    <3>3. PlansAfter(Failing \cup FailedTests({k} \cup F), "failed") = PlansAfter(F, "failed")
      BY <1>1, <1>7, <2>4, TestsFailAfter
    <3>4. Failing \cup {} = {k} \cup F /\ Failing \cup FailedTests({k} \cup F) = G
      BY <2>1
    <3>5. QED BY <3>2, <3>3, <3>4
  <2>6. {k} \cup Changed \subseteq G
    <3>1. ASSUME NEW t \in Changed \ Trains PROVE t \in FailedTests({k} \cup F)
      <4>1. t \in Testtuples
        BY DEF Changed, Keys
      <4>2. parents[t] \cap Failing # {} /\ EffectiveIn(view.planStatus, t) # "canceled"
        BY <2>1 DEF FailUnderWay
      <4>3. QED BY <2>1, <2>5, <4>1, <4>2 DEF FailedTests
    <3>2. QED BY <3>1 DEF FailedTrains
  <2>7. ASSUME NEW t \in G \ ({k} \cup Changed)
        PROVE  status[t] = "failed" /\ Effective(t) = "failed" /\ <<t, "failed">> \in index
    <3>1. t \in FailedTests({k} \cup F)
      BY DEF FailedTrains
    <3>2. PICK m \in {k} \cup F : t \in TestChildren(m)
      BY <3>1 DEF FailedTests, TestChildren
    <3>3. EffectiveIn(view.planStatus, t) \in Closed
      BY <2>1, <2>2, <2>7, <3>2 DEF FailSettled
    <3>4. EffectiveIn(view.planStatus, t) = "failed"
      BY <2>1, <2>5, <3>1, <3>3 DEF FailedTests, Closed
    <3>5. t \in Keys /\ "failed" # "canceled"
      BY <3>1 DEF FailedTests, Keys
    <3>6. status[t] = "failed" /\ Effective(t) = "failed"
      BY <1>1, <2>1, <3>4, <3>5, NotClosedReads
    <3>7. QED BY <1>1, <3>5, <3>6 DEF WorkDiscoverable, Registered, Absent
  <2>8. view.status = [c \in Keys |-> IF c \in G THEN "failed" ELSE status[c]]
    BY <1>1, <2>6, <2>7 DEF FailWritten
  <2>9. view.index = Reindex(G, "failed")
    <3> DEFINE C == {k} \cup Changed
    <3>1. view.index = Reindex(C, "failed")
      BY <1>1 DEF FailWritten
    <3> HIDE DEF C, G
    <3>2. Reindex(G, "failed") = Reindex(C, "failed")
      BY <2>6, <2>7, ReindexAgain DEF C
    <3>3. QED BY <3>1, <3>2
  <2>10. MarkFailed(G)
    BY <1>4, <2>1, <2>5, <2>8, <2>9
  <2>11. QED BY <1>3, <1>5, <1>7, <2>1, <2>3, <2>10 DEF LogFail
<1>8. QED BY <1>6, <1>7

-----------------------------------------------------------------------------
(* Every step of the walk *)

LEMMA ReportInit == ASSUME TxInit PROVE ReportInductive
<1>1. Inductive /\ ReportedEnded
  BY InductiveInit DEF TxInit, Init, ReportedEnded
<1>2. Grounded
  BY DEF TxInit, Init, Grounded
<1>3. TxTypeOK
  BY DEF TxInit, TxTypeOK, Running
<1>4. QED BY <1>1, <1>2, <1>3 DEF TxInit, ReportInductive

LEMMA ReportFacts ==
  ASSUME ReportInductive
  PROVE  /\ Inductive /\ ReportedEnded /\ Grounded /\ TxTypeOK
         /\ handler = "success" => SuccessUnderWay
         /\ handler = "fail" => FailState
         /\ Running => handler \in {"success", "fail"}
BY DEF ReportInductive, FailState, TxTypeOK, Running

\* No handler is running after the step.
LEMMA NothingRuns ==
  ASSUME ReportInductive, [Next]_vars, handler' = "none", agenda' \in Seq(Calls)
  PROVE  ReportInductive'
<1>1. Inductive' /\ ReportedEnded' /\ Grounded'
  BY ReportFacts, InductiveStep, EndedStep, GroundedStep
<1>2. TxTypeOK'
  BY DEF TxTypeOK, Running
<1>3. QED BY <1>1, <1>2 DEF ReportInductive

\* The running handler moves on.
LEMMA HandlerRuns ==
  ASSUME ReportInductive, UNCHANGED vars, TxTypeOK',
         \/ handler' = "success" /\ SuccessUnderWay'
         \/ handler' = "fail" /\ FailState'
  PROVE  ReportInductive'
<1>1. Inductive' /\ ReportedEnded' /\ Grounded'
  BY ReportFacts, InductiveStep, EndedStep, GroundedStep
<1>2. QED BY <1>1 DEF ReportInductive, FailState

LEMMA ReportStep ==
  ASSUME ReportInductive, TxNext
  PROVE  ReportInductive' /\ [Next]_vars
<1>1. /\ Inductive /\ ReportedEnded /\ Grounded /\ TxTypeOK
      /\ handler = "success" => SuccessUnderWay
      /\ handler = "fail" => FailState
      /\ Running => handler \in {"success", "fail"}
  BY ReportFacts
<1>2. CASE OtherHandlers
  <2>1. Next /\ handler' = "none" /\ agenda' \in Seq(Calls)
    BY <1>1, <1>2
       DEF OtherHandlers, Running, txVars, TxTypeOK, Next, Successes, Failures, Fails, Keys
  <2>2. QED BY <2>1, NothingRuns
<1>3. ASSUME NEW n \in Nodes, NEW k \in Trains, BeginSuccess(n, k)
      PROVE  ReportInductive' /\ [Next]_vars
  <2>1. UNCHANGED vars /\ handler' = "success"
    BY <1>3 DEF BeginSuccess
  <2>2. QED BY <1>1, <1>3, <2>1, SuccessBegins, HandlerRuns
<1>4. ASSUME NEW n \in Nodes, NEW k \in Trains, BeginFail(n, k)
      PROVE  ReportInductive' /\ [Next]_vars
  <2>1. UNCHANGED vars /\ handler' = "fail"
    BY <1>4 DEF BeginFail
  <2>2. QED BY <1>1, <1>4, <2>1, FailBegins, HandlerRuns
<1>5. CASE TryAddModel
  <2>1. UNCHANGED vars /\ handler' = handler /\ Running /\ agenda # <<>> /\ Top.call = "model"
    BY <1>5 DEF TryAddModel
  <2>2. handler = "success"
    BY <1>1, <2>1, FailWalks, FailTop
  <2>3. QED BY <1>1, <1>5, <2>1, <2>2, SuccessAddsModel, HandlerRuns
<1>6. CASE Return
  <2>1. UNCHANGED vars /\ handler' = handler /\ Running
    BY <1>6 DEF Return
  <2>2. QED BY <1>1, <1>6, <2>1, SuccessReturns, FailReturns, HandlerRuns
<1>7. CASE Abort
  <2>1. UNCHANGED vars /\ handler' = "none" /\ agenda' = <<>>
    BY <1>7 DEF Abort, EndTransaction
  <2>2. agenda' \in Seq(Calls)
    BY <2>1
  <2>3. QED BY <2>1, <2>2, NothingRuns
<1>8. CASE Commit
  <2>1. Running /\ handler' = "none" /\ agenda' = <<>>
    BY <1>8 DEF Commit, EndTransaction
  <2>2. agenda' \in Seq(Calls)
    BY <2>1
  <2>3. [Next]_vars
    BY <1>1, <1>8, <2>1, SuccessCommits, FailCommits
  <2>4. QED BY <2>1, <2>2, <2>3, NothingRuns
<1>9. ASSUME NEW c \in Keys, VisitTrainChild(c) PROVE ReportInductive' /\ [Next]_vars
  <2>1. UNCHANGED vars /\ handler' = handler /\ Running
    BY <1>9 DEF VisitTrainChild
  <2>2. QED BY <1>1, <1>9, <2>1, SuccessVisitsTrain, FailVisitsTrain, HandlerRuns
<1>10. ASSUME NEW c \in Keys, VisitTestChild(c) PROVE ReportInductive' /\ [Next]_vars
  <2>1. UNCHANGED vars /\ handler' = handler /\ Running
    BY <1>10 DEF VisitTestChild
  <2>2. QED BY <1>1, <1>10, <2>1, SuccessVisitsTest, FailVisitsTest, HandlerRuns
<1>11. QED
  BY <1>2, <1>3, <1>4, <1>5, <1>6, <1>7, <1>8, <1>9, <1>10 DEF TxNext, TrainReports, Walk

LEMMA ReportStutter == ASSUME ReportInductive, UNCHANGED allVars PROVE ReportInductive'
<1> DEFINE k == subject
<1>1. /\ Inductive /\ ReportedEnded /\ Grounded /\ TxTypeOK
      /\ UNCHANGED vars /\ UNCHANGED <<handler, subject, agenda, view>>
  BY ReportFacts DEF allVars, txVars
<1>2. Inductive' /\ ReportedEnded' /\ Grounded'
  BY <1>1, InductiveStep, EndedStep, GroundedStep
<1>3. /\ \A c : /\ Effective(c)' = Effective(c) /\ CanFill(c)' = CanFill(c)
                /\ TrainChildren(c)' = TrainChildren(c) /\ TestChildren(c)' = TestChildren(c)
                /\ Woken(c)' = Woken(c) /\ WokenTests(c)' = WokenTests(c)
      /\ \A c : Completes(c)' <=> Completes(c)
      /\ \A c : /\ PlanStatusAfterDone(c)' = PlanStatusAfterDone(c)
                /\ DoneCountAfter(c)' = DoneCountAfter(c)
                /\ ModelsAfterDone(c)' = ModelsAfterDone(c)
      /\ \A p : ModelsOf(p)' = ModelsOf(p)
      /\ \A m, c : InUse(m, c)' <=> InUse(m, c)
      /\ \A F, s : PlansAfter(F, s)' = PlansAfter(F, s) /\ Reindex(F, s)' = Reindex(F, s)
      /\ \A ps, c : EffectiveIn(ps, c)' = EffectiveIn(ps, c)
      /\ Registered' = Registered /\ Idle' = Idle
      /\ status' = status /\ plan' = plan /\ planStatus' = planStatus /\ parents' = parents
      /\ index' = index /\ notified' = notified /\ dropped' = dropped
      /\ reported' = reported /\ doneCount' = doneCount /\ models' = models
  BY <1>1, CommittedSame DEF vars, tupleVars, planVars
<1>4. /\ Changed' = Changed /\ FailedTrains' = FailedTrains /\ Failing' = Failing
      /\ \A call, m, c : Pending(call, m, c)' <=> Pending(call, m, c)
  BY <1>1, <1>3 DEF Changed, FailedTrains, Failing, Pending
<1>5. TxTypeOK'
  BY <1>1, <1>3 DEF TxTypeOK, Running
<1>6. ASSUME SuccessUnderWay PROVE SuccessUnderWay'
  <2>1. SuccessWritten'
    BY <1>1, <1>3, <1>4, <1>6 DEF SuccessUnderWay, SuccessWritten
  <2>2. ModelsWritten'
    BY <1>1, <1>3, <1>6 DEF SuccessUnderWay, ModelsWritten
  <2>3. SuccessCalls'
    BY <1>1, <1>3, <1>4, <1>6 DEF SuccessUnderWay, SuccessCalls
  <2>4. SuccessSettled'
    BY <1>1, <1>3, <1>4, <1>6 DEF SuccessUnderWay, SuccessSettled
  <2>5. QED BY <1>1, <1>3, <1>4, <1>6, <2>1, <2>2, <2>3, <2>4 DEF SuccessUnderWay
<1>7. ASSUME FailState PROVE FailState'
  <2>1. FailWritten'
    BY <1>1, <1>3, <1>4, <1>7 DEF FailState, FailWritten
  <2>2. plan[k] # NoPlan => FailInPlan'
    BY <1>1, <1>3, <1>4, <1>7 DEF FailState, FailInPlan
  <2>3. ASSUME plan[k] = NoPlan PROVE FailUnderWay'
    <3>1. FailCalls'
      BY <1>1, <1>3, <1>4, <1>7, <2>3 DEF FailState, FailUnderWay, FailCalls
    <3>2. FailSettled'
      BY <1>1, <1>3, <1>4, <1>7, <2>3 DEF FailState, FailUnderWay, FailSettled
    <3>3. QED BY <1>1, <1>3, <1>4, <1>7, <2>3, <3>1, <3>2 DEF FailState, FailUnderWay
  <2>4. QED BY <1>1, <1>3, <2>1, <2>2, <2>3 DEF FailState
<1>8. QED BY <1>1, <1>2, <1>5, <1>6, <1>7, ReportFacts DEF ReportInductive, FailState

\* What a running handler has written so far is always part of what one step of
\* Workflow writes, and its stack holds what is missing.
THEOREM ReportInductiveHolds == TxSpec => []ReportInductive
<1>1. TxInit => ReportInductive
  BY ReportInit
<1>2. ReportInductive /\ [TxNext]_allVars => ReportInductive'
  BY ReportStep, ReportStutter
<1>3. QED BY <1>1, <1>2, PTL DEF TxSpec

\* Whatever the graph, and in whatever order the walk meets the children, a report
\* that commits does to the ledger what one step of Workflow does; one that ends
\* in an error does nothing.
THEOREM ReportsImplementWorkflow == TxSpec => ReportsAreAtomicSteps
<1>1. TxInit => Init
  BY DEF TxInit
<1>2. ReportInductive /\ [TxNext]_allVars => [Next]_vars
  BY ReportStep DEF allVars
<1>3. QED BY <1>1, <1>2, ReportInductiveHolds, PTL DEF TxSpec, ReportsAreAtomicSteps, Spec

\* What the organisations are promised of the life of a tuple holds of the reports
\* walked child by child, too.
THEOREM ReportsImplementTaskGraph == TxSpec => ImplementsTaskGraph
<1>1. TxSpec => Spec
  BY ReportsImplementWorkflow DEF ReportsAreAtomicSteps
<1>2. QED BY <1>1, WorkflowImplementsTaskGraph

\* A tuple that was started keeps its in-models' results, so that what the walk
\* fails, which is waiting, has no child it could not deal with.
LEMMA NothingStartedBelow ==
  ASSUME Inductive, ReportedEnded, NEW m \in Keys, NEW c \in TrainChildren(m) \cup TestChildren(m),
         status[m] \in {"waiting", "doing"}
  PROVE  status[c] \notin {"todo", "doing", "done"}
<1>1. m \in parents[c] /\ c \in Keys /\ m \notin reported
  BY DEF TrainChildren, TestChildren, Keys, ReportedEnded
<1>2. QED BY <1>1 DEF Inductive, InModelsAvailable

LEMMA AbortStep ==
  ASSUME ReportInductive, Abort
  PROVE  Top.of = subject /\ (status[subject] = "doing" => Top.call = "test")
<1>1. /\ Inductive /\ ReportedEnded /\ Grounded /\ TxTypeOK /\ TypeOK
      /\ handler = "success" => SuccessUnderWay
      /\ handler = "fail" => FailState
      /\ Running /\ handler \in {"success", "fail"} /\ agenda # <<>>
      /\ agenda \in Seq(Calls) /\ subject \in Trains \cap Keys
  BY ReportFacts DEF Abort, TxTypeOK, Inductive, Running, Registered
<1>2. PICK c \in Top.left : Refuses(c)
  BY DEF Abort
<1>3. CASE handler = "success"
  <2>1. /\ Top \in Calls /\ Top.of = subject /\ Top.call # "model"
        /\ Top.call = "train" => c \in TrainChildren(subject) \ Changed
    BY <1>1, <1>2, <1>3, SuccessTop DEF SuccessUnderWay
  <2>2. ASSUME Top.call # "test" PROVE status[subject] # "doing"
    <3>1. c \in TrainChildren(subject) \ Changed /\ c \in Keys /\ c # subject
      BY <1>1, <2>1, <2>2, NoOwnChild DEF Calls, TrainChildren, Keys
    <3>2. Own!Effective(c) = Effective(c)
      BY <1>1, <1>3, <3>1, SuccessReads DEF SuccessUnderWay
    <3>3. Effective(c) \notin Closed \cup {"waiting"}
      BY <1>2, <2>2, <3>2 DEF Refuses, Skipped
    <3>4. status[c] \in {"todo", "doing", "done"}
      <4>1. status[c] # Absent
        BY <1>1, <3>1 DEF TypeOK, TrainChildren, Registered
      <4>2. status[c] = Effective(c)
        BY <3>3, EffectiveFacts DEF Closed
      <4>3. QED BY <1>1, <3>1, <3>3, <4>1, <4>2 DEF TypeOK, Statuses, Closed
    <3>5. QED BY <1>1, <3>1, <3>4, NothingStartedBelow
  <2>3. QED BY <2>1, <2>2
<1>4. CASE handler = "fail"
  <2>1. /\ FailUnderWay /\ FailWritten /\ FailCalls
        /\ view.planStatus = PlansAfter(FailedTrains, "failed")
    BY <1>1, <1>4, FailWalks
  <2>2. /\ Top \in Calls /\ Top.of \in Failing
        /\ Top.call = "train" => c \in TrainChildren(Top.of)
    BY <1>1, <1>2, <2>1, FailTop
  <2>3. Top.call = "train" /\ ~Skipped(c) /\ Own!Effective(c) # "waiting"
    BY <1>2, <1>4 DEF Refuses, TestStatus, CheckUpdateTuple, Closed
  <2>4. c \in TrainChildren(Top.of) /\ c \in Keys
    BY <2>2, <2>3 DEF TrainChildren, Keys
  <2>5. Own!Effective(c) = EffectiveIn(view.planStatus, c)
        /\ EffectiveIn(view.planStatus, c) \notin Closed \cup {"waiting"}
    BY <2>1, <2>3, <2>4, FailReads DEF Skipped, Closed
  <2>6. status[c] \in {"todo", "doing", "done"}
    <3>1. status[c] # Absent
      BY <1>1, <2>4 DEF TypeOK, TrainChildren, Registered
    <3>2. status[c] \notin Closed \cup {"waiting"}
      BY <1>1, <2>1, <2>4, <2>5, NotClosedReads DEF Closed
    <3>3. QED BY <1>1, <2>4, <3>1, <3>2 DEF TypeOK, Statuses, Closed
  <2>7. \A m \in Keys : status[m] \in {"waiting", "doing"} => Top.of # m
    BY <1>1, <2>4, <2>6, NothingStartedBelow
  <2>8. Top.of \notin FailedTrains
    <3>1. \A m \in FailedTrains : m \in Keys /\ status[m] = "waiting"
      BY <2>1, EffectiveFacts DEF FailUnderWay, FailedTrains, Keys
    <3>2. QED BY <2>7, <3>1
  <2>9. QED BY <1>1, <2>2, <2>7, <2>8 DEF Failing
<1>5. QED BY <1>1, <1>3, <1>4

\* A report is lost only for a child of the tuple itself, and that on a tuple that
\* is doing only for one of its testtuples.
THEOREM ReportsLostForDirectChild == TxSpec => LostForDirectChild
<1>1. ReportInductive /\ [TxNext]_allVars =>
        [Abort => /\ Top.of = subject
                  /\ status[subject] = "doing" => Top.call = "test"]_allVars
  BY AbortStep
<1>2. QED BY <1>1, ReportInductiveHolds, PTL DEF TxSpec, LostForDirectChild
=============================================================================
