------------------------------ MODULE PlanProofs ------------------------------
(***************************************************************************)
(* Theorems about compute plans, for every set of keys, plans and workers: *)
(* their counters are exact, their status neither lags behind the tuples   *)
(* nor runs ahead of them, and models are dropped when nobody uses them.   *)
(*                                                                         *)
(* All of them are for requests that use no key twice (ReuseLimit = 0): a  *)
(* repeated key is counted twice, and its plan never completes.            *)
(*                                                                         *)
(* The conjuncts of PlanInductive hold each other up.  A plan completes    *)
(* when the counters say so, and they say so when all its tuples have      *)
(* reported (CompletesExactly, from CountersExact and the totals of        *)
(* SumProofs); a report is counted because a plan one of whose tuples runs *)
(* is doing or closed (PlanReflectsWork, DonePlanIsSettled).               *)
(***************************************************************************)
EXTENDS WorkflowProofs, SumProofs

\* The tuples of p that run on n: what the counters of n count.
Mine(p, n) == {k \in PlanTuples(p) : Worker[k] = n}

\* UpdateState, seen from the status the tuple takes.
LEMMA UpdateStateCases ==
  ASSUME NEW old
  PROVE  /\ UpdateState(old, "doing") = IF old = "todo" THEN "doing" ELSE old
         /\ UpdateState(old, "todo") = IF old \in {"done", "waiting"} THEN "todo" ELSE old
         /\ UpdateState(old, "waiting") = IF old = "done" THEN "waiting" ELSE old
         /\ UpdateState(old, "failed") = IF old = "doing" THEN "failed" ELSE old
         /\ UpdateState(old, "canceled") = old
BY DEF UpdateState, PlanMoves

LEMMA CountersFacts ==
  CountersExact <=>
    \A p \in Plans, n \in Nodes :
      /\ tupleCount[p][n] = Cardinality(Mine(p, n))
      /\ planStatus[p] \notin Closed => doneCount[p][n] = Cardinality(Mine(p, n) \cap reported)
BY DEF CountersExact, Mine

\* DoneCount never exceeds TupleCount, and reaches it when all have reported.
LEMMA MineFinite ==
  ASSUME IsFiniteSet(Registered), NEW p, NEW n, NEW R
  PROVE  /\ IsFiniteSet(Mine(p, n)) /\ IsFiniteSet(Mine(p, n) \cap R)
         /\ Cardinality(Mine(p, n)) \in Nat /\ Cardinality(Mine(p, n) \cap R) \in Nat
         /\ Cardinality(Mine(p, n) \cap R) <= Cardinality(Mine(p, n))
         /\ Cardinality(Mine(p, n) \cap R) = Cardinality(Mine(p, n)) <=> Mine(p, n) \subseteq R
<1>1. Mine(p, n) \subseteq Registered
  BY DEF Mine, PlanTuples
<1>2. IsFiniteSet(Mine(p, n))
  BY <1>1, FS_Subset
<1>3. Mine(p, n) \cap R \in SUBSET Mine(p, n)
  OBVIOUS
<1>4. /\ IsFiniteSet(Mine(p, n) \cap R)
      /\ Cardinality(Mine(p, n) \cap R) <= Cardinality(Mine(p, n))
      /\ Cardinality(Mine(p, n)) = Cardinality(Mine(p, n) \cap R)
           => Mine(p, n) = Mine(p, n) \cap R
  BY <1>2, <1>3, FS_Subset
<1>5. Mine(p, n) \subseteq R => Mine(p, n) \cap R = Mine(p, n)
  OBVIOUS
<1>6. QED BY <1>2, <1>4, <1>5, FS_CardinalityType

LEMMA TotalIsSum == ASSUME NEW c PROVE Total(c) = SumOf(c, Nodes)
BY DEF Total, MapThenSumSet, MapThenFoldSet, SumOf, IsSum, First

\* The report that comes last, and no other, completes the plan: the counters of
\* one worker, then the totals, are equal exactly when every tuple has reported.
LEMMA CompletesExactly ==
  ASSUME Inductive, PlanInductive, NEW k \in Keys, Counts(k)
  PROVE  /\ plan[k] \in Plans /\ planStatus[plan[k]] = "doing"
         /\ Completes(k) <=> PlanTuples(plan[k]) \subseteq reported \cup {k}
<1> DEFINE p == plan[k]
           w == Worker[k]
           R == reported \cup {k}
           done == DoneCountAfter(k)[p]
           all == tupleCount[p]
<1>1. p \in Plans /\ planStatus[p] = "doing" /\ status[k] = "doing" /\ w \in Nodes
  BY WorkerAssumption DEF Counts, Inductive, TypeOK
<1>2. k \in Mine(p, w) /\ k \notin reported
  BY <1>1 DEF Mine, PlanTuples, Registered, Absent, PlanInductive, ReportedEnded
<1>3. IsFiniteSet(Registered)
  BY DEF PlanInductive
<1>4. DoneCountAfter(k) = [doneCount EXCEPT ![p][w] = @ + 1]
  BY DEF DoneCountAfter
<1>5. /\ doneCount \in [Plans -> [Nodes -> Nat]] /\ all \in [Nodes -> Nat]
  BY <1>1 DEF Inductive, TypeOK
<1>6. done \in [Nodes -> Nat] /\ done[w] = doneCount[p][w] + 1
      /\ \A n \in Nodes : n # w => done[n] = doneCount[p][n]
  BY <1>1, <1>4, <1>5
<1>7. \A n \in Nodes : /\ all[n] = Cardinality(Mine(p, n))
                       /\ doneCount[p][n] = Cardinality(Mine(p, n) \cap reported)
  BY <1>1, CountersFacts DEF PlanInductive, Closed
<1> HIDE DEF p, w, done, all
<1>8. ASSUME NEW n \in Nodes PROVE done[n] = Cardinality(Mine(p, n) \cap R)
  <2>1. CASE n = w
    <3>1. Mine(p, w) \cap R = (Mine(p, w) \cap reported) \cup {k}
      BY <1>2
    <3>2. Cardinality(Mine(p, w) \cap R) = Cardinality(Mine(p, w) \cap reported) + 1
      BY <1>2, <1>3, <3>1, MineFinite, FS_AddElement
    <3>3. QED BY <1>1, <1>6, <1>7, <2>1, <3>2
  <2>2. CASE n # w
    <3>1. Mine(p, n) \cap R = Mine(p, n) \cap reported
      BY <2>2 DEF Mine, w
    <3>2. QED BY <1>6, <1>7, <2>2, <3>1
  <2>3. QED BY <2>1, <2>2
<1>9. \A n \in Nodes : done[n] <= all[n] /\ (done[n] = all[n] <=> Mine(p, n) \subseteq R)
  <2> SUFFICES ASSUME NEW n \in Nodes
               PROVE  done[n] <= all[n] /\ (done[n] = all[n] <=> Mine(p, n) \subseteq R)
    OBVIOUS
  <2> HIDE DEF R
  <2>1. /\ Cardinality(Mine(p, n) \cap R) <= Cardinality(Mine(p, n))
        /\ Cardinality(Mine(p, n) \cap R) = Cardinality(Mine(p, n)) <=> Mine(p, n) \subseteq R
    BY <1>3, MineFinite
  <2>2. all[n] = Cardinality(Mine(p, n)) /\ done[n] = Cardinality(Mine(p, n) \cap R)
    BY <1>7, <1>8 DEF R
  <2>3. QED BY <2>1, <2>2
<1>10. Total(done) = Total(all) <=> done = all
  BY <1>5, <1>6, <1>9, NodesAssumption, TotalIsSum, EqualSums
<1>11. done = all <=> \A n \in Nodes : done[n] = all[n]
  BY <1>5, <1>6
<1>12. PlanTuples(p) \subseteq R <=> \A n \in Nodes : Mine(p, n) \subseteq R
  <2>1. \A c \in PlanTuples(p) : c \in Mine(p, Worker[c]) /\ Worker[c] \in Nodes
    BY WorkerAssumption DEF Mine, PlanTuples, Registered
  <2>2. \A n \in Nodes : Mine(p, n) \subseteq PlanTuples(p)
    BY DEF Mine
  <2>3. QED BY <2>1, <2>2
<1>13. Completes(k) <=> (done[w] = all[w] /\ Total(done) = Total(all))
  BY DEF Completes, done, all, p, w
<1>14. QED BY <1>1, <1>9, <1>10, <1>11, <1>12, <1>13 DEF p

-----------------------------------------------------------------------------
(* Each of the five kinds of step preserves the invariant *)

LEMMA PlanInductiveInit == ASSUME Init PROVE PlanInductive
<1>1. Registered = {} /\ \A p \in Plans : PlanTuples(p) = {}
  BY DEF Init, Registered, PlanTuples
<1>2. IsFiniteSet(Registered)
  BY <1>1, FS_EmptySet
<1>3. CountersExact
  <2>1. \A p \in Plans, n \in Nodes : Mine(p, n) = {} /\ Mine(p, n) \cap reported = {}
    BY <1>1 DEF Mine
  <2>2. Cardinality({}) = 0
    BY FS_EmptySet
  <2>3. QED BY <2>1, <2>2, CountersFacts DEF Init
<1>4. ReportedEnded /\ PlansExist /\ ModelsPlaced /\ PlanReflectsWork
  BY DEF Init, ReportedEnded, PlansExist, ModelsPlaced, PlanReflectsWork, Idle
<1>5. DonePlanIsSettled /\ CompletionNotLost
  BY <1>1 DEF DonePlanIsSettled, CompletionNotLost
<1>6. QED BY <1>2, <1>3, <1>4, <1>5 DEF PlanInductive

\* A new tuple is counted for its worker.  A done plan it makes work for goes
\* back to waiting or todo.
LEMMA CreatedPlan ==
  ASSUME ReuseLimit = 0, Inductive, PlanInductive,
         NEW k \in Keys, NEW in \in SUBSET Trains, NEW p \in Plans \cup {NoPlan},
         NEW r \in 0..MaxRank, NEW s \in InitialStatuses, Created(k, in, p, r, s)
  PROVE  PlanInductive'
<1> USE DEF PlanInductive
<1>1. TypeOK /\ TypeOK'
  BY CreatedInductive DEF Inductive
<1>2. status[k] = Absent /\ k \notin Registered /\ k \notin reported /\ plan[k] = NoPlan
  BY <1>1, CreatedOnce DEF Created, Register, Registered, TypeOK
<1>3. /\ status' = [status EXCEPT ![k] = s] /\ plan' = [plan EXCEPT ![k] = p]
      /\ UNCHANGED <<reported, doneCount, models, openPlan>>
  BY DEF Created, Register
<1>4. /\ status'[k] = s /\ plan'[k] = p
      /\ \A c \in Keys : c # k => status'[c] = status[c] /\ plan'[c] = plan[c]
  BY <1>1, <1>3 DEF TypeOK
<1>5. s \in {"waiting", "todo", "failed", "canceled"}
  BY DEF InitialStatuses, Closed
<1>6. Registered' = Registered \cup {k}
  BY <1>4, <1>5 DEF Registered, Absent
<1>7. \A q \in Plans : PlanTuples(q)' = PlanTuples(q) \cup (IF q = p THEN {k} ELSE {})
  BY <1>2, <1>4, <1>6, PlansAssumption DEF PlanTuples, Registered
<1>8. p # NoPlan => p \in Plans /\ planStatus[p] # Absent
  BY DEF Created, PlansExist, Registered
<1>9. /\ \A q \in Plans : q # p => planStatus'[q] = planStatus[q]
      /\ p # NoPlan => planStatus'[p] = UpdateState(planStatus[p], s)
  BY <1>1, <1>8 DEF Created, Register, AddTuple, TypeOK
<1>10. \A q \in Plans : /\ planStatus[q] # Absent => planStatus'[q] # Absent
                        /\ planStatus[q] \in Closed => planStatus'[q] = planStatus[q]
  <2>1. ASSUME NEW old
        PROVE  /\ old # Absent => UpdateState(old, s) # Absent
               /\ old \in Closed => UpdateState(old, s) = old
    BY <1>5, UpdateStateCases, UpdateStateClosed DEF Absent
  <2>2. ASSUME NEW q \in Plans, q = p
        PROVE  planStatus'[q] = UpdateState(planStatus[q], s)
    BY <1>9, <2>2, PlansAssumption
  <2>3. QED BY <1>9, <2>1, <2>2
<1>11. IsFiniteSet(Registered)' /\ ReportedEnded'
  <2>1. IsFiniteSet(Registered \cup {k})
    BY FS_AddElement
  <2>2. ReportedEnded'
    BY <1>1, <1>2, <1>3, <1>4 DEF ReportedEnded, TypeOK, Registered
  <2>3. QED BY <1>6, <2>1, <2>2
<1>12. PlansExist'
  <2>1. (~Idle => planStatus[openPlan] # Absent)'
    BY <1>1, <1>3, <1>10 DEF PlansExist, Idle, TypeOK
  <2>2. ASSUME NEW c \in Keys, plan'[c] # NoPlan PROVE planStatus'[plan'[c]] # Absent
    <3>1. CASE c = k
      BY <1>4, <1>8, <1>10, <2>2, <3>1
    <3>2. CASE c # k
      BY <1>1, <1>4, <1>10, <2>2, <3>2 DEF PlansExist, TypeOK
    <3>3. QED BY <3>1, <3>2
  <2>3. QED BY <2>1, <2>2 DEF PlansExist
<1>13. ModelsPlaced'
  <2>1. \A q \in Plans, n \in Nodes : \A m \in models[q][n] : m \in Keys /\ plan[m] = q
    BY <1>1 DEF ModelsPlaced, TypeOK
  <2>2. QED BY <1>2, <1>3, <1>4, <2>1, PlansAssumption DEF ModelsPlaced
<1>14. PlanReflectsWork'
  <2> SUFFICES ASSUME NEW c \in Keys, plan'[c] # NoPlan
               PROVE  /\ planStatus'[plan'[c]] = "waiting" => status'[c] \notin {"todo", "doing"}
                      /\ planStatus'[plan'[c]] = "todo" => status'[c] # "doing"
    BY DEF PlanReflectsWork
  <2>1. CASE plan'[c] # p
    <3>1. c # k /\ plan[c] \in Plans
      BY <1>1, <1>4, <2>1 DEF TypeOK
    <3>2. QED BY <1>4, <1>9, <2>1, <3>1 DEF PlanReflectsWork
  <2>2. CASE plan'[c] = p /\ c = k
    BY <1>4, <1>5, <1>9, <2>2, UpdateStateCases
  <2>3. CASE plan'[c] = p /\ c # k
    <3>1. plan[c] = p /\ p \in Plans /\ status'[c] = status[c]
      BY <1>4, <1>8, <2>3
    <3>2. planStatus[p] = "done" => status[c] \notin {"todo", "doing"}
      BY <3>1 DEF DonePlanIsSettled, PlanTuples, Registered, Absent, Closed
    <3>3. /\ planStatus[p] = "waiting" => status[c] \notin {"todo", "doing"}
          /\ planStatus[p] = "todo" => status[c] # "doing"
      BY <3>1, <2>3 DEF PlanReflectsWork
    <3>4. planStatus'[p] = UpdateState(planStatus[p], s)
      BY <1>9, <2>3
    <3>5. /\ planStatus'[p] = "waiting" => planStatus[p] \in {"waiting", "done"}
          /\ planStatus'[p] = "todo" => planStatus[p] \in {"todo", "waiting", "done"}
      BY <1>5, <3>4, UpdateStateCases
    <3>6. QED BY <2>3, <3>1, <3>2, <3>3, <3>5
  <2>4. QED BY <2>1, <2>2, <2>3
<1>15. DonePlanIsSettled'
  <2> SUFFICES ASSUME NEW q \in Plans, planStatus'[q] = "done", NEW c \in PlanTuples(q)'
               PROVE  status'[c] \in {"done"} \cup Closed
    BY DEF DonePlanIsSettled
  <2>1. planStatus[q] = "done" /\ (q = p => s \in Closed)
    <3>1. CASE q = p
      <4>1. planStatus'[q] = UpdateState(planStatus[q], s)
        BY <1>9, <3>1, PlansAssumption
      <4>2. QED BY <1>5, <3>1, <4>1, UpdateStateCases DEF Closed
    <3>2. CASE q # p
      BY <1>9, <3>2
    <3>3. QED BY <3>1, <3>2
  <2>2. c \in PlanTuples(q) \/ (q = p /\ c = k)
    BY <1>7
  <2>3. ASSUME c \in PlanTuples(q) PROVE c \in Keys /\ c # k
    BY <1>2, <2>3 DEF PlanTuples, Registered
  <2>4. QED BY <1>4, <2>1, <2>2, <2>3 DEF DonePlanIsSettled
<1>16. CompletionNotLost'
  <2> SUFFICES ASSUME NEW q \in Plans, planStatus'[q] \in {"waiting", "todo", "doing"},
                      PlanTuples(q)' # {}
               PROVE  \E c \in PlanTuples(q)' : status'[c] # "done"
    BY DEF CompletionNotLost
  <2>1. CASE q = p
    BY <1>4, <1>5, <1>7, <2>1
  <2>2. CASE q # p
    <3>1. PICK c \in PlanTuples(q) : status[c] # "done"
      BY <1>7, <1>9, <2>2 DEF CompletionNotLost
    <3>2. c \in Keys /\ c # k
      BY <1>2 DEF PlanTuples, Registered
    <3>3. QED BY <1>4, <1>7, <3>1, <3>2
  <2>3. QED BY <2>1, <2>2
<1>17. CountersExact'
  <2>1. ASSUME NEW q \in Plans, NEW n \in Nodes
        PROVE  /\ tupleCount'[q][n] = Cardinality(Mine(q, n)')
               /\ planStatus'[q] \notin Closed
                    => doneCount'[q][n] = Cardinality(Mine(q, n)' \cap reported')
    <3>1. CASE q = p /\ n = Worker[k]
      <4>1. Mine(q, n)' = Mine(q, n) \cup {k} /\ k \notin Mine(q, n)
        BY <1>2, <1>7, <3>1 DEF Mine, PlanTuples
      <4>2. Cardinality(Mine(q, n) \cup {k}) = Cardinality(Mine(q, n)) + 1
        BY <4>1, MineFinite, FS_AddElement
      <4>3. tupleCount' = [tupleCount EXCEPT ![q][n] = @ + 1]
        BY <3>1, PlansAssumption DEF Created, Register, AddTuple
      <4>4. tupleCount'[q][n] = tupleCount[q][n] + 1
        BY <1>1, <4>3 DEF TypeOK
      <4>5. Mine(q, n)' \cap reported' = Mine(q, n) \cap reported
        BY <1>2, <1>3, <4>1
      <4>6. QED BY <1>3, <1>10, <4>1, <4>2, <4>4, <4>5, CountersFacts
    <3>2. CASE ~(q = p /\ n = Worker[k])
      <4>1. Mine(q, n)' = Mine(q, n)
        BY <1>7, <3>2 DEF Mine
      <4>2. tupleCount'[q][n] = tupleCount[q][n]
        BY <1>1, <1>8, <3>2 DEF Created, Register, AddTuple, TypeOK
      <4>3. QED BY <1>3, <1>10, <4>1, <4>2, CountersFacts
    <3>3. QED BY <3>1, <3>2
  <2>2. QED BY <2>1 DEF CountersExact, Mine
<1>18. QED BY <1>11, <1>12, <1>13, <1>14, <1>15, <1>16, <1>17

\* When no tuple is added and none reports, the counters stay exact.
LEMMA CountersKept ==
  ASSUME CountersExact, UNCHANGED <<reported, tupleCount, doneCount>>,
         \A q \in Plans : PlanTuples(q)' = PlanTuples(q),
         \A q \in Plans : planStatus[q] \in Closed => planStatus'[q] \in Closed
  PROVE  CountersExact'
<1>1. \A q \in Plans, n \in Nodes : Mine(q, n)' = Mine(q, n)
  BY DEF Mine
<1>2. QED BY <1>1 DEF CountersExact, Mine

\* A start moves a todo plan to doing.
LEMMA StartedPlan ==
  ASSUME Inductive, PlanInductive, NEW n \in Nodes, NEW k \in Keys, LogStart(n, k)
  PROVE  PlanInductive'
<1> USE DEF PlanInductive
<1>1. TypeOK
  BY DEF Inductive
<1>2. /\ status' = [status EXCEPT ![k] = "doing"]
      /\ planStatus' = PlansAfter({k}, "doing")
      /\ UNCHANGED <<plan, reported, tupleCount, doneCount, models, openPlan>>
  BY DEF LogStart, batchVars
<1>3. status[k] = "todo"
  BY EffectiveFacts DEF LogStart, CheckUpdateTuple, StatusPossibilities, Closed
<1>4. status'[k] = "doing" /\ \A c \in Keys : c # k => status'[c] = status[c]
  BY <1>1, <1>2 DEF TypeOK
<1>5. Registered' = Registered /\ \A q \in Plans : PlanTuples(q)' = PlanTuples(q)
  BY <1>2, <1>3, <1>4 DEF Registered, Absent, PlanTuples
<1>6. k \in Registered
  BY <1>3 DEF Registered, Absent
<1>7. \A q \in Plans : \/ plan[k] # q /\ planStatus'[q] = planStatus[q]
                       \/ plan[k] = q /\ planStatus'[q] \in {"doing", "failed", "canceled"}
                                      /\ (planStatus[q] \in Closed => planStatus'[q] = planStatus[q])
                                      /\ planStatus[q] # Absent
  <2> SUFFICES ASSUME NEW q \in Plans, plan[k] = q
               PROVE  /\ planStatus'[q] \in {"doing", "failed", "canceled"}
                      /\ planStatus[q] \in Closed => planStatus'[q] = planStatus[q]
                      /\ planStatus[q] # Absent
    BY <1>2 DEF PlansAfter
  <2>1. planStatus[q] # "waiting" /\ planStatus[q] # Absent
    BY <1>3, PlansAssumption DEF PlanReflectsWork, PlansExist
  <2>2. planStatus[q] # "done"
    BY <1>3, <1>6 DEF DonePlanIsSettled, PlanTuples, Closed
  <2>3. planStatus[q] \in {"todo", "doing", "failed", "canceled"}
    BY <1>1, <2>1, <2>2 DEF TypeOK, PlanStatuses, Closed
  <2>4. planStatus'[q] = IF planStatus[q] = "todo" THEN "doing" ELSE planStatus[q]
    BY <1>2, UpdateStateCases DEF PlansAfter
  <2>5. QED BY <2>1, <2>3, <2>4 DEF Closed
<1>8. IsFiniteSet(Registered)' /\ ReportedEnded' /\ ModelsPlaced'
  <2>1. ReportedEnded'
    BY <1>1, <1>2, <1>3, <1>4 DEF ReportedEnded, TypeOK, Registered
  <2>2. QED BY <1>2, <1>5, <2>1 DEF ModelsPlaced
<1>9. PlansExist'
  BY <1>1, <1>2, <1>7 DEF PlansExist, TypeOK, Idle, Absent
<1>10. PlanReflectsWork'
  <2> SUFFICES ASSUME NEW c \in Keys, plan[c] # NoPlan
               PROVE  /\ planStatus'[plan[c]] = "waiting" => status'[c] \notin {"todo", "doing"}
                      /\ planStatus'[plan[c]] = "todo" => status'[c] # "doing"
    BY <1>2 DEF PlanReflectsWork
  <2>1. plan[c] \in Plans
    BY <1>1 DEF TypeOK
  <2>2. CASE plan[c] = plan[k]
    BY <1>7, <2>1, <2>2
  <2>3. CASE plan[c] # plan[k]
    BY <1>4, <1>7, <2>1, <2>3 DEF PlanReflectsWork
  <2>4. QED BY <2>2, <2>3
<1>11. DonePlanIsSettled'
  BY <1>3, <1>4, <1>5, <1>7 DEF DonePlanIsSettled, PlanTuples, Registered
<1>12. CompletionNotLost'
  <2> SUFFICES ASSUME NEW q \in Plans, planStatus'[q] \in {"waiting", "todo", "doing"},
                      PlanTuples(q) # {}
               PROVE  \E c \in PlanTuples(q) : status'[c] # "done"
    BY <1>5 DEF CompletionNotLost
  <2>1. CASE plan[k] = q
    BY <1>4, <1>6, <2>1 DEF PlanTuples
  <2>2. CASE plan[k] # q
    <3>1. PICK c \in PlanTuples(q) : status[c] # "done"
      BY <1>7, <2>2 DEF CompletionNotLost
    <3>2. QED BY <1>4, <2>2, <3>1 DEF PlanTuples, Registered
  <2>3. QED BY <2>1, <2>2
<1>13. CountersExact'
  BY <1>2, <1>5, <1>7, CountersKept
<1>14. QED BY <1>5, <1>8, <1>9, <1>10, <1>11, <1>12, <1>13

\* Failures: of the plans, only those that are doing change.
LEMMA FailedPlan ==
  ASSUME Inductive, PlanInductive, NEW G \in SUBSET Keys, FailedWith(G)
  PROVE  PlanInductive'
<1> USE DEF PlanInductive
<1>1. TypeOK
  BY DEF Inductive
<1>2. /\ status' = [c \in Keys |-> IF c \in G THEN "failed" ELSE status[c]]
      /\ planStatus' = PlansAfter(G, "failed") /\ G \subseteq Registered
      /\ UNCHANGED <<plan, reported, tupleCount, doneCount, models, openPlan>>
  BY DEF FailedWith, MarkFailed, batchVars
<1>3. Registered' = Registered /\ \A q \in Plans : PlanTuples(q)' = PlanTuples(q)
  BY <1>2 DEF Registered, Absent, PlanTuples
<1>4. \A q \in Plans : \/ planStatus'[q] = planStatus[q]
                       \/ planStatus[q] = "doing" /\ planStatus'[q] = "failed"
  BY <1>2, UpdateStateCases DEF PlansAfter
<1>5. IsFiniteSet(Registered)' /\ ReportedEnded' /\ ModelsPlaced'
  BY <1>1, <1>2, <1>3 DEF ReportedEnded, ModelsPlaced, TypeOK, Registered
<1>6. PlansExist'
  BY <1>1, <1>2, <1>4 DEF PlansExist, TypeOK, Idle, Absent
<1>7. PlanReflectsWork'
  BY <1>1, <1>2, <1>4 DEF PlanReflectsWork, TypeOK
<1>8. DonePlanIsSettled'
  BY <1>2, <1>3, <1>4 DEF DonePlanIsSettled, PlanTuples, Registered, Closed
<1>9. CompletionNotLost'
  BY <1>2, <1>3, <1>4 DEF CompletionNotLost, PlanTuples, Registered
<1>10. CountersExact'
  BY <1>2, <1>3, <1>4, CountersKept DEF Closed
<1>11. QED BY <1>3, <1>5, <1>6, <1>7, <1>8, <1>9, <1>10

LEMMA PlanStepPlan == ASSUME Inductive, PlanInductive, PlanStep PROVE PlanInductive'
<1> USE DEF PlanInductive
<1>1. TypeOK
  BY DEF Inductive
<1>2. /\ UNCHANGED <<status, plan, reported, tupleCount, doneCount>>
      /\ \A q \in Plans : \/ planStatus'[q] = planStatus[q]
                          \/ planStatus[q] = Absent /\ planStatus'[q] = "waiting"
                          \/ planStatus[q] # Absent /\ planStatus'[q] = "canceled"
      /\ \A q \in Plans, n \in Nodes : models'[q][n] \subseteq models[q][n]
  BY DEF PlanStep, tupleVars
<1>3. Registered' = Registered /\ \A q \in Plans : PlanTuples(q)' = PlanTuples(q)
  BY <1>2 DEF Registered, PlanTuples
<1>4. \A q \in Plans : planStatus[q] = Absent => PlanTuples(q) = {} /\ \A c \in Keys : plan[c] # q
  BY PlansAssumption DEF PlansExist, PlanTuples, Registered
<1>5. IsFiniteSet(Registered)' /\ ReportedEnded' /\ ModelsPlaced'
  BY <1>1, <1>2, <1>3 DEF ReportedEnded, ModelsPlaced, TypeOK
<1>6. PlansExist'
  <2>1. (~Idle => planStatus[openPlan] # Absent)'
    BY DEF PlanStep, Idle
  <2>2. QED BY <1>1, <1>2, <2>1 DEF PlansExist, TypeOK, Absent
<1>7. PlanReflectsWork'
  BY <1>1, <1>2, <1>4 DEF PlanReflectsWork, TypeOK
<1>8. DonePlanIsSettled' /\ CompletionNotLost'
  BY <1>2, <1>3, <1>4 DEF DonePlanIsSettled, CompletionNotLost
<1>9. CountersExact'
  BY <1>2, <1>3, CountersKept DEF Closed, Absent
<1>10. QED BY <1>3, <1>5, <1>6, <1>7, <1>8, <1>9

LEMMA StutterPlan == ASSUME PlanInductive, UNCHANGED vars PROVE PlanInductive'
<1>1. UNCHANGED <<status, plan, reported, planStatus, tupleCount, doneCount, models, openPlan>>
  BY DEF vars, tupleVars, planVars, batchVars
<1>2. Registered' = Registered
  BY <1>1 DEF Registered
<1>3. QED
  BY <1>1, <1>2
     DEF PlanInductive, ReportedEnded, PlansExist, ModelsPlaced, PlanReflectsWork,
         DonePlanIsSettled, CompletionNotLost, CountersExact, PlanTuples, Idle

\* What a report finds: its tuple is counted, has reported before, or its plan is
\* closed.
LEMMA ReportCases ==
  ASSUME Inductive, PlanInductive, NEW k \in Keys, status[k] \in {"doing", "done"}
  PROVE  \/ Counts(k)
         \/ k \in reported
         \/ plan[k] = NoPlan \/ planStatus[plan[k]] \in Closed
<1> SUFFICES ASSUME status[k] = "doing", plan[k] \in Plans
             PROVE  planStatus[plan[k]] \in {"doing"} \cup Closed
  BY DEF Inductive, TypeOK, DoneReported, Counts
<1>1. planStatus[plan[k]] \notin {"waiting", "todo", Absent}
  BY PlansAssumption DEF PlanInductive, PlanReflectsWork, PlansExist
<1>2. planStatus[plan[k]] # "done"
  BY DEF PlanInductive, DonePlanIsSettled, PlanTuples, Registered, Absent, Closed
<1>3. QED BY <1>1, <1>2 DEF Inductive, TypeOK, PlanStatuses

\* The plans after a report: the one it completes is done, since the tuples it
\* wakes are in others; those are at least todo.
LEMMA PlansAfterReport ==
  ASSUME Inductive, PlanInductive, NEW k \in Keys, NEW woken \in SUBSET Keys,
         Succeeded(k, woken), NEW q \in Plans
  PROVE  \/ /\ Completes(k) /\ q = plan[k] /\ planStatus[q] = "doing" /\ planStatus'[q] = "done"
            /\ \A c \in woken : plan[c] # q
         \/ /\ ~(Completes(k) /\ q = plan[k])
            /\ \/ planStatus'[q] = planStatus[q] /\ \A c \in woken : plan[c] # q
               \/ planStatus[q] \in {"waiting", "todo"} /\ planStatus'[q] = "todo"
               \/ planStatus[q] = "doing" /\ planStatus'[q] = "doing"
<1> USE DEF PlanInductive
<1>1. TypeOK
  BY DEF Inductive
<1>2. planStatus'[q] = IF \E c \in woken : plan[c] = q
                       THEN UpdateState(PlanStatusAfterDone(k)[q], "todo")
                       ELSE PlanStatusAfterDone(k)[q]
  BY DEF Succeeded, RecordSuccess
<1>3. \A c \in woken : Effective(c) = "waiting" /\ status[c] = "waiting"
  BY EffectiveFacts DEF Succeeded
<1>4. CASE Completes(k) /\ q = plan[k]
  <2>1. Counts(k)
    BY <1>4 DEF Completes
  <2>2. planStatus[q] = "doing" /\ PlanTuples(q) \subseteq reported \cup {k}
    BY <1>4, <2>1, CompletesExactly
  <2>3. \A c \in woken : c \notin reported \cup {k}
    BY <1>3 DEF ReportedEnded, Succeeded
  <2>4. \A c \in woken : plan[c] # q
    BY <1>3, <2>2, <2>3 DEF PlanTuples, Registered, Absent
  <2>5. PlanStatusAfterDone(k)[q] = "done"
    BY <1>1, <1>4 DEF PlanStatusAfterDone, TypeOK
  <2>6. QED BY <1>2, <1>4, <2>2, <2>4, <2>5
<1>5. CASE ~(Completes(k) /\ q = plan[k])
  <2>1. PlanStatusAfterDone(k)[q] = planStatus[q]
    BY <1>1, <1>5 DEF PlanStatusAfterDone, TypeOK
  <2>2. CASE \E c \in woken : plan[c] = q
    <3>1. PICK c \in woken : plan[c] = q
      BY <2>2
    <3>2. c \in PlanTuples(q) /\ q # NoPlan
      BY <1>3, <3>1, PlansAssumption DEF PlanTuples, Registered, Absent
    <3>3. planStatus[q] \notin Closed
      BY <1>3, <3>1, <3>2 DEF Effective, EffectiveIn
    <3>4. planStatus[q] # "done"
      BY <1>3, <3>2 DEF DonePlanIsSettled, Closed
    <3>5. planStatus[q] # Absent
      BY <3>1, <3>2 DEF PlansExist
    <3>6. planStatus[q] \in {"waiting", "todo", "doing"}
      BY <1>1, <3>3, <3>4, <3>5 DEF TypeOK, PlanStatuses
    <3>7. planStatus'[q] = UpdateState(planStatus[q], "todo")
      BY <1>2, <2>1, <2>2
    <3>8. QED BY <1>5, <3>6, <3>7, UpdateStateCases
  <2>3. CASE \A c \in woken : plan[c] # q
    BY <1>2, <1>5, <2>1, <2>3
  <2>4. QED BY <2>2, <2>3
<1>6. QED BY <1>4, <1>5

LEMMA SucceededCounters ==
  ASSUME Inductive, PlanInductive, NEW k \in Keys, NEW woken \in SUBSET Keys,
         Succeeded(k, woken)
  PROVE  CountersExact'
<1>1. TypeOK
  BY DEF Inductive
<1>2. /\ status' = [c \in Keys |-> IF c = k THEN "done"
                                   ELSE IF c \in woken THEN "todo" ELSE status[c]]
      /\ reported' = reported \cup {k} /\ doneCount' = DoneCountAfter(k)
      /\ UNCHANGED <<plan, tupleCount>>
  BY DEF Succeeded, RecordSuccess
<1>3. Registered' = Registered
  <2>1. k \in Registered /\ woken \subseteq Registered
    BY EffectiveFacts DEF Succeeded, Registered, Absent
  <2>2. QED BY <1>2, <2>1 DEF Registered, Absent
<1>4. \A q \in Plans, n \in Nodes : Mine(q, n)' = Mine(q, n)
  BY <1>2, <1>3 DEF Mine, PlanTuples
<1>5. ASSUME NEW q \in Plans, NEW n \in Nodes
      PROVE  /\ tupleCount'[q][n] = Cardinality(Mine(q, n)')
             /\ planStatus'[q] \notin Closed
                  => doneCount'[q][n] = Cardinality(Mine(q, n)' \cap reported')
  <2>1. tupleCount'[q][n] = Cardinality(Mine(q, n))
    BY <1>2, CountersFacts DEF PlanInductive
  <2> SUFFICES ASSUME planStatus'[q] \notin Closed
               PROVE  doneCount'[q][n] = Cardinality(Mine(q, n) \cap (reported \cup {k}))
    BY <1>2, <1>4, <2>1
  <2>2. planStatus[q] \notin Closed
    BY PlansAfterReport DEF Closed
  <2>3. doneCount[q][n] = Cardinality(Mine(q, n) \cap reported)
    BY <2>2, CountersFacts DEF PlanInductive
  <2>4. CASE Counts(k) /\ q = plan[k] /\ n = Worker[k]
    <3>1. k \in Mine(q, n) /\ k \notin reported
      BY <2>4 DEF Counts, Mine, PlanTuples, Registered, Absent, PlanInductive, ReportedEnded
    <3>2. /\ Mine(q, n) \cap (reported \cup {k}) = (Mine(q, n) \cap reported) \cup {k}
          /\ k \notin Mine(q, n) \cap reported
      BY <3>1
    <3>3. Cardinality((Mine(q, n) \cap reported) \cup {k})
            = Cardinality(Mine(q, n) \cap reported) + 1
      <4>1. IsFiniteSet(Mine(q, n) \cap reported)
        BY MineFinite DEF PlanInductive
      <4>2. QED BY <3>2, <4>1, FS_AddElement
    <3>4. doneCount'[q][n] = doneCount[q][n] + 1
      BY <1>1, <1>2, <2>4 DEF DoneCountAfter, TypeOK
    <3>5. QED BY <2>3, <3>2, <3>3, <3>4
  <2>5. CASE ~(Counts(k) /\ q = plan[k] /\ n = Worker[k])
    <3>1. doneCount'[q][n] = doneCount[q][n]
      <4>1. CASE Counts(k)
        <5>1. doneCount' = [doneCount EXCEPT ![plan[k]][Worker[k]] = @ + 1]
          BY <1>2, <4>1 DEF DoneCountAfter
        <5>2. QED BY <1>1, <2>5, <4>1, <5>1 DEF TypeOK
      <4>2. CASE ~Counts(k)
        BY <1>2, <4>2 DEF DoneCountAfter
      <4>3. QED BY <4>1, <4>2
    <3>2. k \notin Mine(q, n) \/ k \in reported
      <4>1. SUFFICES ASSUME k \in Mine(q, n) PROVE k \in reported
        OBVIOUS
      <4>2. plan[k] = q /\ Worker[k] = n /\ q # NoPlan
        BY <4>1, PlansAssumption DEF Mine, PlanTuples
      <4>3. ~Counts(k) /\ planStatus[plan[k]] \notin Closed
        BY <2>2, <2>5, <4>2
      <4>4. QED BY <4>2, <4>3, ReportCases DEF Succeeded
    <3>3. Mine(q, n) \cap (reported \cup {k}) = Mine(q, n) \cap reported
      BY <3>2
    <3>4. QED BY <2>3, <3>1, <3>3
  <2>6. QED BY <2>4, <2>5
<1>6. QED BY <1>5 DEF CountersExact, Mine

LEMMA SucceededPlan ==
  ASSUME Inductive, PlanInductive, NEW k \in Keys, NEW woken \in SUBSET Keys,
         Succeeded(k, woken)
  PROVE  PlanInductive'
<1> USE DEF PlanInductive
<1>1. TypeOK
  BY DEF Inductive
<1>2. /\ status' = [c \in Keys |-> IF c = k THEN "done"
                                   ELSE IF c \in woken THEN "todo" ELSE status[c]]
      /\ reported' = reported \cup {k}
      /\ UNCHANGED <<plan, openPlan>>
  BY DEF Succeeded, RecordSuccess, batchVars
<1>3. \A c \in woken : status[c] = "waiting"
  BY EffectiveFacts DEF Succeeded
<1>4. status[k] \in {"doing", "done"} /\ k \in Registered /\ k \notin woken
  BY <1>3 DEF Succeeded, Registered, Absent
<1>5. Registered' = Registered /\ \A q \in Plans : PlanTuples(q)' = PlanTuples(q)
  BY <1>2, <1>3, <1>4 DEF Registered, Absent, PlanTuples
<1>6. \A c \in Keys : c # k /\ c \notin woken => status'[c] = status[c]
  BY <1>2
<1>7. ReportedEnded'
  BY <1>1, <1>2, <1>3 DEF ReportedEnded, TypeOK, Registered
<1>8. PlansExist'
  <2>1. \A q \in Plans : planStatus[q] # Absent => planStatus'[q] # Absent
    BY PlansAfterReport DEF Absent
  <2>2. QED BY <1>1, <1>2, <2>1 DEF PlansExist, TypeOK, Idle
<1>9. ModelsPlaced'
  BY <1>2 DEF ModelsPlaced, Succeeded
<1>10. PlanReflectsWork'
  <2> SUFFICES ASSUME NEW c \in Keys, plan[c] # NoPlan
               PROVE  /\ planStatus'[plan[c]] = "waiting" => status'[c] \notin {"todo", "doing"}
                      /\ planStatus'[plan[c]] = "todo" => status'[c] # "doing"
    BY <1>2 DEF PlanReflectsWork
  <2>1. plan[c] \in Plans
    BY <1>1 DEF TypeOK
  <2>2. planStatus'[plan[c]] = "waiting" => planStatus[plan[c]] = "waiting" /\ c \notin woken
    BY <2>1, PlansAfterReport
  <2>3. planStatus'[plan[c]] = "todo" => planStatus[plan[c]] \in {"waiting", "todo"}
    BY <2>1, PlansAfterReport
  <2>4. CASE c = k
    BY <1>2, <2>4
  <2>5. CASE c # k
    BY <1>2, <2>2, <2>3, <2>5 DEF PlanReflectsWork
  <2>6. QED BY <2>4, <2>5
<1>11. DonePlanIsSettled'
  <2> SUFFICES ASSUME NEW q \in Plans, planStatus'[q] = "done", NEW c \in PlanTuples(q)
               PROVE  status'[c] \in {"done"} \cup Closed
    BY <1>5 DEF DonePlanIsSettled
  <2>1. c \in Keys /\ plan[c] = q
    BY DEF PlanTuples, Registered
  <2>2. c \notin woken
    BY <2>1, PlansAfterReport
  <2>3. CASE c = k
    BY <1>2, <2>1, <2>3
  <2>4. CASE c # k /\ Completes(k) /\ q = plan[k]
    <3>1. Counts(k)
      BY <2>4 DEF Completes
    <3>2. PlanTuples(q) \subseteq reported \cup {k}
      BY <2>4, <3>1, CompletesExactly
    <3>3. c \in reported
      BY <2>4, <3>2
    <3>4. QED BY <1>6, <2>1, <2>2, <2>4, <3>3 DEF ReportedEnded, Closed
  <2>5. CASE c # k /\ ~(Completes(k) /\ q = plan[k])
    <3>1. planStatus[q] = "done"
      BY <2>5, PlansAfterReport
    <3>2. QED BY <1>6, <2>1, <2>2, <2>5, <3>1 DEF DonePlanIsSettled
  <2>6. QED BY <2>3, <2>4, <2>5
<1>12. CompletionNotLost'
  <2> SUFFICES ASSUME NEW q \in Plans, planStatus'[q] \in {"waiting", "todo", "doing"},
                      PlanTuples(q) # {}
               PROVE  \E c \in PlanTuples(q) : status'[c] # "done"
    BY <1>5 DEF CompletionNotLost
  <2>1. /\ ~(Completes(k) /\ q = plan[k]) /\ planStatus[q] \in {"waiting", "todo", "doing"}
    BY PlansAfterReport
  <2>2. SUFFICES \E c \in PlanTuples(q) : c # k /\ status[c] # "done"
    BY <1>2 DEF PlanTuples, Registered
  <2>3. CASE Counts(k) /\ q = plan[k]
    <3>1. ~(PlanTuples(q) \subseteq reported \cup {k})
      BY <2>1, <2>3, CompletesExactly
    <3>2. QED BY <3>1 DEF Inductive, DoneReported, PlanTuples, Registered
  <2>4. CASE ~(Counts(k) /\ q = plan[k])
    <3>1. PICK c \in PlanTuples(q) : status[c] # "done"
      BY <2>1 DEF CompletionNotLost
    <3>2. c # k
      <4>1. SUFFICES ASSUME c = k PROVE FALSE
        OBVIOUS
      <4>2. plan[k] = q /\ q # NoPlan /\ status[k] = "doing"
        BY <1>4, <3>1, <4>1, PlansAssumption DEF PlanTuples
      <4>3. planStatus[q] = "doing"
        BY <2>1, <4>2 DEF PlanReflectsWork
      <4>4. QED BY <2>4, <4>2, <4>3 DEF Counts
    <3>3. QED BY <3>1, <3>2
  <2>5. QED BY <2>3, <2>4
<1>13. CountersExact'
  BY SucceededCounters
<1>14. QED BY <1>5, <1>7, <1>8, <1>9, <1>10, <1>11, <1>12, <1>13

LEMMA PlanInductiveStep ==
  ASSUME ReuseLimit = 0, Inductive, PlanInductive, [Next]_vars
  PROVE  PlanInductive'
<1>1. TypeOK
  BY DEF Inductive
<1>2. QED
  BY <1>1, NextCases, CreatedPlan, StartedPlan, SucceededPlan, FailedPlan, PlanStepPlan,
     StutterPlan

-----------------------------------------------------------------------------
(* The theorems *)

\* What the plans' statuses, counters and models owe to each other is preserved
\* by every transaction that uses no key twice.
THEOREM PlanInductiveHolds ==
  ASSUME ReuseLimit = 0
  PROVE  Spec => []PlanInductive
<1>1. Inductive /\ PlanInductive /\ [Next]_vars => PlanInductive'
  BY PlanInductiveStep
<1>2. QED BY <1>1, PlanInductiveInit, InductiveHolds, PTL DEF Spec

\* TupleCount and DoneCount are what their descriptions say, for every worker.
THEOREM CountersAreExact == ASSUME ReuseLimit = 0 PROVE Spec => []CountersExact
<1>1. PlanInductive => CountersExact
  BY DEF PlanInductive
<1>2. QED BY <1>1, PlanInductiveHolds, PTL

\* A plan does not lag behind its tuples: what its workers start or are asked to
\* start shows in its status.
THEOREM PlansReflectWork == ASSUME ReuseLimit = 0 PROVE Spec => []PlanReflectsWork
<1>1. PlanInductive => PlanReflectsWork
  BY DEF PlanInductive
<1>2. QED BY <1>1, PlanInductiveHolds, PTL

\* A plan is not declared done while one of its tuples may still run.
THEOREM DonePlansSettled == ASSUME ReuseLimit = 0 PROVE Spec => []DonePlanIsSettled
<1>1. PlanInductive => DonePlanIsSettled
  BY DEF PlanInductive
<1>2. QED BY <1>1, PlanInductiveHolds, PTL

\* The success that completes a plan is recognised, however many workers share it.
THEOREM CompletionsNotLost == ASSUME ReuseLimit = 0 PROVE Spec => []CompletionNotLost
<1>1. PlanInductive => CompletionNotLost
  BY DEF PlanInductive
<1>2. QED BY <1>1, PlanInductiveHolds, PTL

\* When a report completes its plan, or finds a model unused, the tuples of the plan
\* that take the model have reported.
LEMMA UsersReported ==
  ASSUME ReuseLimit = 0, Inductive, PlanInductive, NEW k \in Keys, plan[k] \in Plans, NEW m,
         plan[m] = plan[k], Completes(k) \/ ~InUse(m, k),
         NEW c \in Children(m), plan[c] = plan[m]
  PROVE  c \in reported \cup {k}
<1>1. TypeOK
  BY DEF Inductive
<1>2. c \in Registered
  <2>1. c \in Keys /\ m \in parents[c]
    BY DEF Children, TrainChildren, TestChildren, Keys
  <2>2. QED BY <1>1, <2>1 DEF TypeOK
<1>3. CASE Completes(k)
  <2>1. Counts(k)
    BY <1>3 DEF Completes
  <2>2. PlanTuples(plan[k]) \subseteq reported \cup {k}
    BY <1>3, <2>1, CompletesExactly
  <2>3. QED BY <1>2, <2>2 DEF PlanTuples
<1>4. CASE ~InUse(m, k) /\ c # k
  <2>1. status[c] = "done"
    BY <1>4, EffectiveFacts DEF InUse
  <2>2. QED BY <1>2, <2>1 DEF Inductive, DoneReported, Registered
<1>5. QED BY <1>3, <1>4

LEMMA DropStep ==
  ASSUME ReuseLimit = 0, Inductive, PlanInductive, Next, NEW m \in dropped' \ dropped,
         planStatus'[plan[m]] # "canceled", NEW c \in Children(m), plan[c] = plan[m]
  PROVE  c \in reported'
<1>1. TypeOK
  BY DEF Inductive
<1>2. \A q \in Plans : m \in ModelsOf(q) => plan[m] = q
  BY DEF ModelsOf, PlanInductive, ModelsPlaced
<1>3. PICK k \in Keys, woken \in SUBSET Keys : Succeeded(k, woken)
  <2>1. ASSUME NEW k \in Keys, NEW in \in SUBSET Trains, NEW p \in Plans \cup {NoPlan},
               NEW r \in 0..MaxRank, NEW s \in InitialStatuses, Created(k, in, p, r, s)
        PROVE  FALSE
    BY <2>1 DEF Created, Register
  <2>2. ASSUME NEW n \in Nodes, NEW k \in Keys, LogStart(n, k) PROVE FALSE
    BY <2>2 DEF LogStart
  <2>3. ASSUME NEW G \in SUBSET Keys, FailedWith(G) PROVE FALSE
    BY <2>3 DEF FailedWith, MarkFailed
  <2>4. CASE PlanStep
    BY <1>2, <2>4 DEF PlanStep
  <2>5. QED BY <1>1, <2>1, <2>2, <2>3, <2>4, NextCases
<1>4. /\ plan[k] \in Plans /\ plan[m] = plan[k] /\ reported' = reported \cup {k}
      /\ Completes(k) \/ ~InUse(m, k)
  BY <1>2, <1>3 DEF Succeeded, RecordSuccess
<1>5. QED BY <1>4, UsersReported

\* A model is announced for deletion only when the tuples of its plan that take it,
\* testtuples included, have reported, or the plan is being canceled.
THEOREM ModelsAreDroppedUnused ==
  ASSUME ReuseLimit = 0
  PROVE  Spec => ModelsDeletedUnused
<1>1. Inductive /\ PlanInductive /\ [Next]_vars =>
        [\A m \in dropped' \ dropped : planStatus'[plan[m]] # "canceled" =>
           \A c \in Children(m) : plan[c] = plan[m] => c \in reported']_vars
  BY DropStep
<1>2. QED BY <1>1, InductiveHolds, PlanInductiveHolds, PTL DEF Spec, ModelsDeletedUnused
=============================================================================
