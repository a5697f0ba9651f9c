------------------------- MODULE EndorsementProofs -------------------------
(***************************************************************************)
(* Theorems about transactions that overlap, for every set of workers and  *)
(* of tuples, whatever requests are made and repeated.                     *)
(*                                                                         *)
(* The first part is about the transactions under way: a handler reads all *)
(* that its outcome depends on (EndorseReads), so that one which is not    *)
(* stale is still what its handler would do.  The ledger therefore changes *)
(* as if the handlers ran one after the other, and the second part is      *)
(* about what one handler does to the ledger.                              *)
(***************************************************************************)
EXTENDS Endorsement, SumProofs

-----------------------------------------------------------------------------
(* What a handler depends on *)

LEMMA PutFacts ==
  ASSUME NEW x, NEW v
  PROVE  DOMAIN Put(x, v) = {x} /\ Put(x, v)[x] = v
BY DEF Put

LEMMA OverFacts ==
  ASSUME NEW f, NEW g
  PROVE  /\ DOMAIN Over(f, g) = DOMAIN f \cup DOMAIN g
         /\ \A x \in DOMAIN f : Over(f, g)[x] = f[x]
         /\ \A x \in DOMAIN g : x \notin DOMAIN f => Over(f, g)[x] = g[x]
BY DEF Over

LEMMA TxFacts ==
  ASSUME NEW R, NEW W
  PROVE  Tx(R, W).reads = R /\ Tx(R, W).writes = W
BY DEF Tx, ReadSet

\* Two ledgers that hold the same under the keys of R.
Agree(L, M, R) == DOMAIN L = DOMAIN M /\ \A x \in R : L[x] = M[x]

LEMMA StatusReads ==
  ASSUME NEW L, NEW M, NEW k, NEW s, NEW state, L["state"] = M["state"]
  PROVE  StatusWrites(L, k, s, state) = StatusWrites(M, k, s, state)
BY DEF StatusWrites

LEMMA StartReads ==
  ASSUME NEW L, NEW M, NEW k, NEW tx \in LogStart(L, k), Agree(L, M, tx.reads)
  PROVE  tx \in LogStart(M, k)
<1>1. tx.reads = {k, "plan", "state"}
  BY TxFacts DEF LogStart
<1>2. L[k] = M[k] /\ L["state"] = M["state"]
  BY <1>1 DEF Agree
<1>3. QED BY <1>2, StatusReads DEF LogStart

LEMMA FailReads ==
  ASSUME NEW L, NEW M, NEW k, NEW tx \in LogFail(L, k), Agree(L, M, tx.reads)
  PROVE  tx \in LogFail(M, k)
<1>1. tx.reads = {k, "plan", "state"}
  BY TxFacts DEF LogFail
<1>2. L[k] = M[k] /\ L["state"] = M["state"]
  BY <1>1 DEF Agree
<1>3. QED BY <1>2, StatusReads DEF LogFail

LEMMA AddReads ==
  ASSUME NEW L, NEW M, NEW k, NEW tx \in AddTuple(L, k), Agree(L, M, tx.reads)
  PROVE  tx \in AddTuple(M, k)
<1>1. tx.reads = {k, "plan", "state", WorkerOf[k]}
  BY TxFacts DEF AddTuple
<1>2. /\ L[k] = M[k] /\ L["state"] = M["state"] /\ L["plan"] = M["plan"]
      /\ L[WorkerOf[k]] = M[WorkerOf[k]]
  BY <1>1 DEF Agree
<1>3. QED BY <1>2 DEF AddTuple

LEMMA CancelReads ==
  ASSUME NEW L, NEW M, NEW tx \in Cancel(L), Agree(L, M, tx.reads)
  PROVE  tx \in Cancel(M)
<1>1. tx.reads = {"plan", "state"} \cup PlanWorkers(L)
  BY TxFacts DEF Cancel
<1>2. L["plan"] = M["plan"] /\ \A v \in PlanWorkers(L) : L[v] = M[v]
  BY <1>1 DEF Agree
<1>3. PlanWorkers(L) = PlanWorkers(M)
  BY <1>2 DEF PlanWorkers
<1>4. [v \in PlanWorkers(L) |-> L[v]] = [v \in PlanWorkers(M) |-> M[v]]
  BY <1>2, <1>3
<1>5. QED BY <1>3, <1>4 DEF Cancel

LEMMA IncrementedReads ==
  ASSUME NEW L, NEW M, NEW k, L[WorkerOf[k]] = M[WorkerOf[k]]
  PROVE  /\ Incremented(L, k) = Incremented(M, k) /\ Reported(L, k) = Reported(M, k)
         /\ LooksAtOthers(L, k) <=> LooksAtOthers(M, k)
BY DEF Incremented, Reported, LooksAtOthers

LEMMA ReportedFacts ==
  ASSUME NEW L, NEW k \in Tuples
  PROVE  /\ DOMAIN Reported(L, k) = {k, WorkerOf[k]}
         /\ WorkerOf[k] \in Workers /\ k # WorkerOf[k]
         /\ {k, WorkerOf[k]} \cap {"plan", "state"} = {}
         /\ Reported(L, k)[k] = "done" /\ Reported(L, k)[WorkerOf[k]] = Incremented(L, k)
<1>1. WorkerOf[k] \in Workers /\ k # WorkerOf[k]
  BY EndorsementAssumption, ItemsAssumption
<1>2. {k, WorkerOf[k]} \cap {"plan", "state"} = {}
  BY <1>1, ItemsAssumption
<1> DEFINE f == Put(k, "done")
           g == Put(WorkerOf[k], Incremented(L, k))
<1>3. /\ DOMAIN f = {k} /\ f[k] = "done"
      /\ DOMAIN g = {WorkerOf[k]} /\ g[WorkerOf[k]] = Incremented(L, k)
  BY PutFacts
<1>4. Reported(L, k) = Over(f, g)
  BY DEF Reported
<1> HIDE DEF f, g
<1>5. /\ DOMAIN Over(f, g) = {k} \cup {WorkerOf[k]}
      /\ Over(f, g)[k] = "done" /\ Over(f, g)[WorkerOf[k]] = Incremented(L, k)
  BY <1>1, <1>3 DEF Over
<1>6. QED BY <1>1, <1>2, <1>4, <1>5

\* The totals after a report are those of the counters that were read.
LEMMA FinishesReads ==
  ASSUME NEW L, NEW M, NEW k \in Tuples, DOMAIN L = DOMAIN M, "plan" \in DOMAIN L,
         L["plan"] = M["plan"], L[WorkerOf[k]] = M[WorkerOf[k]],
         PlanWorkers(L) \subseteq DOMAIN L, \A v \in PlanWorkers(L) : L[v] = M[v]
  PROVE  /\ AllDone(Over(Reported(L, k), L)) <=> AllDone(Over(Reported(M, k), M))
         /\ LastWrites(L, k) = LastWrites(M, k)
<1> DEFINE A == Over(Reported(L, k), L)
           B == Over(Reported(M, k), M)
           W == PlanWorkers(L)
<1>1. /\ Reported(L, k) = Reported(M, k)
      /\ DOMAIN Reported(L, k) = {k, WorkerOf[k]} /\ "plan" \notin {k, WorkerOf[k]}
  BY IncrementedReads, ReportedFacts
<1>2. A["plan"] = L["plan"] /\ B["plan"] = L["plan"]
  BY <1>1 DEF Over
<1>3. PlanWorkers(A) = W /\ PlanWorkers(B) = W /\ PlanWorkers(M) = W
  BY <1>2 DEF PlanWorkers
<1>4. \A v \in W : A[v] = B[v]
  <2> SUFFICES ASSUME NEW v \in W PROVE A[v] = B[v]
    OBVIOUS
  <2>1. v \in DOMAIN L /\ v \in DOMAIN M /\ L[v] = M[v]
    OBVIOUS
  <2> HIDE DEF W
  <2>2. QED BY <1>1, <2>1 DEF Over
<1> HIDE DEF A, B, W
<1>5. /\ [w \in W |-> A[w].done] = [w \in W |-> B[w].done]
      /\ [w \in W |-> A[w].tuple] = [w \in W |-> B[w].tuple]
      /\ [v \in W |-> A[v]] = [v \in W |-> B[v]]
  BY <1>4
<1>6. AllDone(A) <=> AllDone(B)
  BY <1>3, <1>5 DEF AllDone
<1>7. LastWrites(L, k) = LastWrites(M, k)
  BY <1>3, <1>5 DEF LastWrites, A, B, W
<1>8. QED BY <1>6, <1>7 DEF A, B

LEMMA SuccessReads ==
  ASSUME NEW L, NEW M, NEW k \in Tuples, NEW tx \in LogSuccess(L, k), Agree(L, M, tx.reads),
         DOMAIN L = Items, L["plan"] \subseteq Tuples
  PROVE  tx \in LogSuccess(M, k)
<1> DEFINE others(X) == IF LooksAtOthers(X, k) THEN PlanWorkers(X) ELSE {}
           R(X) == {k, "plan", "state", WorkerOf[k]} \cup others(X)
           W(X) == IF Finishes(X, k) THEN Over(Reported(X, k), LastWrites(X, k)) ELSE Reported(X, k)
<1>1. L[k] = "doing"
  BY DEF LogSuccess
<1>2. CASE L["state"] # "doing"
  <2>1. tx = Tx({k, "plan", "state"}, Put(k, "done"))
    BY <1>1, <1>2 DEF LogSuccess
  <2>2. L[k] = M[k] /\ L["state"] = M["state"]
    BY <2>1, TxFacts DEF Agree
  <2>3. QED BY <1>1, <1>2, <2>1, <2>2 DEF LogSuccess
<1>3. CASE L["state"] = "doing"
  <2>1. tx = Tx(R(L), W(L))
    BY <1>1, <1>3 DEF LogSuccess
  <2> HIDE DEF W
  <2>2. tx.reads = R(L)
    BY <2>1, TxFacts
  <2>3. /\ L[k] = M[k] /\ L["state"] = M["state"] /\ L["plan"] = M["plan"]
        /\ L[WorkerOf[k]] = M[WorkerOf[k]] /\ \A v \in others(L) : L[v] = M[v]
        /\ DOMAIN L = DOMAIN M
    BY <2>2 DEF Agree
  <2>4. PlanWorkers(L) = PlanWorkers(M) /\ PlanWorkers(L) \subseteq DOMAIN L /\ "plan" \in DOMAIN L
    BY <2>3, EndorsementAssumption DEF PlanWorkers, Items
  <2>5. /\ Reported(L, k) = Reported(M, k)
        /\ LooksAtOthers(L, k) <=> LooksAtOthers(M, k)
    BY <2>3, IncrementedReads
  <2>6. R(L) = R(M)
    BY <2>4, <2>5
  <2>7. W(L) = W(M)
    <3>1. CASE LooksAtOthers(L, k)
      <4>1. /\ AllDone(Over(Reported(L, k), L)) <=> AllDone(Over(Reported(M, k), M))
            /\ LastWrites(L, k) = LastWrites(M, k)
        BY <2>3, <2>4, <3>1, FinishesReads
      <4>2. Finishes(L, k) <=> Finishes(M, k)
        BY <2>5, <4>1 DEF Finishes
      <4>3. QED BY <2>5, <4>1, <4>2 DEF W
    <3>2. CASE ~LooksAtOthers(L, k)
      BY <2>5, <3>2 DEF W, Finishes
    <3>3. QED BY <3>1, <3>2
  <2>8. LogSuccess(M, k) = {Tx(R(M), W(M))}
    BY <1>1, <1>3, <2>3 DEF LogSuccess, W
  <2>9. QED BY <2>1, <2>6, <2>7, <2>8
<1>4. QED BY <1>2, <1>3

\* What each request is for, and of which handler it is.
LEMMA RequestCases ==
  ASSUME NEW op, NEW k, <<op, k>> \in Requests
  PROVE  \/ op = "start" /\ k \in Tuples /\ \A L : Endorse(L, op, k) = LogStart(L, k)
         \/ op = "fail" /\ k \in Tuples /\ \A L : Endorse(L, op, k) = LogFail(L, k)
         \/ op = "success" /\ k \in Tuples /\ \A L : Endorse(L, op, k) = LogSuccess(L, k)
         \/ op = "add" /\ k \in Later /\ k \in Tuples /\ \A L : Endorse(L, op, k) = AddTuple(L, k)
         \/ op = "cancel" /\ \A L : Endorse(L, op, k) = Cancel(L)
BY EndorsementAssumption DEF Requests, Endorse

\* A handler reads all that its outcome depends on.
LEMMA EndorseReads ==
  ASSUME NEW L, NEW M, NEW op, NEW k, <<op, k>> \in Requests,
         NEW tx \in Endorse(L, op, k), Agree(L, M, tx.reads),
         DOMAIN L = Items, L["plan"] \subseteq Tuples
  PROVE  tx \in Endorse(M, op, k)
BY RequestCases, StartReads, FailReads, SuccessReads, AddReads, CancelReads

-----------------------------------------------------------------------------
(* The transactions under way *)

LEMMA ItemsFacts ==
  /\ "plan" \in Items /\ "state" \in Items
  /\ \A k \in Tuples : k \in Items /\ WorkerOf[k] \in Workers /\ WorkerOf[k] \in Items
BY EndorsementAssumption DEF Items

LEMMA StatusItems ==
  ASSUME NEW L, NEW k, NEW s, NEW state
  PROVE  {k} \subseteq DOMAIN StatusWrites(L, k, s, state)
         /\ DOMAIN StatusWrites(L, k, s, state) \subseteq {k, "state"}
BY DEF StatusWrites, Put, Over

\* Handlers read and write items of the ledger.
LEMMA EndorseItems ==
  ASSUME NEW L, L["plan"] \subseteq Tuples, NEW op, NEW k, <<op, k>> \in Requests,
         NEW tx \in Endorse(L, op, k)
  PROVE  tx.reads \subseteq Items /\ DOMAIN tx.writes \subseteq Items
<1>1. PlanWorkers(L) \subseteq Items
  BY ItemsFacts DEF PlanWorkers
<1>2. CASE k \in Tuples /\ tx \in LogStart(L, k)
  <2>1. PICK s : tx = Tx({k, "plan", "state"}, StatusWrites(L, k, "doing", s))
    BY <1>2 DEF LogStart
  <2>2. QED BY <1>2, <2>1, TxFacts, StatusItems, ItemsFacts
<1>3. CASE k \in Tuples /\ tx \in LogFail(L, k)
  <2>1. PICK s : tx = Tx({k, "plan", "state"}, StatusWrites(L, k, "failed", s))
    BY <1>3 DEF LogFail
  <2>2. QED BY <1>3, <2>1, TxFacts, StatusItems, ItemsFacts
<1>4. CASE k \in Tuples /\ tx \in LogSuccess(L, k)
  <2>1. /\ DOMAIN Reported(L, k) \subseteq Items
        /\ DOMAIN LastWrites(L, k) \subseteq Items
        /\ DOMAIN Put(k, "done") \subseteq Items
    <3>1. DOMAIN LastWrites(L, k) = {"state"} \cup PlanWorkers(L)
      BY DEF LastWrites, Put, Over
    <3>2. DOMAIN Put(k, "done") = {k}
      BY DEF Put
    <3>3. DOMAIN Reported(L, k) = {k, WorkerOf[k]}
      BY <1>4, ReportedFacts
    <3>4. QED BY <1>1, <1>4, <3>1, <3>2, <3>3, ItemsFacts
  <2>2. DOMAIN Over(Reported(L, k), LastWrites(L, k)) \subseteq Items
    BY <2>1 DEF Over
  <2>3. \/ tx = Tx({k, "plan", "state"}, Put(k, "done"))
        \/ \E others \in SUBSET PlanWorkers(L) :
             \/ tx = Tx({k, "plan", "state", WorkerOf[k]} \cup others, Reported(L, k))
             \/ tx = Tx({k, "plan", "state", WorkerOf[k]} \cup others,
                        Over(Reported(L, k), LastWrites(L, k)))
    BY <1>4 DEF LogSuccess
  <2>4. /\ {k, "plan", "state"} \subseteq Items
        /\ \A others \in SUBSET PlanWorkers(L) :
             {k, "plan", "state", WorkerOf[k]} \cup others \subseteq Items
    BY <1>1, <1>4, ItemsFacts
  <2>5. CASE tx = Tx({k, "plan", "state"}, Put(k, "done"))
    BY <2>1, <2>4, <2>5, TxFacts
  <2>6. CASE \E others \in SUBSET PlanWorkers(L) :
               \/ tx = Tx({k, "plan", "state", WorkerOf[k]} \cup others, Reported(L, k))
               \/ tx = Tx({k, "plan", "state", WorkerOf[k]} \cup others,
                          Over(Reported(L, k), LastWrites(L, k)))
    <3>1. PICK others \in SUBSET PlanWorkers(L) :
               \/ tx = Tx({k, "plan", "state", WorkerOf[k]} \cup others, Reported(L, k))
               \/ tx = Tx({k, "plan", "state", WorkerOf[k]} \cup others,
                          Over(Reported(L, k), LastWrites(L, k)))
      BY <2>6
    <3>2. /\ tx.reads = {k, "plan", "state", WorkerOf[k]} \cup others
          /\ tx.writes \in {Reported(L, k), Over(Reported(L, k), LastWrites(L, k))}
      BY <3>1, TxFacts
    <3>3. QED BY <2>1, <2>2, <2>4, <3>2
  <2>7. QED BY <2>3, <2>5, <2>6
<1>5. CASE k \in Tuples /\ tx \in AddTuple(L, k)
  <2>1. tx.reads = {k, "plan", "state", WorkerOf[k]}
        /\ DOMAIN tx.writes = {k, "plan", "state", WorkerOf[k]}
    BY <1>5, TxFacts DEF AddTuple, Put, Over
  <2>2. QED BY <1>5, <2>1, ItemsFacts
<1>6. CASE tx \in Cancel(L)
  <2>1. tx.reads = {"plan", "state"} \cup PlanWorkers(L)
        /\ DOMAIN tx.writes = {"state"} \cup PlanWorkers(L)
    BY <1>6, TxFacts DEF Cancel, Put, Over
  <2>2. QED BY <1>1, <2>1, ItemsFacts
<1>7. QED BY <1>2, <1>3, <1>4, <1>5, <1>6, RequestCases

\* A report looks at the other workers only when its own has finished.
LEMMA SuccessItems ==
  ASSUME NEW L, NEW k \in Tuples, NEW tx \in LogSuccess(L, k),
         WorkerOf[k] \in DOMAIN tx.writes,
         tx.writes[WorkerOf[k]].done # tx.writes[WorkerOf[k]].tuple
  PROVE  /\ tx.reads = {k, "plan", "state", WorkerOf[k]}
         /\ DOMAIN tx.writes = {k, WorkerOf[k]}
<1> DEFINE w == WorkerOf[k]
<1>1. CASE L["state"] # "doing"
  <2>1. tx.writes = Put(k, "done")
    BY <1>1, TxFacts DEF LogSuccess
  <2>2. DOMAIN tx.writes = {k}
    BY <2>1 DEF Put
  <2>3. w # k
    BY ReportedFacts
  <2>4. QED BY <2>2, <2>3
<1>2. CASE L["state"] = "doing" /\ ~LooksAtOthers(L, k)
  <2>1. tx = Tx({k, "plan", "state", w} \cup {}, Reported(L, k))
    BY <1>2 DEF LogSuccess, Finishes
  <2>2. tx.reads = {k, "plan", "state", w} /\ tx.writes = Reported(L, k)
    BY <2>1, TxFacts
  <2>3. QED BY <2>2, ReportedFacts
<1>3. CASE L["state"] = "doing" /\ LooksAtOthers(L, k)
  <2>1. \/ tx.writes = Reported(L, k)
        \/ tx.writes = Over(Reported(L, k), LastWrites(L, k))
    BY <1>3, TxFacts DEF LogSuccess
  <2>2. tx.writes[w] = Incremented(L, k)
    BY <2>1, ReportedFacts DEF Over
  <2>3. QED BY <1>3, <2>2 DEF LooksAtOthers
<1>4. QED BY <1>1, <1>2, <1>3

LEMMA SameReport ==
  ASSUME NEW t, NEW u, u.op = t.op, u.key = t.key, u.reads = t.reads, u.writes = t.writes
  PROVE  (Intermediate(u) <=> Intermediate(t)) /\ (OwnItems(u) <=> OwnItems(t))
BY DEF Intermediate, OwnItems

\* A transaction that has just been endorsed.
LEMMA SubmitFlight ==
  ASSUME TypeOK, FlightInductive, NEW r \in Requests, Submit(r)
  PROVE  FlightInductive'
<1>1. PICK tx \in Endorse(ledger, r[1], r[2]), c \in Copies(r) :
        flight' = flight \cup {[op |-> r[1], key |-> r[2], copy |-> c,
                                reads |-> tx.reads, writes |-> tx.writes, stale |-> FALSE]}
  BY DEF Submit
<1> DEFINE u == [op |-> r[1], key |-> r[2], copy |-> c,
                 reads |-> tx.reads, writes |-> tx.writes, stale |-> FALSE]
<1>2. r = <<r[1], r[2]>> /\ ledger' = ledger
  BY DEF Requests, Submit
<1>3. InFlight(u)
  <2>1. tx.reads \subseteq Items /\ DOMAIN tx.writes \subseteq Items
    BY <1>2, EndorseItems DEF TypeOK
  <2>2. QED BY <1>2, <2>1 DEF InFlight
<1>4. Current(u)
  BY DEF Current
<1>5. Intermediate(u) => OwnItems(u)
  <2> SUFFICES ASSUME Intermediate(u) PROVE OwnItems(u)
    OBVIOUS
  <2>1. r[2] \in Tuples /\ tx \in LogSuccess(ledger, r[2])
    BY <1>2, RequestCases DEF Intermediate
  <2>2. QED BY <2>1, SuccessItems DEF Intermediate, OwnItems
<1>6. \A t : Current(t)' <=> Current(t)
  BY <1>2 DEF Current
<1> HIDE DEF u
<1>7. QED BY <1>1, <1>3, <1>4, <1>5, <1>6 DEF FlightInductive, u

\* A commit leaves the others as they were, or marks them.
LEMMA CommitFlight ==
  ASSUME TypeOK, FlightInductive, NEW tx \in flight, Commit(tx)
  PROVE  FlightInductive'
<1> SUFFICES ASSUME NEW u \in flight'
             PROVE  /\ InFlight(u)
                    /\ ~u.stale => Current(u)'
                    /\ Intermediate(u) => OwnItems(u)
  BY DEF FlightInductive
<1>1. PICK t \in flight \ {tx} :
        u = [t EXCEPT !.stale = @ \/ t.reads \cap DOMAIN tx.writes # {}]
  BY DEF Commit
<1>2. InFlight(t) /\ InFlight(tx)
  BY DEF FlightInductive
<1>3. /\ InFlight(u) /\ u.op = t.op /\ u.key = t.key
      /\ u.reads = t.reads /\ u.writes = t.writes
      /\ u.stale = (t.stale \/ t.reads \cap DOMAIN tx.writes # {})
  <2>1. u = [op |-> t.op, key |-> t.key, copy |-> t.copy, reads |-> t.reads,
             writes |-> t.writes, stale |-> t.stale \/ t.reads \cap DOMAIN tx.writes # {}]
    BY <1>1, <1>2 DEF InFlight
  <2>2. QED BY <1>2, <2>1 DEF InFlight
<1>4. ASSUME ~u.stale PROVE Current(u)'
  <2>1. ~t.stale /\ t.reads \cap DOMAIN tx.writes = {}
    BY <1>3, <1>4
  <2>2. PICK e \in Endorse(ledger, t.op, t.key) : e.reads = t.reads /\ e.writes = t.writes
    BY <2>1 DEF FlightInductive, Current
  <2>3. Agree(ledger, ledger', t.reads)
    BY <1>2, <2>1 DEF Commit, Over, InFlight, TypeOK, Agree
  <2>4. e \in Endorse(ledger', t.op, t.key)
    BY <1>2, <2>2, <2>3, EndorseReads DEF InFlight, TypeOK
  <2>5. QED BY <1>3, <2>2, <2>4 DEF Current
<1>5. Intermediate(u) => OwnItems(u)
  BY <1>3, SameReport DEF FlightInductive
<1>6. QED BY <1>3, <1>4, <1>5

-----------------------------------------------------------------------------
(* What a handler does to the ledger *)

\* The tuples of K that run on w.
Mine(w, K) == {k \in K : WorkerOf[k] = w}

LEMMA CountFacts ==
  ASSUME NEW K \in SUBSET Tuples, NEW w
  PROVE  /\ IsFiniteSet(Mine(w, K)) /\ CountOf(w, K) = Cardinality(Mine(w, K))
         /\ CountOf(w, K) \in Nat
<1>1. IsFiniteSet(Mine(w, K))
  BY EndorsementAssumption, FS_Subset DEF Mine
<1>2. QED BY <1>1, FS_CardinalityType DEF CountOf, Mine

LEMMA CountsCompare ==
  ASSUME NEW K \in SUBSET Tuples, NEW J \in SUBSET K, NEW w
  PROVE  /\ CountOf(w, J) <= CountOf(w, K)
         /\ CountOf(w, J) = CountOf(w, K) <=> Mine(w, K) \subseteq J
<1>1. /\ IsFiniteSet(Mine(w, K)) /\ CountOf(w, K) = Cardinality(Mine(w, K))
      /\ CountOf(w, J) = Cardinality(Mine(w, J))
  BY CountFacts
<1>2. Mine(w, J) \in SUBSET Mine(w, K)
  BY DEF Mine
<1>3. /\ Cardinality(Mine(w, J)) <= Cardinality(Mine(w, K))
      /\ Cardinality(Mine(w, K)) = Cardinality(Mine(w, J)) => Mine(w, K) = Mine(w, J)
  BY <1>1, <1>2, FS_Subset
<1>4. Mine(w, K) \subseteq J <=> Mine(w, K) = Mine(w, J)
  BY DEF Mine
<1>5. QED BY <1>1, <1>3, <1>4

LEMMA CountAdd ==
  ASSUME NEW K \in SUBSET Tuples, NEW k \in Tuples, k \notin K, NEW w
  PROVE  CountOf(w, K \cup {k}) = CountOf(w, K) + (IF w = WorkerOf[k] THEN 1 ELSE 0)
<1>1. /\ IsFiniteSet(Mine(w, K)) /\ CountOf(w, K) = Cardinality(Mine(w, K))
      /\ CountOf(w, K) \in Nat
      /\ CountOf(w, K \cup {k}) = Cardinality(Mine(w, K \cup {k}))
  BY CountFacts
<1>2. CASE w = WorkerOf[k]
  <2>1. Mine(w, K \cup {k}) = Mine(w, K) \cup {k} /\ k \notin Mine(w, K)
    BY <1>2 DEF Mine
  <2>2. Cardinality(Mine(w, K) \cup {k}) = Cardinality(Mine(w, K)) + 1
    BY <1>1, <2>1, FS_AddElement
  <2>3. QED BY <1>1, <1>2, <2>1, <2>2
<1>3. CASE w # WorkerOf[k]
  <2>1. Mine(w, K \cup {k}) = Mine(w, K)
    BY <1>3 DEF Mine
  <2>2. QED BY <1>1, <1>3, <2>1
<1>4. QED BY <1>2, <1>3

LedgerInductive == TypeOK /\ CountersKept /\ StateFollows

LEMMA LedgerFacts ==
  ASSUME TypeOK
  PROVE  /\ \A S : InPlan(ledger, S) \in SUBSET Tuples
         /\ \A k \in Tuples : ledger[k] # Absent => k \in ledger["plan"]
         /\ \A w \in Workers : ledger[w].done \in Nat /\ ledger[w].tuple \in Nat
BY DEF TypeOK, InPlan

\* A ledger on which the status of a tuple of the plan is written, and perhaps
\* the state of the plan.
LEMMA StatusEffect ==
  ASSUME TypeOK, NEW k \in Tuples, ledger[k] # Absent, NEW s, NEW state,
         ledger' = Over(StatusWrites(ledger, k, s, state), ledger)
  PROVE  /\ DOMAIN ledger' = Items /\ ledger'[k] = s /\ ledger'["state"] = state
         /\ \A x \in Items \ {k, "state"} : ledger'[x] = ledger[x]
<1> DEFINE f == StatusWrites(ledger, k, s, state)
<1>1. /\ k \in Items /\ "state" \in Items /\ k # "state" /\ DOMAIN ledger = Items
  BY ItemsFacts, ItemsAssumption DEF TypeOK
<1>2. /\ DOMAIN f = {k} \cup (IF state # ledger["state"] THEN {"state"} ELSE {})
      /\ f[k] = s
      /\ state # ledger["state"] => f["state"] = state
  BY <1>1 DEF StatusWrites, Put, Over
<1> HIDE DEF f
<1>3. ledger' = Over(f, ledger)
  BY DEF f
<1>4. QED BY <1>1, <1>2, <1>3 DEF Over

\* The plan's tuples and the counters stay as they are.
LEMMA CountersSame ==
  ASSUME TypeOK, CountersKept, ledger'["plan"] = ledger["plan"],
         \A w \in Workers : ledger'[w] = ledger[w],
         ledger'["state"] \notin Closed =>
           /\ ledger["state"] \notin Closed
           /\ InPlan(ledger', {"done"}) \subseteq InPlan(ledger, {"done"})
           /\ InPlan(ledger, {"done", "failed"}) \subseteq InPlan(ledger', {"done", "failed"})
  PROVE  CountersKept'
<1> SUFFICES ASSUME NEW w \in Workers
             PROVE  /\ ledger'[w].tuple = CountOf(w, ledger'["plan"])
                    /\ ledger'["state"] \notin Closed =>
                         /\ CountOf(w, InPlan(ledger', {"done"})) <= ledger'[w].done
                         /\ ledger'[w].done <= CountOf(w, InPlan(ledger', {"done", "failed"}))
  BY DEF CountersKept
<1>1. ledger'[w].tuple = CountOf(w, ledger'["plan"])
  BY DEF CountersKept
<1>2. ASSUME ledger'["state"] \notin Closed
      PROVE  /\ CountOf(w, InPlan(ledger', {"done"})) <= ledger'[w].done
             /\ ledger'[w].done <= CountOf(w, InPlan(ledger', {"done", "failed"}))
  <2> DEFINE D == InPlan(ledger, {"done"})
             E == InPlan(ledger, {"done", "failed"})
             D2 == InPlan(ledger', {"done"})
             E2 == InPlan(ledger', {"done", "failed"})
  <2>1. /\ D \in SUBSET Tuples /\ E2 \in SUBSET Tuples /\ D2 \in SUBSET D /\ E \in SUBSET E2
    BY <1>2 DEF InPlan, TypeOK
  <2>2. /\ CountOf(w, D) <= ledger[w].done /\ ledger[w].done <= CountOf(w, E)
        /\ ledger'[w] = ledger[w] /\ ledger[w].done \in Nat
    BY <1>2, LedgerFacts DEF CountersKept
  <2> HIDE DEF D, E, D2, E2
  <2>3. CountOf(w, D2) <= CountOf(w, D) /\ CountOf(w, E) <= CountOf(w, E2)
    BY <2>1, CountsCompare
  <2>4. /\ CountOf(w, D2) \in Nat /\ CountOf(w, D) \in Nat
        /\ CountOf(w, E) \in Nat /\ CountOf(w, E2) \in Nat
    BY <2>1, CountFacts
  <2>5. CountOf(w, D2) <= ledger'[w].done /\ ledger'[w].done <= CountOf(w, E2)
    BY <2>2, <2>3, <2>4
  <2>6. QED BY <2>5 DEF D2, E2
<1>3. QED BY <1>1, <1>2

LEMMA StartLedger ==
  ASSUME LedgerInductive, NEW k \in Tuples, NEW tx \in LogStart(ledger, k),
         ledger' = Over(tx.writes, ledger)
  PROVE  LedgerInductive'
<1> USE DEF LedgerInductive
<1> DEFINE state == UpdateState(ledger["state"], "doing")
<1>1. ledger[k] = "todo" /\ ledger' = Over(StatusWrites(ledger, k, "doing", state), ledger)
  BY TxFacts DEF LogStart, CheckUpdateTuple, StatusPossibilities, Closed
<1>2. /\ k \in ledger["plan"] /\ ledger["plan"] \subseteq Tuples
      /\ ledger["state"] \in {"todo", "doing", "failed", "canceled"}
  BY <1>1, LedgerFacts DEF TypeOK, StateFollows, InPlan, Absent, Closed
<1>3. state = IF ledger["state"] = "todo" THEN "doing" ELSE ledger["state"]
  BY <1>2 DEF UpdateState, PlanMoves
<1>4. /\ DOMAIN ledger' = Items /\ ledger'[k] = "doing" /\ ledger'["state"] = state
      /\ \A x \in Items \ {k, "state"} : ledger'[x] = ledger[x]
  BY <1>1, StatusEffect DEF Absent
<1> HIDE DEF state
<1>5. /\ ledger'["plan"] = ledger["plan"] /\ \A w \in Workers : ledger'[w] = ledger[w]
      /\ \A c \in Tuples : c # k => ledger'[c] = ledger[c]
  BY <1>4, ItemsAssumption DEF Items
<1>6. TypeOK'
  BY <1>2, <1>3, <1>4, <1>5 DEF TypeOK, Closed
<1>7. /\ InPlan(ledger', {"done"}) = InPlan(ledger, {"done"})
      /\ InPlan(ledger', {"done", "failed"}) = InPlan(ledger, {"done", "failed"})
  BY <1>1, <1>2, <1>4, <1>5 DEF InPlan
<1>8. CountersKept'
  BY <1>2, <1>3, <1>4, <1>5, <1>7, CountersSame DEF Closed
<1>9. StateFollows'
  <2>1. ledger'["state"] # "todo" /\ ledger'["state"] # "done"
    BY <1>2, <1>3, <1>4
  <2>2. k \in InPlan(ledger', {"todo", "doing", "failed"})
    BY <1>2, <1>4, <1>5 DEF InPlan
  <2>3. QED BY <2>1, <2>2 DEF StateFollows
<1>10. QED BY <1>6, <1>8, <1>9

LEMMA FailLedger ==
  ASSUME LedgerInductive, NEW k \in Tuples, NEW tx \in LogFail(ledger, k),
         ledger' = Over(tx.writes, ledger)
  PROVE  LedgerInductive'
<1> USE DEF LedgerInductive
<1> DEFINE state == UpdateState(ledger["state"], "failed")
<1>1. /\ ledger[k] \notin {Absent, "failed"}
      /\ ledger' = Over(StatusWrites(ledger, k, "failed", state), ledger)
  BY TxFacts DEF LogFail
<1>2. k \in ledger["plan"] /\ ledger["plan"] \subseteq Tuples
  BY <1>1, LedgerFacts DEF TypeOK
<1>3. state = IF ledger["state"] = "doing" THEN "failed" ELSE ledger["state"]
  BY DEF UpdateState, PlanMoves
<1>4. /\ DOMAIN ledger' = Items /\ ledger'[k] = "failed" /\ ledger'["state"] = state
      /\ \A x \in Items \ {k, "state"} : ledger'[x] = ledger[x]
  BY <1>1, StatusEffect
<1> HIDE DEF state
<1>5. /\ ledger'["plan"] = ledger["plan"] /\ \A w \in Workers : ledger'[w] = ledger[w]
      /\ \A c \in Tuples : c # k => ledger'[c] = ledger[c]
  BY <1>4, ItemsAssumption DEF Items
<1>6. TypeOK'
  BY <1>2, <1>3, <1>4, <1>5 DEF TypeOK, Closed
<1>7. /\ InPlan(ledger', {"done"}) \subseteq InPlan(ledger, {"done"})
      /\ InPlan(ledger, {"done", "failed"}) \subseteq InPlan(ledger', {"done", "failed"})
      /\ InPlan(ledger', {"doing"}) \subseteq InPlan(ledger, {"doing"})
      /\ InPlan(ledger', {"todo", "doing"}) \subseteq InPlan(ledger, {"todo", "doing"})
      /\ k \in InPlan(ledger', {"todo", "doing", "failed"})
  BY <1>2, <1>4, <1>5 DEF InPlan
<1>8. CountersKept'
  BY <1>2, <1>3, <1>4, <1>5, <1>7, CountersSame DEF Closed
<1>9. StateFollows'
  BY <1>3, <1>4, <1>7 DEF StateFollows
<1>10. QED BY <1>6, <1>8, <1>9

\* A new tuple is counted, and gives a done plan work again.
LEMMA AddLedger ==
  ASSUME LedgerInductive, NEW k \in Tuples, NEW tx \in AddTuple(ledger, k),
         ledger' = Over(tx.writes, ledger)
  PROVE  LedgerInductive'
<1> USE DEF LedgerInductive
<1> DEFINE w == WorkerOf[k]
           state == UpdateState(ledger["state"], "todo")
           counter == [ledger[w] EXCEPT !.tuple = @ + 1]
           plan == ledger["plan"]
<1>1. /\ ledger[k] = Absent
      /\ tx.writes = Over(Put(k, "todo"), Over(Over(Put("plan", plan \cup {k}), Put("state", state)),
                                               Put(w, counter)))
  BY TxFacts DEF AddTuple
<1>2. /\ w \in Workers /\ w \in Items /\ k \in Items
      /\ k \notin plan /\ plan \subseteq Tuples
      /\ ledger["state"] \in {"todo", "doing", "done"} \cup Closed
  BY <1>1, ItemsFacts DEF TypeOK, Absent
<1>3. w # k /\ {k, w} \cap {"plan", "state"} = {}
  BY <1>2, ItemsAssumption
<1>4. state = IF ledger["state"] = "done" THEN "todo" ELSE ledger["state"]
  BY <1>2 DEF UpdateState, PlanMoves, Closed
<1>5. counter = [done |-> ledger[w].done, tuple |-> ledger[w].tuple + 1]
  BY <1>2 DEF TypeOK
<1> HIDE DEF state, counter, w, plan
<1>6. /\ DOMAIN tx.writes = {k, "plan", "state", w}
      /\ tx.writes[k] = "todo" /\ tx.writes["plan"] = plan \cup {k}
      /\ tx.writes["state"] = state /\ tx.writes[w] = counter
  <2>1. DOMAIN tx.writes = {k, "plan", "state", w} /\ tx.writes[k] = "todo"
    BY <1>1 DEF Put, Over
  <2>2. tx.writes["plan"] = plan \cup {k}
    BY <1>1, <1>3 DEF Put, Over
  <2>3. tx.writes["state"] = state
    BY <1>1, <1>3 DEF Put, Over
  <2>4. tx.writes[w] = counter
    BY <1>1, <1>3 DEF Put, Over
  <2>5. QED BY <2>1, <2>2, <2>3, <2>4
<1>7. /\ DOMAIN ledger' = Items
      /\ ledger'[k] = "todo" /\ ledger'["plan"] = plan \cup {k}
      /\ ledger'["state"] = state /\ ledger'[w] = counter
      /\ \A x \in Items \ {k, "plan", "state", w} : ledger'[x] = ledger[x]
  <2>1. DOMAIN ledger = Items /\ {k, "plan", "state", w} \subseteq Items
    BY <1>2, ItemsFacts DEF TypeOK
  <2>2. QED BY <1>6, <2>1 DEF Over
<1>8. /\ \A v \in Workers : v # w => ledger'[v] = ledger[v]
      /\ \A c \in Tuples : c # k => ledger'[c] = ledger[c]
  BY <1>2, <1>7, ItemsAssumption DEF Items
<1>9. TypeOK'
  <2>1. counter \in [done : Nat, tuple : Nat]
    BY <1>2, <1>5, LedgerFacts
  <2>2. QED BY <1>2, <1>4, <1>7, <1>8, <2>1 DEF TypeOK, plan
<1>10. /\ InPlan(ledger', {"done"}) = InPlan(ledger, {"done"})
       /\ InPlan(ledger', {"done", "failed"}) = InPlan(ledger, {"done", "failed"})
       /\ InPlan(ledger', {"doing"}) = InPlan(ledger, {"doing"})
       /\ k \in InPlan(ledger', {"todo", "doing", "failed"})
  BY <1>2, <1>7, <1>8 DEF InPlan, plan
<1>11. CountersKept'
  <2> SUFFICES ASSUME NEW v \in Workers
               PROVE  /\ ledger'[v].tuple = CountOf(v, ledger'["plan"])
                      /\ ledger'["state"] \notin Closed =>
                           /\ CountOf(v, InPlan(ledger', {"done"})) <= ledger'[v].done
                           /\ ledger'[v].done <= CountOf(v, InPlan(ledger', {"done", "failed"}))
    BY DEF CountersKept
  <2>1. CountOf(v, plan \cup {k}) = CountOf(v, plan) + (IF v = w THEN 1 ELSE 0)
    BY <1>2, CountAdd DEF w
  <2>2. ledger[v].tuple = CountOf(v, plan) /\ ledger[v].tuple \in Nat
    BY LedgerFacts DEF CountersKept, plan
  <2>3. /\ ledger'[v].tuple = ledger[v].tuple + (IF v = w THEN 1 ELSE 0)
        /\ ledger'[v].done = ledger[v].done
    <3>1. CASE v = w
      BY <1>5, <1>7, <3>1
    <3>2. CASE v # w
      BY <1>8, <2>2, <3>2
    <3>3. QED BY <3>1, <3>2
  <2>4. ledger'["state"] \notin Closed => ledger["state"] \notin Closed
    BY <1>4, <1>7 DEF Closed
  <2>5. QED BY <1>7, <1>10, <2>1, <2>2, <2>3, <2>4 DEF CountersKept
<1>12. StateFollows'
  <2>1. ledger["state"] \in {"todo", "done"} => InPlan(ledger, {"doing"}) = {}
    BY DEF StateFollows, InPlan
  <2>2. QED BY <1>2, <1>4, <1>7, <1>10, <2>1 DEF StateFollows, Closed
<1>13. QED BY <1>9, <1>11, <1>12

\* A cancellation writes the state, and the workers' counters as they were.
LEMMA CancelLedger ==
  ASSUME LedgerInductive, NEW tx \in Cancel(ledger), ledger' = Over(tx.writes, ledger)
  PROVE  LedgerInductive'
<1> USE DEF LedgerInductive
<1> DEFINE W == PlanWorkers(ledger)
<1>1. tx.writes = Over(Put("state", "canceled"), [v \in W |-> ledger[v]])
  BY TxFacts DEF Cancel
<1>2. W \subseteq Workers /\ DOMAIN ledger = Items
  BY ItemsFacts DEF PlanWorkers, TypeOK
<1> HIDE DEF W
<1>3. /\ DOMAIN tx.writes = {"state"} \cup W /\ tx.writes["state"] = "canceled"
      /\ \A v \in W : v # "state" => tx.writes[v] = ledger[v]
  BY <1>1 DEF Put, Over
<1>4. DOMAIN ledger' = Items /\ ledger'["state"] = "canceled"
      /\ \A x \in Items : x # "state" => ledger'[x] = ledger[x]
  BY <1>2, <1>3, ItemsFacts DEF Over, Items
<1>5. /\ ledger'["plan"] = ledger["plan"] /\ \A w \in Workers : ledger'[w] = ledger[w]
      /\ \A c \in Tuples : ledger'[c] = ledger[c]
  BY <1>4, ItemsAssumption DEF Items
<1>6. TypeOK' /\ StateFollows'
  BY <1>4, <1>5 DEF TypeOK, StateFollows, Closed
<1>7. CountersKept'
  BY <1>4, <1>5, CountersSame DEF Closed
<1>8. QED BY <1>6, <1>7

\* A report in a closed plan is no more than a change of status.
LEMMA LateReport ==
  ASSUME LedgerInductive, NEW k \in Tuples, ledger[k] = "doing", ledger["state"] # "doing",
         ledger' = Over(Put(k, "done"), ledger)
  PROVE  LedgerInductive'
<1> USE DEF LedgerInductive
<1>1. k \in ledger["plan"] /\ ledger["plan"] \subseteq Tuples
  BY LedgerFacts DEF TypeOK, Absent
<1>2. ledger["state"] \in Closed
  BY <1>1 DEF TypeOK, StateFollows, InPlan
<1>3. /\ DOMAIN ledger' = Items /\ ledger'[k] = "done"
      /\ \A x \in Items : x # k => ledger'[x] = ledger[x]
  BY ItemsFacts DEF Put, Over, TypeOK
<1>4. /\ ledger'["plan"] = ledger["plan"] /\ ledger'["state"] = ledger["state"]
      /\ \A w \in Workers : ledger'[w] = ledger[w]
      /\ \A c \in Tuples : c # k => ledger'[c] = ledger[c]
  BY <1>3, ItemsAssumption DEF Items
<1>5. TypeOK' /\ StateFollows'
  BY <1>1, <1>2, <1>3, <1>4 DEF TypeOK, StateFollows, Closed
<1>6. CountersKept'
  BY <1>2, <1>4, CountersSame
<1>7. QED BY <1>5, <1>6

\* A ledger with the report of k alone: it still counts every tuple that is done,
\* and nothing that has not ended.
AfterReport(A, k) ==
  /\ DOMAIN A = Items /\ A["plan"] = ledger["plan"] /\ A["state"] = "doing" /\ A[k] = "done"
  /\ \A c \in Tuples : c # k => A[c] = ledger[c]
  /\ \A v \in Workers :
       /\ A[v] \in [done : Nat, tuple : Nat]
       /\ A[v].tuple = CountOf(v, ledger["plan"])
       /\ CountOf(v, InPlan(A, {"done"})) <= A[v].done
       /\ A[v].done <= CountOf(v, InPlan(A, {"done", "failed"}))

LEMMA ReportCounts ==
  ASSUME LedgerInductive, NEW k \in Tuples, ledger[k] = "doing", ledger["state"] = "doing"
  PROVE  AfterReport(Over(Reported(ledger, k), ledger), k)
<1> USE DEF LedgerInductive
<1> DEFINE w == WorkerOf[k]
           A == Over(Reported(ledger, k), ledger)
           inc == Incremented(ledger, k)
           plan == ledger["plan"]
           D == InPlan(ledger, {"done"})
           E == InPlan(ledger, {"done", "failed"})
<1>1. /\ k \in plan /\ plan \subseteq Tuples /\ w \in Workers
  BY LedgerFacts, ItemsFacts DEF TypeOK, Absent
<1>2. /\ DOMAIN A = Items /\ A[k] = "done" /\ A[w] = inc
      /\ \A x \in Items \ {k, w} : A[x] = ledger[x]
  <2>1. /\ DOMAIN Reported(ledger, k) = {k, w} /\ k \in Items /\ w \in Items
        /\ Reported(ledger, k)[k] = "done" /\ Reported(ledger, k)[w] = inc
        /\ DOMAIN ledger = Items
    BY ReportedFacts, ItemsFacts DEF TypeOK
  <2> HIDE DEF inc
  <2>2. QED BY <2>1 DEF Over
<1>3. inc = [done |-> ledger[w].done + 1, tuple |-> ledger[w].tuple]
  BY <1>1 DEF Incremented, TypeOK
<1> HIDE DEF A, w, inc, plan
<1>4. /\ A["plan"] = plan /\ A["state"] = "doing"
      /\ \A v \in Workers : v # w => A[v] = ledger[v]
      /\ \A c \in Tuples : c # k => A[c] = ledger[c]
  BY <1>1, <1>2, ItemsAssumption DEF Items, plan
<1>5. InPlan(A, {"done"}) = D \cup {k} /\ InPlan(A, {"done", "failed"}) = E \cup {k}
  BY <1>1, <1>2, <1>4 DEF InPlan, plan
<1>6. k \notin D /\ k \notin E /\ D \in SUBSET Tuples /\ E \in SUBSET Tuples
  BY LedgerFacts DEF InPlan
<1> HIDE DEF D, E
<1>7. ASSUME NEW v \in Workers
      PROVE  /\ A[v] \in [done : Nat, tuple : Nat] /\ A[v].tuple = CountOf(v, plan)
             /\ CountOf(v, D \cup {k}) <= A[v].done /\ A[v].done <= CountOf(v, E \cup {k})
  <2>1. /\ CountOf(v, D \cup {k}) = CountOf(v, D) + (IF v = w THEN 1 ELSE 0)
        /\ CountOf(v, E \cup {k}) = CountOf(v, E) + (IF v = w THEN 1 ELSE 0)
    BY <1>6, CountAdd DEF w
  <2>2. CountOf(v, D) \in Nat /\ CountOf(v, E) \in Nat
    BY <1>6, CountFacts
  <2>3. /\ ledger[v] \in [done : Nat, tuple : Nat] /\ ledger[v].tuple = CountOf(v, plan)
        /\ CountOf(v, D) <= ledger[v].done /\ ledger[v].done <= CountOf(v, E)
    BY DEF TypeOK, CountersKept, Closed, D, E, plan
  <2>4. CASE v = w
    <3>1. A[v] = [done |-> ledger[v].done + 1, tuple |-> ledger[v].tuple]
      BY <1>2, <1>3, <2>4
    <3>2. QED BY <2>1, <2>2, <2>3, <2>4, <3>1
  <2>5. CASE v # w
    <3>1. A[v] = ledger[v]
      BY <1>4, <2>5
    <3>2. QED BY <2>1, <2>2, <2>3, <2>5, <3>1
  <2>6. QED BY <2>4, <2>5
<1>8. AfterReport(A, k)
  BY <1>2, <1>4, <1>5, <1>7 DEF AfterReport, plan
<1>9. QED BY <1>8 DEF A

LEMMA TotalIsSum == ASSUME NEW c, NEW W, DOMAIN c = W PROVE SumFunction(c) = SumOf(c, W)
BY DEF SumFunction, SumFunctionOnSet, FoldFunctionOnSet, MapThenFoldSet, SumOf, IsSum, First

\* A report finishes the plan when all its tuples are done, and only when all
\* have ended.
LEMMA FinishesInTime ==
  ASSUME LedgerInductive, NEW k \in Tuples, ledger[k] = "doing", ledger["state"] = "doing",
         NEW A, A = Over(Reported(ledger, k), ledger)
  PROVE  /\ Finishes(ledger, k) => ledger["plan"] = InPlan(A, {"done", "failed"})
         /\ ledger["plan"] = InPlan(A, {"done"}) => Finishes(ledger, k)
<1> USE DEF LedgerInductive
<1> DEFINE plan == ledger["plan"]
           W == PlanWorkers(A)
           D == InPlan(A, {"done"})
           E == InPlan(A, {"done", "failed"})
           done == [v \in W |-> A[v].done]
           all == [v \in W |-> A[v].tuple]
<1>1. AfterReport(A, k)
  BY ReportCounts
<1>2. /\ k \in plan /\ plan \in SUBSET Tuples /\ A["plan"] = plan
      /\ D \in SUBSET plan /\ E \in SUBSET plan
  BY <1>1, LedgerFacts DEF TypeOK, Absent, AfterReport, InPlan
<1>3. W \subseteq Workers /\ \A c \in plan : WorkerOf[c] \in W
  BY <1>2, ItemsFacts DEF PlanWorkers
<1>4. IsFiniteSet(W)
  <2> DEFINE f == [c \in plan |-> WorkerOf[c]]
  <2>1. f \in Surjection(plan, W)
    BY <1>2 DEF Surjection, PlanWorkers
  <2>2. IsFiniteSet(plan)
    BY <1>2, EndorsementAssumption, FS_Subset
  <2>3. QED BY <2>1, <2>2, FS_Surjection
<1> HIDE DEF W, D, E, plan
<1>5. \A v \in W : /\ A[v].done \in Nat /\ A[v].tuple \in Nat
                   /\ A[v].tuple = CountOf(v, plan)
                   /\ CountOf(v, D) <= A[v].done /\ A[v].done <= CountOf(v, E)
  BY <1>1, <1>3 DEF AfterReport, D, E, plan
<1>6. ASSUME NEW v \in W
      PROVE  /\ A[v].done <= A[v].tuple
             /\ A[v].done = A[v].tuple => Mine(v, plan) \subseteq E
             /\ D = plan => A[v].done = A[v].tuple
  <2>1. /\ CountOf(v, E) <= CountOf(v, plan)
        /\ CountOf(v, E) = CountOf(v, plan) => Mine(v, plan) \subseteq E
    BY <1>2, CountsCompare
  <2>2. CountOf(v, E) \in Nat /\ CountOf(v, D) \in Nat /\ CountOf(v, plan) \in Nat
    <3>1. D \in SUBSET Tuples /\ E \in SUBSET Tuples
      BY <1>2
    <3>2. QED BY <1>2, <3>1, CountFacts
  <2>3. QED BY <1>5, <2>1, <2>2
<1>7. AllDone(A) <=> \A v \in W : A[v].done = A[v].tuple
  <2>1. done \in [W -> Nat] /\ all \in [W -> Nat] /\ \A v \in W : done[v] <= all[v]
    BY <1>5, <1>6
  <2>2. SumFunction(done) = SumOf(done, W) /\ SumFunction(all) = SumOf(all, W)
    BY TotalIsSum
  <2>3. AllDone(A) <=> SumFunction(done) = SumFunction(all)
    BY DEF AllDone, W
  <2>4. (\A v \in W : A[v].done = A[v].tuple) <=> done = all
    <3>1. \A v \in W : done[v] = A[v].done /\ all[v] = A[v].tuple
      OBVIOUS
    <3>2. done = all <=> \A v \in W : done[v] = all[v]
      BY <2>1
    <3>3. QED BY <3>1, <3>2
  <2> HIDE DEF done, all
  <2>5. SumOf(done, W) = SumOf(all, W) <=> done = all
    BY <1>4, <2>1, EqualSums
  <2>6. QED BY <2>2, <2>3, <2>4, <2>5
<1>8. LooksAtOthers(ledger, k) <=> A[WorkerOf[k]].done = A[WorkerOf[k]].tuple
  <2>1. A[WorkerOf[k]] = Incremented(ledger, k)
    BY ReportedFacts DEF Over
  <2>2. QED BY <2>1 DEF LooksAtOthers
<1>9. Finishes(ledger, k) <=> \A v \in W : A[v].done = A[v].tuple
  BY <1>2, <1>3, <1>7, <1>8 DEF Finishes
<1>10. ASSUME \A v \in W : A[v].done = A[v].tuple PROVE plan \subseteq E
  BY <1>2, <1>3, <1>6, <1>10 DEF Mine
<1>11. QED BY <1>2, <1>6, <1>9, <1>10 DEF D, E, plan

LEMMA SuccessLedger ==
  ASSUME LedgerInductive, NEW k \in Tuples, NEW tx \in LogSuccess(ledger, k),
         ledger' = Over(tx.writes, ledger)
  PROVE  LedgerInductive'
<1> USE DEF LedgerInductive
<1>1. ledger[k] = "doing"
  BY DEF LogSuccess
<1>2. CASE ledger["state"] # "doing"
  <2>1. tx.writes = Put(k, "done")
    BY <1>1, <1>2, TxFacts DEF LogSuccess
  <2>2. QED BY <1>1, <1>2, <2>1, LateReport
<1>3. CASE ledger["state"] = "doing"
  <2> DEFINE A == Over(Reported(ledger, k), ledger)
             W == PlanWorkers(ledger)
             plan == ledger["plan"]
  <2>1. AfterReport(A, k)
    BY <1>1, <1>3, ReportCounts
  <2>2. /\ Finishes(ledger, k) => plan = InPlan(A, {"done", "failed"})
        /\ plan = InPlan(A, {"done"}) => Finishes(ledger, k)
    BY <1>1, <1>3, FinishesInTime
  <2>3. tx.writes = IF Finishes(ledger, k)
                    THEN Over(Reported(ledger, k), LastWrites(ledger, k))
                    ELSE Reported(ledger, k)
    BY <1>1, <1>3, TxFacts DEF LogSuccess
  <2>4. /\ plan \subseteq Tuples /\ W \subseteq Workers /\ DOMAIN ledger = Items
        /\ \A c \in plan : c # k => ledger[c] \in {"todo", "doing", "done", "failed"}
    BY ItemsFacts DEF TypeOK, PlanWorkers
  <2>5. /\ ledger'["state"] = IF Finishes(ledger, k) THEN "done" ELSE "doing"
        /\ \A x \in Items : x # "state" => ledger'[x] = A[x]
        /\ DOMAIN ledger' = Items
    <3>1. CASE ~Finishes(ledger, k)
      BY <2>1, <2>3, <3>1 DEF AfterReport
    <3>2. CASE Finishes(ledger, k)
      <4> DEFINE rep == Reported(ledger, k)
                 last == LastWrites(ledger, k)
      <4>1. DOMAIN rep = {k, WorkerOf[k]} /\ "state" \notin {k, WorkerOf[k]}
            /\ {k, WorkerOf[k]} \subseteq Items
        BY ReportedFacts, ItemsFacts
      <4>2. /\ DOMAIN last = {"state"} \cup W /\ last["state"] = "done"
            /\ \A v \in W : v # "state" => last[v] = A[v]
        BY DEF LastWrites, Put, Over
      <4>3. ledger' = Over(Over(rep, last), ledger)
        BY <2>3, <3>2
      <4>4. W \subseteq Items /\ "state" \in Items /\ A = Over(rep, ledger)
        BY <2>4 DEF Items
      <4> HIDE DEF A, rep, last, W
      <4>5. DOMAIN ledger' = Items /\ ledger'["state"] = "done"
        <5>1. DOMAIN ledger' = DOMAIN rep \cup DOMAIN last \cup Items
          BY <2>4, <4>3 DEF Over
        <5>2. ledger'["state"] = last["state"]
          BY <4>1, <4>2, <4>3, <4>4 DEF Over
        <5>3. QED BY <4>1, <4>2, <4>4, <5>1, <5>2
      <4>6. \A x \in Items : x # "state" => ledger'[x] = A[x]
        <5> SUFFICES ASSUME NEW x \in Items, x # "state" PROVE ledger'[x] = A[x]
          OBVIOUS
        <5>1. CASE x \in DOMAIN rep
          BY <2>4, <4>3, <4>4, <5>1 DEF Over
        <5>2. CASE x \notin DOMAIN rep /\ x \in W
          BY <2>4, <4>2, <4>3, <5>2 DEF Over
        <5>3. CASE x \notin DOMAIN rep /\ x \notin W
          BY <2>4, <4>2, <4>3, <4>4, <5>3 DEF Over
        <5>4. QED BY <5>1, <5>2, <5>3
      <4>7. QED BY <3>2, <4>5, <4>6
    <3>3. QED BY <3>1, <3>2
  <2> HIDE DEF A, W, plan
  <2>6. /\ ledger'["plan"] = plan /\ ledger'[k] = "done"
        /\ \A v \in Workers : ledger'[v] = A[v]
        /\ \A c \in Tuples : c # k => ledger'[c] = ledger[c]
        /\ \A c \in Tuples : ledger'[c] = A[c]
    BY <2>1, <2>5, ItemsAssumption DEF AfterReport, Items, plan
  <2>7. k \in plan
    BY <1>1, LedgerFacts DEF Absent, plan
  <2>8. \A S : InPlan(ledger', S) = InPlan(A, S)
    BY <2>1, <2>4, <2>6 DEF InPlan, AfterReport, plan
  <2>9. TypeOK'
    <3>1. \A c \in Tuples : IF c \in plan THEN ledger'[c] \in {"todo", "doing", "done", "failed"}
                            ELSE ledger'[c] = Absent
      BY <2>4, <2>6, <2>7 DEF TypeOK, plan
    <3>2. \A v \in Workers : ledger'[v] \in [done : Nat, tuple : Nat]
      BY <2>1, <2>6 DEF AfterReport
    <3>3. QED BY <2>4, <2>5, <2>6, <3>1, <3>2 DEF TypeOK
  <2>10. CountersKept'
    <3> SUFFICES ASSUME NEW v \in Workers
                 PROVE  /\ ledger'[v].tuple = CountOf(v, ledger'["plan"])
                        /\ CountOf(v, InPlan(ledger', {"done"})) <= ledger'[v].done
                        /\ ledger'[v].done <= CountOf(v, InPlan(ledger', {"done", "failed"}))
      BY DEF CountersKept
    <3>1. QED BY <2>1, <2>6, <2>8 DEF AfterReport, plan
  <2>11. StateFollows'
    <3>1. CASE Finishes(ledger, k)
      <4>1. plan = InPlan(ledger', {"done", "failed"})
        BY <2>2, <2>8, <3>1
      <4>2. InPlan(ledger', {"todo", "doing"}) = {}
        BY <2>6, <4>1 DEF InPlan
      <4>3. QED BY <2>5, <3>1, <4>2 DEF StateFollows
    <3>2. CASE ~Finishes(ledger, k)
      <4>1. PICK c \in plan : c \notin InPlan(ledger', {"done"})
        <5>1. InPlan(ledger', {"done"}) # plan
          BY <2>2, <2>8, <3>2
        <5>2. InPlan(ledger', {"done"}) \subseteq plan
          BY <2>6 DEF InPlan
        <5>3. QED BY <5>1, <5>2
      <4>2. c \in InPlan(ledger', {"todo", "doing", "failed"})
        BY <2>4, <2>6, <2>9, <4>1 DEF InPlan, TypeOK
      <4>3. QED BY <2>5, <3>2, <4>2 DEF StateFollows
    <3>3. QED BY <3>1, <3>2
  <2>12. QED BY <2>9, <2>10, <2>11
<1>4. QED BY <1>2, <1>3

\* Each handler, run alone.
LEMMA HandlerLedger ==
  ASSUME LedgerInductive, NEW op, NEW k, <<op, k>> \in Requests,
         NEW tx \in Endorse(ledger, op, k), ledger' = Over(tx.writes, ledger)
  PROVE  LedgerInductive'
BY RequestCases, StartLedger, FailLedger, SuccessLedger, AddLedger, CancelLedger

-----------------------------------------------------------------------------
(* Every step of the channel *)

LEMMA ChannelInit == ASSUME Init PROVE ChannelInductive
<1>1. FlightInductive
  BY DEF Init, FlightInductive
<1>2. /\ ledger["plan"] = Tuples \ Later /\ ledger["state"] = "todo" /\ DOMAIN ledger = Items
      /\ \A w \in Workers : ledger[w] = [done |-> 0, tuple |-> CountOf(w, Tuples \ Later)]
      /\ \A k \in Tuples : ledger[k] = IF k \in Later THEN Absent ELSE "todo"
  BY ItemsAssumption DEF Init, Items
<1> DEFINE K == Tuples \ Later
<1> HIDE DEF K
<1>3. ASSUME NEW w \in Workers
      PROVE  /\ ledger[w].done = 0 /\ ledger[w].tuple = CountOf(w, K)
             /\ ledger[w] \in [done : Nat, tuple : Nat]
  <2>1. CountOf(w, K) \in Nat
    BY CountFacts DEF K
  <2>2. ledger[w] = [done |-> 0, tuple |-> CountOf(w, K)]
    BY <1>2 DEF K
  <2>3. QED BY <2>1, <2>2
<1>4. TypeOK
  <2>1. \A k \in Tuples : IF k \in ledger["plan"] THEN ledger[k] = "todo" ELSE ledger[k] = Absent
    BY <1>2
  <2>2. QED BY <1>2, <1>3, <2>1 DEF TypeOK
<1>5. /\ InPlan(ledger, {"done"}) = {} /\ InPlan(ledger, {"done", "failed"}) = {}
      /\ InPlan(ledger, {"doing"}) = {}
      /\ InPlan(ledger, {"todo", "doing", "failed"}) = ledger["plan"]
  <2>1. \A k \in ledger["plan"] : ledger[k] = "todo"
    BY <1>2
  <2>2. QED BY <2>1 DEF InPlan
<1>6. CountersKept
  <2>1. \A w : CountOf(w, {}) = 0
    <3> SUFFICES ASSUME NEW w PROVE CountOf(w, {}) = 0
      OBVIOUS
    <3>1. {k \in {} : WorkerOf[k] = w} = {}
      OBVIOUS
    <3>2. QED BY <3>1, FS_EmptySet DEF CountOf
  <2>2. ASSUME NEW w \in Workers
        PROVE  ledger[w].done = 0 /\ ledger[w].tuple = CountOf(w, ledger["plan"])
    BY <1>2, <1>3 DEF K
  <2>3. ASSUME NEW w \in Workers
        PROVE  /\ CountOf(w, InPlan(ledger, {"done"})) <= ledger[w].done
               /\ ledger[w].done <= CountOf(w, InPlan(ledger, {"done", "failed"}))
    <3>1. CountOf(w, {}) = 0
      BY <2>1
    <3>2. /\ CountOf(w, InPlan(ledger, {"done"})) = 0
          /\ CountOf(w, InPlan(ledger, {"done", "failed"})) = 0
      BY <1>5, <3>1, Zenon
    <3>3. QED BY <2>2, <3>2
  <2>4. QED BY <2>2, <2>3 DEF CountersKept
<1>7. StateFollows
  BY <1>2, <1>5 DEF StateFollows
<1>8. QED BY <1>1, <1>4, <1>6, <1>7 DEF ChannelInductive

\* A commit is a handler that runs on the ledger as it is.
LEMMA CommitIsSerial ==
  ASSUME FlightInductive, NEW t \in flight, Commit(t)
  PROVE  \E tx \in Endorse(ledger, t.op, t.key) :
           <<t.op, t.key>> \in Requests /\ ledger' = Over(tx.writes, ledger)
<1>1. ~t.stale /\ ledger' = Over(t.writes, ledger)
  BY DEF Commit
<1>2. PICK tx \in Endorse(ledger, t.op, t.key) : tx.writes = t.writes
  BY <1>1 DEF FlightInductive, Current
<1>3. QED BY <1>1, <1>2 DEF FlightInductive, InFlight

LEMMA LedgerSame ==
  ASSUME LedgerInductive, UNCHANGED ledger
  PROVE  LedgerInductive'
BY DEF LedgerInductive, TypeOK, CountersKept, StateFollows, InPlan

LEMMA FewerInFlight ==
  ASSUME FlightInductive, UNCHANGED ledger, flight' \subseteq flight
  PROVE  FlightInductive'
<1>1. \A t : Current(t)' <=> Current(t)
  BY DEF Current
<1>2. QED BY <1>1 DEF FlightInductive

LEMMA ChannelStep ==
  ASSUME ChannelInductive, [Next]_vars
  PROVE  ChannelInductive'
<1>1. TypeOK /\ FlightInductive /\ LedgerInductive
  BY DEF ChannelInductive, LedgerInductive
<1>2. SUFFICES FlightInductive' /\ LedgerInductive'
  BY DEF ChannelInductive, LedgerInductive
<1>3. CASE \E r \in Requests : Submit(r)
  <2>1. PICK r \in Requests : Submit(r)
    BY <1>3
  <2>2. UNCHANGED ledger
    BY <2>1 DEF Submit
  <2>3. QED BY <1>1, <2>1, <2>2, SubmitFlight, LedgerSame
<1>4. CASE \E tx \in flight : Commit(tx)
  <2>1. PICK t \in flight : Commit(t)
    BY <1>4
  <2>2. PICK tx \in Endorse(ledger, t.op, t.key) :
          <<t.op, t.key>> \in Requests /\ ledger' = Over(tx.writes, ledger)
    BY <1>1, <2>1, CommitIsSerial
  <2>3. LedgerInductive'
    BY <1>1, <2>2, HandlerLedger
  <2>4. QED BY <1>1, <2>1, <2>3, CommitFlight
<1>5. CASE \E tx \in flight : Invalidate(tx)
  BY <1>1, <1>5, FewerInFlight, LedgerSame DEF Invalidate
<1>6. CASE UNCHANGED vars
  BY <1>1, <1>6, FewerInFlight, LedgerSame DEF vars
<1>7. QED BY <1>3, <1>4, <1>5, <1>6 DEF Next, Order

-----------------------------------------------------------------------------
(* The theorems *)

\* What is under way agrees with the ledger, and the ledger with itself.
THEOREM ChannelInductiveHolds == Spec => []ChannelInductive
<1>1. Init => ChannelInductive
  BY ChannelInit
<1>2. ChannelInductive /\ [Next]_vars => ChannelInductive'
  BY ChannelStep
<1>3. QED BY <1>1, <1>2, PTL DEF Spec

\* However transactions overlap, each commit changes the ledger as its handler
\* would, run alone on the ledger it is committed to.
THEOREM CommitsSerialize == Spec => CommitsAreSerial
<1>1. ASSUME ChannelInductive, [Next]_vars, ledger' # ledger
      PROVE  \E r \in Requests : \E tx \in Endorse(ledger, r[1], r[2]) :
               ledger' = Over(tx.writes, ledger)
  <2>1. PICK t \in flight : Commit(t)
    BY <1>1 DEF Next, Submit, Order, Invalidate, vars
  <2>2. PICK tx \in Endorse(ledger, t.op, t.key) :
          <<t.op, t.key>> \in Requests /\ ledger' = Over(tx.writes, ledger)
    BY <1>1, <2>1, CommitIsSerial DEF ChannelInductive
  <2> DEFINE r == <<t.op, t.key>>
  <2>3. r \in Requests /\ r[1] = t.op /\ r[2] = t.key
    BY <2>2
  <2> HIDE DEF r
  <2>4. tx \in Endorse(ledger, r[1], r[2])
    BY <2>3
  <2>5. QED BY <2>2, <2>3, <2>4
<1>2. ChannelInductive /\ [Next]_vars =>
        [ledger' # ledger =>
           \E r \in Requests : \E tx \in Endorse(ledger, r[1], r[2]) :
             ledger' = Over(tx.writes, ledger)]_vars
  BY <1>1
<1>3. QED BY <1>2, ChannelInductiveHolds, PTL DEF Spec, CommitsAreSerial

\* A plan whose tuples are all done is done, or was closed before; a done plan has
\* no tuple left to run.
THEOREM CompletionIsExact == Spec => []CompletionExact
<1>1. ChannelInductive => CompletionExact
  <2> SUFFICES ASSUME ChannelInductive PROVE CompletionExact
    OBVIOUS
  <2> DEFINE ended == {ledger[k] : k \in ledger["plan"]}
  <2>1. /\ ledger["plan"] \subseteq Tuples
        /\ \A k \in ledger["plan"] : ledger[k] \in {"todo", "doing", "done", "failed"}
        /\ ledger["state"] \in {"todo", "doing", "done"} \cup Closed
    BY DEF ChannelInductive, TypeOK
  <2>2. ASSUME ended = {"done"} PROVE ledger["state"] \in {"done"} \cup Closed
    <3>1. ledger["plan"] # {} /\ \A k \in ledger["plan"] : ledger[k] = "done"
      BY <2>2
    <3>2. InPlan(ledger, {"todo", "doing", "failed"}) = {}
      BY <3>1 DEF InPlan
    <3>3. QED BY <2>1, <3>1, <3>2 DEF ChannelInductive, StateFollows
  <2>3. ASSUME ledger["state"] = "done" PROVE ended \subseteq {"done", "failed"}
    BY <2>1, <2>3 DEF ChannelInductive, StateFollows, InPlan
  <2>4. QED BY <2>2, <2>3 DEF CompletionExact
<1>2. QED BY <1>1, ChannelInductiveHolds, PTL

\* Reports of two workers that both have tuples left never invalidate each other.
THEOREM ReportsNeverCollide == Spec => []ReportsDoNotCollide
<1>1. ChannelInductive => ReportsDoNotCollide
  <2> SUFFICES ASSUME ChannelInductive, NEW t \in flight, NEW u \in flight,
                      Intermediate(t), Intermediate(u), WorkerOf[t.key] # WorkerOf[u.key]
               PROVE  t.reads \cap DOMAIN u.writes = {}
    BY DEF ReportsDoNotCollide
  <2>1. /\ t.reads = {t.key, "plan", "state", WorkerOf[t.key]}
        /\ DOMAIN u.writes = {u.key, WorkerOf[u.key]}
    BY DEF ChannelInductive, FlightInductive, OwnItems
  <2>2. t.key \in Tuples /\ u.key \in Tuples
    BY RequestCases DEF ChannelInductive, FlightInductive, InFlight, Intermediate
  <2>3. /\ WorkerOf[t.key] \in Workers /\ WorkerOf[u.key] \in Workers
    BY <2>2, ItemsFacts
  <2>4. QED BY <2>1, <2>2, <2>3, ItemsAssumption
<1>2. QED BY <1>1, ChannelInductiveHolds, PTL
============================================================================
