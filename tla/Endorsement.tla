---------------------------- MODULE Endorsement ----------------------------
(***************************************************************************)
(* Transactions that overlap.  Fabric runs a handler on the ledger as it   *)
(* is (the endorsement), orders the transactions of all organisations, and *)
(* commits one only if nothing it has read was written in the meantime; a  *)
(* client sends a request again when it is lost that way, or too early.    *)
(*                                                                         *)
(* One compute plan, whose tuples have no in-models and whose models are   *)
(* kept.  It is stored in pieces so that reports do not collide: the plan, *)
(* its state under another key, and a state per worker.  What is said here *)
(* is about the keys each handler reads and writes; module Workflow, where *)
(* transactions are serial, has the handlers in full.                      *)
(***************************************************************************)
EXTENDS TupleStatus, Naturals, FiniteSets, Functions

CONSTANTS
  Workers,    \* the organisations that run tuples
  Tuples,     \* the keys of the plan's tuples
  Later,      \* those that are added to the plan after its creation
  WorkerOf,   \* [Tuples -> Workers]
  Ops,        \* the requests that are made
  Repeated    \* those, with their tuple, that may be under way twice at a time

ASSUME EndorsementAssumption ==
  /\ Later \subseteq Tuples /\ WorkerOf \in [Tuples -> Workers]
  /\ Repeated \subseteq Ops \X (Tuples \cup {"plan"})
  /\ IsFiniteSet(Tuples)

\* No two items have the same key in the ledger.
ASSUME ItemsAssumption ==
  /\ {"plan", "state"} \cap (Workers \cup Tuples) = {}
  /\ Workers \cap Tuples = {}

VARIABLES
  ledger,   \* item -> value: "plan" (its tuples' keys), "state", the workers'
            \* counters, the tuples' statuses
  flight    \* the transactions endorsed and not yet ordered

vars == <<ledger, flight>>

Items == {"plan", "state"} \cup Workers \cup Tuples

CountOf(w, K) == Cardinality({k \in K : WorkerOf[k] = w})

\* A createComputePlan has committed.
Init ==
  /\ ledger = [x \in Items |->
                 IF x = "plan" THEN Tuples \ Later
                 ELSE IF x = "state" THEN "todo"
                 ELSE IF x \in Workers
                      THEN [done |-> 0, tuple |-> CountOf(x, Tuples \ Later)]
                 ELSE IF x \in Later THEN Absent ELSE "todo"]
  /\ flight = {}

-----------------------------------------------------------------------------
(* What a handler reads and writes when it runs on the ledger L.           *)

PlanWorkers(L) == {WorkerOf[k] : k \in L["plan"]}

\* A plausible bug: the counters are kept by the peer between transactions.
ReadsNoCounters(items) == items \ Workers

\* LedgerDB.Get: an item is read from the ledger when the transaction first
\* needs it.
ReadSet(items) == items

Tx(reads, writes) == [reads |-> ReadSet(reads), writes |-> writes]

\* LedgerDB.Put: the value an item gets, and the items of f over those of g.
Put(x, v) == [y \in {x} |-> v]
Over(f, g) == [x \in DOMAIN f \cup DOMAIN g |-> IF x \in DOMAIN f THEN f[x] ELSE g[x]]

\* The status, with the state of the plan if it changes.
StatusWrites(L, k, s, state) ==
  IF state # L["state"] THEN Over(Put(k, s), Put("state", state)) ELSE Put(k, s)

LogStart(L, k) ==
  {Tx({k, "plan", "state"},
      StatusWrites(L, k, "doing", UpdateState(L["state"], "doing"))) :
     s \in {s \in {L[k]} : CheckUpdateTuple(s, "doing")}}

LogFail(L, k) ==
  {Tx({k, "plan", "state"},
      StatusWrites(L, k, "failed", UpdateState(L["state"], "failed"))) :
     s \in {L[k]} \ {Absent, "failed"}}

\* The counters of k's worker after incrementWorkerDoneCount.
Incremented(L, k) == [L[WorkerOf[k]] EXCEPT !.done = @ + 1]

\* A plausible bug: the totals are computed at every report.
LooksAtAll(L, k) == TRUE

\* The other workers' counters are read when this one has finished.
LooksAtOthers(L, k) == Incremented(L, k).done = Incremented(L, k).tuple

AllDone(L) ==
  LET W == PlanWorkers(L)
  IN  SumFunction([w \in W |-> L[w].done]) = SumFunction([w \in W |-> L[w].tuple])

\* What every report writes, its status and its counter.
Reported(L, k) == Over(Put(k, "done"), Put(WorkerOf[k], Incremented(L, k)))

Finishes(L, k) == LooksAtOthers(L, k) /\ AllDone(Over(Reported(L, k), L))

\* The state of the plan and those of its workers, with their models cleared.
LastWrites(L, k) ==
  Over(Put("state", "done"), [v \in PlanWorkers(L) |-> Over(Reported(L, k), L)[v]])

\* logSuccess: in a plan that is doing, the worker's counter goes up; the last
\* report ends the plan and clears every worker's list of models, so that all
\* their states are written.  A repeated report writes none of these items.
LogSuccess(L, k) ==
  LET others == IF LooksAtOthers(L, k) THEN PlanWorkers(L) ELSE {}
  IN  IF L[k] # "doing" THEN {}
      ELSE IF L["state"] # "doing" THEN {Tx({k, "plan", "state"}, Put(k, "done"))}
      ELSE {Tx({k, "plan", "state", WorkerOf[k]} \cup others,
               IF Finishes(L, k) THEN Over(Reported(L, k), LastWrites(L, k))
               ELSE Reported(L, k))}

\* A tuple that is ready to run joins the plan.  Plan and state are written
\* whether the state changes or not.
AddTuple(L, k) ==
  LET w == WorkerOf[k]
      plan == Over(Put("plan", L["plan"] \cup {k}),
                   Put("state", UpdateState(L["state"], "todo")))
      counted == Put(w, [L[w] EXCEPT !.tuple = @ + 1])
  IN  {Tx({k, "plan", "state", w}, Over(Put(k, "todo"), Over(plan, counted))) :
         s \in {L[k]} \cap {Absent}}

\* cancelComputePlan
Cancel(L) ==
  {Tx({"plan", "state"} \cup PlanWorkers(L),
      Over(Put("state", "canceled"), [v \in PlanWorkers(L) |-> L[v]]))}

\* The outcome of a request on L: one transaction, or none when it is refused.
Endorse(L, op, k) ==
  CASE op = "start"   -> LogStart(L, k)
    [] op = "fail"    -> LogFail(L, k)
    [] op = "success" -> LogSuccess(L, k)
    [] op = "add"     -> AddTuple(L, k)
    [] op = "cancel"  -> Cancel(L)

Requests ==
  (Ops \cap {"start", "fail", "success"}) \X Tuples
    \cup (Ops \cap {"add"}) \X Later \cup (Ops \cap {"cancel"}) \X {"plan"}

-----------------------------------------------------------------------------
(* The channel *)

Copies(r) == IF r \in Repeated THEN {1, 2} ELSE {1}

\* A request is sent, for the first time or again: an earlier copy, from which
\* the client has not heard, may be under way.
Submit(r) ==
  /\ \E tx \in Endorse(ledger, r[1], r[2]), c \in Copies(r) :
       /\ \A t \in flight : <<t.op, t.key, t.copy>> # <<r[1], r[2], c>>
       /\ flight' = flight \cup
            {[op |-> r[1], key |-> r[2], copy |-> c,
              reads |-> tx.reads, writes |-> tx.writes, stale |-> FALSE]}
  /\ UNCHANGED ledger

Commit(tx) ==
  /\ ~tx.stale
  /\ ledger' = Over(tx.writes, ledger)
  /\ flight' = {[t EXCEPT !.stale = @ \/ t.reads \cap DOMAIN tx.writes # {}] :
                  t \in flight \ {tx}}

\* An item the transaction has read was written since.
Invalidate(tx) ==
  /\ tx.stale
  /\ flight' = flight \ {tx} /\ UNCHANGED ledger

Order(tx) == tx \in flight /\ (Commit(tx) \/ Invalidate(tx))

Next == \/ \E r \in Requests : Submit(r)
        \/ \E tx \in flight : Order(tx)

Spec == Init /\ [][Next]_vars

\* Workers take up their tuples and repeat their reports until they are
\* committed; the channel orders what it is sent.
FairSpec ==
  /\ Spec
  /\ \A r \in {"start", "success"} \X Tuples : WF_vars(Submit(r))
  /\ WF_vars(\E tx \in flight : Order(tx))

-----------------------------------------------------------------------------
(* Properties *)

\* Whatever overlaps, is sent twice or comes too late, the ledger changes as if
\* each handler ran alone on the state it finds at its commit: it reads, through
\* the ledger, all that its outcome depends on.
CommitsAreSerial ==
  [][ledger' # ledger =>
       \E r \in Requests : \E tx \in Endorse(ledger, r[1], r[2]) :
         ledger' = Over(tx.writes, ledger)]_vars

\* The last reports of two workers cannot both miss that the plan is finished,
\* nor does a report that overlaps with the addition of a tuple end it early.
CompletionExact ==
  LET ended == {ledger[k] : k \in ledger["plan"]}
  IN  /\ ended = {"done"} => ledger["state"] \in {"done"} \cup Closed
      /\ ledger["state"] = "done" => ended \subseteq {"done", "failed"}

\* A report that leaves its worker with tuples to do.
Intermediate(t) ==
  LET w == WorkerOf[t.key]
  IN  /\ t.op = "success" /\ w \in DOMAIN t.writes
      /\ t.writes[w].done # t.writes[w].tuple

\* "Checking the state of all the workers ... can lead to MVCC conflicts because
\* workers each write to their respective states concurrently. To mitigate this
\* issue ...": workers that have not finished never invalidate each other.
ReportsDoNotCollide ==
  \A t, u \in {t \in flight : Intermediate(t)} :
    WorkerOf[t.key] # WorkerOf[u.key] => t.reads \cap DOMAIN u.writes = {}

\* With requests repeated until they commit, no plan whose workers go on stays
\* open: none of its last reports is for ever invalidated by another, or lost.
PlanEnds == <>[](ledger["state"] \in {"done"} \cup Closed)

-----------------------------------------------------------------------------
(* The inductive invariant *)

\* The fields of a transaction, which reads and writes items of the ledger.
InFlight(t) ==
  /\ t = [op |-> t.op, key |-> t.key, copy |-> t.copy,
          reads |-> t.reads, writes |-> t.writes, stale |-> t.stale]
  /\ <<t.op, t.key>> \in Requests /\ t.stale \in BOOLEAN
  /\ t.reads \subseteq Items /\ DOMAIN t.writes \subseteq Items

\* A transaction nothing of whose reads was written since is what its handler
\* would do on the ledger as it is now.
Current(t) ==
  \E tx \in Endorse(ledger, t.op, t.key) : tx.reads = t.reads /\ tx.writes = t.writes

\* A report that leaves its worker with tuples to do touches its own items only.
OwnItems(t) ==
  /\ t.reads = {t.key, "plan", "state", WorkerOf[t.key]}
  /\ DOMAIN t.writes = {t.key, WorkerOf[t.key]}

FlightInductive ==
  \A t \in flight : /\ InFlight(t)
                    /\ ~t.stale => Current(t)
                    /\ Intermediate(t) => OwnItems(t)

\* What the ledger holds under each key.
TypeOK ==
  /\ DOMAIN ledger = Items
  /\ ledger["plan"] \subseteq Tuples
  /\ ledger["state"] \in {"todo", "doing", "done"} \cup Closed
  /\ \A k \in Tuples : IF k \in ledger["plan"]
                       THEN ledger[k] \in {"todo", "doing", "done", "failed"}
                       ELSE ledger[k] = Absent
  /\ \A w \in Workers : ledger[w] \in [done : Nat, tuple : Nat]

InPlan(L, statuses) == {k \in L["plan"] : L[k] \in statuses}

\* A worker's tuples are counted.  Those it has done are too while the plan is
\* open, with some that have failed after they were done.
CountersKept ==
  \A w \in Workers :
    /\ ledger[w].tuple = CountOf(w, ledger["plan"])
    /\ ledger["state"] \notin Closed =>
         /\ CountOf(w, InPlan(ledger, {"done"})) <= ledger[w].done
         /\ ledger[w].done <= CountOf(w, InPlan(ledger, {"done", "failed"}))

\* The state of an open plan follows its tuples.
StateFollows ==
  /\ ledger["state"] = "todo" => InPlan(ledger, {"doing"}) = {}
  /\ ledger["state"] = "done" => InPlan(ledger, {"todo", "doing"}) = {}
  /\ ledger["state"] \in {"todo", "doing"} /\ ledger["plan"] # {}
       => InPlan(ledger, {"todo", "doing", "failed"}) # {}

ChannelInductive == FlightInductive /\ TypeOK /\ CountersKept /\ StateFollows
=============================================================================
