------------------------- MODULE ReportTransaction -------------------------
(***************************************************************************)
(* Inside the transaction of a logSuccess or logFail of a training tuple:  *)
(* the handler's own status update, then the recursive walk over the       *)
(* children, one child a step, as a stack of calls.                        *)
(*                                                                         *)
(* The variables of Workflow are the committed ledger.  The handler reads  *)
(* objects through its own writes (LedgerDB.Get, transactionState) but     *)
(* walks indexes of the committed state only (LedgerDB.GetIndexKeys), so   *)
(* view holds the objects as the transaction sees them.  A commit          *)
(* publishes the view, an error discards it.  Fabric serialises the        *)
(* transactions, so no other one runs meanwhile.                           *)
(*                                                                         *)
(* This module implements Workflow, where a report is one step.            *)
(***************************************************************************)
EXTENDS WorkflowProperties, Sequences

VARIABLES
  handler,   \* the handler that is running: "none", "success" or "fail"
  subject,   \* the tuple it reports on
  agenda,    \* the calls it is in, innermost first; each with the children left
  view       \* the objects as it sees them

txVars == <<handler, subject, agenda, view>>
allVars == <<vars, txVars>>

NoSubject == {}
NoView == <<>>

Committed == [status |-> status, index |-> index, planStatus |-> planStatus,
              doneCount |-> doneCount, models |-> models, reported |-> reported,
              notified |-> notified, dropped |-> dropped]

\* The operators of Workflow, evaluated on what the transaction sees.
Own == INSTANCE Workflow WITH
         status   <- view.status,   index     <- view.index,
         planStatus <- view.planStatus, doneCount <- view.doneCount,
         models   <- view.models,   reported  <- view.reported,
         notified <- view.notified, dropped   <- view.dropped

TxInit == Init /\ handler = "none" /\ subject = NoSubject /\ agenda = <<>> /\ view = NoView

Running == handler # "none"

-----------------------------------------------------------------------------
(* The calls *)

\* The children of a tuple are read off the index when the call begins.
UpdateTraintupleChildren(k, updated) ==
  [call |-> "train", of |-> k, left |-> TrainChildren(k), updated |-> updated]

UpdateTesttupleChildren(k) ==
  [call |-> "test", of |-> k, left |-> TestChildren(k), updated |-> {}]

AddModel == [call |-> "model", of |-> subject, left |-> {}, updated |-> {}]

Top == Head(agenda)

\* The innermost call has dealt with the child c.
Visited(c) == [Top EXCEPT !.left = @ \ {c}, !.updated = @ \cup {c}]

\* commitStatusUpdate of c on an object read in this transaction, with the index
\* and the plan it belongs to.
Written(c, s) ==
  [view EXCEPT !.status[c] = s,
               !.index = (@ \ {<<c, Own!Effective(c)>>}) \cup {<<c, s>>},
               !.planStatus = Own!PlansAfter({c}, s),
               !.notified = IF s = "todo" THEN @ \cup {c} ELSE @]

-----------------------------------------------------------------------------
(* logSuccess*, logFail* *)

\* logSuccess up to its own commitStatusUpdate: the out-model, the status, and
\* the plan with its counters.  Filling the output comes later, but whether that
\* is possible depends on nothing the handler writes.
BeginSuccess(n, k) ==
  /\ Authorized(n, k) /\ ~Running
  /\ k \in Traintuples => CanFill(k)
  /\ Effective(k) = "done" \/ CheckUpdateTuple(Effective(k), "done")
  /\ handler' = "success" /\ subject' = k
  /\ view' = [Committed EXCEPT
                !.status[k] = "done",
                !.index = (@ \ {<<k, Effective(k)>>}) \cup {<<k, "done">>},
                !.planStatus = PlanStatusAfterDone(k),
                !.doneCount = DoneCountAfter(k),
                !.models = ModelsAfterDone(k),
                !.reported = @ \cup {k},
                !.dropped = IF Completes(k) THEN @ \cup ModelsOf(plan[k]) ELSE @]
  /\ agenda' = << [AddModel EXCEPT !.of = k],
                  UpdateTraintupleChildren(k, {}), UpdateTesttupleChildren(k) >>
  /\ UNCHANGED vars

\* A plausible bug: only the tests of a failed tuple learn of its failure.
FailAgendaOfTests(k) == << UpdateTesttupleChildren(k) >>

\* "Do not propagate failure if we are in a compute plan"
FailAgenda(k) ==
  IF plan[k] # NoPlan THEN <<>>
  ELSE << UpdateTesttupleChildren(k), UpdateTraintupleChildren(k, {}) >>

BeginFail(n, k) ==
  /\ Authorized(n, k) /\ ~Running
  /\ k \in Traintuples => CanFill(k)
  /\ handler' = "fail" /\ subject' = k
  /\ view' = [Committed EXCEPT
                !.status[k] = "failed",
                !.index = (@ \ {<<k, Effective(k)>>}) \cup {<<k, "failed">>},
                !.planStatus = IF Effective(k) = "failed" THEN @
                               ELSE PlansAfter({k}, "failed")]
  /\ agenda' = FailAgenda(k)
  /\ UNCHANGED vars

-----------------------------------------------------------------------------
(* The walk *)

\* TryAddIntermediaryModel, on the plan and the users of the models as written.
TryAddModel ==
  /\ Running /\ agenda # <<>> /\ Top.call = "model"
  /\ agenda' = Tail(agenda)
  /\ IF plan[subject] \notin CleanPlans THEN UNCHANGED view
     ELSE LET p == plan[subject]
              w == Worker[subject]
              used == {m \in view.models[p][w] :
                         \E c \in Children(m) : Own!Effective(c) # "done"}
              added == {m \in {subject} : TrainChildren(m) # {}}
          IN  view' = [view EXCEPT !.models[p][w] = used \cup added,
                                   !.dropped = @ \cup (view.models[p][w] \ used)]
  /\ UNCHANGED <<vars, handler, subject>>

\* A plausible bug: a child that was canceled on the way is not skipped.
SkippedUnlessFailed(c) == c \in Top.updated \/ Own!Effective(c) = "failed"

Skipped(c) == c \in Top.updated \/ Own!Effective(c) \in Closed

\* A plausible bug: the in-models are looked up where this transaction's own
\* writes do not show, and the tuple just done is not excepted.
ReadyAsCommitted(c) == \A m \in parents[c] : Effective(m) = "done"

\* IsReady
Ready(c) == \A m \in parents[c] \ {Top.of} : Own!Effective(m) = "done"

\* One iteration of UpdateTraintupleChildren.
VisitTrainChild(c) ==
  /\ Running /\ agenda # <<>> /\ Top.call = "train" /\ c \in Top.left
  /\ \/ /\ Skipped(c)
        /\ agenda' = <<[Top EXCEPT !.left = @ \ {c}]>> \o Tail(agenda)
        /\ UNCHANGED view
     \/ /\ ~Skipped(c) /\ Own!Effective(c) = "waiting" /\ handler = "success"
        /\ view' = IF Ready(c) THEN Written(c, "todo") ELSE view
        /\ agenda' = <<Visited(c)>> \o Tail(agenda)
     \/ /\ ~Skipped(c) /\ Own!Effective(c) = "waiting" /\ handler = "fail"
        /\ view' = Written(c, "failed")
        /\ agenda' = << UpdateTesttupleChildren(c),
                        UpdateTraintupleChildren(c, Visited(c).updated),
                        Visited(c) >> \o Tail(agenda)
  /\ UNCHANGED <<vars, handler, subject>>

\* The status UpdateTesttupleChildren gives the testtuples.
TestStatus == IF handler = "success" THEN "todo" ELSE "failed"

\* One iteration of UpdateTesttupleChildren.
VisitTestChild(t) ==
  /\ Running /\ agenda # <<>> /\ Top.call = "test" /\ t \in Top.left
  /\ agenda' = <<Visited(t)>> \o Tail(agenda)
  /\ \/ Own!Effective(t) \in {"canceled", TestStatus} /\ UNCHANGED view
     \/ /\ Own!Effective(t) \notin {"canceled", TestStatus}
        /\ CheckUpdateTuple(Own!Effective(t), TestStatus)
        /\ view' = Written(t, TestStatus)
  /\ UNCHANGED <<vars, handler, subject>>

Return ==
  /\ Running /\ agenda # <<>> /\ Top.call # "model" /\ Top.left = {}
  /\ agenda' = Tail(agenda)
  /\ UNCHANGED <<vars, handler, subject, view>>

\* A child the innermost call cannot deal with.
Refuses(c) ==
  \/ Top.call = "train" /\ ~Skipped(c) /\ Own!Effective(c) # "waiting"
  \/ /\ Top.call = "test" /\ Own!Effective(c) \notin {"canceled", TestStatus}
     /\ ~CheckUpdateTuple(Own!Effective(c), TestStatus)

EndTransaction == handler' = "none" /\ subject' = NoSubject /\ agenda' = <<>> /\ view' = NoView

\* The handler returns an error: nothing of it reaches the ledger.
Abort ==
  /\ Running /\ agenda # <<>> /\ \E c \in Top.left : Refuses(c)
  /\ EndTransaction
  /\ UNCHANGED vars

Commit ==
  /\ Running /\ agenda = <<>>
  /\ status' = view.status         /\ index' = view.index
  /\ planStatus' = view.planStatus /\ doneCount' = view.doneCount
  /\ models' = view.models         /\ reported' = view.reported
  /\ notified' = view.notified     /\ dropped' = view.dropped
  /\ EndTransaction
  /\ UNCHANGED <<parents, plan, rank, tasks, tupleCount, batchVars>>

-----------------------------------------------------------------------------
TrainReports == \E n \in Nodes, k \in Trains : BeginSuccess(n, k) \/ BeginFail(n, k)

Walk == TryAddModel \/ Return \/ Abort \/ Commit
          \/ \E c \in Keys : VisitTrainChild(c) \/ VisitTestChild(c)

\* The handlers that do not walk, in one step.
OtherHandlers ==
  /\ ~Running
  /\ Clients \/ Starts \/ \E n \in Nodes, k \in Testtuples :
                             LogSuccessTest(n, k) \/ LogFailTest(n, k)
  /\ UNCHANGED txVars

TxNext == OtherHandlers \/ TrainReports \/ Walk

TxSpec == TxInit /\ [][TxNext]_allVars

-----------------------------------------------------------------------------
(* The inductive invariant: what a running handler has done so far *)

\* In-models never lead back to where they started.
Grounded == \A S \in SUBSET Keys : S # {} => \E c \in S : parents[c] \cap S = {}

Calls == [call : {"train", "test", "model"}, of : Keys, left : SUBSET Keys,
          updated : SUBSET Keys]

Views == [status : [Keys -> Statuses \cup {Absent}], index : SUBSET (Keys \X Statuses),
          planStatus : [Plans -> PlanStatuses \cup {Absent}],
          doneCount : [Plans -> [Nodes -> Nat]], models : [Plans -> [Nodes -> SUBSET Keys]],
          reported : SUBSET Keys, notified : SUBSET Keys, dropped : SUBSET Keys]

TxTypeOK ==
  /\ handler \in {"none", "success", "fail"} /\ agenda \in Seq(Calls)
  /\ Running => /\ Idle /\ subject \in Trains \cap Registered /\ view \in Views
                /\ subject \in Traintuples => CanFill(subject)

\* The tuples written so far, but for the subject.
Changed == {c \in Keys \ {subject} : view.status[c] # status[c]}

\* Some call on m has not come to its child c yet.
Pending(call, m, c) == \E i \in 1..Len(agenda) :
  agenda[i].call = call /\ agenda[i].of = m /\ c \in agenda[i].left

\* The tuple and the children moved to todo so far are written as one step would.
SuccessWritten == LET k == subject IN
  /\ view.status = [c \in Keys |-> IF c = k THEN "done"
                                  ELSE IF c \in Changed THEN "todo" ELSE status[c]]
  /\ view.index = (index \ ({<<k, Effective(k)>>} \cup {<<c, "waiting">> : c \in Changed}))
                     \cup {<<k, "done">>} \cup {<<c, "todo">> : c \in Changed}
  /\ view.planStatus = [p \in Plans |->
                          IF \E c \in Changed : plan[c] = p
                          THEN UpdateState(PlanStatusAfterDone(k)[p], "todo")
                          ELSE PlanStatusAfterDone(k)[p]]
  /\ view.reported = reported \cup {k} /\ view.notified = notified \cup Changed
  /\ view.doneCount = DoneCountAfter(k)

\* The lists of models before (all) and after TryAddIntermediaryModel.
ModelsWritten == LET k      == subject
                     all    == dropped \cup (IF Completes(k) THEN ModelsOf(plan[k]) ELSE {})
                     listed == ModelsAfterDone(k)[plan[k]][Worker[k]]
                     used   == {m \in listed : InUse(m, k)}
                     added  == {m \in {k} : TrainChildren(m) # {}}
  IN  IF Len(agenda) = 3 \/ plan[k] \notin CleanPlans
      THEN view.models = ModelsAfterDone(k) /\ view.dropped = all
      ELSE /\ view.models = [ModelsAfterDone(k) EXCEPT ![plan[k]][Worker[k]] = used \cup added]
           /\ view.dropped = all \cup (listed \ used)

\* The three calls of logSuccess, the outermost one last.
SuccessCalls == LET k == subject IN
  /\ Len(agenda) <= 3
  /\ \A i \in 1..Len(agenda) :
       /\ agenda[i].of = k
       /\ agenda[i].call = "test" <=> i = Len(agenda)
       /\ agenda[i].call = "train" <=> i = Len(agenda) - 1
       /\ agenda[i].call = "model" => agenda[i].left = {}
       /\ agenda[i].call = "test" => agenda[i].left \subseteq TestChildren(k) \ Changed
       /\ agenda[i].call = "train" => /\ agenda[i].left \subseteq TrainChildren(k) \ Changed
                                      /\ agenda[i].updated \cap agenda[i].left = {}

\* What they have dealt with is accepted, and woken if it is to be.
SuccessSettled == LET k == subject IN
  /\ \A c \in TrainChildren(k) : \/ Pending("train", k, c)
                                 \/ /\ Effective(c) \in Closed \cup {"waiting"}
                                    /\ c \in Woken(k) => c \in Changed
  /\ \A c \in TestChildren(k) : \/ Pending("test", k, c)
                                \/ /\ \/ Effective(c) \in {"canceled", "todo"}
                                      \/ CheckUpdateTuple(Effective(c), "todo")
                                   /\ c \in WokenTests(k) => c \in Changed

SuccessUnderWay ==
  /\ Effective(subject) = "done" \/ CheckUpdateTuple(Effective(subject), "done")
  /\ Changed \subseteq Woken(subject) \cup WokenTests(subject)
  /\ SuccessWritten /\ ModelsWritten /\ SuccessCalls /\ SuccessSettled

FailWritten ==
  /\ view.status = [c \in Keys |-> IF c \in {subject} \cup Changed THEN "failed" ELSE status[c]]
  /\ view.index = Reindex({subject} \cup Changed, "failed")
  /\ view.doneCount = doneCount /\ view.models = models /\ view.reported = reported
  /\ view.notified = notified /\ view.dropped = dropped

\* The walk of logFail outside plans: the training tuples it has failed, and
\* the subject, whose children are the ones it has to deal with.
FailedTrains == Changed \cap Trains
Failing == FailedTrains \cup {subject}

FailCalls == \A i \in 1..Len(agenda) :
  /\ agenda[i].of \in Failing /\ agenda[i].call # "model"
  /\ agenda[i].call = "train" => /\ agenda[i].left \subseteq TrainChildren(agenda[i].of)
                                 /\ agenda[i].updated \subseteq FailedTrains
  /\ agenda[i].call = "test" => agenda[i].left \subseteq TestChildren(agenda[i].of)

\* What it has not come to yet is in a call; the rest has failed, or is closed.
FailSettled == \A m \in Failing :
  /\ \A c \in TrainChildren(m) : \/ Pending("train", m, c)
                                 \/ c \in Failing \/ EffectiveIn(view.planStatus, c) \in Closed
  /\ \A t \in TestChildren(m) : \/ Pending("test", m, t)
                                \/ t \in Changed \/ EffectiveIn(view.planStatus, t) \in Closed

\* What it has failed waited for something it failed before, and read as waiting
\* at that moment.
FailUnderWay ==
  /\ view.planStatus = PlansAfter(FailedTrains, "failed")
  /\ \A c \in FailedTrains : Effective(c) = "waiting" /\ parents[c] \cap Failing # {}
  /\ \A c, d \in FailedTrains : /\ c # d /\ plan[c] = plan[d] /\ plan[c] # NoPlan
                                => planStatus[plan[c]] # "doing"
  /\ \A t \in Changed \ Trains : /\ parents[t] \cap Failing # {}
                                 /\ EffectiveIn(view.planStatus, t) # "canceled"
  /\ FailCalls /\ FailSettled

\* In a plan nothing is left to do once the tuple is written.
FailInPlan ==
  /\ agenda = <<>> /\ Changed = {}
  /\ view.planStatus = IF Effective(subject) = "failed" THEN planStatus
                       ELSE PlansAfter({subject}, "failed")

ReportInductive ==
  /\ Inductive /\ ReportedEnded /\ Grounded /\ TxTypeOK
  /\ handler = "success" => SuccessUnderWay
  /\ handler = "fail" => /\ FailWritten
                         /\ plan[subject] = NoPlan => FailUnderWay
                         /\ plan[subject] # NoPlan => FailInPlan

-----------------------------------------------------------------------------
(* Properties *)

\* A report, however its recursive walk goes and in whatever order it meets the
\* children, does to the committed ledger what one step of Workflow does.
ReportsAreAtomicSteps == Spec

\* A report is lost only for a child of the tuple itself, never for something
\* the recursion ran into on its way; the report on a tuple that is doing only
\* for one of its testtuples.
LostForDirectChild ==
  [][Abort => /\ Top.of = subject
              /\ status[subject] = "doing" => Top.call = "test"]_allVars
=============================================================================
