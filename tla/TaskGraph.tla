----------------------------- MODULE TaskGraph -----------------------------
(***************************************************************************)
(* What the life cycle of tuples promises to the organisations that share  *)
(* it, without plans, workers, statuses or indexes: a graph of tasks that  *)
(* only grows, in which a task becomes runnable exactly when the last of   *)
(* the tasks it needs is delivered, and never once it has been abandoned.  *)
(* Workflow implements it (module WorkflowRefinement).                     *)
(***************************************************************************)
CONSTANT Tasks

VARIABLES
  phase,      \* [Tasks -> Phases]
  needs,      \* [Tasks -> the tasks it takes the results of]
  results     \* the tasks whose result has been delivered

graph == <<phase, needs, results>>

Phases == {"unknown", "pending", "runnable", "running", "delivered", "abandoned"}

Among(ph) == {k \in Tasks : phase[k] = ph}

Init ==
  /\ phase = [k \in Tasks |-> "unknown"]
  /\ needs = [k \in Tasks |-> {}]
  /\ results = {}

\* The tasks S become abandoned, the task k takes the phase ph.
Move(k, ph, S) ==
  phase' = [c \in Tasks |-> IF c = k THEN ph
                            ELSE IF c \in S THEN "abandoned" ELSE phase[c]]

\* A new task needs known tasks.  It is runnable at once when all of them are
\* delivered, abandoned at once when one of them is.  Otherwise it is pending,
\* or stillborn; one born abandoned may take the pending tasks S with it.
Submit(k, in) ==
  /\ phase[k] = "unknown" /\ in \subseteq Tasks \ Among("unknown")
  /\ needs' = [needs EXCEPT ![k] = in]
  /\ \E ph \in {"pending", "runnable", "abandoned"} :
       /\ (ph = "runnable") <=> (in \subseteq Among("delivered"))
       /\ in \cap Among("abandoned") # {} => ph = "abandoned"
       /\ \E S \in SUBSET Among("pending") :
            Move(k, ph, S) /\ (S # {} => ph = "abandoned")
  /\ UNCHANGED results

Start(k) ==
  /\ phase[k] = "runnable"
  /\ phase' = [phase EXCEPT ![k] = "running"]
  /\ UNCHANGED <<needs, results>>

\* The pending tasks for which k was all that was missing.
Released(k) ==
  {c \in Among("pending") : k \in needs[c] /\ needs[c] \ {k} \subseteq Among("delivered")}

Deliver(k) ==
  /\ phase[k] = "running"
  /\ phase' = [c \in Tasks |-> IF c = k THEN "delivered"
                               ELSE IF c \in Released(k) THEN "runnable" ELSE phase[c]]
  /\ results' = results \cup {k}
  /\ UNCHANGED needs

\* The tasks S are given up together: pending ones, those that need another of
\* them, and at most one task for a reason of its own.
Abandon(S) ==
  /\ S \cap Among("unknown") = {}
  /\ \E k \in Tasks : \A c \in S \ {k} : phase[c] = "pending" \/ needs[c] \cap S # {}
  /\ phase' = [c \in Tasks |-> IF c \in S THEN "abandoned" ELSE phase[c]]
  /\ UNCHANGED <<needs, results>>

Next ==
  \/ \E k \in Tasks, in \in SUBSET Tasks : Submit(k, in)
  \/ \E k \in Tasks : Start(k) \/ Deliver(k)
  \/ \E S \in SUBSET Tasks : Abandon(S)

Spec == Init /\ [][Next]_graph
=============================================================================
