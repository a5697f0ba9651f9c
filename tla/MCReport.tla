------------------------------ MODULE MCReport ------------------------------
(***************************************************************************)
(* Instances of ReportTransaction for TLC, with the constants of           *)
(* MCWorkflow.                                                             *)
(***************************************************************************)
EXTENDS ReportTransaction, MCWorkflow

\* The larger instance: every tuple is there before the first one is started,
\* reports are on tuples that were started, and testtuples are not started.
PreparedSpec ==
  /\ TxInit
  /\ [][/\ TxNext
        /\ Registered' # Registered =>
             \A k \in Keys : status[k] \in {Absent, "waiting", "todo"}
        /\ Running' => status[subject'] \in {"doing", "done"}
        /\ \A t \in Testtuples : status'[t] # "doing"]_allVars
=============================================================================
