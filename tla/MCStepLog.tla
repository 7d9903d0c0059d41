----------------------------- MODULE MCStepLog -----------------------------
(***************************************************************************)
(* StepLog for TLC.                                                        *)
(***************************************************************************)
EXTENDS StepLog

=============================================================================
