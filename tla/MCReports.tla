----------------------------- MODULE MCReports -----------------------------
(* Reports for model checking: the steps the log shows are given as a set   *)
(* in the configuration files.                                              *)
EXTENDS Reports

=============================================================================
