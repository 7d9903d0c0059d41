---------------------------- MODULE MCController ----------------------------
(* Controller for model checking: the kinds of request of each run are sets *)
(* of strings, given in the configuration files.                            *)
EXTENDS Controller

=============================================================================
