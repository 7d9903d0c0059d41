---------------------------- MODULE MCModelWatch ----------------------------
(* ModelWatch for model checking: its constants are numbers and flags,      *)
(* given in the configuration file.                                         *)
EXTENDS ModelWatch

=============================================================================
