---------------------------- MODULE MCTrickles -----------------------------
(***************************************************************************)
(* Trickles for TLC.                                                       *)
(***************************************************************************)
EXTENDS Trickles

=============================================================================
