--------------------------- MODULE DurableRecord ---------------------------
(***************************************************************************)
(* What the rest of the controller expects of the progress file: a record  *)
(* that is replaced as a whole.  Its versions are numbered in the order in *)
(* which they were requested.  A reader finds the version stored last; a   *)
(* crash of the host may take the record back, never to a version older    *)
(* than the last one whose storing was confirmed.                          *)
(***************************************************************************)
EXTENDS Integers

VARIABLES
    requested,    \* the last version handed over for storing
    stored,       \* the version a reader finds; 0 when there is no record
    confirmed     \* the last version reported as stored

vars == <<requested, stored, confirmed>>

Init == requested = 0 /\ stored = 0 /\ confirmed = 0

Request == requested' = requested + 1 /\ UNCHANGED <<stored, confirmed>>

Store == stored' = requested /\ UNCHANGED <<requested, confirmed>>

Confirm ==
    /\ stored = requested
    /\ confirmed' = stored
    /\ UNCHANGED <<requested, stored>>

FallBack ==
    /\ stored' \in confirmed .. stored
    /\ UNCHANGED <<requested, confirmed>>

Next == Request \/ Store \/ Confirm \/ FallBack

Spec == Init /\ [][Next]_vars

=============================================================================
