--------------------------- MODULE UploadContract ---------------------------
(***************************************************************************)
(* What the controller promises BOINC about the result uploads of a task:  *)
(* the result template of the work unit lists Promised upload files,       *)
(* upload_file_0.zip, upload_file_1.zip, ..., and the controller has to    *)
(* hand over each of them before the task may finish.  An upload may be    *)
(* handed over again after a restart; that does not change the set of      *)
(* numbers sent.  After the last of them it may hand over Surplus more,    *)
(* which BOINC does not expect.                                            *)
(***************************************************************************)
EXTENDS Integers

CONSTANTS
    Promised,   \* the number of upload files
    Surplus     \* how many numbers beyond them may be handed over as well

VARIABLES
    sent,      \* upload numbers handed to BOINC
    verdict    \* is the task open, finished or failed?

vars == <<sent, verdict>>

Init == sent = {} /\ verdict = "open"

\* The next upload is handed over: all before it have been.
Send ==
    /\ verdict = "open"
    /\ \E n \in 0 .. Promised + Surplus - 1 :
          /\ 0 .. n - 1 \subseteq sent
          /\ sent' = sent \cup {n}
    /\ UNCHANGED verdict

\* The task is finished, with every upload it promised.
Complete ==
    /\ verdict = "open"
    /\ 0 .. Promised - 1 \subseteq sent
    /\ verdict' = "finished"
    /\ UNCHANGED sent

\* The task fails, whatever has been sent.
Fail ==
    /\ verdict = "open"
    /\ verdict' = "failed"
    /\ UNCHANGED sent

Next == Send \/ Complete \/ Fail

Spec == Init /\ [][Next]_vars

=============================================================================
