------------------------------ MODULE Trickles ------------------------------
(***************************************************************************)
(* What the controller tells the project about the progress of an OpenIFS  *)
(* task: at certain steps a diagnostics program condenses the model output *)
(* into a file, and at every boundary a trickle carries the step and the   *)
(* contents of that file (cpdn_main.cpp, trickle_handler.cpp,              *)
(* external_diagnostics.cpp, run_process_with_timeout() of utils.cpp).     *)
(*                                                                         *)
(* The diagnostics program may be slow, hang, ignore SIGTERM or fail; the  *)
(* controller may be quit or killed, and is started again.                 *)
(***************************************************************************)
EXTENDS Integers

CONSTANTS
    TotalSteps,      \* total_steps
    Timestep,        \* timestep_seconds
    OutputInterval,  \* steps from one ICMSH file, the program's input, to the next
    RestartAhead,    \* by how much a restart may be ahead of the progress file
    MaxSessions      \* bound: controller processes of one task

ASSUME StepsAssumption == TotalSteps \in Nat \ {0}
ASSUME TimestepAssumption == Timestep \in Nat \ {0}
ASSUME OutputAssumption == OutputInterval \in Nat \ {0}
ASSUME BoundsAssumption ==
    RestartAhead \in Nat /\ MaxSessions \in Nat

Steps == 0 .. TotalSteps

NoData == -1

Torn == -2

\* Of trickle_data: the step the data is about, NoData or Torn.
DataFiles == Steps \cup {NoData, Torn}

-----------------------------------------------------------------------------
(* The boundaries.                                                         *)

\* get_trickle_frequency(): every 6% of the run, but at least a model day apart.
TrickleFrequency ==
    LET percent == (TotalSteps * 6) \div 100
        minimum == (24 * 3600) \div Timestep
    IN  IF percent < minimum \/ percent <= 0 THEN minimum ELSE percent

\* Mutant: only a step on the boundary counts.
OnTrickleBoundary(previous, step) ==
    TrickleFrequency > 0 /\ step > previous /\ step % TrickleFrequency = 0

\* crossed_trickle_boundary()
CrossedTrickleBoundary(previous, step) ==
    /\ TrickleFrequency > 0 /\ step > previous
    /\ step \div TrickleFrequency > previous \div TrickleFrequency

Boundaries == {b \in Steps : b > 0 /\ TrickleFrequency > 0 /\ b % TrickleFrequency = 0}

-----------------------------------------------------------------------------
VARIABLES
    (* the slot directory and the model *)
    log,             \* last step in ifs.stat
    trickle_data,
    progress,        \* last_completed_step in the progress file
    (* the diagnostics program *)
    helper,          \* none, running, done or failed (both unreaped)
    helper_step,     \* the step it was run for
    orphans,         \* steps of programs that have outlived their controller
    (* the controller *)
    pc,
    last_completed,  \* tstate.last_completed_step
    observed,        \* observed_step
    last_tasks,      \* last_step_tasks_step
    last_trickle,    \* tstate.last_trickle_step
    child_gone,
    session,
    (* BOINC and the outcome *)
    sent,            \* trickles accepted by boinc_send_trickle_up()
    finished,
    (* history *)
    failed,          \* trickles BOINC did not take: which step, which kind
    orphaned,        \* a program outlived its controller
    jumped           \* boundaries a restart took the controller over

slot == <<log, trickle_data, progress>>
program == <<helper, helper_step, orphans, orphaned>>
trickling == <<last_trickle, sent, failed>>
control == <<pc, last_completed, observed, last_tasks, child_gone, session, finished>>
vars == <<slot, program, trickling, control, jumped>>

PCs == {"down", "wait", "tasks", "helper", "timeup", "grace", "trickle", "save",
        "final", "ended"}

TypeOK ==
    /\ log \in Steps
    /\ trickle_data \in DataFiles
    /\ progress \in Steps
    /\ helper \in {"none", "running", "done", "failed"}
    /\ helper_step \in Steps
    /\ orphans \subseteq Steps
    /\ pc \in PCs
    /\ last_completed \in Steps /\ observed \in Steps
    /\ last_tasks \in Steps \cup {-1}
    /\ last_trickle \in Steps
    /\ child_gone \in BOOLEAN
    /\ session \in 0 .. MaxSessions
    /\ sent \subseteq [step : Steps, data : DataFiles]
    /\ failed \subseteq Steps \X {"progress", "final"}
    /\ finished \in BOOLEAN /\ orphaned \in BOOLEAN
    /\ jumped \subseteq Boundaries

Init ==
    /\ log = 0 /\ trickle_data = NoData /\ progress = 0
    /\ helper = "none" /\ helper_step = 0 /\ orphans = {} /\ orphaned = FALSE
    /\ pc = "down"
    /\ last_completed = 0 /\ observed = 0 /\ last_tasks = -1 /\ last_trickle = 0
    /\ child_gone = FALSE
    /\ session = 0
    /\ sent = {} /\ failed = {} /\ finished = FALSE
    /\ jumped = {}

-----------------------------------------------------------------------------
(* The model and the diagnostics program.                                  *)

ModelUp == pc \notin {"down", "ended", "final"}

\* The model logs further steps, while it runs; how many, the controller cannot tell.
ModelLogs ==
    /\ ModelUp /\ ~child_gone
    /\ log < TotalSteps
    /\ log' = log + 1
    /\ UNCHANGED <<trickle_data, progress, program, trickling, control, jumped>>

\* The program opens its output file, and has written it.
HelperOpens ==
    /\ helper = "running" /\ trickle_data # Torn
    /\ trickle_data' = Torn
    /\ UNCHANGED <<log, progress, program, trickling, control, jumped>>

HelperWrites ==
    /\ helper = "running" /\ trickle_data = Torn
    /\ trickle_data' = helper_step
    /\ helper' = "done"
    /\ UNCHANGED <<log, progress, helper_step, orphans, orphaned, trickling, control, jumped>>

\* It ends without a word, or fails, also on SIGTERM, if it does not ignore that.
HelperEnds ==
    /\ helper = "running"
    /\ \/ helper' = "failed"
       \/ helper' = "done" /\ trickle_data = NoData
    /\ UNCHANGED <<slot, helper_step, orphans, orphaned, trickling, control, jumped>>

\* A program left behind by an earlier controller goes on writing, and ends.
OrphanRuns ==
    \E step \in orphans :
        /\ \/ trickle_data' \in {Torn, step} /\ UNCHANGED orphans
           \/ orphans' = orphans \ {step} /\ UNCHANGED trickle_data
        /\ UNCHANGED <<log, progress, helper, helper_step, orphaned, trickling, control, jumped>>

-----------------------------------------------------------------------------
(* The start.  The model restarts from a step that may be behind or ahead  *)
(* of the progress file; last_trickle_step is not in that file.            *)

Start ==
    /\ pc = "down" /\ session < MaxSessions
    /\ session' = session + 1
    /\ \E restart \in Steps :
          /\ restart <= (IF session = 0 THEN 0 ELSE progress + RestartAhead)
          /\ restart <= log
          /\ last_completed' = restart /\ progress' = restart
          /\ jumped' = jumped \cup {b \in Boundaries : progress < b /\ b <= restart}
          /\ log' \in {0, restart, log}
    /\ last_tasks' = -1 /\ last_trickle' = 0
    /\ child_gone' = FALSE
    /\ pc' = "wait"
    /\ UNCHANGED <<trickle_data, program, observed, sent, failed, finished>>

-----------------------------------------------------------------------------
(* The main loop.                                                          *)

Observe ==
    /\ pc = "wait"
    /\ child_gone' \in BOOLEAN
    /\ observed' \in {last_completed, log}
    /\ pc' = IF observed' # last_completed THEN "tasks" ELSE "save"
    /\ UNCHANGED <<slot, program, trickling, last_completed, last_tasks, session, finished, jumped>>

DiagnosticsDue == observed > last_tasks /\ observed % OutputInterval = 0

\* do_step_tasks(), run_step_diagnostics(): old data is removed, the program forked.
RunDiagnostics ==
    /\ pc = "tasks" /\ DiagnosticsDue
    /\ trickle_data' = NoData
    /\ helper' = "running" /\ helper_step' = observed
    /\ last_tasks' = observed
    /\ pc' = "helper"
    /\ UNCHANGED <<log, progress, orphans, orphaned, trickling, last_completed, observed,
                   child_gone, session, finished, jumped>>

\* No ICMSH file: the step has none, or it was moved in an earlier session.
NoDiagnostics ==
    /\ pc = "tasks" /\ (~DiagnosticsDue \/ session > 1)
    /\ last_tasks' = IF observed > last_tasks THEN observed ELSE last_tasks
    /\ pc' = "trickle"
    /\ UNCHANGED <<slot, program, trickling, last_completed, observed, child_gone, session,
                   finished, jumped>>

Ended == helper \in {"done", "failed"}

\* Mutant: what a failed or interrupted program has left is kept.
DataKept(status) == trickle_data

\* The data file once the program is over: kept if it has succeeded.
DataLeft(status) == IF status = "done" THEN trickle_data ELSE NoData

LeaveDiagnostics(status) ==
    /\ helper' = "none"
    /\ trickle_data' = DataLeft(status)
    /\ pc' = "trickle"

\* run_process_with_timeout(): the program has ended and is reaped.
ReapHelper ==
    /\ pc = "helper" /\ Ended
    /\ LeaveDiagnostics(helper)
    /\ UNCHANGED <<log, progress, helper_step, orphans, orphaned, trickling, last_completed,
                   observed, last_tasks, child_gone, session, finished, jumped>>

\* It was alive when asked, and the time is up; it may end all the same.
TimeUp ==
    /\ pc = "helper" /\ helper = "running"
    /\ pc' = "timeup"
    /\ UNCHANGED <<slot, program, trickling, last_completed, observed, last_tasks, child_gone,
                   session, finished, jumped>>

\* terminate_child_process(): asked once more, then SIGTERM and a grace period.
Terminate ==
    /\ pc = "timeup"
    /\ IF Ended
       THEN LeaveDiagnostics("timed_out")
       ELSE pc' = "grace" /\ UNCHANGED <<helper, trickle_data>>
    /\ UNCHANGED <<log, progress, helper_step, orphans, orphaned, trickling, last_completed,
                   observed, last_tasks, child_gone, session, finished, jumped>>

\* Mutant: after the grace period the program is given up and left alone.
GiveUpGrace ==
    /\ pc = "grace"
    /\ trickle_data' = NoData
    /\ helper' = IF Ended THEN "none" ELSE helper
    /\ pc' = "trickle"
    /\ UNCHANGED <<log, progress, helper_step, orphans, orphaned, trickling, last_completed,
                   observed, last_tasks, child_gone, session, finished, jumped>>

\* Mutant: the program is waited for, however long it takes.
GraceWithoutKill ==
    /\ pc = "grace" /\ Ended
    /\ LeaveDiagnostics("timed_out")
    /\ UNCHANGED <<log, progress, helper_step, orphans, orphaned, trickling, last_completed,
                   observed, last_tasks, child_gone, session, finished, jumped>>

\* It ends in the grace period, or is killed and waited for.
GraceOver ==
    /\ pc = "grace"
    /\ LeaveDiagnostics("timed_out")
    /\ UNCHANGED <<log, progress, helper_step, orphans, orphaned, trickling, last_completed,
                   observed, last_tasks, child_gone, session, finished, jumped>>

\* process_trickle(): BOINC takes the trickle or fails; it is not tried again.
SendTrickle(step, kind) ==
    \/ /\ sent' = sent \cup {[step |-> step, data |-> trickle_data]}
       /\ last_trickle' = step
       /\ UNCHANGED failed
    \/ /\ failed' = failed \cup {<<step, kind>>}
       /\ UNCHANGED <<sent, last_trickle>>

ProgressTrickle ==
    /\ pc = "trickle"
    /\ IF CrossedTrickleBoundary(last_completed, observed)
       THEN SendTrickle(observed, "progress")
       ELSE UNCHANGED trickling
    /\ last_completed' = observed
    /\ pc' = "save"
    /\ UNCHANGED <<slot, program, observed, last_tasks, child_gone, session, finished, jumped>>

\* Mutant: the step to be done next is recorded.
SaveNextStep ==
    /\ pc = "save"
    /\ progress' = last_completed + 1
    /\ pc' = IF child_gone THEN "final" ELSE "wait"
    /\ UNCHANGED <<log, trickle_data, program, trickling, last_completed, observed,
                   last_tasks, child_gone, session, finished, jumped>>

Save ==
    /\ pc = "save"
    /\ progress' = last_completed
    /\ pc' = IF child_gone THEN "final" ELSE "wait"
    /\ UNCHANGED <<log, trickle_data, program, trickling, last_completed, observed,
                   last_tasks, child_gone, session, finished, jumped>>

\* Mutant: a trickle sent at some time is thought to be enough.
FinalTrickleNeverDue == last_trickle = 0

\* The last step has not been trickled yet.
FinalTrickleDue == last_completed > last_trickle

FinalTrickle ==
    /\ pc = "final"
    /\ IF FinalTrickleDue THEN SendTrickle(last_completed, "final") ELSE UNCHANGED trickling
    /\ pc' = "ended" /\ finished' = TRUE
    /\ UNCHANGED <<slot, program, last_completed, observed, last_tasks, child_gone, session, jumped>>

-----------------------------------------------------------------------------

\* BOINC asks the controller to quit in a wait, or it is killed anywhere.
Interrupt ==
    /\ pc \notin {"down", "ended"}
    /\ pc' = "down"
    /\ orphans' = IF helper = "running" THEN orphans \cup {helper_step} ELSE orphans
    /\ orphaned' = (orphaned \/ helper # "none")
    /\ helper' = "none"
    /\ UNCHANGED <<slot, helper_step, trickling, last_completed, observed, last_tasks,
                   child_gone, session, finished, jumped>>

Over ==
    /\ pc = "ended" \/ (pc = "down" /\ session = MaxSessions)
    /\ UNCHANGED vars

Controller ==
    \/ Start \/ Observe \/ RunDiagnostics \/ NoDiagnostics \/ ReapHelper \/ TimeUp
    \/ Terminate \/ GraceOver \/ ProgressTrickle \/ Save \/ FinalTrickle

Next ==
    \/ ModelLogs \/ HelperOpens \/ HelperWrites \/ HelperEnds \/ OrphanRuns
    \/ Controller \/ Interrupt \/ Over

Spec == Init /\ [][Next]_vars

\* The controller is scheduled and its clock runs.
FairSpec == Spec /\ WF_vars(Controller)

-----------------------------------------------------------------------------
(* Properties.                                                             *)

Attempted == {t.step : t \in sent} \cup {a[1] : a \in failed}

\* Whenever a step has been dealt with, each boundary up to it has been reported,
\* by a trickle at the boundary or at the first step seen after it, though the
\* controller skips steps, reads an old log after a restart, or is restarted; only a
\* boundary between the progress file and a restart file ahead of it is passed over.
BoundariesReported ==
    pc \in {"wait", "save", "final", "ended"} =>
        \A b \in Boundaries \ jumped :
            b <= last_completed => \E step \in Attempted : b <= step

\* When the task is finished the project has been told of its last step, also when
\* BOINC did not take an earlier trickle; only the last one has no second chance.
LastStepReported ==
    finished =>
        \/ last_completed = 0
        \/ \E t \in sent : t.step >= last_completed
        \/ <<last_completed, "final">> \in failed

\* A trickle never carries what a diagnostics program had only begun to write or
\* had written before it failed, unless a program outlived its controller.
DataGenuine == orphaned \/ \A t \in sent : t.data # Torn

\* No diagnostics program is left, alive or unreaped, once its time is up or it is
\* over; the next one finds no rival.
NoHelperLeft == pc \notin {"helper", "timeup", "grace"} => helper = "none"

\* The controller comes back from a diagnostics program that hangs and ignores
\* SIGTERM, for it stays deaf to the client until then.
DiagnosticsEnd == [](pc = "helper" => <>(pc \notin {"helper", "timeup", "grace"}))

=============================================================================
