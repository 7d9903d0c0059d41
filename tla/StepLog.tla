------------------------------ MODULE StepLog ------------------------------
(***************************************************************************)
(* How the controller follows an OpenIFS model: by the last line of        *)
(* ifs.stat, which fread_last_line() reads from where it stopped before    *)
(* and caches (utils.cpp, oifs_utils.cpp, oifs_control.cpp), and by the    *)
(* restart file rcf, which the next start compares with the progress file  *)
(* (control_start.cpp).                                                    *)
(*                                                                         *)
(* The model replaces the log when it starts, which the controller may     *)
(* notice or not; either process may die at any moment.  A line is written *)
(* as a whole, and all lines are of one length.                            *)
(***************************************************************************)
EXTENDS Integers, Sequences

CONSTANTS
    TotalSteps,       \* total_steps
    RestartInterval,  \* restart_interval, in steps
    MaxLag,           \* how far the model's log may be ahead of the progress file
    CloseStep,        \* the number in the log's closing line
    MaxSessions       \* bound: controller processes of one task

ASSUME StepsAssumption ==
    /\ TotalSteps \in Nat \ {0} /\ RestartInterval \in Nat \ {0}
    /\ CloseStep \in Nat /\ CloseStep >= TotalSteps
ASSUME LagAssumption == MaxLag \in 1 .. RestartInterval + 1
ASSUME BoundsAssumption == MaxSessions \in Nat

Steps == 0 .. TotalSteps

Missing == -1

Lines == [word : {"", "CNT3", "STEPO", "CNT0"}, step : Int]

NoLine == [word |-> "", step |-> Missing]

FirstLine == [word |-> "CNT3", step |-> -999]

StepLine(step) == [word |-> "STEPO", step |-> step]

CloseLine == [word |-> "CNT0", step |-> CloseStep]

VARIABLES
    (* the slot directory *)
    stat,            \* the lines of ifs.stat
    rcf,             \* step in rcf, or Missing
    progress,        \* last_completed_step in the progress file, or Missing
    (* the model process *)
    model,           \* none, starting (the log is not open yet), running, exited
    model_step,
    (* the controller *)
    pc,
    last_offset,     \* static variables of fread_last_line()
    last_line,
    last_completed,  \* tstate.last_completed_step
    observed,        \* observed_step
    child_gone,
    success,         \* tstate.model_success
    session,
    (* history *)
    replaced         \* lines this controller had read of a log that was replaced

slot == <<stat, rcf, progress>>
child == <<model, model_step>>
reader == <<last_offset, last_line>>
control == <<pc, reader, last_completed, observed, child_gone, success, session>>
vars == <<slot, child, control, replaced>>

TypeOK ==
    /\ stat \in Seq(Lines) /\ Len(stat) <= TotalSteps + 2
    /\ rcf \in Steps \cup {Missing} /\ progress \in Steps \cup {Missing}
    /\ model \in {"none", "starting", "running", "exited"} /\ model_step \in Steps
    /\ pc \in {"down", "decide", "record", "launch", "wait", "read", "save", "final",
               "done", "refused"}
    /\ last_offset \in 0 .. TotalSteps + 2 /\ last_line \in Lines
    /\ last_completed \in Steps /\ observed \in Steps
    /\ {child_gone, success} \subseteq BOOLEAN
    /\ session \in 0 .. MaxSessions
    /\ replaced \in 0 .. TotalSteps + 2

Init ==
    /\ stat = <<>> /\ rcf = Missing /\ progress = Missing
    /\ model = "none" /\ model_step = 0
    /\ pc = "down"
    /\ last_offset = 0 /\ last_line = NoLine
    /\ last_completed = 0 /\ observed = 0
    /\ child_gone = FALSE /\ success = FALSE
    /\ session = 0
    /\ replaced = 0

LastLine == IF stat = <<>> THEN NoLine ELSE stat[Len(stat)]

Live == model \in {"starting", "running"}

-----------------------------------------------------------------------------
(* The model.  It writes the restart file of a step before it logs the     *)
(* step, and a closing line after the last one.                            *)

\* The step in the progress file, now or once the iteration of the loop is over.
RecordedStep == IF pc = "save" /\ observed < progress THEN observed ELSE progress

RestartDue == (model_step + 1) % RestartInterval = 0 /\ rcf # model_step + 1

ModelOpensLog ==
    /\ model = "starting"
    /\ model' = "running"
    /\ stat' = <<FirstLine>>
    /\ replaced' = last_offset
    /\ UNCHANGED <<rcf, progress, model_step, control>>

ModelWritesRestart ==
    /\ model = "running" /\ model_step < TotalSteps /\ RestartDue
    /\ rcf' = model_step + 1
    /\ UNCHANGED <<stat, progress, child, control, replaced>>

ModelLogsStep ==
    /\ model = "running" /\ model_step < TotalSteps /\ ~RestartDue
    /\ model_step < RecordedStep + MaxLag
    /\ model_step' = model_step + 1
    /\ stat' = Append(stat, StepLine(model_step + 1))
    /\ UNCHANGED <<rcf, progress, model, control, replaced>>

ModelCloses ==
    /\ model = "running" /\ model_step = TotalSteps /\ LastLine # CloseLine
    /\ stat' = Append(stat, CloseLine)
    /\ UNCHANGED <<rcf, progress, child, control, replaced>>

\* The model is done, crashes, is killed or misses its controller.
ModelExits ==
    /\ Live
    /\ model' = "exited"
    /\ UNCHANGED <<slot, model_step, control, replaced>>

-----------------------------------------------------------------------------
(* The start of a controller.                                              *)

\* The model of the session before is gone by then.
Start ==
    /\ pc = "down" /\ session < MaxSessions /\ ~Live
    /\ pc' = "decide"
    /\ session' = session + 1
    /\ last_offset' = 0 /\ last_line' = NoLine /\ replaced' = 0
    /\ UNCHANGED <<slot, child, last_completed, observed, child_gone, success>>

\* Mutant: the restart may be ahead by its interval only.
AllowedRestartStepDiffTight == RestartInterval

AllowedRestartStepDiff == RestartInterval + 2

FreshRun == progress = Missing /\ rcf = Missing

RestartRun ==
    /\ progress # Missing /\ rcf # Missing
    /\ rcf <= progress + AllowedRestartStepDiff

RunAgainFromStepZero ==
    progress # Missing /\ rcf = Missing /\ progress < RestartInterval

\* initialize_task_state_from_restart()
Decide ==
    /\ pc = "decide"
    /\ \/ /\ FreshRun
          /\ last_completed' = 0 /\ pc' = "record"
       \/ /\ RestartRun
          /\ last_completed' = rcf /\ pc' = "record"
       \/ /\ RunAgainFromStepZero
          /\ last_completed' = progress /\ pc' = "record"
       \/ /\ ~(FreshRun \/ RestartRun \/ RunAgainFromStepZero)
          /\ pc' = "refused" /\ UNCHANGED last_completed
    /\ UNCHANGED <<slot, child, reader, observed, child_gone, success, session, replaced>>

RecordStart ==
    /\ pc = "record"
    /\ progress' = last_completed
    /\ pc' = "launch"
    /\ UNCHANGED <<stat, rcf, child, reader, last_completed, observed, child_gone,
                   success, session, replaced>>

Launch ==
    /\ pc = "launch"
    /\ model' = "starting"
    /\ model_step' = IF rcf = Missing THEN 0 ELSE rcf
    /\ child_gone' = FALSE
    /\ pc' = "wait"
    /\ UNCHANGED <<slot, reader, last_completed, observed, success, session, replaced>>

-----------------------------------------------------------------------------
(* The main loop.                                                          *)

\* Mutant: a log that was replaced is not noticed.
TruncatedNever == FALSE

Truncated == last_offset > Len(stat)

NewLines == Len(stat) > (IF Truncated THEN 0 ELSE last_offset)

\* fread_last_line()
ReadLastLine ==
    /\ last_line' = IF NewLines THEN LastLine ELSE IF Truncated THEN NoLine ELSE last_line
    /\ last_offset' = Len(stat)

\* check_child_status()
RefreshStatus ==
    /\ pc = "wait"
    /\ child_gone' = (model = "exited")
    /\ pc' = "read"
    /\ UNCHANGED <<slot, child, reader, last_completed, observed, success, session,
                   replaced>>

\* Mutant: the number in the line is not checked.
ValidStepUnchecked(step) == TRUE

ValidStep(step) == step \in Steps

\* get_current_step()
GetCurrentStep ==
    /\ pc = "read"
    /\ ReadLastLine
    /\ observed' = IF NewLines /\ ValidStep(LastLine.step) THEN LastLine.step
                                                            ELSE last_completed
    /\ pc' = "save"
    /\ UNCHANGED <<slot, child, last_completed, child_gone, success, session, replaced>>

\* Mutant: the loop looks at the model's state again after the log was read.
LoopGoesOnAsSeenLater == model # "exited"

LoopGoesOn == ~child_gone

\* The step is over; the progress file is written.
Save ==
    /\ pc = "save"
    /\ last_completed' = observed
    /\ progress' = observed
    /\ pc' = IF LoopGoesOn THEN "wait" ELSE "final"
    /\ UNCHANGED <<stat, rcf, child, reader, observed, child_gone, success, session,
                   replaced>>

\* Mutant: the closing line must be one that has not been read before.
SuccessfulIfNew == NewLines /\ last_line'.word = "CNT0"

Successful == last_line'.word = "CNT0"

\* check_model_success()
CheckModelSuccess ==
    /\ pc = "final"
    /\ ReadLastLine
    /\ success' = Successful
    /\ pc' = "done"
    /\ UNCHANGED <<slot, child, last_completed, observed, child_gone, session, replaced>>

-----------------------------------------------------------------------------

\* The controller quits or dies.
Interrupt ==
    /\ pc \notin {"down", "done", "refused"}
    /\ pc' = "down"
    /\ UNCHANGED <<slot, child, reader, last_completed, observed, child_gone, success,
                   session, replaced>>

\* Nothing is left to do: the task is over, or the bound on sessions is met.
Over ==
    /\ pc \in {"done", "refused"} \/ (pc = "down" /\ session = MaxSessions)
    /\ UNCHANGED vars

Model ==
    \/ ModelOpensLog \/ ModelWritesRestart \/ ModelLogsStep \/ ModelCloses \/ ModelExits

Next ==
    \/ Model
    \/ Start \/ Decide \/ RecordStart \/ Launch
    \/ RefreshStatus \/ GetCurrentStep \/ Save \/ CheckModelSuccess
    \/ Interrupt \/ Over

Spec == Init /\ [][Next]_vars

-----------------------------------------------------------------------------
(* Properties.                                                             *)

\* As long as the log is not further ahead of the progress file than MaxLag, no quit
\* and no death of either process makes the next start give the task up: the restart
\* file is never beyond what control_start.cpp allows, nor missing when it is needed,
\* though the first steps read after a restart may be those of the session before.
StartNotRefused == pc # "refused"

\* When the loop ends, the last step in the log has been dealt with: the model's
\* state is looked at before its log, and a log that was replaced is read from its
\* beginning.  (Not if the new log has as many lines as were read of the old one.)
LogReadToEnd ==
    (pc = "final" /\ Len(stat) # replaced /\ LastLine.step \in Steps)
        => last_completed = LastLine.step

\* The model is found to have succeeded if and only if the log is closed, whether
\* the closing line was read in the loop or is read only now, and whatever was read
\* of an earlier log.
SuccessTrue ==
    (pc = "done" /\ Len(stat) # replaced) => (success <=> LastLine = CloseLine)

\* The last step of a model that completes is dealt with before the loop ends.
LastStepSeen ==
    (pc = "final" /\ session = 1 /\ LastLine = CloseLine) => last_completed = TotalSteps

=============================================================================
