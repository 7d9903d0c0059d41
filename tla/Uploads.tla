------------------------------ MODULE Uploads ------------------------------
(***************************************************************************)
(* The path of a model output file from the slot directory to BOINC:       *)
(*                                                                         *)
(*   slot --move_result_file--> upload_dir --zip_and_delete--> archive     *)
(*        --boinc_upload_file--> delivered                                 *)
(*                                                                         *)
(* driven by the controller's main loop (cpdn_main.cpp), its               *)
(* UploadManager (upload_manager.cpp), the restart decision                *)
(* (control_start.cpp) and the progress file, over several controller      *)
(* sessions: the controller can be asked to quit in any polled wait, or    *)
(* can die between any two steps, and BOINC then starts it again.          *)
(*                                                                         *)
(* Uploads are enabled (upload_interval > 0) and the controller runs under *)
(* BOINC (not standalone).  An output file is identified by the model step *)
(* that wrote it.                                                          *)
(***************************************************************************)
EXTENDS Integers, FiniteSets

CONSTANTS
    TotalSteps,            \* total_steps of the model control input
    UploadInterval,        \* --upload_interval, in model steps
    RestartInterval,       \* restart_interval_steps of the model control input
    OutputInterval,        \* steps from one output file of the model to the next
    OutputLag,             \* steps after which an output file may be copied
    ReadErrorsReportZero,  \* does get_current_step() reset the step when it fails?
    MaxSessions,           \* bound: controller processes of one task
    Failures,              \* may file operations and boinc_upload_file fail?
    InterruptUploads,      \* may a session end while an archive awaits hand-off?
    SuspendAfterModelExit  \* may BOINC suspend the task once the model has exited?

ASSUME StepsAssumption == TotalSteps \in Nat \ {0}
ASSUME IntervalAssumption == UploadInterval \in Nat \ {0}
ASSUME RestartAssumption == RestartInterval \in Nat \ {0}
ASSUME OutputAssumption == OutputInterval \in Nat \ {0}
ASSUME LagAssumption == OutputLag \in Nat
ASSUME SessionsAssumption == MaxSessions \in Nat
ASSUME FlagsAssumption ==
    {ReadErrorsReportZero, Failures, InterruptUploads, SuspendAfterModelExit}
        \subseteq BOOLEAN

NoRestart == -1

NoLog == -1

Steps == 0 .. TotalSteps

Outputs == {s \in Steps : s % OutputInterval = 0}

\* expected_upload_file_count(): the number of archives BOINC was promised.
ExpectedUploads == (TotalSteps + UploadInterval - 1) \div UploadInterval

\* The part of TaskState the progress file keeps.
TaskStates == [upload_file_number  : Nat,
               last_upload_step    : Steps,
               last_completed_step : Steps]

FreshTask == [upload_file_number  |-> 0,
              last_upload_step    |-> 0,
              last_completed_step |-> 0]

VARIABLES
    (* disk *)
    slot,        \* output files in the slot directory
    upload_dir,  \* output files in the temporary upload directory
    archive,     \* output files in the archive being sent
    progress,    \* the progress file
    rcf,         \* step of the model restart file, or NoRestart
    (* BOINC client *)
    submitted,   \* upload numbers accepted by boinc_upload_file
    delivered,   \* output files in the archives handed to BOINC
    (* history, which no action reads *)
    abandoned,   \* output files a session has left or deleted unsent
    (* model process *)
    model,       \* is the model process running?
    model_step,  \* last step the model completed
    old_log,     \* last step in the log of an earlier model process, or NoLog
    (* controller *)
    pc,          \* where the controller is
    mode,        \* which caller of the UploadManager is active
    tstate,      \* TaskState
    observed,    \* observed_step of the current iteration
    index,       \* number of the upload being prepared
    child_gone,  \* child_status # 0
    session,     \* controller processes started so far
    outcome      \* what BOINC makes of the task

disk == <<slot, upload_dir, archive, progress, rcf>>
client == <<submitted, delivered, abandoned>>
child == <<model, model_step, old_log>>
control == <<pc, mode, tstate, observed, index, child_gone, session, outcome>>
vars == <<disk, client, child, control>>

PCs == {"down", "record", "launch", "wait", "move", "zip", "filler", "delete",
        "hold", "submit", "endstep", "save", "settle", "cleanup", "last",
        "recover", "ended"}

Modes == {"scheduled", "final", "recovery"}

TypeOK ==
    /\ slot \subseteq Outputs
    /\ upload_dir \subseteq Outputs
    /\ archive \subseteq Outputs
    /\ progress \in [exists : BOOLEAN, state : TaskStates]
    /\ rcf \in Steps \cup {NoRestart}
    /\ submitted \subseteq Nat
    /\ delivered \subseteq Outputs
    /\ abandoned \subseteq Outputs
    /\ model \in {"none", "running", "exited"}
    /\ model_step \in Steps
    /\ old_log \in Steps \cup {NoLog}
    /\ pc \in PCs
    /\ mode \in Modes
    /\ tstate \in TaskStates
    /\ observed \in Steps
    /\ index \in Nat
    /\ child_gone \in BOOLEAN
    /\ session \in 0 .. MaxSessions
    /\ outcome \in {"open", "finished", "failed"}

Init ==
    /\ slot = {} /\ upload_dir = {} /\ archive = {}
    /\ progress = [exists |-> FALSE, state |-> FreshTask]
    /\ rcf = NoRestart
    /\ submitted = {} /\ delivered = {} /\ abandoned = {}
    /\ model = "none" /\ model_step = 0 /\ old_log = NoLog
    /\ pc = "down" /\ mode = "scheduled"
    /\ tstate = FreshTask
    /\ observed = 0 /\ index = 0
    /\ child_gone = FALSE
    /\ session = 0
    /\ outcome = "open"

-----------------------------------------------------------------------------
(* The model process.  It starts a log of its own, then for every step it  *)
(* writes an output file and logs the step; at multiples of the restart    *)
(* interval it replaces its restart file.  It may outlive the controller   *)
(* for a while.                                                            *)

ModelOpensLog ==
    /\ model = "running" /\ old_log # NoLog
    /\ old_log' = NoLog
    /\ UNCHANGED <<disk, client, model, model_step, control>>

ModelStep ==
    /\ model = "running" /\ old_log = NoLog /\ model_step < TotalSteps
    /\ model_step' = model_step + 1
    /\ slot' = slot \cup ({model_step + 1} \cap Outputs)
    /\ rcf' = IF (model_step + 1) % RestartInterval = 0 THEN model_step + 1 ELSE rcf
    /\ UNCHANGED <<upload_dir, archive, progress, client, model, old_log, control>>

\* The model ends: after its last step, or before it because it failed or
\* because it noticed that its controller is gone.
ModelExit ==
    /\ model = "running"
    /\ model' = "exited"
    /\ UNCHANGED <<disk, client, model_step, old_log, control>>

-----------------------------------------------------------------------------
(* Start of a controller process: initialize_task_state_from_restart() and *)
(* prepare_task_state_for_controller_run().                                *)

AllowedRestartStepDiff == RestartInterval + 2

FreshRun == ~progress.exists /\ rcf = NoRestart

RestartRun ==
    /\ progress.exists /\ rcf # NoRestart
    /\ rcf <= progress.state.last_completed_step + AllowedRestartStepDiff

RunAgainFromStepZero ==
    /\ progress.exists /\ rcf = NoRestart
    /\ progress.state.last_completed_step < RestartInterval

\* The variables of a new process have their initial values, but for the task state.
Start ==
    /\ pc = "down" /\ session < MaxSessions
    /\ model # "running"
    /\ session' = session + 1
    /\ \/ /\ FreshRun
          /\ tstate' = FreshTask
          /\ pc' = "record" /\ UNCHANGED outcome
       \/ /\ RestartRun
          /\ tstate' = [progress.state EXCEPT !.last_completed_step = rcf]
          /\ pc' = "record" /\ UNCHANGED outcome
       \/ /\ RunAgainFromStepZero
          /\ tstate' = progress.state
          /\ pc' = "record" /\ UNCHANGED outcome
       \/ /\ ~(FreshRun \/ RestartRun \/ RunAgainFromStepZero)
          /\ pc' = "ended" /\ outcome' = "failed"
          /\ UNCHANGED tstate
    /\ mode' = "scheduled" /\ observed' = 0 /\ index' = 0 /\ child_gone' = FALSE
    /\ UNCHANGED <<disk, client, child>>

\* Mutant: the step of the last upload is not what is written.
SavedWithWrongStep(t) ==
    [exists |-> TRUE,
     state  |-> [t EXCEPT !.last_upload_step = t.last_completed_step]]

\* What progress_file.write() makes of the task state.
Saved(t) == [exists |-> TRUE, state |-> t]

\* Mutant: what an earlier session staged is thrown away at the start.
RecordStartCleaningUploadDir ==
    /\ pc = "record"
    /\ progress' = Saved(tstate)
    /\ upload_dir' = {}
    /\ pc' = "launch"
    /\ UNCHANGED <<slot, archive, rcf, client, child, mode, tstate, observed,
                   index, child_gone, session, outcome>>

\* The progress file is rewritten before the model is launched.
RecordStart ==
    /\ pc = "record"
    /\ progress' = Saved(tstate)
    /\ pc' = "launch"
    /\ UNCHANGED <<slot, upload_dir, archive, rcf, client, child, mode, tstate,
                   observed, index, child_gone, session, outcome>>

\* The model is launched from its restart file, or from step 0, whose output
\* file it writes.  Until it opens its log the old one is still there.
Launch ==
    /\ pc = "launch"
    /\ model' = "running"
    /\ model_step' = IF rcf = NoRestart THEN 0 ELSE rcf
    /\ old_log' = IF model = "none" \/ old_log # NoLog THEN old_log ELSE model_step
    /\ slot' = IF rcf = NoRestart THEN slot \cup {0} ELSE slot
    /\ child_gone' = FALSE
    /\ pc' = "wait"
    /\ UNCHANGED <<upload_dir, archive, progress, rcf, client, mode, tstate,
                   observed, index, session, outcome>>

\* startup_error: the progress file or the model cannot be started.
StartupFails ==
    /\ Failures /\ pc \in {"record", "launch"}
    /\ pc' = "ended" /\ outcome' = "failed"
    /\ UNCHANGED <<disk, client, child, mode, tstate, observed, index,
                   child_gone, session>>

-----------------------------------------------------------------------------
(* The main loop.                                                          *)

Lower(a, b) == IF a <= b THEN a ELSE b

\* Mutant: the step read is not compared with total_steps.
ReadableStepsUnchecked ==
    {tstate.last_completed_step, TotalSteps + 1}
        \cup (Lower(tstate.last_completed_step, model_step) .. model_step)

\* What observed_step can be after get_current_step(): a step the model has
\* logged and the controller has not passed yet, the last step of a log left
\* over from before a restart, or the old value if nothing was read.  A failed
\* read of the WRF log leaves 0 instead.
ReadableSteps ==
    {tstate.last_completed_step}
        \cup (IF ReadErrorsReportZero THEN {0} ELSE {})
        \cup (IF old_log = NoLog
              THEN Lower(tstate.last_completed_step, model_step) .. model_step
              ELSE {old_log})

\* Mutant: only a model that ran to its end is taken as gone.
ModelGoneAtEndOnly == model = "exited" /\ model_step = TotalSteps

\* check_child_status()
ModelGone == model = "exited"

\* The loop delay elapsed quietly: refresh child_status, then the step.
Observe ==
    /\ pc = "wait"
    /\ child_gone' = ModelGone
    /\ \E step \in ReadableSteps :
          /\ observed' = step
          /\ IF step # tstate.last_completed_step
             THEN pc' = "move" /\ mode' = "scheduled"
             ELSE pc' = "save" /\ UNCHANGED mode
    /\ UNCHANGED <<disk, client, child, tstate, index, session, outcome>>

\* get_copyable_output_filenames() for a model step.
Copyable(step) == {f \in Outputs : f + OutputLag <= step}

\* Mutant: the final move asks for the files of the last upload.
MoveStepOfLastUpload == IF mode = "scheduled" THEN observed
                                              ELSE tstate.last_upload_step

\* The step move_copyable_output_files() is called with.
MoveStep == IF mode = "scheduled" THEN observed
                                  ELSE tstate.last_completed_step

\* Mutant: the interval is one step short.
UploadDueOneEarly ==
    /\ observed - tstate.last_upload_step >= UploadInterval - 1
    /\ observed < TotalSteps

\* process_scheduled_upload()
UploadDue ==
    /\ observed - tstate.last_upload_step >= UploadInterval
    /\ observed < TotalSteps

\* move_copyable_output_files(): each file is copied, then removed.  A failed
\* copy leaves it in the slot, a failed removal leaves it in both places.  After
\* the main loop no other copy is tried.
MoveCopyableOutputFiles ==
    /\ pc = "move"
    /\ LET present == Copyable(MoveStep) \cap slot IN
       \E copied \in SUBSET present : \E removed \in SUBSET copied :
          /\ Failures \/ removed = present
          /\ upload_dir' = upload_dir \cup copied
          /\ slot' = slot \ removed
          /\ abandoned' = IF mode = "scheduled" THEN abandoned
                                               ELSE abandoned \cup (present \ copied)
    /\ index' = tstate.upload_file_number
    /\ pc' = IF mode = "scheduled" /\ ~UploadDue THEN "endstep" ELSE "zip"
    /\ UNCHANGED <<archive, progress, rcf, submitted, delivered, child, mode, tstate,
                   observed, child_gone, session, outcome>>

\* What collect_upload_output_files() finds of what is staged.  A directory that
\* cannot be opened looks empty.  At an entry that cannot be read a scheduled upload
\* fails (UploadFails), a final one goes on with what it has.
Collected ==
    IF ~Failures THEN {upload_dir}
    ELSE IF mode = "scheduled" THEN {upload_dir, {}}
    ELSE SUBSET upload_dir

\* zip_and_delete(), first half: what was collected goes into the archive (a
\* placeholder when nothing was); an archive of that name is replaced.
Zip ==
    /\ pc = "zip"
    /\ archive' \in Collected
    /\ pc' = "delete"
    /\ UNCHANGED <<slot, upload_dir, progress, rcf, client, child, mode, tstate,
                   observed, index, child_gone, session, outcome>>

\* The further archives of finalize_remaining_uploads() hold a placeholder.
ZipPlaceholder ==
    /\ pc = "filler"
    /\ archive' = {}
    /\ pc' = "delete"
    /\ UNCHANGED <<slot, upload_dir, progress, rcf, client, child, mode, tstate,
                   observed, index, child_gone, session, outcome>>

\* zip_and_delete(), second half: the zipped files are deleted.
DeleteZipped ==
    /\ pc = "delete"
    /\ upload_dir' = upload_dir \ archive
    /\ pc' = "hold"
    /\ UNCHANGED <<slot, archive, progress, rcf, client, child, mode, tstate,
                   observed, index, child_gone, session, outcome>>

\* The 20 second wait before the hand-off ends quietly.
UploadWait ==
    /\ pc = "hold"
    /\ pc' = "submit"
    /\ UNCHANGED <<disk, client, child, mode, tstate, observed, index,
                   child_gone, session, outcome>>

\* Mutant: the result of boinc_upload_file() is not looked at.
HandOffUnchecked ==
    /\ pc = "submit"
    /\ submitted' \in {submitted, submitted \cup {index}}
    /\ delivered' = delivered \cup archive
    /\ UNCHANGED <<disk, abandoned, child, mode, observed, child_gone, session,
                   outcome>>

\* boinc_upload_file() accepts the archive.
HandOff ==
    /\ pc = "submit"
    /\ submitted' = submitted \cup {index}
    /\ delivered' = delivered \cup archive
    /\ UNCHANGED <<disk, abandoned, child, mode, observed, child_gone, session,
                   outcome>>

SubmitScheduled ==
    /\ HandOff
    /\ mode = "scheduled"
    /\ tstate' = [tstate EXCEPT !.upload_file_number = index + 1,
                                !.last_upload_step = observed]
    /\ pc' = "endstep"
    /\ UNCHANGED index

\* Mutant: one final upload too many.
MoreFinalUploadsInclusive == index + 1 <= ExpectedUploads

\* The loop condition of finalize_remaining_uploads().
MoreFinalUploads == index + 1 < ExpectedUploads

\* finalize_remaining_uploads() goes on up to the promised number of uploads
\* and sends at least one.
SubmitFinal ==
    /\ HandOff
    /\ mode \in {"final", "recovery"}
    /\ tstate' = [tstate EXCEPT !.upload_file_number = index + 1]
    /\ IF MoreFinalUploads
       THEN pc' = "filler" /\ index' = index + 1
       ELSE pc' = "cleanup" /\ UNCHANGED index

EndStep ==
    /\ pc = "endstep"
    /\ tstate' = [tstate EXCEPT !.last_completed_step = observed]
    /\ pc' = "save"
    /\ UNCHANGED <<disk, client, child, mode, observed, index, child_gone,
                   session, outcome>>

\* progress_file.write() at the end of an iteration; the loop goes on while
\* the model runs.
Save ==
    /\ pc = "save"
    /\ progress' = Saved(tstate)
    /\ pc' = IF child_gone THEN "settle" ELSE "wait"
    /\ UNCHANGED <<slot, upload_dir, archive, rcf, client, child, mode, tstate,
                   observed, index, child_gone, session, outcome>>

\* stop_child_for_shutdown()
StopModel == model' = "exited" /\ UNCHANGED <<model_step, old_log>>

\* recover_after_controller_error() stops the model first.
SaveFails ==
    /\ Failures /\ pc = "save"
    /\ StopModel
    /\ pc' = "recover"
    /\ UNCHANGED <<disk, client, mode, tstate, observed, index, child_gone,
                   session, outcome>>

-----------------------------------------------------------------------------
(* After the loop, and recovery.                                           *)

\* The wait after the loop ends quietly: finalize_remaining_uploads().
Settle ==
    /\ pc = "settle"
    /\ pc' = "move" /\ mode' = "final"
    /\ UNCHANGED <<disk, client, child, tstate, observed, index, child_gone,
                   session, outcome>>

\* What is still staged is deleted with the directory.
CleanupUploadDir ==
    /\ pc = "cleanup"
    /\ upload_dir' = {}
    /\ abandoned' = abandoned \cup upload_dir
    /\ IF mode = "final"
       THEN pc' = "last" /\ UNCHANGED outcome
       ELSE pc' = "ended" /\ outcome' = "failed"
    /\ UNCHANGED <<slot, archive, progress, rcf, submitted, delivered, child, mode,
                   tstate, observed, index, child_gone, session>>

\* boinc_finish()
Finish ==
    /\ pc = "last"
    /\ pc' = "ended" /\ outcome' = "finished"
    /\ UNCHANGED <<disk, client, child, mode, tstate, observed, index,
                   child_gone, session>>

\* BOINC suspends the task in a wait that follows the model's exit: there is
\* no process to suspend, and the failure is handled as a controller error
\* (wait_for_boinc_exit) or as a failed upload (zip_and_send_upload).
SuspendWithoutModel ==
    /\ SuspendAfterModelExit /\ child_gone
    /\ StopModel
    /\ \/ /\ pc \in {"settle", "last"}
          /\ pc' = "recover" /\ UNCHANGED outcome
       \/ /\ pc = "hold" /\ mode # "recovery"
          /\ pc' = "ended" /\ outcome' = "failed"
    /\ UNCHANGED <<disk, client, mode, tstate, observed, index, child_gone,
                   session>>

\* The wait of recover_after_controller_error() is over: what is staged is
\* sent, up to the promised number of uploads.
Recover ==
    /\ pc = "recover"
    /\ pc' = "move" /\ mode' = "recovery"
    /\ UNCHANGED <<disk, client, child, tstate, observed, index, child_gone,
                   session, outcome>>

\* A file operation or boinc_upload_file fails: upload_error, a terminal exit.
UploadFails ==
    /\ Failures /\ pc \in {"zip", "filler", "submit"}
    /\ StopModel
    /\ pc' = "ended" /\ outcome' = "failed"
    /\ UNCHANGED <<disk, client, mode, tstate, observed, index, child_gone,
                   session>>

-----------------------------------------------------------------------------
(* The end of a session.                                                   *)

AwaitingHandOff == pc \in {"hold", "submit"}

\* The archive of a session that ends before the hand-off is never sent: the next
\* upload of that number replaces it.
LeaveArchive ==
    /\ abandoned' = IF AwaitingHandOff THEN abandoned \cup archive ELSE abandoned
    /\ UNCHANGED <<submitted, delivered>>

PolledWaits == {"wait", "hold", "settle", "last", "recover"}

\* BOINC asks the task to quit: exit code 0 and no finish file, so that BOINC
\* starts it again.  A failed upload stops the model, the other waits leave it
\* to itself.
Quit ==
    /\ pc \in PolledWaits
    /\ InterruptUploads \/ ~AwaitingHandOff
    /\ IF pc = "hold" THEN StopModel ELSE UNCHANGED child
    /\ LeaveArchive
    /\ pc' = "down"
    /\ UNCHANGED <<disk, mode, tstate, observed, index, child_gone,
                   session, outcome>>

\* BOINC aborts the task.
Abort ==
    /\ pc \in PolledWaits
    /\ IF pc = "hold" THEN StopModel ELSE UNCHANGED child
    /\ pc' = "ended" /\ outcome' = "failed"
    /\ UNCHANGED <<disk, client, mode, tstate, observed, index, child_gone,
                   session>>

\* The controller, or the host with the model on it, dies between two steps.
Crash ==
    /\ pc \notin {"down", "ended"}
    /\ InterruptUploads \/ ~AwaitingHandOff
    /\ LeaveArchive
    /\ pc' = "down"
    /\ model' \in (IF model = "running" THEN {"running", "exited"} ELSE {model})
    /\ UNCHANGED <<disk, model_step, old_log, mode, tstate, observed,
                   index, child_gone, session, outcome>>

\* Nothing is left to do: the task is over, or the bound on sessions is met.
Over ==
    /\ pc = "ended" \/ (pc = "down" /\ session = MaxSessions)
    /\ UNCHANGED vars

Controller ==
    \/ Start \/ RecordStart \/ Launch \/ StartupFails
    \/ Observe \/ MoveCopyableOutputFiles
    \/ Zip \/ ZipPlaceholder \/ DeleteZipped \/ UploadWait \/ SubmitScheduled \/ SubmitFinal
    \/ EndStep \/ Save \/ SaveFails \/ Settle \/ CleanupUploadDir \/ Finish
    \/ Recover \/ UploadFails

Client == Quit \/ Abort \/ SuspendWithoutModel

Model == ModelOpensLog \/ ModelStep \/ ModelExit

Next == Model \/ Controller \/ Client \/ Crash \/ Over

Spec == Init /\ [][Next]_vars

\* The controller and the model keep running; BOINC starts a task that is not
\* over; nobody has to interrupt them.
FairSpec == Spec /\ WF_vars(Controller) /\ WF_vars(ModelExit)

-----------------------------------------------------------------------------
(* Properties.                                                             *)

ControllerUp == pc \notin {"down", "ended"}

\* Upload numbers are handed to BOINC without a gap: every number below the
\* next one to use, in memory and in the progress file, was accepted by
\* boinc_upload_file(), whatever crash or quit came in between.
NoNumberSkipped ==
    /\ ControllerUp => 0 .. tstate.upload_file_number - 1 \subseteq submitted
    /\ 0 .. progress.state.upload_file_number - 1 \subseteq submitted

\* A scheduled upload never takes the last promised number, so that the final
\* upload, which carries the logs, always has one of its own; this needs
\* last_upload_step and upload_file_number to stay in step across restarts.
ScheduledLeavesFinal ==
    (mode = "scheduled" /\ pc \in {"zip", "delete", "hold", "submit"})
        => index + 1 < ExpectedUploads

\* The outputs of the run so far: up to the model's step while the controller
\* is up; those the model will not write again while it is down.
WrittenUpTo == IF pc \in {"down", "record", "launch"} THEN rcf ELSE model_step

\* Where an output can be that has not been given up.
Known == slot \cup upload_dir \cup archive \cup delivered

\* No output of the run is lost between the slot and BOINC while the task can
\* still complete: copy before remove, zip before delete, hand-off before the
\* counters move, and a restart from a step whose outputs are all accounted for.
OutputsKept ==
    outcome = "open" => \A f \in Outputs : f <= WrittenUpTo => f \in Known

\* Whatever fails and wherever a session ends, an output of an open task is only
\* missing if it was in an archive whose session ended before the hand-off
\* (LeaveArchive) or still staged when the upload directory was deleted
\* (CleanupUploadDir): failed copies and removals, crashes elsewhere and restarts
\* lose nothing.
OutputsAccountedFor ==
    outcome = "open" =>
        \A f \in Outputs : f <= WrittenUpTo => f \in Known \cup abandoned

\* A task that finishes has handed BOINC every output that was ready at the
\* last step the controller saw.
FinishedDelivers ==
    outcome = "finished" => Copyable(tstate.last_completed_step) \subseteq delivered

\* When files cannot be copied or read and sessions are interrupted, a finished
\* task has still handed over every output that was ready, but for those in the
\* two ways out above and those that could not be copied after the main loop.
FinishedAccountsFor ==
    outcome = "finished" =>
        Copyable(tstate.last_completed_step) \subseteq delivered \cup abandoned

\* The history of submissions and the verdict on the task are one the abstract
\* contract allows: numbers without a gap, none that was not promised, and a
\* finished task only when all promised numbers have been submitted.  A
\* suspension after the last upload leads to a recovery, which sends one more.
SurplusUploads == IF SuspendAfterModelExit THEN 1 ELSE 0

Contract == INSTANCE UploadContract WITH
    Promised <- ExpectedUploads,
    Surplus  <- SurplusUploads,
    sent     <- submitted,
    verdict  <- outcome

ImplementsContract == Contract!Spec

\* The progress file never takes an upload back: its upload counter and the
\* step of the last upload only grow, over all sessions.
PersistedUploadsOnlyGrow ==
    [][/\ progress.exists => progress'.exists
       /\ progress'.state.upload_file_number >= progress.state.upload_file_number
       /\ progress'.state.last_upload_step >= progress.state.last_upload_step]_vars

\* The task does not stay open for ever: unless every session BOINC may start
\* is interrupted, one of them finishes the task or fails it.
EventuallyOver ==
    <>(outcome # "open" \/ (pc = "down" /\ session = MaxSessions))

=============================================================================
