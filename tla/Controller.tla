----------------------------- MODULE Controller -----------------------------
(***************************************************************************)
(* One controller process: how it supervises the model process, listens to *)
(* the BOINC client, and leaves.  The main loop and its exits are those of *)
(* cpdn_main.cpp, the waits and the process handling those of              *)
(* cpdn_control.cpp and process_control_posix.cpp, the waits before an     *)
(* upload is handed over those of upload_manager.cpp.                      *)
(*                                                                         *)
(* The client's requests, the model's end and signals from others come at  *)
(* any moment.  The controller sees a request only when it polls, and the  *)
(* model's end only when it asks waitpid().  What the model computes and   *)
(* what the uploads hold is left to Uploads.                               *)
(***************************************************************************)
EXTENDS Integers

CONSTANTS
    Requests,       \* kinds of request the client may make
    MaxSuspends,    \* bound: suspend requests of the client
    FinalUploads,   \* uploads left when the loop ends; 0: uploads disabled
    Failures,       \* may file operations and boinc_upload_file fail?
    SlowTasks,      \* may the step tasks take longer than the loop delay?
    ExternalStops   \* may somebody else stop and continue the model?

RequestKinds == {"suspend", "quit", "abort", "no_heartbeat"}

ASSUME RequestsAssumption == Requests \subseteq RequestKinds
ASSUME BoundsAssumption == MaxSuspends \in Nat /\ FinalUploads \in Nat
ASSUME FlagsAssumption ==
    Failures \in BOOLEAN /\ SlowTasks \in BOOLEAN /\ ExternalStops \in BOOLEAN

\* The parts of BOINC_STATUS that are looked at.
Statuses == [suspended : BOOLEAN, quit_request : BOOLEAN,
             abort_request : BOOLEAN, no_heartbeat : BOOLEAN]

Quiet == [suspended     |-> FALSE, quit_request |-> FALSE,
          abort_request |-> FALSE, no_heartbeat |-> FALSE]

Reasons == {"none", "loop_completed", "boinc_quit", "boinc_abort",
            "boinc_no_heartbeat", "startup_error", "controller_error",
            "upload_error"}

Routes == {"none", "immediate", "controller_error_recovery", "boinc_shutdown",
           "task_completed"}

VARIABLES
    (* the BOINC client *)
    client,           \* the status it would report now
    suspends,         \* suspend requests so far
    (* the model process, as the kernel sees it *)
    proc,             \* none, running, stopped (by the controller), halted (by
                      \* somebody else), exited, killed (both unreaped), gone
    event,            \* stop or continue that waitpid() has not reported yet
    (* the controller *)
    pc,
    site,             \* which call is waiting
    status,           \* client_status, the snapshot of the last poll
    handle,           \* ChildProcessHandle
    child_status,     \* 0 running, 1 exited, 3 terminated, 4 suspended
    model_completed,
    model_success,
    hurry,            \* next_delay_seconds is 0
    left,             \* uploads left to finalize_remaining_uploads()
    critical,         \* depth of BOINC critical sections
    decision,         \* ExitDecision
    outcome           \* running, returned (from main), finished (boinc_finish)

model == <<proc, event>>
boinc == <<client, suspends>>
progress == <<child_status, model_completed, model_success>>
exit == <<decision, outcome>>
vars == <<boinc, model, pc, site, status, handle, progress, hurry, left,
          critical, exit>>

Sites == {"loop", "scheduled", "settle", "final", "last", "recovery",
          "recovery_upload"}

PCs == {"start", "wait", "apply", "suspended", "check", "work", "submit",
        "save", "finalize", "complete", "exit", "over"}

TypeOK ==
    /\ client \in Statuses /\ suspends \in 0 .. MaxSuspends
    /\ proc \in {"none", "running", "stopped", "halted", "exited", "killed", "gone"}
    /\ event \in {"none", "stopped", "continued"}
    /\ pc \in PCs /\ site \in Sites
    /\ status \in Statuses
    /\ handle \in [valid : BOOLEAN, suspended : BOOLEAN]
    /\ child_status \in {0, 1, 3, 4}
    /\ model_completed \in BOOLEAN /\ model_success \in BOOLEAN
    /\ hurry \in BOOLEAN
    /\ left \in 0 .. FinalUploads
    /\ critical \in Nat
    /\ decision \in [reason : Reasons, code : {0, 1}, route : Routes]
    /\ outcome \in {"running", "returned", "finished"}

Closed == [valid |-> FALSE, suspended |-> FALSE]

Decide(reason, code, route) ==
    [reason |-> reason, code |-> code, route |-> route]

\* The critical section around the preparation of the task is open.
Init ==
    /\ client = Quiet /\ suspends = 0
    /\ proc = "none" /\ event = "none"
    /\ pc = "start" /\ site = "loop"
    /\ status = Quiet
    /\ handle = Closed
    /\ child_status = 1
    /\ model_completed = FALSE /\ model_success = FALSE
    /\ hurry = FALSE
    /\ left = 0
    /\ critical = 1
    /\ decision = Decide("none", 1, "none")
    /\ outcome = "running"

-----------------------------------------------------------------------------
(* The client and the model.                                               *)

Requested(kind) == kind \in Requests /\ outcome = "running"

ClientSuspends ==
    /\ Requested("suspend")
    /\ suspends < MaxSuspends /\ ~client.suspended
    /\ client' = [client EXCEPT !.suspended = TRUE]
    /\ suspends' = suspends + 1

ClientResumes ==
    /\ client.suspended
    /\ client' = [client EXCEPT !.suspended = FALSE]
    /\ UNCHANGED suspends

ClientQuits ==
    /\ Requested("quit")
    /\ client' = [client EXCEPT !.quit_request = TRUE]
    /\ UNCHANGED suspends

ClientAborts ==
    /\ Requested("abort")
    /\ client' = [client EXCEPT !.abort_request = TRUE]
    /\ UNCHANGED suspends

HeartbeatLost ==
    /\ Requested("no_heartbeat")
    /\ client' = [client EXCEPT !.no_heartbeat = TRUE]
    /\ UNCHANGED suspends

Client ==
    /\ ClientSuspends \/ ClientResumes \/ ClientQuits \/ ClientAborts \/ HeartbeatLost
    /\ UNCHANGED <<model, pc, site, status, handle, progress, hurry, left, critical,
                   exit>>

\* The model ends by itself, well or badly, or is killed by the system.
ModelEnds ==
    /\ proc = "running"
    /\ proc' \in {"exited", "killed"}
    /\ event' = "none"

StoppedByOthers ==
    /\ ExternalStops /\ proc = "running"
    /\ proc' = "halted" /\ event' = "stopped"

ContinuedByOthers ==
    /\ ExternalStops /\ proc \in {"stopped", "halted"}
    /\ proc' = "running" /\ event' = "continued"

Environment(change) ==
    /\ change
    /\ UNCHANGED <<boinc, pc, site, status, handle, progress, hurry, left, critical,
                   exit>>

-----------------------------------------------------------------------------
(* The model process, as the controller handles it.                        *)

Ended == proc \in {"exited", "killed"}

\* Mutant: the handle of a process that was killed is not closed.
PolledHandleAfterExit ==
    IF proc = "exited"
    THEN Closed
    ELSE [handle EXCEPT !.suspended =
             IF event = "none" THEN handle.suspended ELSE event = "stopped"]

\* The handle after poll_child_process(): closed when the process has ended and
\* is reaped; else a stop or continue is noted once.
PolledHandle ==
    IF Ended
    THEN Closed
    ELSE [handle EXCEPT !.suspended =
             IF event = "none" THEN handle.suspended ELSE event = "stopped"]

PollChild ==
    /\ proc' = IF Ended THEN "gone" ELSE proc
    /\ event' = "none"

\* terminate_child_process_if_active(): polled first, then SIGKILL unless the
\* process has ended.
StopChild ==
    IF handle.valid
    THEN proc' = (IF Ended THEN "gone" ELSE "killed") /\ event' = "none"
    ELSE UNCHANGED model

\* suspend_child_process(): a signal to a process that has ended is lost.
SuspendChild ==
    /\ handle' = [handle EXCEPT !.suspended = TRUE]
    /\ IF proc = "running"
       THEN proc' = "stopped" /\ event' = "stopped"
       ELSE UNCHANGED model

\* Mutant: the model is marked as resumed and not continued.
ResumeChildInNameOnly ==
    /\ handle' = [handle EXCEPT !.suspended = FALSE]
    /\ UNCHANGED model

\* resume_child_process()
ResumeChild ==
    /\ handle' = [handle EXCEPT !.suspended = FALSE]
    /\ IF proc \in {"stopped", "halted"}
       THEN proc' = "running" /\ event' = "continued"
       ELSE UNCHANGED model

-----------------------------------------------------------------------------
(* Waits that poll the client, and what is made of its requests.           *)

\* Mutant: a quit is not among the requests that end a wait.
ShutdownWithoutQuit(s) == s.abort_request \/ s.no_heartbeat

Shutdown(s) == s.quit_request \/ s.abort_request \/ s.no_heartbeat

\* make_boinc_shutdown_exit_decision()
ShutdownDecision(s) ==
    IF s.quit_request THEN Decide("boinc_quit", 0, "boinc_shutdown")
    ELSE IF s.abort_request THEN Decide("boinc_abort", 1, "boinc_shutdown")
    ELSE IF s.no_heartbeat THEN Decide("boinc_no_heartbeat", 0, "boinc_shutdown")
    ELSE Decide("controller_error", 1, "boinc_shutdown")

\* The finish_code of an upload that was interrupted.
UploadFinishCode(s) == IF s.quit_request THEN 0 ELSE 1

\* Where each caller goes on when its wait is over.
After(s) ==
    CASE s = "loop" -> "check"
      [] s \in {"scheduled", "final", "recovery_upload"} -> "submit"
      [] s \in {"settle", "recovery"} -> "finalize"
      [] s = "last" -> "complete"

UploadSites == {"scheduled", "final"}

\* Callers that let apply_boinc_suspend_resume() act on the model.
SupervisedSites == {"loop", "scheduled", "settle", "final", "last"}

Exit(d) == decision' = d /\ pc' = "exit" /\ UNCHANGED outcome

\* sleep_with_boinc_poll(): the client is polled; a request ends the wait.
PollClient ==
    /\ pc = "wait"
    /\ site = "loop" => ~hurry
    /\ status' = client
    /\ pc' = IF client.suspended \/ Shutdown(client) THEN "apply" ELSE After(site)
    /\ UNCHANGED <<boinc, model, site, handle, progress, hurry, left, critical,
                   exit>>

\* Nothing is left of the loop delay: no wait and no poll.
SkipWait ==
    /\ pc = "wait" /\ site = "loop" /\ hurry
    /\ pc' = After(site)
    /\ UNCHANGED <<boinc, model, site, status, handle, progress, hurry, left,
                   critical, exit>>

\* Mutant: the recovery does not stop the model.
EnterRecoveryOnly ==
    /\ pc' = "wait" /\ site' = "recovery"
    /\ UNCHANGED <<model, handle, left, critical, exit>>

\* recover_after_controller_error(): the model is stopped, then a wait.
EnterRecovery ==
    /\ StopChild
    /\ handle' = IF handle.valid THEN PolledHandle ELSE handle
    /\ pc' = "wait" /\ site' = "recovery"
    /\ UNCHANGED <<left, critical, exit>>

\* apply_boinc_suspend_resume() returns false: the upload that waits has
\* failed, a shutdown request is obeyed, anything else is a controller error.
GiveUp(s) ==
    \/ /\ site \in UploadSites
       /\ Exit(Decide("upload_error", UploadFinishCode(s), "immediate"))
       /\ critical' = critical - 1
       /\ UNCHANGED <<model, handle, site, left>>
    \/ /\ site \notin UploadSites /\ Shutdown(s)
       /\ Exit(ShutdownDecision(s))
       /\ UNCHANGED <<model, handle, site, left, critical>>
    \/ /\ site \notin UploadSites /\ ~Shutdown(s)
       /\ EnterRecovery

ApplyShutdown ==
    /\ pc = "apply" /\ site \in SupervisedSites
    /\ Shutdown(status)
    /\ GiveUp(status)
    /\ UNCHANGED <<boinc, status, progress, hurry>>

ApplySuspend ==
    /\ pc = "apply" /\ site \in SupervisedSites
    /\ ~Shutdown(status) /\ handle.valid
    /\ SuspendChild
    /\ pc' = "suspended"
    /\ UNCHANGED <<boinc, site, status, progress, hurry, left, critical, exit>>

\* The model has been reaped: there is nothing to suspend.
SuspendFails ==
    /\ pc = "apply" /\ site \in SupervisedSites
    /\ ~Shutdown(status) /\ ~handle.valid
    /\ GiveUp(status)
    /\ UNCHANGED <<boinc, status, progress, hurry>>

\* The client is polled every second while the model is stopped.
PollWhileSuspended ==
    /\ pc = "suspended"
    /\ status' = client
    /\ \/ /\ Shutdown(client)
          /\ GiveUp(client)
       \/ /\ ~Shutdown(client) /\ client.suspended
          /\ UNCHANGED <<model, handle, pc, site, left, critical, exit>>
       \/ /\ ~Shutdown(client) /\ ~client.suspended
          /\ ResumeChild
          /\ pc' = After(site)
          /\ UNCHANGED <<site, left, critical, exit>>
    /\ UNCHANGED <<boinc, progress, hurry>>

\* The wait of recover_after_controller_error(): a suspend alone is ignored.
ApplyInRecovery ==
    /\ pc = "apply" /\ site = "recovery"
    /\ IF Shutdown(status)
       THEN Exit(ShutdownDecision(status))
       ELSE pc' = After(site) /\ UNCHANGED exit
    /\ UNCHANGED <<boinc, model, site, status, handle, progress, hurry, left,
                   critical>>

\* An upload of the recovery waits out a suspension, and looks at the other
\* requests only then.
HoldWhileSuspended ==
    /\ pc = "apply" /\ site = "recovery_upload"
    /\ status.suspended
    /\ status' = client
    /\ UNCHANGED <<boinc, model, pc, site, handle, progress, hurry, left, critical,
                   exit>>

\* Mutant: the end of the suspension is taken for leave to go on.
LeaveHoldAtResume ==
    /\ pc = "apply" /\ site = "recovery_upload"
    /\ ~status.suspended
    /\ pc' = After(site)
    /\ UNCHANGED <<boinc, model, site, status, handle, progress, hurry, left,
                   critical, exit>>

LeaveHold ==
    /\ pc = "apply" /\ site = "recovery_upload"
    /\ ~status.suspended
    /\ IF Shutdown(status)
       THEN /\ Exit(Decide("upload_error", UploadFinishCode(status),
                           "controller_error_recovery"))
            /\ critical' = critical - 1
       ELSE pc' = After(site) /\ UNCHANGED <<critical, exit>>
    /\ UNCHANGED <<boinc, model, site, status, handle, progress, hurry, left>>

-----------------------------------------------------------------------------
(* From the start to the end of the loop.                                  *)

StartupFails ==
    /\ Failures /\ pc = "start"
    /\ Exit(Decide("startup_error", 1, "immediate"))
    /\ UNCHANGED <<boinc, model, site, status, handle, progress, hurry, left,
                   critical>>

LaunchModel ==
    /\ pc = "start"
    /\ proc' = "running" /\ event' = "none"
    /\ handle' = [valid |-> TRUE, suspended |-> FALSE]
    /\ child_status' = 0
    /\ critical' = critical - 1
    /\ pc' = "wait" /\ site' = "loop"
    /\ UNCHANGED <<boinc, status, model_completed, model_success, hurry, left,
                   exit>>

\* child_status_from_process_state(), for what poll_child_process() reports.
PolledStatus ==
    CASE proc = "exited" -> 1
      [] proc = "killed" -> 3
      [] ~Ended -> IF PolledHandle.suspended THEN 4 ELSE 0

\* check_child_status()
CheckChild ==
    /\ pc = "check"
    /\ PollChild
    /\ handle' = PolledHandle
    /\ child_status' = PolledStatus
    /\ hurry' = FALSE
    /\ pc' = "work"
    /\ UNCHANGED <<boinc, site, status, model_completed, model_success, left,
                   critical, exit>>

\* The step has changed or not; its tasks may use up the loop delay.
StepTasks ==
    /\ pc = "work"
    /\ hurry' \in {FALSE, SlowTasks}
    /\ pc' = "save"
    /\ UNCHANGED <<boinc, model, site, status, handle, progress, left, critical,
                   exit>>

\* process_scheduled_upload() up to its wait.
ScheduledUpload ==
    /\ pc = "work" /\ FinalUploads > 0
    /\ critical' = critical + 1
    /\ pc' = "wait" /\ site' = "scheduled"
    /\ UNCHANGED <<boinc, model, status, handle, progress, hurry, left, exit>>

\* Mutant: the critical section of a scheduled upload is left open.
SubmitScheduledInCritical ==
    /\ pc = "submit" /\ site = "scheduled"
    /\ hurry' = TRUE
    /\ pc' = "save"
    /\ UNCHANGED <<boinc, model, site, status, handle, progress, left, critical,
                   exit>>

\* The upload is handed over; the wait has used up the loop delay.
SubmitScheduled ==
    /\ pc = "submit" /\ site = "scheduled"
    /\ critical' = critical - 1
    /\ hurry' = TRUE
    /\ pc' = "save"
    /\ UNCHANGED <<boinc, model, site, status, handle, progress, left, exit>>

\* Mutant: a stopped model counts as running.
LoopGoesOnWhenStopped == child_status \in {0, 4}

\* The condition of the main loop.
LoopGoesOn == child_status = 0

\* The progress file is written; the loop goes on while the model runs.
Save ==
    /\ pc = "save"
    /\ pc' = "wait"
    /\ IF LoopGoesOn
       THEN site' = "loop" /\ UNCHANGED model_completed
       ELSE site' = "settle" /\ model_completed' = TRUE
    /\ UNCHANGED <<boinc, model, status, handle, child_status, model_success, hurry,
                   left, critical, exit>>

SaveFails ==
    /\ Failures /\ pc = "save"
    /\ EnterRecovery
    /\ UNCHANGED <<boinc, status, progress, hurry>>

-----------------------------------------------------------------------------
(* After the loop, and recovery.                                           *)

Recovered == Decide("controller_error", 1, "controller_error_recovery")

\* finalize_remaining_uploads(), after check_model_success() or in recovery.
FinalizeUploads ==
    /\ pc = "finalize"
    /\ IF site = "settle" THEN model_success' \in BOOLEAN ELSE UNCHANGED model_success
    /\ \/ /\ FinalUploads > 0
          /\ critical' = critical + 1
          /\ left' = FinalUploads
          /\ site' = IF site = "settle" THEN "final" ELSE "recovery_upload"
          /\ pc' = "wait"
          /\ UNCHANGED exit
       \/ /\ FinalUploads = 0 /\ site = "settle"
          /\ site' = "last" /\ pc' = "wait"
          /\ UNCHANGED <<left, critical, exit>>
       \/ /\ FinalUploads = 0 /\ site = "recovery"
          /\ Exit(Recovered)
          /\ UNCHANGED <<left, critical, site>>
    /\ UNCHANGED <<boinc, model, status, handle, child_status, model_completed, hurry>>

SubmitFinal ==
    /\ pc = "submit" /\ site \in {"final", "recovery_upload"}
    /\ left' = left - 1
    /\ \/ /\ left > 1
          /\ pc' = "wait"
          /\ UNCHANGED <<site, critical, exit>>
       \/ /\ left <= 1
          /\ critical' = critical - 1
          /\ IF site = "final"
             THEN site' = "last" /\ pc' = "wait" /\ UNCHANGED exit
             ELSE Exit(Recovered) /\ UNCHANGED site
    /\ UNCHANGED <<boinc, model, status, handle, progress, hurry>>

\* An archive cannot be made or handed over.
UploadFails ==
    /\ Failures /\ pc = "submit"
    /\ Exit(Decide("upload_error", 1, IF site = "recovery_upload"
                                      THEN "controller_error_recovery"
                                      ELSE "immediate"))
    /\ critical' = critical - 1
    /\ UNCHANGED <<boinc, model, site, status, handle, progress, hurry, left>>

\* make_completion_exit_decision()
Complete ==
    /\ pc = "complete"
    /\ Exit(Decide("loop_completed", IF model_success THEN 0 ELSE 1, "task_completed"))
    /\ UNCHANGED <<boinc, model, site, status, handle, progress, hurry, left,
                   critical>>

\* Mutant: a completed task is not expected to have a model left.
StoppingRoutesOnError == {"immediate"}

\* Routes on which finish_task_exit() stops the model.
StoppingRoutes == {"immediate", "task_completed"}

\* Mutant: the critical section is ended without looking whether there is one.
EndedCriticalTwice == critical - 1

\* boinc_end_critical_section() does nothing outside of a critical section.
EndedCritical == IF critical > 0 THEN critical - 1 ELSE 0

FinishTaskExit ==
    /\ pc = "exit"
    /\ IF decision.route \in StoppingRoutes THEN StopChild ELSE UNCHANGED model
    /\ handle' = Closed
    /\ critical' = EndedCritical
    /\ outcome' = IF decision.route = "task_completed" THEN "finished" ELSE "returned"
    /\ pc' = "over"
    /\ UNCHANGED <<boinc, site, status, progress, hurry, left, decision>>

Waits ==
    \/ PollClient \/ SkipWait \/ ApplyShutdown \/ ApplySuspend \/ SuspendFails
    \/ PollWhileSuspended \/ ApplyInRecovery \/ HoldWhileSuspended \/ LeaveHold

Loop ==
    \/ StartupFails \/ LaunchModel \/ CheckChild \/ StepTasks \/ ScheduledUpload
    \/ SubmitScheduled \/ Save \/ SaveFails

Ending ==
    FinalizeUploads \/ SubmitFinal \/ UploadFails \/ Complete \/ FinishTaskExit

Controller == Waits \/ Loop \/ Ending

\* The controller process is no more.
Over == pc = "over" /\ UNCHANGED vars

Next ==
    \/ Client
    \/ Environment(ModelEnds) \/ Environment(StoppedByOthers)
    \/ Environment(ContinuedByOthers)
    \/ Controller \/ Over

Spec == Init /\ [][Next]_vars

\* The controller is scheduled; a suspended task is resumed some day.
FairSpec == Spec /\ WF_vars(Controller) /\ WF_vars(Client /\ ClientResumes)

\* Moreover the model ends some day when it is let run again and again: it gets
\* further each time.
ModelGetsOn == SF_vars(Environment(ModelEnds))

\* The step tasks are not too slow for ever: again and again they leave a wait.
TasksLeaveTime == SF_vars(StepTasks /\ ~hurry')

-----------------------------------------------------------------------------
(* Properties.                                                             *)

\* A task is reported as finished only when the model is over for the loop and
\* for the system: nothing writes to the slot after boinc_finish().  Over for the
\* loop is also a model that others have stopped (any child_status but 0, as in
\* main()): it is killed, and finished as what its log says.
FinishGenuine ==
    outcome = "finished" =>
        /\ model_completed /\ child_status # 0
        /\ proc \in {"exited", "killed", "gone"}
        /\ decision.code = 0 <=> model_success

\* No upload is handed over after a poll that saw a shutdown request.
SubmitsOnlyWhenAsked == pc = "submit" => ~Shutdown(status)

\* A shutdown request is obeyed in whichever wait a poll sees it: nothing is handed
\* over after it, the task is not reported as finished, and the exit code is 0 for
\* a quit, as docs/boinc_exit_behaviour.md has it, and another for an abort.  An
\* exit that nobody asked for is an error.  (A heartbeat lost: HeartbeatLossFails.)
RequestsObeyed ==
    /\ SubmitsOnlyWhenAsked
    /\ outcome = "finished" => ~Shutdown(status)
    /\ outcome = "returned" =>
          /\ status.quit_request => decision.code = 0
          /\ status.abort_request /\ ~status.quit_request => decision.code # 0
          /\ ~Shutdown(status) => decision.code # 0

\* A lost heartbeat ends the task with a non-zero exit code, as the comment in
\* make_boinc_shutdown_exit_decision() says.  Refuted: the code there is 0, though
\* it is 1 when the loss is noticed in the wait before an upload.
HeartbeatLossFails ==
    (outcome = "returned" /\ status.no_heartbeat /\ ~status.quit_request)
        => decision.code # 0

\* Whatever goes wrong in the controller, it does not leave a model behind.
ErrorsLeaveNoModel ==
    (outcome # "running" /\ decision.route # "boinc_shutdown")
        => proc \in {"none", "exited", "killed", "gone"}

\* A signal is never sent to a process that has been reaped, whose number may
\* belong to another process by then.
HandleOwnsProcess == handle.valid => proc \notin {"none", "gone"}

\* The controller never goes on with a model that it has itself left stopped.
ResumedBeforeGoingOn == proc = "stopped" => pc \in {"suspended", "exit", "over"}

\* Critical sections are balanced on every path: one is open during startup and
\* while an upload is prepared, none at any other time.
CriticalBalanced ==
    /\ pc = "start" => critical = 1
    /\ pc \in {"wait", "apply", "suspended", "submit"}
          => critical = IF site \in {"scheduled", "final", "recovery_upload"} THEN 1 ELSE 0
    /\ pc \in {"check", "work", "save", "finalize", "complete", "over"} => critical = 0

\* A quit request ends the controller, whatever it is doing and though the model
\* may run for ever, unless the step tasks outlast the loop delay each time.
QuitHonoured == TasksLeaveTime => (client.quit_request ~> outcome # "running")

\* The controller ends when the model does, also when the model was stopped by
\* others or the task was suspended.
ControllerEnds == ModelGetsOn => <>(outcome # "running")

=============================================================================
