------------------------------ MODULE Reports ------------------------------
(***************************************************************************)
(* The figures the controller reports to BOINC in every iteration of its   *)
(* loop: the CPU time of the task, the CPU time at its last checkpoint and *)
(* the fraction done (cpdn_main.cpp, cpdn_cpu_time.cpp, model_frac_done()  *)
(* of cpdn_control.cpp), and what of them the progress file carries over   *)
(* to the next controller.                                                 *)
(*                                                                         *)
(* CPU time is counted in a coarse unit.  A fraction is counted in parts   *)
(* of 1 / (70000 * TotalSteps), in which every constant of                 *)
(* model_frac_done() is a whole number.                                    *)
(***************************************************************************)
EXTENDS Integers

CONSTANTS
    TotalSteps,       \* total_steps
    RestartInterval,  \* restart_interval_steps
    Cores,            \* bconfig.ncpus
    SeenSteps,        \* the steps the log may show when the controller looks
    MaxCpu,           \* bound: CPU time of one model process
    MaxSessions       \* bound: controller processes of one task

ASSUME StepsAssumption ==
    /\ TotalSteps \in Nat \ {0} /\ RestartInterval \in Nat \ {0}
    /\ SeenSteps \subseteq 0 .. TotalSteps
ASSUME CoresAssumption == Cores \in Nat \ {0}
ASSUME BoundsAssumption == MaxCpu \in Nat /\ MaxSessions \in Nat

Steps == 0 .. TotalSteps

-----------------------------------------------------------------------------
(* model_frac_done()                                                       *)

OneStep == 70000                   \* frac_per_step

Complete == 70000 * TotalSteps     \* 1.0

AlmostComplete == 69993 * TotalSteps   \* 0.9999

HeartbeatInc == 1000 * Cores       \* frac_per_step / (70 / nthreads)

Thousandth == 70 * TotalSteps      \* 0.001

\* Mutant: the heartbeat is not held back at the next step.
BeatUnbounded(beat) == beat + HeartbeatInc

\* The heartbeat of another look at the same step.
Beat(beat) ==
    IF beat + HeartbeatInc > OneStep
    THEN OneStep - Thousandth
    ELSE beat + HeartbeatInc

\* Mutant: the estimate may exceed 1.
FractionUnclamped(step, beat) == step * OneStep + beat

\* The fraction reported for a step and a heartbeat.
Fraction(step, beat) ==
    LET f == step * OneStep + beat
    IN  IF f < 0 THEN 0 ELSE IF f > Complete THEN AlmostComplete ELSE f

-----------------------------------------------------------------------------
Missing == [cpu |-> -1, step |-> -1]

NoReport == [cpu |-> 0, checkpoint |-> 0, step |-> -1, fraction |-> 0]

VARIABLES
    (* the slot directory *)
    progress,       \* prior_acc_cpu_time and last_completed_step, or Missing
    restart,        \* step of the model's restart file, 0: none
    log,            \* last step in the model's log
    (* the model process *)
    proc,           \* none, running, exited (unreaped) or gone
    child_cpu,      \* its CPU time
    model_step,
    (* the controller *)
    pc,
    prior,          \* tstate.prior_acc_cpu_time
    current,        \* tstate.current_cpu_time
    restart_cpu,    \* tstate.restart_cpu_time
    current_step, last_completed,
    child_gone,     \* child_status # 0
    stepm1, heartbeat,  \* the static variables of model_frac_done()
    session,
    report,         \* the last boinc_report_app_status()
    (* history *)
    spent           \* CPU time of the model processes before this one

slot == <<progress, restart, log>>
child == <<proc, child_cpu, model_step, spent>>
times == <<prior, current, restart_cpu>>
steps == <<current_step, last_completed, child_gone>>
fraction == <<stepm1, heartbeat>>
vars == <<slot, child, pc, times, steps, fraction, session, report>>

CpuTimes == 0 .. (MaxCpu * MaxSessions)

TypeOK ==
    /\ progress \in [cpu : CpuTimes, step : Steps] \cup {Missing}
    /\ restart \in Steps /\ log \in Steps
    /\ proc \in {"none", "running", "exited", "gone"}
    /\ child_cpu \in 0 .. MaxCpu /\ model_step \in Steps
    /\ pc \in {"down", "record", "launch", "wait", "check", "save", "report", "over"}
    /\ prior \in CpuTimes /\ current \in CpuTimes /\ restart_cpu \in CpuTimes
    /\ current_step \in Steps /\ last_completed \in Steps
    /\ child_gone \in BOOLEAN
    /\ stepm1 \in Steps \cup {-1}
    /\ heartbeat \in Int
    /\ session \in 0 .. MaxSessions
    /\ report \in [cpu : CpuTimes, checkpoint : Nat, step : Steps,
                   fraction : 0 .. Complete] \cup {NoReport}
    /\ spent \in CpuTimes

Init ==
    /\ progress = Missing /\ restart = 0 /\ log = 0
    /\ proc = "none" /\ child_cpu = 0 /\ model_step = 0 /\ spent = 0
    /\ pc = "down"
    /\ prior = 0 /\ current = 0 /\ restart_cpu = 0
    /\ current_step = 0 /\ last_completed = 0 /\ child_gone = FALSE
    /\ stepm1 = -1 /\ heartbeat = 0
    /\ session = 0
    /\ report = NoReport

-----------------------------------------------------------------------------
(* The model.                                                              *)

ModelComputes ==
    /\ proc = "running" /\ child_cpu < MaxCpu
    /\ child_cpu' = child_cpu + 1
    /\ UNCHANGED <<slot, proc, model_step, spent, pc, times, steps, fraction, session,
                   report>>

\* A step is logged; a restart file of a step up to it may have been written.
ModelLogs ==
    /\ proc = "running"
    /\ \E step \in SeenSteps :
          /\ step > model_step
          /\ model_step' = step /\ log' = step
          /\ restart' \in {restart, step - (step % RestartInterval)}
          /\ restart' >= restart
    /\ UNCHANGED <<progress, proc, child_cpu, spent, pc, times, steps, fraction,
                   session, report>>

ModelExit ==
    /\ proc = "running"
    /\ proc' = "exited"
    /\ UNCHANGED <<slot, child_cpu, model_step, spent, pc, times, steps, fraction,
                   session, report>>

-----------------------------------------------------------------------------
(* The start of a controller.                                              *)

AllowedRestartStepDiff == RestartInterval + 2

\* Mutant: the CPU time of the task is left to the first refresh.
PrepareTaskStateStepsOnly(cpu, step) ==
    /\ prior' = cpu /\ current' = 0
    /\ last_completed' = step /\ current_step' = step

\* The progress file is read, last_completed_step set to the restart step, and
\* prepare_task_state_for_controller_run() called.
PrepareTaskState(cpu, step) ==
    /\ prior' = cpu /\ current' = cpu
    /\ last_completed' = step /\ current_step' = step

\* A new process: its variables have their initial values.
NewProcess ==
    /\ pc = "down" /\ session < MaxSessions
    /\ session' = session + 1
    /\ restart_cpu' = 0 /\ child_gone' = FALSE
    /\ stepm1' = -1 /\ heartbeat' = 0
    /\ UNCHANGED <<slot, child, report>>

FreshRun ==
    /\ NewProcess
    /\ progress = Missing /\ restart = 0
    /\ PrepareTaskState(0, 0)
    /\ pc' = "record"

RestartRun ==
    /\ NewProcess
    /\ progress # Missing /\ restart > 0
    /\ restart <= progress.step + AllowedRestartStepDiff
    /\ PrepareTaskState(progress.cpu, restart)
    /\ pc' = "record"

RunAgainFromStepZero ==
    /\ NewProcess
    /\ progress # Missing /\ restart = 0
    /\ progress.step < RestartInterval
    /\ PrepareTaskState(progress.cpu, progress.step)
    /\ pc' = "record"

\* The restart file is too far ahead, or missing.
Refuse ==
    /\ NewProcess
    /\ progress # Missing
    /\ IF restart > 0
       THEN restart > progress.step + AllowedRestartStepDiff
       ELSE progress.step >= RestartInterval
    /\ pc' = "over"
    /\ UNCHANGED <<prior, current, last_completed, current_step>>

Start == FreshRun \/ RestartRun \/ RunAgainFromStepZero \/ Refuse

\* ProgressFileHandler::write()
Stored == [cpu |-> current, step |-> last_completed]

RecordStart ==
    /\ pc = "record"
    /\ progress' = Stored
    /\ pc' = "launch"
    /\ UNCHANGED <<restart, log, child, times, steps, fraction, session, report>>

\* The model starts from its restart file.
Launch ==
    /\ pc = "launch"
    /\ spent' = spent + child_cpu
    /\ proc' = "running" /\ child_cpu' = 0 /\ model_step' = restart
    /\ pc' = "wait"
    /\ UNCHANGED <<slot, times, steps, fraction, session, report>>

-----------------------------------------------------------------------------
(* An iteration of the loop.                                               *)

\* cpdn_cpu_time(): 0 when it cannot be read; a process not yet reaped can be.
Readable == proc \in {"running", "exited"}

\* Mutant: the time of the process is added each time.
RefreshAdding ==
    /\ pc = "wait"
    /\ current' = IF Readable /\ child_cpu > 0 THEN current + child_cpu ELSE current
    /\ pc' = "check"
    /\ UNCHANGED <<slot, child, prior, restart_cpu, steps, fraction, session, report>>

\* refresh_current_cpu_time(), after the wait.
Refresh ==
    /\ pc = "wait"
    /\ current' \in {current, IF Readable /\ child_cpu > 0 THEN prior + child_cpu
                                                          ELSE current}
    /\ pc' = "check"
    /\ UNCHANGED <<slot, child, prior, restart_cpu, steps, fraction, session, report>>

\* The child is asked for, then the log; nothing new or nothing readable in it
\* leaves the steps alone.
CheckAndObserve ==
    /\ pc = "check"
    /\ proc' = IF proc = "exited" THEN "gone" ELSE proc
    /\ child_gone' = (proc # "running")
    /\ \/ current_step' = log /\ last_completed' = log
       \/ UNCHANGED <<current_step, last_completed>>
    /\ pc' = "save"
    /\ UNCHANGED <<slot, child_cpu, model_step, spent, times, fraction, session, report>>

Save ==
    /\ pc = "save"
    /\ progress' = Stored
    /\ pc' = "report"
    /\ UNCHANGED <<restart, log, child, times, steps, fraction, session, report>>

\* model_frac_done()
UpdateFraction ==
    IF current_step > stepm1
    THEN heartbeat' = 0 /\ stepm1' = current_step
    ELSE heartbeat' = Beat(heartbeat) /\ UNCHANGED stepm1

FractionDone ==
    Fraction(current_step, IF current_step > stepm1 THEN 0 ELSE heartbeat')

\* The fraction done, the CPU time at a restart step, and the report of both.
Report ==
    /\ pc = "report"
    /\ UpdateFraction
    /\ restart_cpu' = IF current_step % RestartInterval = 0 THEN current ELSE restart_cpu
    /\ report' = [cpu        |-> current,
                  checkpoint |-> restart_cpu' + prior,
                  step       |-> current_step,
                  fraction   |-> FractionDone]
    /\ pc' = IF child_gone THEN "over" ELSE "wait"
    /\ UNCHANGED <<slot, child, prior, current, steps, session>>

\* The controller is killed, or quits; the model is gone before it is started
\* again.
Interrupt ==
    /\ pc \notin {"down", "over"}
    /\ pc' = "down"
    /\ proc' = IF proc = "none" THEN "none" ELSE "gone"
    /\ UNCHANGED <<slot, child_cpu, model_step, spent, times, steps, fraction, session,
                   report>>

\* All sessions are used up, or the loop has ended.
Stopped ==
    /\ pc = "over" \/ (pc = "down" /\ session = MaxSessions)
    /\ UNCHANGED vars

Next ==
    \/ ModelComputes \/ ModelLogs \/ ModelExit
    \/ Start \/ RecordStart \/ Launch
    \/ Refresh \/ CheckAndObserve \/ Save \/ Report
    \/ Interrupt \/ Stopped

Spec == Init /\ [][Next]_vars

-----------------------------------------------------------------------------
(* Properties.                                                             *)

\* The CPU time claimed for the task, in memory and in the progress file, is
\* never more than its model processes have used together: nothing is counted
\* twice over refreshes, failed starts and restarts.
CpuNotOvercounted ==
    /\ pc \notin {"down", "over"} => current <= spent + child_cpu
    /\ progress.cpu <= spent + child_cpu

\* CPU time that was recorded stays recorded: neither a restart nor a time that
\* cannot be read takes the progress file back.
RecordedCpuKept == [][progress'.cpu >= progress.cpu]_vars

\* The fraction done does not go back when the model gets on: what has been shown for
\* a step, by however many looks at it, is never more than what is shown at the first
\* look at a later one, in this session or another.
FractionAdvances ==
    [][(report'.step > report.step /\ report'.step > stepm1)
          => report'.fraction >= report.fraction]_vars

\* The CPU time at the last checkpoint, reported for the whole run, is no more than
\* the model processes of the run have used.
CheckpointNotOvercounted == report.checkpoint <= spent + child_cpu

=============================================================================
