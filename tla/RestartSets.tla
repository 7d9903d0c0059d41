---------------------------- MODULE RestartSets ----------------------------
(***************************************************************************)
(* WRF's restart files: the model writes one file per domain for every     *)
(* restart time; the controller prunes old ones as the run goes on, and at *)
(* its next start takes the newest set that looks complete, rewrites the   *)
(* namelist to start from it, and works out which step that is             *)
(* (wrf_control.cpp, control_start.cpp, cpdn_main.cpp).                    *)
(*                                                                         *)
(* The model writes while the controller scans, either may die at any      *)
(* moment.  A date stands in the state as the model step it is the date of *)
(* (DateOf); where the code computes with dates, so does the module.       *)
(***************************************************************************)
EXTENDS WrfDatetime, FiniteSets, FiniteSetsExt

CONSTANTS
    MaxDomains,       \* max_dom
    TotalSteps,       \* total_steps
    RestartInterval,  \* restart_interval, in steps
    PruneDelay,       \* restart_check_delay, in steps
    StartDate,        \* of the namelist in the app bundle
    HoursPerStep,     \* time_step; bound: whole hours
    MaxSessions,      \* bound: controller processes of one task
    RemovalsFail,     \* may fs::remove() fail?
    Deaths            \* may controller and model end without reason?

ASSUME DomainsAssumption == MaxDomains \in Nat \ {0}
ASSUME StepsAssumption == TotalSteps \in Nat \ {0}
ASSUME IntervalsAssumption ==
    RestartInterval \in Nat \ {0} /\ PruneDelay \in Nat \ {0}
ASSUME DatesAssumption == StartDate \in Dates /\ HoursPerStep \in Nat \ {0}
ASSUME BoundsAssumption ==
    MaxSessions \in Nat /\ {RemovalsFail, Deaths} \subseteq BOOLEAN

Domains == 1 .. MaxDomains

Steps == 0 .. TotalSteps

RestartTimes == {t \in Steps : t > 0 /\ t % RestartInterval = 0}

Files == RestartTimes \X Domains

timestep_seconds == HoursPerStep * 3600

\* The date so many hours after the start of the run in the model's own calendar.
AtHour[h \in Nat] == IF h = 0 THEN StartDate ELSE NextHour(AtHour[h - 1])

DateOf == [step \in Steps |-> AtHour[step * HoursPerStep]]

NoSet == -1

Missing == -1

Torn == -2

VARIABLES
    (* the slot directory *)
    content,         \* of each restart file: none, empty, part or whole
    namelist,        \* start date in namelist.input
    step0,           \* start date in namelist.input.step0, Missing or Torn
    progress,        \* last_completed_step in the progress file, or Missing
    log,             \* last step in stdout.txt, which is appended to
    (* the model process *)
    model,           \* none, running or exited
    model_step,
    writing,         \* the domain whose restart file is written, 0: none
    (* the controller *)
    pc,
    restart_set,     \* the cached restart set that is used, or NoSet
    reference,       \* restart_reference_start_datetime
    last_completed,  \* tstate.last_completed_step
    observed,        \* observed_step
    present,         \* files that were there when the scan for pruning began
    doomed,          \* files still to be deleted
    child_gone,
    session,
    (* history *)
    started          \* step the model was last launched from

slot == <<content, namelist, step0, progress, log>>
child == <<model, model_step, writing>>
startup == <<restart_set, reference>>
pruning == <<present, doomed>>
control == <<pc, startup, last_completed, observed, pruning, child_gone, session>>
vars == <<slot, child, control, started>>

StartupPCs == {"setup", "preserve", "scan", "rewrite", "parse", "decide",
               "record", "launch"}

LoopPCs == {"wait", "tasks", "prune", "delete", "endstep", "save"}

TypeOK ==
    /\ content \in [Files -> {"none", "empty", "part", "whole"}]
    /\ namelist \in Steps
    /\ step0 \in Steps \cup {Missing, Torn}
    /\ progress \in Steps \cup {Missing}
    /\ log \in Steps
    /\ model \in {"none", "running", "exited"}
    /\ model_step \in Steps
    /\ writing \in {0} \cup Domains
    /\ pc \in {"down", "ended"} \cup StartupPCs \cup LoopPCs
    /\ restart_set \in RestartTimes \cup {NoSet}
    /\ reference \in Steps
    /\ last_completed \in Steps /\ observed \in Steps
    /\ present \subseteq Files /\ doomed \subseteq Files
    /\ child_gone \in BOOLEAN
    /\ session \in 0 .. MaxSessions
    /\ started \in Steps

Init ==
    /\ content = [f \in Files |-> "none"]
    /\ namelist = 0 /\ step0 = Missing /\ progress = Missing /\ log = 0
    /\ model = "none" /\ model_step = 0 /\ writing = 0
    /\ pc = "down"
    /\ restart_set = NoSet /\ reference = 0
    /\ last_completed = 0 /\ observed = 0
    /\ present = {} /\ doomed = {}
    /\ child_gone = FALSE
    /\ session = 0
    /\ started = 0

-----------------------------------------------------------------------------
(* The files, as the controller sees them: a file that is not empty counts. *)

NonEmpty == {f \in Files : content[f] \in {"part", "whole"}}

LooksComplete(t) == \A d \in Domains : <<t, d>> \in NonEmpty

Whole(t) == \A d \in Domains : content[<<t, d>>] = "whole"

\* restart_exists() and find_latest_valid_restart_set()
LatestRestartSet ==
    LET complete == {t \in RestartTimes : LooksComplete(t)}
    IN  IF complete = {} THEN NoSet ELSE Max(complete)

Times(files) == {f[1] : f \in files}

\* Mutant: only the newest time is kept.
KeptTimesOne(files) == {t \in Times(files) : \A u \in Times(files) : u <= t}

\* Mutant: the set is walked from its beginning.
KeptTimesFromBegin(files) ==
    {t \in Times(files) : Cardinality({u \in Times(files) : u < t}) < 2}

\* The two newest restart times of the files found.
KeptTimes(files) ==
    {t \in Times(files) : Cardinality({u \in Times(files) : u > t}) < 2}

\* The steps between two dates, or -1.
ElapsedSteps(from, to) ==
    LET seconds == datetime_duration_seconds(from, to)
    IN  IF seconds >= 0 /\ seconds % timestep_seconds = 0
        THEN seconds \div timestep_seconds ELSE -1

\* get_current_step() of the last date in the log, counted from the run's start.
CurrentStep ==
    LET step == ElapsedSteps(DateOf[step0], DateOf[log])
    IN  IF step \in Steps THEN step ELSE 0

\* The date in the names of a step's output files: get_output_filenames().
OutputDate(start, seconds) ==
    add_duration_to_datetime(start, secs_to_datetime_duration(seconds))

-----------------------------------------------------------------------------
(* The model.  After a step has been logged it writes the restart files of *)
(* that step, domain by domain.                                            *)

WritesRestartAt(step) == step \in RestartTimes

ModelStep ==
    /\ model = "running" /\ writing = 0 /\ model_step < TotalSteps
    /\ model_step' = model_step + 1
    /\ log' = model_step + 1
    /\ writing' = IF WritesRestartAt(model_step + 1) THEN 1 ELSE 0
    /\ content' = IF WritesRestartAt(model_step + 1)
                  THEN [content EXCEPT ![<<model_step + 1, 1>>] = "empty"]
                  ELSE content
    /\ UNCHANGED <<namelist, step0, progress, model, control, started>>

ModelFills ==
    /\ model = "running" /\ writing > 0
    /\ content[<<model_step, writing>>] = "empty"
    /\ content' = [content EXCEPT ![<<model_step, writing>>] = "part"]
    /\ UNCHANGED <<namelist, step0, progress, log, child, control, started>>

\* The file of a domain is complete, and that of the next one is opened.
ModelCloses ==
    /\ model = "running" /\ writing > 0
    /\ content[<<model_step, writing>>] = "part"
    /\ LET closed == [content EXCEPT ![<<model_step, writing>>] = "whole"] IN
       IF writing < MaxDomains
       THEN /\ writing' = writing + 1
            /\ content' = [closed EXCEPT ![<<model_step, writing + 1>>] = "empty"]
       ELSE writing' = 0 /\ content' = closed
    /\ UNCHANGED <<namelist, step0, progress, log, model, model_step, control, started>>

\* The model ends: after its last step, with the host or because it misses its
\* controller once that is gone, or for no reason at any moment.
ModelExit ==
    /\ model = "running"
    /\ Deaths \/ pc = "down" \/ (model_step = TotalSteps /\ writing = 0)
    /\ model' = "exited" /\ writing' = 0
    /\ UNCHANGED <<slot, model_step, control, started>>

-----------------------------------------------------------------------------
(* The start of a controller.                                              *)

\* Mutant: what has been extracted already is not extracted again.
ExtractedIfMissing == IF session = 0 THEN 0 ELSE namelist

\* The namelist of the app bundle: extraction replaces what is in the slot.
Extracted == 0

\* Staging; the model of the session before is gone by then.
Start ==
    /\ pc = "down" /\ session < MaxSessions /\ model # "running"
    /\ session' = session + 1
    /\ namelist' = Extracted
    /\ pc' = "setup"
    /\ UNCHANGED <<content, step0, progress, log, child, startup, last_completed,
                   observed, pruning, child_gone, started>>

\* setup(): namelist.input is copied to namelist.input.step0 unless that exists.
OpenStep0 ==
    /\ pc = "setup"
    /\ IF step0 = Missing
       THEN step0' = Torn /\ pc' = "preserve"
       ELSE pc' = "scan" /\ UNCHANGED step0
    /\ UNCHANGED <<content, namelist, progress, log, child, startup, last_completed,
                   observed, pruning, child_gone, session, started>>

FillStep0 ==
    /\ pc = "preserve"
    /\ step0' = namelist
    /\ pc' = "scan"
    /\ UNCHANGED <<content, namelist, progress, log, child, startup, last_completed,
                   observed, pruning, child_gone, session, started>>

ScanRestarts ==
    /\ pc = "scan"
    /\ restart_set' = LatestRestartSet
    /\ pc' = IF LatestRestartSet = NoSet THEN "parse" ELSE "rewrite"
    /\ UNCHANGED <<slot, child, reference, last_completed, observed, pruning,
                   child_gone, session, started>>

\* update_restart_namelist(): the start date found is kept, then replaced.
RewriteNamelist ==
    /\ pc = "rewrite"
    /\ reference' = namelist
    /\ namelist' = restart_set
    /\ pc' = "parse"
    /\ UNCHANGED <<content, step0, progress, log, child, restart_set, last_completed,
                   observed, pruning, child_gone, session, started>>

\* parse_control_input() reads the preserved namelist.
ParseControlInput ==
    /\ pc = "parse"
    /\ pc' = IF step0 = Torn THEN "ended" ELSE "decide"
    /\ UNCHANGED <<slot, child, startup, last_completed, observed, pruning,
                   child_gone, session, started>>

\* Mutant: the step after the restart.
RestartStepAfter == ElapsedSteps(DateOf[reference], DateOf[restart_set]) + 1

\* parse_restart()
RestartStep == ElapsedSteps(DateOf[reference], DateOf[restart_set])

AllowedRestartStepDiff == RestartInterval + 2

FreshRun == progress = Missing /\ restart_set = NoSet

RestartRun ==
    /\ progress # Missing /\ restart_set # NoSet
    /\ RestartStep \in 0 .. progress + AllowedRestartStepDiff

RunAgainFromStepZero ==
    /\ progress # Missing /\ restart_set = NoSet
    /\ progress < RestartInterval

\* initialize_task_state_from_restart()
Decide ==
    /\ pc = "decide"
    /\ \/ /\ FreshRun
          /\ last_completed' = 0 /\ pc' = "record"
       \/ /\ RestartRun
          /\ last_completed' = RestartStep /\ pc' = "record"
       \/ /\ RunAgainFromStepZero
          /\ last_completed' = progress /\ pc' = "record"
       \/ /\ ~(FreshRun \/ RestartRun \/ RunAgainFromStepZero)
          /\ pc' = "ended" /\ UNCHANGED last_completed
    /\ UNCHANGED <<slot, child, startup, observed, pruning, child_gone, session,
                   started>>

RecordStart ==
    /\ pc = "record"
    /\ progress' = last_completed
    /\ pc' = "launch"
    /\ UNCHANGED <<content, namelist, step0, log, child, startup, last_completed,
                   observed, pruning, child_gone, session, started>>

\* The model starts from the namelist; it cannot read a set that is torn.
Launch ==
    /\ pc = "launch"
    /\ model' = IF restart_set = NoSet \/ Whole(namelist) THEN "running" ELSE "exited"
    /\ model_step' = namelist /\ writing' = 0
    /\ started' = namelist
    /\ child_gone' = FALSE
    /\ pc' = "wait"
    /\ UNCHANGED <<slot, startup, last_completed, observed, pruning, session>>

-----------------------------------------------------------------------------
(* The main loop.                                                          *)

\* get_current_step() finds the last step of the log, or fails and leaves 0.
Observe ==
    /\ pc = "wait"
    /\ child_gone' = (model = "exited")
    /\ observed' \in {0, CurrentStep}
    /\ pc' = IF observed' # last_completed THEN "tasks" ELSE "save"
    /\ UNCHANGED <<slot, child, startup, last_completed, pruning, session, started>>

\* do_step_tasks(): the scan begins, at some steps only.
StepTasks ==
    /\ pc = "tasks"
    /\ IF observed > 0 /\ observed % PruneDelay = 0
       THEN present' = NonEmpty /\ pc' = "prune"
       ELSE pc' = "endstep" /\ UNCHANGED present
    /\ UNCHANGED <<slot, child, startup, last_completed, observed, doomed, child_gone,
                   session, started>>

\* The scan finds what was there all the time, and perhaps what came or went.
Prune ==
    /\ pc = "prune"
    /\ \E found \in SUBSET (present \cup NonEmpty) :
          /\ present \cap NonEmpty \subseteq found
          /\ doomed' = {f \in found : f[1] \notin KeptTimes(found)}
    /\ present' = {}
    /\ pc' = "delete"
    /\ UNCHANGED <<slot, child, startup, last_completed, observed, child_gone, session,
                   started>>

DeleteRestartFile ==
    /\ pc = "delete" /\ doomed # {}
    /\ \E f \in doomed :
          /\ doomed' = doomed \ {f}
          /\ \/ content' = [content EXCEPT ![f] = "none"]
             \/ RemovalsFail /\ UNCHANGED content
    /\ UNCHANGED <<namelist, step0, progress, log, child, pc, startup, last_completed,
                   observed, present, child_gone, session, started>>

Pruned ==
    /\ pc = "delete" /\ doomed = {}
    /\ pc' = "endstep"
    /\ UNCHANGED <<slot, child, startup, last_completed, observed, pruning, child_gone,
                   session, started>>

EndStep ==
    /\ pc = "endstep"
    /\ last_completed' = observed
    /\ pc' = "save"
    /\ UNCHANGED <<slot, child, startup, observed, pruning, child_gone, session, started>>

Save ==
    /\ pc = "save"
    /\ progress' = last_completed
    /\ pc' = IF child_gone THEN "ended" ELSE "wait"
    /\ UNCHANGED <<content, namelist, step0, log, child, startup, last_completed,
                   observed, pruning, child_gone, session, started>>

-----------------------------------------------------------------------------

\* BOINC asks the controller to quit in the wait of the loop, or it dies anywhere:
\* what is on disk stays, and the model may go on for a while.
Interrupt ==
    /\ pc = "wait" \/ (Deaths /\ pc \in StartupPCs \cup LoopPCs)
    /\ pc' = "down"
    /\ present' = {} /\ doomed' = {}
    /\ UNCHANGED <<slot, child, startup, last_completed, observed, child_gone, session,
                   started>>

\* Nothing is left to do: the task is over, or the bound on sessions is met.
Over ==
    /\ pc = "ended" \/ (pc = "down" /\ session = MaxSessions)
    /\ UNCHANGED vars

Model == ModelStep \/ ModelFills \/ ModelCloses \/ ModelExit

Startup ==
    \/ Start \/ OpenStep0 \/ FillStep0 \/ ScanRestarts \/ RewriteNamelist
    \/ ParseControlInput \/ Decide \/ RecordStart \/ Launch

Loop ==
    \/ Observe \/ StepTasks \/ Prune \/ DeleteRestartFile \/ Pruned \/ EndStep \/ Save

Next == Model \/ Startup \/ Loop \/ Interrupt \/ Over

Spec == Init /\ [][Next]_vars

-----------------------------------------------------------------------------
(* Properties.                                                             *)

\* A restart file is deleted only when a newer set is complete on disk, though
\* the model may be writing its newest set during the scan, and a crash may have
\* left sets torn or half deleted.
PruneOnlySuperseded ==
    [][\A f \in Files :
          (content[f] # "none" /\ content'[f] = "none")
              => \E t \in RestartTimes : t > f[1] /\ Whole(t)]_vars

\* Over all sessions the model never starts from an earlier step than it did
\* before: the set it started from, or a newer one, is still there at the next
\* start, wherever the controller and the model were interrupted.
RestartsNeverGoBack == [][started' >= started]_vars

\* After a restart the controller's step count and the model's start from the same
\* step, and the step of the log's date is the model's, in the first restart as in
\* later ones, although the namelist is rewritten each time, and across the end of
\* a February.
RestartStepTrue ==
    /\ pc \in {"record", "launch"} =>
          /\ step0 = 0
          /\ restart_set # NoSet => last_completed = restart_set /\ namelist = restart_set
    /\ pc = "wait" => CurrentStep = log

\* A task that was asked to quit can be started again: neither a restart set that
\* is not complete yet nor a step count that is behind or ahead of it makes
\* initialize_task_state_from_restart() give the task up.
QuitIsRestartable ==
    pc = "decide" => FreshRun \/ RestartRun \/ RunAgainFromStepZero

=============================================================================
