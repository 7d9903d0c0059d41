# A TLA+ model of the CPDN controller

`cpdn_control` is the program BOINC runs for a climateprediction.net task. It
unpacks a climate model (OpenIFS or WRF) into a slot directory, runs it as a
child process, collects its output files into archives that it hands to the
BOINC client as numbered uploads, reports progress by *trickles*, and survives
being suspended, quit, killed and restarted for the weeks a task takes.

This directory holds TLA+ modules that model the controller's behaviour as the
code in `src/` has it, configurations that check them with TLC, and proofs
checked with TLAPS. Paths below are relative to the repository; `cpdn_main.cpp`
and its neighbours are in `src/`, the handlers in `api/`, process control and
utilities in `lib/`.

## 1. Inventory

| Component | State it keeps | Operations | Interacts with |
|---|---|---|---|
| Main loop and exits (`cpdn_main.cpp`) | `TaskState`, `next_delay_seconds`, the `ExitDecision` | start-up, one loop iteration, the steps after the loop, recovery, `finish_task_exit` | all others |
| BOINC polling, child control (`cpdn_control.cpp`) | `BoincRuntime` (snapshot of the client's status) | `sleep_with_boinc_poll`, `apply_boinc_suspend_resume`, `check_child_status`, `terminate_child_process_if_active` | BOINC client (polled), process control |
| Process control (`process_control_posix.cpp`, `process_control_windows.cpp`) | `ChildProcessHandle` | start, poll, stop, continue, kill, close | kernel, model process |
| Upload manager (`upload_manager.cpp`) | temporary upload directory, archives; upload counters in `TaskState` | staging, scheduled upload, final uploads, clean-up | main loop, `zip`, `boinc_upload_file` |
| Restart decision (`control_start.cpp`) | none | choose between fresh run, restart, refusal | progress file, the model's restart file |
| Progress file (`progressfile_handler.cpp`) | one file in the slot | crash-safe `write`, `read` | main loop; the model reads it as well |
| Trickles (`trickle_handler.cpp`) | `last_trickle_step` in memory | frequency, boundary test, send | main loop, `boinc_send_trickle_up` |
| OpenIFS control (`models/openifs`) | paths, intervals, last line of `ifs.stat` | step from the log, copyable files, restart data, step tasks (diagnostics) | model process through files |
| WRF control (`models/wrf`) | domains, prefixes, start time | step from `stdout.txt`, copyable files, restart sets and their pruning, namelist update | model process through files |
| CPU time, fraction done (`cpdn_cpu_time.cpp`, `model_frac_done`) | accumulated times, heartbeat | refresh, report | progress file, BOINC client |
| Timed helper processes, text tools (`utils.cpp`) | position and last line of the log that is followed | run with timeout, tail of a file, parsing | diagnostics, logs |
| The model's watch over its controller (`tools/process_check`) | first look, standalone or not, process number seen | `cpdn_checkpid`, `cpdn_process_check` at every time step of the model | progress file, kernel |
| WRF date arithmetic (`models/wrf/wrf_datetime.cpp`) | none | date to seconds, seconds to duration, date plus duration | WRF control |
| Input staging, arguments (`cpdn_control.cpp`, `parse_args.cpp`) | slot directory | stage, unzip, verify | BOINC file names |

What is hard about it:

* **Two processes that die separately.** The model outlives a killed controller
  for a while; its restart file, its log and the progress file are written by
  different processes at different times and are compared at the next start.
* **A client that is only polled.** Suspend, resume, quit, abort and loss of
  heartbeat are seen in seven different waits, each with its own continuation.
* **Multi-step hand-offs without a transaction.** An output file is copied,
  removed, zipped, deleted, handed over and only then recorded.
* **A promise in numbers.** BOINC was told how many uploads a task makes, under
  which names; steps may be skipped, repeated or read late.
* **Errors with a policy.** Some failures stop at once, some send what is there
  first, and only one path may call `boinc_finish()`.

What makes each component correct:

* uploads: no output lost but in two known ways, no number skipped, none beyond the promise but
  one after a recovery, the last number left to the final upload (`OutputsAccountedFor`,
  `FinishedAccountsFor`, `NoNumberSkipped`, `ImplementsContract`, `ScheduledLeavesFinal`);
* main loop and exits: the client's requests obeyed in every wait, a finish that is
  genuine, no orphan after an error, an end (`RequestsObeyed`, `FinishGenuine`,
  `ErrorsLeaveNoModel`, `QuitHonoured`, `ControllerEnds`);
* process control: signals only to a process of one's own, nothing left stopped
  (`HandleOwnsProcess`, `ResumedBeforeGoingOn`);
* progress file: replaced as a whole (`ImplementsRecord`; proved also `NeverTorn`,
  `ConfirmedSurvives`);
* the model's watch: no model is stopped beside its controller, none runs on without it or
  beside a successor (`WatchSparesControlled`, `NeverTakenForStandalone`,
  `NoStepBesideSuccessor`, `OrphansEnd`);
* restart decision: no quit and no death makes the next start give the task up, and a
  restart neither repeats nor omits an upload (`StartNotRefused`, `PersistedUploadsOnlyGrow`);
* OpenIFS's log: the loop ends with the last line dealt with, and the success found is the
  model's (`LogReadToEnd`, `SuccessTrue`);
* restart sets and dates of WRF: a complete newer set survives pruning, no restart goes back,
  the controller counts from the step the model starts from (`PruneOnlySuperseded`,
  `RestartsNeverGoBack`, `RestartStepTrue`);
* trickles and diagnostics: every part of the run is reported, with whole data, and the
  helper program neither holds up the controller for ever nor stays behind
  (`BoundariesReported`, `LastStepReported`, `DataGenuine`, `NoHelperLeft`,
  `DiagnosticsEnd`);
* CPU time and fraction done: nothing counted twice or lost over restarts, the fraction of a
  step never more than that of the next (`CpuNotOvercounted`, `RecordedCpuKept`,
  `FractionAdvances`).

`PROJECT.json` lists every component with its status and every hazard with the
line where it bites.

## 2. The modules

| Module | What it is |
|---|---|
| `Uploads` | the path of an output file from the slot to BOINC over several controller sessions |
| `UploadContract` | abstract: what is promised to BOINC about the uploads; `Uploads` implements it |
| `Controller` | one controller process: loop, waits, model process, exit routes |
| `ProgressFile` | `ProgressFileHandler::write()` call by call, with kills and host crashes |
| `ModelWatch` | extends `ProgressFile` by the sessions that write the file and the models that read it to see whether their controller is there |
| `DurableRecord` | abstract: a record replaced as a whole; `ProgressFile` and `ModelWatch` implement it |
| `StepLog` | OpenIFS: the log that is followed by its last line, the restart file, the restart decision |
| `WrfDatetime` | WRF's dates: the code's arithmetic, and the calendar it stands for |
| `RestartSets` | WRF's restart files: written by the model, pruned and chosen by the controller, over several sessions; extends `WrfDatetime` |
| `Trickles` | trickle boundaries and the diagnostics program that is run with a timeout |
| `Reports` | CPU time and fraction done, over several sessions |
| `UploadsProofs`, `ControllerProofs`, `ModelWatchProofs`, `StepLogProofs`, `WrfDatetimeProofs`, `RestartSetsProofs`, `TricklesProofs`, `ReportsProofs` | theorems and their proofs; those of `ModelWatchProofs` begin with `ProgressFile` |
| `MCUploads`, `MCController`, `MCModelWatch`, `MCStepLog`, `MCRestartSets`, `MCTrickles`, `MCReports` | the modules TLC runs on |

`Controller` and `Uploads` look at the same program from two sides. `Controller`
keeps the waits, the client's status, the model process and the exits, and
abstracts an upload to "its wait, then hand-off or failure". `Uploads` keeps the
files, the counters and the restarts, and abstracts a wait to "it ends quietly, or
the client interrupts it". `Uploads` takes the replacement of the progress file as
one step, as do `StepLog`, `RestartSets`, `Trickles` and `Reports`; that this is justified
is what `ProgressFile` shows.

### Uploads

State: `slot`, `upload_dir`, `archive` are sets of output files, each named by the
step that wrote it; `progress` is the progress file; `rcf` the step of the model's
restart file; `submitted` and `delivered` what BOINC has; `model`, `model_step`,
`old_log` the model process; `tstate`, `observed`, `index` the variables of the
controller with these names (`index` is `upload_index`). `abandoned` remembers the outputs the
code has given up, in one of two ways: they were in an archive whose session ended before the
hand-off (`LeaveArchive`), or staged in the upload directory when it was deleted
(`CleanupUploadDir`, after a final upload that could not read the directory or not copy them).
What an upload finds of the directory is `Collected`: one that cannot be opened looks empty, so that a
scheduled upload sends a placeholder and moves the counters; an entry that cannot be read makes a
scheduled upload fail and leaves the final one with a part of the files.

| Actions | Code |
|---|---|
| `Start` with `FreshRun`, `RestartRun`, `RunAgainFromStepZero` | `initialize_task_state_from_restart()` |
| `RecordStart`, `Launch`, `StartupFails` | `main()` 734-803, `start_child_process()` |
| `Observe` | `main()` 826-844: wait, child status, then step |
| `MoveCopyableOutputFiles` | `move_copyable_output_files()`, `move_result_file()` |
| `Zip` (with `Collected`), `ZipPlaceholder`, `DeleteZipped`, `UploadWait` | collecting, placeholder, `zip_and_delete()`, the 20 s wait |
| `SubmitScheduled`, `SubmitFinal` | the ends of `process_scheduled_upload()` and `finalize_remaining_uploads()` |
| `EndStep`, `Save`, `SaveFails` | `main()` 891-937 |
| `Settle`, `CleanupUploadDir`, `Finish`, `Recover`, `UploadFails` | after the loop, recovery, failure |
| `Quit`, `Abort`, `SuspendWithoutModel`, `Crash` | ends of a session |
| `ModelOpensLog`, `ModelStep`, `ModelExit` | the model (external) |

The model process writes the output file of a step before it logs the step, and
its restart file at multiples of the restart interval. `get_current_step()` is
abstracted to the set of values it can leave (`ReadableSteps`): any step between
the last one seen and the model's (logs are flushed late, steps are skipped), the
last step of the log of an earlier process, nothing new, and 0 for WRF, whose
`get_current_step()` resets its argument before it can fail. `OutputLag` is 0 for
OpenIFS and the output interval for WRF, whose files are copyable only one
interval later.

### Controller

State: `client` is what the client would report now, `status` the snapshot of the
last poll; `proc` and `event` are the model process and the state change
`waitpid()` has not reported yet; `handle`, `child_status`, `decision` and the rest
are the controller's. `pc` and `site` say where it is and which call is waiting:

| `site` | Wait |
|---|---|
| `loop` | `main()` 826 |
| `scheduled`, `final` | 20 s before an upload, model under control (`upload_manager.cpp` 154-162) |
| `settle`, `last` | `main()` 941 and 983 |
| `recovery` | `recover_after_controller_error()` 430 |
| `recovery_upload` | 20 s before an upload of the recovery (`upload_manager.cpp` 164-174) |

A wait is `PollClient` (or `SkipWait` when `next_delay_seconds` is 0), then
`ApplySuspend`, `ApplyShutdown`, `SuspendFails`, `PollWhileSuspended`,
`ApplyInRecovery`, `HoldWhileSuspended` or `LeaveHold`, according to the site. A
wait of many polls is one poll that found nothing or the one that ended it. All
critical sections of the code are counted in `critical`.

### ProgressFile

The contents of a file are named by the number of the `write()` that produced them;
`Torn` stands for an empty or incomplete file. `file` and `tmp` are what processes
see, `on_disk` is the set of contents the name may have after a crash of the host:
a rename adds to it, the sync of the directory reduces it to one.

### ModelWatch

State: session *n* of the controller has process number *n* and starts model *n*. `author` is
the process number in each version of the progress file, `inherited` the versions of earlier
sessions, `taken` the numbers of dead controllers that other processes have got since. Of each
model: `phase`, and `lfirst`, `alone` (`lstandalone`) and `last_pid` of `cpdn_checkpid.f90`.

| Actions | Code |
|---|---|
| `StartSession`, `CallWritePid`, `ReplaceFile`, `SessionDies` | the actions of `ProgressFile`; `control_pid` is the number of the session |
| `Launch` (with `ReadyToLaunch`) | `main()`: the model is launched once a write of this session was confirmed |
| `CheckPid` (with `Standalone`, `SamePid`, `ControllerFound`) | `cpdn_checkpid()` at the beginning of a time step |
| `IsRunning` | `cpdn_is_process_running()`: `kill(pid, 0)` |
| `StepEnds`, `ModelEnds`, `NumberTaken`, `HostDies` | the environment (external) |

Nothing in the controller waits for the model of the session before to be gone: the comment
at `control_start.cpp` 17-23 counts on the watch, and here `StartSession` may come at any time.

### StepLog

State: `stat` is the sequence of lines of `ifs.stat`, `rcf` the step in the restart file;
`last_offset` and `last_line` are the static variables of `fread_last_line()`; `replaced`
remembers how many lines this controller had read of a log that a restarted model then
replaced.

| Actions | Code |
|---|---|
| `Decide` with `FreshRun`, `RestartRun`, `RunAgainFromStepZero` | `initialize_task_state_from_restart()` |
| `RecordStart`, `Launch` | `main()` before the loop |
| `RefreshStatus`, `GetCurrentStep` (with `ReadLastLine`, `ValidStep`), `Save` | one iteration: status of the child first, then the log |
| `CheckModelSuccess` | `OpenIFSControl::check_model_success()`: the last line once more |
| `ModelOpensLog`, `ModelWritesRestart`, `ModelLogsStep`, `ModelCloses`, `ModelExits` | OpenIFS (external) |

The model's log is at most `MaxLag` steps ahead of what the controller has recorded (or is
about to record, `RecordedStep`): the loop looks every few seconds. That lag, with the
allowance of `control_start.cpp`, decides whether a start can be refused; `LagAssumption`
has the largest lag for which it cannot.

### WrfDatetime

No state. One half is the calendar, second by second (`NextSecond` with the rule of leap
years); the other translates `wrf_datetime.cpp` function by function, with
`advance_days` for the loop over months. `RestartSets` uses the second half where the
code does, on dates of the first.

### RestartSets

State: `content` of each restart file (a time and a domain) is none, empty, partly
written or whole; `namelist` and `step0` are the start dates in `namelist.input` and in
`namelist.input.step0`; in the state a date is the model step it stands for, and `DateOf`
gives the date itself, by counting hours in the calendar (`AtHour`). `restart_set` is
the cached scan, `reference` is `restart_reference_start_datetime`, `present` and `doomed`
are the files a scan for pruning works on; `started` remembers the step of the last launch.

| Actions | Code |
|---|---|
| `Start` (with `Extracted`) | staging: the archive is unzipped again, over what is in the slot |
| `OpenStep0`, `FillStep0`, `ScanRestarts`, `RewriteNamelist` | `WRFControl::setup()`: the copy that a crash can tear, `restart_exists()`, `update_restart_namelist()` |
| `ParseControlInput`, `Decide` (with `RestartStep`, `ElapsedSteps`), `RecordStart`, `Launch` | `main()` after `setup()`, `parse_restart()`, `initialize_task_state_from_restart()` |
| `Observe` (with `CurrentStep`), `EndStep`, `Save` | the main loop; the step read is that of the last date in the log, or 0 |
| `StepTasks`, `Prune` (with `KeptTimes`), `DeleteRestartFile`, `Pruned` | `WRFControl::do_step_tasks()`: directory scan, choice of what is kept, deletion file by file |
| `Interrupt` | a quit or a kill |
| `ModelStep`, `ModelFills`, `ModelCloses`, `ModelExit` | WRF (external): a restart file is opened, written, closed, domain by domain |

A scan of a directory that changes may or may not see what comes and goes meanwhile
(`Prune`). The code takes any file that is not empty for a restart file, so it may choose
a set that a crash has torn although an older one is whole; the model then exits at once
(`Launch`). `RestartsNeverGoBack` is about which set is chosen, not whether it is usable.
`OutputDate` is the date in the names of a step's output files.

### Trickles

State: `log` is the last step in `ifs.stat`; `trickle_data` what the diagnostics program
has left (the step it is about, or torn); `helper` that program, `orphans` those that
outlived their controller; `last_trickle`, `last_tasks` and `last_completed` the
controller's `last_trickle_step`, `last_step_tasks_step` and `last_completed_step`; `sent` and
`failed` the trickles BOINC has taken or refused; `jumped` remembers the boundaries between the
progress file and a restart file ahead of it.

| Actions | Code |
|---|---|
| `Start` | restart at a step that may be behind the progress file or, by `RestartAhead`, ahead of it |
| `Observe`, `ProgressTrickle`, `Save`, `FinalTrickle` | the main loop and the steps after it |
| `RunDiagnostics`, `NoDiagnostics` | `OpenIFSControl::do_step_tasks()`, `run_step_diagnostics()` |
| `ReapHelper`, `TimeUp` | the polls of `run_process_with_timeout()` |
| `Terminate`, `GraceOver` | `terminate_child_process()`: a last `waitpid()`, SIGTERM, grace period, SIGKILL |
| `HelperOpens`, `HelperWrites`, `HelperEnds`, `OrphanRuns` | the diagnostics program (external) |
| `Interrupt` | a quit or a kill |

The trickle frequency and the boundary test are the code's integer arithmetic
(`TrickleFrequency`, `CrossedTrickleBoundary`). With a time step of half a day a day is two
steps, so in a run of five steps 2 and 4 are boundaries. The final trickle takes
`current_step`, which equals `last_completed_step` by then.

### Reports

State: `prior`, `current` and `restart_cpu` are `prior_acc_cpu_time`, `current_cpu_time` and
`restart_cpu_time`, in a coarse unit; `stepm1` and `heartbeat` the static variables of
`model_frac_done()`; `report` the last figures given to BOINC; `spent` remembers what the model
processes before the present one have used. A fraction is counted in parts of 1/(70000 *
`TotalSteps`), in which every constant of `model_frac_done()` is a whole number.

| Actions | Code |
|---|---|
| `FreshRun`, `RestartRun`, `RunAgainFromStepZero` (with `PrepareTaskState`), `Refuse` | `initialize_task_state_from_restart()`, `prepare_task_state_for_controller_run()` |
| `RecordStart`, `Launch`, `Save` | `main()`, `ProgressFileHandler::write()` |
| `Refresh` | `refresh_current_cpu_time()`: a time that cannot be read leaves the old one |
| `CheckAndObserve` | `check_child_status()` and `get_current_step()` |
| `Report` (with `UpdateFraction`, `Beat`, `Fraction`) | `main()` 906-917, `model_frac_done()`, `boinc_report_app_status()` |
| `ModelComputes`, `ModelLogs`, `ModelExit`, `Interrupt` | the model (external), a kill or a quit |

## 3. The runs

| Run | Expected | What it shows |
|---|---|---|
| `Uploads` | pass | with every failure, quits, kills and suspensions anywhere: contract implemented, no gap, the last number left to the final upload, an output only missing in one of the two ways `abandoned` remembers, counters never back, the task ends |
| `UploadsQuitBeforeHandOff` | violation of `OutputsKept` | a quit between archive and hand-off loses outputs |
| `Controller` | pass | all requests at all moments, stops by others, failures, slow step tasks: quit and abort obeyed in every wait, handle, finish, no model left by an error; a quit ends the controller, and so does the end of the model |
| `ControllerHeartbeat` | violation of `HeartbeatLossFails` | a heartbeat lost in a wait of the loop returns 0 |
| `ModelWatch` | pass | controllers that are killed and started again, and models that look for them: no model is stopped beside its controller or goes on beside its successor, orphans end, the file is a record |
| `StepLog` | pass | four sessions of a log that is replaced at each restart: no start is refused, the loop ends only with the last line dealt with, the success found is the model's |
| `StepLogLastStep` | violation of `LastStepSeen` | the closing line hides the last step when both appear between two looks |
| `RestartSets` | pass | pruning against a model that writes, over three sessions and the end of a leap February: a newer whole set survives, no restart goes back, step counts agree |
| `RestartSetsRefused` | violation of `QuitIsRestartable` | a quit while the first restart set is written makes the next start refuse the task |
| `Trickles` | pass | every boundary and the last step reported, data whole, the helper always over |
| `Reports` | pass | CPU time neither counted twice nor lost over sessions, no more shown for a step than for the next one |
| `ReportsCheckpoint` | violation of `CheckpointNotOvercounted` | after a restart the CPU time at the checkpoint holds that of earlier sessions twice |

The violations are disagreements between the code and its comments or docs;
`PROJECT.json` quotes them. Three more of its findings are shown otherwise:

* the fraction is 1 at the first look at the last step, with the final uploads still to come, and at the
  last step but one after enough looks, although `cpdn_control.cpp` 657 says "never 100% until
  wrapper finishes"; it can equal the next step, and in a run of more than 1000 steps fall below the
  step done, for the 0.001 of line 650, "slightly less than the next step", is more than a step there.
  `FractionAgainstComments` proves the values from the code, for every number of steps and cores;
* `wrf_control.cpp` 536 says of the date in `namelist.input` that "it may NOT be the original start time",
  and `docs/boinc_file_flow_summary.md` 541 that staging skips work already done. The code extracts every
  archive again, so it is the original one, and `RestartStepTrue` needs that: its mutant
  `ExtractedIfMissing` is the staging of the document.

Others seen while modelling have no run:

* on the `boinc_shutdown` route the model is left running, or stopped, although
  `docs/boinc_exit_behaviour.md` 117-118 says that the child is cleaned up (`cpdn_main.cpp` 486);
* a suspension in the last wait, when the model was reaped, is taken for an error, and the
  recovery hands over one upload more than was promised (`upload_manager.cpp` 270): the
  `Surplus` of `UploadContract`, which is 0 where `SuspendAfterModelExit` is off;
* pruning waits for a step that is a multiple of 24, and a multiple that was not seen is not
  made up for (`wrf_control.cpp` 1298);
* a restart step ahead of the progress file jumps over a trickle boundary (`cpdn_main.cpp` 878),
  hence `jumped` in `BoundariesReported`;
* `get_trickle_frequency()` "returns a positive trickle frequency" but for time steps of more than a
  day in runs of less than 17 steps (`FrequencyPositive`);
* after a restart behind the progress file a trickle may carry the data of a later step than the
  one it reports (`DataOfStep` is about the first session);
* the comment at `cpdn_main.cpp` 389 wants a non-zero code for a quit as well, where
  `docs/boinc_exit_behaviour.md` 115-116 and the code have 0 (`RequestsObeyed` follows these);
* a model that others have stopped ends the loop as if it had completed: it is killed, and the task is
  finished as what its log says (`cpdn_main.cpp` 823; `FinishGenuine` asks only that it is over);
* a scheduled upload whose directory cannot be opened sends a placeholder instead of failing
  (`upload_manager.cpp` 43: the iterator is at its end before the error is looked at);
* an iteration whose step tasks outlast the loop delay does not poll the client although the
  comment at line 825 says each wait handles BOINC requests;
* WRF's last output file is never copyable, for no step comes one interval after the last one
  (`FinishedAccountsFor` is stated for the files that are ready);
* the hold before an upload in recovery looks at nothing but the suspension, so a quit waits as
  long as it lasts;
* a crash in the first copy of `namelist.input.step0` leaves a file that makes every later start
  fail.

### Bounds

* `Uploads`: 5 steps, upload and restart intervals of 2, outputs every 3 steps that lag by 3 as WRF's do, a
  log whose step may read as 0, 2 sessions. Five steps give two scheduled uploads and a final one, a total
  that is not a multiple of the interval, and a restart step between two uploads. The output of the start
  is ready from step 3 on, so an upload may have nothing to send; that of step 3 is not ready before the
  end. Each upload can fail, be interrupted and be made again; a restart of a restart is left to the
  theorems, which are for any number of sessions.
* `UploadsQuitBeforeHandOff`: the smallest task that shows the behaviour.
* `Controller`: `MaxSuspends` 2 and `FinalUploads` 2. A second suspension meets a model that was
  resumed or is gone; of two final uploads one is not the last. The rest of the state is finite.
* `ControllerHeartbeat`: one suspension, nothing fails; the trace is a single poll.
* `ModelWatch`: 4 writes, 2 sessions, crashes of the host. A write depends on the one before and
  on what is left of one that was interrupted; with two sessions a model meets its own
  controller, none, and the next one.
* `StepLog`: 9 steps, a restart file every 2, 4 sessions, the largest lag that is allowed for; a
  log of each session may be shorter or longer than the one it replaces, and the restart file
  moves on between two starts. `StepLogLastStep`: 4 steps, 1 session, a closing number beyond the
  run.
* `RestartSets`: two domains, so that a set can be half written and half deleted; five
  steps of 12 hours from noon of 28 February of a leap year, each a restart time and each with
  pruning, so that three and more sets come to exist and the dates cross two ends of a day and
  that of a month; three sessions: the second one finds a namelist that was rewritten, the third a
  slot that the second has pruned. The year is 4 because TLC's integers have 32 bits and the
  code counts seconds from year 1; the theorems are for every date. `RestartSetsRefused`: 4 steps,
  interval 2, nothing dies.
* `Trickles`: five steps with boundaries at 2 and 4 and diagnostics at 3 (and at 0, should
  the step fall back), a restart up to two steps ahead, two sessions. A boundary can be met, skipped
  over, seen twice, jumped, or lie before a restart; the last step is no boundary.
* `Reports`: 2000 steps, of which the log shows 2, 3 and 2000, and 35 cores: two steps in a row, a jump and
  the last step, in a run whose steps are half of the 0.001 the heartbeat is set back by, and a heartbeat
  that has reached the next step at the second look after the first and is set back at the third. Two units
  of CPU time for each of 2 processes: a time is carried over, grows, and is not read.

### Switches

`Failures` allows every failure of a file operation or BOINC call the code handles;
`InterruptUploads` allows a session to end while an archive awaits its hand-off;
`SuspendAfterModelExit` allows a suspension in a wait after the model was reaped. All three are on
in `Uploads`. `RemovalsFail` lets `fs::remove()` fail in the pruning, `Deaths` lets
controller and model end at any moment. `RestartAhead` is how far the restart file may be ahead of
the progress file in `Trickles`; in `StepLog` that follows from `MaxLag`. `CloseStep` is the number in
the closing line of `ifs.stat`. `SlowTasks` and `ExternalStops` of `Controller` allow step tasks that
outlast the loop delay and a model that others stop and continue.

### Fairness

* `WF_vars(Controller)`: the controller is scheduled and its sleeps end; it blocks
  nowhere but in its waits.
* `WF_vars(Controller)` in `Trickles`: it polls the diagnostics program and its clock runs;
  nothing is assumed of that program, which may hang and ignore SIGTERM.
* `WF_vars(ModelExit)` in `Uploads`: the model ends.
* `WF_vars(Client /\ ClientResumes)`: the user resumes a suspended task some day.
  `QuitHonoured` needs it only because of the hold in recovery.
* `QuitHonoured` holds for a controller whose step tasks do not outlast the loop delay for ever
  (`TasksLeaveTime`): if they do it never polls. It does not need the model to end.
* `ControllerEnds` holds when the model gets on (`ModelGetsOn`, `SF_vars(Environment(ModelEnds))`): a
  model that is let run again and again gets further each time and ends. Weak fairness would not
  do, as it may be stopped each time.
* `WF_watchVars(Model(m))` in `ModelWatch`: a model that runs gets on with its steps, and so looks
  for its controller again.
* BOINC is not assumed to start a task again: `EventuallyOver` counts a bound on sessions
  that has been reached as an end.

## 4. The proofs

TLAPS proves, for every value of the constants that meets the assumptions of the
modules:

* **`UploadsProofs`**. `TypeInvariant`. `ScheduledLeavesFinalInvariant` rests on the
  inductive invariant `IInv`: in memory, in the progress file and in the upload under
  way, *upload number x interval <= step of the last upload*. Since a scheduled upload
  is due only an interval later and before the last step, the number it takes is below
  the promised count by at least two. The invariant has to speak of the progress file as
  well, or it would be lost at a restart.
  `NoNumberSkippedInvariant`: each hand-off fills the next gap (`HandOffFillsGap`), and
  the progress file is written only from a task state whose numbers have been accepted.
  `PersistedUploadsOnlyGrowTheorem`: the counters in memory are never behind those in the
  file (`GrowInv`). `ContractRefinement`: every step of `Uploads` is one of `UploadContract` or
  leaves it alone, whatever fails and whenever the client interrupts.
  `OutputsAccountedForInvariant` and `FinishedAccountsForInvariant` hold under the same conditions, that is under
  none. `OutputInv` says which steps' outputs are accounted for
  (`KeepInv`: those up to the restart file, up to the step in the progress file, up to the step
  the controller knows), that only an archive about to be handed over holds what is nowhere else
  (`StageInv`), and that a final upload comes after the model (`PathInv`). `NothingAbandoned` closes
  the gap to what one would like to have: without failures, and when no session ends in a hand-off,
  nothing is given up (`QuietInv`), so no output is lost and a finished task has delivered.
* **`ControllerProofs`**. `TypeInvariant`, from one invariant per group of variables
  (`ClientTypes`, `StateTypes`, `LeftInv`, `DecisionStep`). `CriticalBalancedInvariant` from
  `CriticalInv`, which adds what holds between the decision to exit and the exit.
  `RequestsObeyedInvariant` from `ExitInv`: a shutdown request that was seen is acted on at once
  (`Obeying`), so nothing is handed over after it and the snapshot that the decision was made from is
  still there at the exit. `HandleOwnsProcessInvariant`, `ErrorsLeaveNoModelInvariant` and
  `ResumedBeforeGoingOnInvariant` from `ModelInv`: a live model always has a valid handle, and
  recovery has none alive. `FinishGenuineInvariant` adds `LoopLeft`: what holds from the end of the
  loop on.
* **`ModelWatchProofs`**. Of the file: `Inv` says how far the write under way has got and that every
  content the disk may hold is a whole version between the last confirmed and the current
  one; `NeverTornInvariant`, `ConfirmedSurvivesInvariant` and the refinement
  `RecordRefinement` follow. Of controllers and models: every step is one of `ProgressFile` or leaves
  the file alone, so `Inv` and the refinement carry over (`WatchImplementsRecord`). `WatchInv` adds that
  the process numbers in the versions of the file grow (`AuthorInv`) and that a model runs only when
  its controller's number, or a later one, is on record for good (`ModelInv`). Hence
  `NeverTakenForStandaloneInvariant`, `WatchSparesControlledTheorem`, and `NoStepBesideSuccessorTheorem`: a model that
  has seen number *m* finds another one as soon as the next model can be there.
* **`StepLogProofs`**. `IInv` relates the processes (`ControlInv`), the log (`LogInv`), how far restart
  file, log and model can be ahead of the progress file (`LagInv`, of which the step that is being
  saved is a part), and what has been read to what is in the log (`ReaderInv`). It gives
  `StartNotRefusedInvariant` for every lag up to the restart interval plus one,
  `LogReadToEndInvariant` and `SuccessTrueInvariant`.
  Two theorems say how far the finding of `StepLogLastStep` goes: at most `MaxLag` steps are missed
  (`LastStepNearlySeenInvariant`, from `ClosedInv`), and none if the closing line carries the last
  step (`LastStepSeenInvariant`).
* **`WrfDatetimeProofs`**. `ValidDates`: the code's dates are those of the calendar. `SecondsCount`: from
  any second to the next one of the calendar the code's count of seconds grows by one. The cases are
  the ends of minutes, hours, days, months and years; the length of a year is that of `days_before_year`
  by `YearLength`. `SecondsAdded`: the date that `add_duration_to_datetime` finds is the one so many
  seconds later, for every date and number of seconds. The loop over the months (`AdvanceDays`) is an
  induction over the days that are left, made by least elements: that a date so many days later
  exists (`DayExists`), that only one does (`SecondsDistinct`: the count of seconds tells dates
  apart), and hence that the loop is what its recursion says.
* **`RestartSetsProofs`**. A date in the model's calendar is *h* hours after the start (`AtHour`, a
  recursive function). That it is the date which the code counts 3600 *h* seconds to
  (`HourSeconds`) is an induction; the induction theorems of the library cannot be
  used by the provers at hand, so it is made by least elements: `LeastElement` (in `WrfDatetimeProofs`), from the
  well-foundedness of `<` on the natural numbers; `RecursionOnNat`, that the function exists; then the smallest
  hour without the property. With it `StepsElapsed` says that `ElapsedSteps` counts the steps between two
  dates of the run, and everything else is about steps. `OutputDateTrue` goes the other way: the date
  that the controller computes for a step's output files is the model's date of that step. `IInv` has what a start has found
  so far (`StartInv`), the files (`FilesInv`: a set is begun only when the one before it, or a later one, is whole;
  there is always a set that looks complete at or after the step the model was last started
  from), the set that is being written (`WritingInv`) and what is about to be deleted (`PruneInv`: it
  is older than one whole set). `TypeInvariant`, `RestartStepTrueInvariant`, `PruneOnlySupersededTheorem` and
  `RestartsNeverGoBackTheorem` follow.
* **`TricklesProofs`**. `TypeInvariant`. `BoundariesReportedInvariant` from `CoverInv`: the boundaries up to the step in the
  progress file, and up to the step the controller knows, have been reported, tried or jumped; a
  step forward that crosses no boundary by the code's integer division has none between (`NothingCrossed`).
  `NoHelperLeftInvariant` and `DataGenuineInvariant` from `ProgramInv`, `LastStepReportedInvariant` from `LastInv`.
  `DataOfStepInvariant`: in the first session a trickle's data is not of a later step than its own.
  `FrequencyPositive` and `NothingBeforeTheEndInvariant` are about the frequency at its limits.
* **`ReportsProofs`**. `CpuInv`: what is carried over is at most what earlier processes have used
  (`CountedInv`), and what they use fits the bound (`UsedInv`). `CpuNotOvercountedInvariant` and
  `RecordedCpuKeptTheorem` follow. `FractionAdvancesTheorem` is for any number of steps and cores: the heartbeat is never
  more than a step (`BeatInBounds`), so what has been shown for a step is at most the next one (`ShownInv`),
  and the first look at a step shows that step. `FractionAgainstComments` has the values that the
  comments in `model_frac_done()` exclude. `CheckpointWithinTwiceInvariant` says how wrong the figure of the finding of `ReportsCheckpoint`
  can be: at most twice what was used, and right in the first session.

Every safety property of a passing run is proved, without conditions on the switches. Proved and not in a run:
`NeverTorn`, `ConfirmedSurvives`, `CriticalBalanced`, `DataOfStep`,
`NothingBeforeTheEnd`, and the theorems about the findings.

The liveness properties `EventuallyOver`, `QuitHonoured`, `ControllerEnds`, `DiagnosticsEnd` and
`OrphansEnd` are model-checked, for TLAPS handles neither liveness under fairness nor ENABLED. What
carries each of them is an action property and is proved: a count of what is left to do, which is a
bounded natural number and falls with every step of the process the fairness is about. That the steps
of others do not raise it is part of the theorem for `DiagnosticsEnd` and `OrphansEnd`; the other counts
are made of variables that only the controller assigns, or a crash that ends it. From there to the property the fairness
is missing, that the process can take a step, and an end to what the property assumes not to go on for
ever.

| Theorem | Liveness | The count | Bound |
|---|---|---|---|
| `EndsWithModelTheorem` | `EventuallyOver` | steps of the controller to the end of the session once the model has exited | linear in the promised uploads |
| `ObeysInStepsTheorem` | `QuitHonoured` | steps of the controller to the exit from a shutdown request, but for the hold in recovery while the task is suspended and for step tasks that leave no wait | 10 |
| `EndsInStepsTheorem` | `ControllerEnds` | steps of the controller to the exit once the model is over, but for waits while the task is suspended | linear in the final uploads |
| `DiagnosticsEndTheorem` | `DiagnosticsEnd` | steps of the controller to the trickle | 3 |
| `OrphansEndInStepsTheorem` | `OrphansEnd` | what a model that has lost its controller still does | 2 |

What
`OutputDateTrue` says is also evaluated by TLC, for 2000 hours after each of 40 dates
(`OutputDatesAssumption` of `MCRestartSets`).

## 5. Assumptions and what is not modelled

* In `Uploads`, `StepLog`, `RestartSets`, `Trickles` and `Reports` the model notices that its controller is
  gone and exits before the next session starts. `ModelWatch` shows what the watch does for
  that and what it does not: nothing in the controller waits for an old model; a model whose first
  look comes after the next controller has written its number takes that one for its own; an orphan
  lives on as long as another process has its controller's number.
* Time is not modelled: waits end at any moment, and nothing depends on their length; only `StepLog` bounds
  how far a model gets between two looks (`MaxLag`).
* `boinc_upload_file()` accepts a number it has accepted before, and keeps what it was
  given then.
* `waitpid()` and `kill()` on one's own child do not fail (`child_status` 5 does not occur).
* Uploads are enabled in `Uploads`, the restart interval is positive (the code takes steps modulo an
  interval that a control input may give as 0), the task runs under BOINC and not standalone.
* `fs::remove()` in `zip_and_delete()` succeeds.
* A line of `ifs.stat` appears as a whole, and lines have one length. A log that was replaced by one of
  the same length as what had been read is taken for the old one: `LogReadToEnd` and `SuccessTrue` leave that
  state out.
* WRF's start dates, restart dates and steps are multiples of its time step, which is taken to be
  whole hours, and the namelist is well formed; the copy it is extracted from does not change over a
  task.
* `fork()`, `waitpid()` and `kill()` of the diagnostics program succeed; `fs::remove()` of an old
  `trickle_data` does.
* Not modelled because it is pure input and output or text: logging, argument parsing,
  staging of input files beyond what it does to the namelist, parsing of namelists and logs,
  environment variables, what a trickle says and which log files go into the last archive.
* Not modelled: process control on Windows (job objects, threads suspended one by one), BOINC's
  standalone mode, the test model, which imitates OpenIFS for functional tests.
* Not modelled because it is third-party: ZipLib (under `zip/ZipLib`), CLI11, fmt, the BOINC API itself.
  ZipLib with its compressors is by far the larger part of the C and C++ code in the repository; the
  program's own code is about 8,000 lines, of which the modules stand for a good third.

## 6. Plan

Done: `Uploads`, `Controller`, `ProgressFile` with `ModelWatch`, `StepLog`, `WrfDatetime`, `RestartSets`,
`Trickles`, `Reports`, the abstract specifications `UploadContract` and `DurableRecord`, proofs of every
safety property that is checked, and of the action property behind each liveness property.

Left, in order:

1. Composition: `Controller`'s step tasks with `Trickles` and `RestartSets`, whose helper and scan
   keep the controller from polling.
2. Process control on Windows: suspension thread by thread while the model makes new ones.
3. `StepLog` with lines that are cut in the middle, as a reader may see them.
4. BOINC's standalone mode.
