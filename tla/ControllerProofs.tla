-------------------------- MODULE ControllerProofs --------------------------
(***************************************************************************)
(* Proofs about Controller, for every set of requests, every number of     *)
(* uploads and every combination of failures and stops.                    *)
(***************************************************************************)
EXTENDS Controller, TLAPS

\* Uploads are submitted, other waits lead elsewhere.
LEMMA AfterSite ==
    ASSUME NEW s \in Sites
    PROVE  /\ After(s) \in {"check", "submit", "finalize", "complete"}
           /\ After(s) = "submit" <=> s \in {"scheduled", "final", "recovery_upload"}
           /\ After(s) = "finalize" <=> s \in {"settle", "recovery"}
           /\ After(s) = "complete" <=> s = "last"
<1>1. CASE s = "loop"
  BY <1>1 DEF After
<1>2. CASE s \in {"scheduled", "final", "recovery_upload"}
  BY <1>2 DEF After
<1>3. CASE s \in {"settle", "recovery"}
  BY <1>3 DEF After
<1>4. CASE s = "last"
  BY <1>4 DEF After
<1> QED BY <1>1, <1>2, <1>3, <1>4 DEF Sites

-----------------------------------------------------------------------------
(* Critical sections.                                                      *)

InUpload == site \in {"scheduled", "final", "recovery_upload"}

Preparing == pc \in {"wait", "apply", "suspended", "submit"}

\* One critical section is open during startup and while an upload is prepared;
\* an exit decided in one has it closed, or leaves it to finish_task_exit().
CriticalInv ==
    /\ pc \in PCs /\ site \in Sites
    /\ pc = "start" => critical = 1
    /\ Preparing => critical = IF InUpload THEN 1 ELSE 0
    /\ pc \in {"check", "work", "save", "finalize", "complete", "over"} => critical = 0
    /\ pc = "exit" => critical \in {0, 1}
    /\ pc = "submit" => InUpload

LEMMA CriticalStep == CriticalInv /\ [Next]_vars => CriticalInv'
<1> SUFFICES ASSUME CriticalInv, [Next]_vars PROVE CriticalInv'
  OBVIOUS
<1> USE DEF CriticalInv, InUpload, Preparing, PCs, Sites, boinc, model, progress, exit
<1>1. CASE Client
  BY <1>1 DEF Client
<1>2. CASE Environment(ModelEnds)
  BY <1>2 DEF Environment, ModelEnds
<1>3. CASE Environment(StoppedByOthers)
  BY <1>3 DEF Environment, StoppedByOthers
<1>4. CASE Environment(ContinuedByOthers)
  BY <1>4 DEF Environment, ContinuedByOthers
<1>5. CASE PollClient
  BY <1>5, AfterSite DEF PollClient
<1>6. CASE SkipWait
  BY <1>6 DEF SkipWait, After
<1>7. CASE ApplyShutdown
  BY <1>7 DEF ApplyShutdown, GiveUp, Exit, EnterRecovery, UploadSites, SupervisedSites
<1>8. CASE ApplySuspend
  BY <1>8 DEF ApplySuspend
<1>9. CASE SuspendFails
  BY <1>9 DEF SuspendFails, GiveUp, Exit, EnterRecovery, UploadSites, SupervisedSites
<1>10. CASE PollWhileSuspended
  <2>1. CASE Shutdown(client)
    BY <1>10, <2>1 DEF PollWhileSuspended, GiveUp, Exit, EnterRecovery, UploadSites
  <2>2. CASE ~Shutdown(client) /\ client.suspended
    BY <1>10, <2>2 DEF PollWhileSuspended
  <2>3. CASE ~Shutdown(client) /\ ~client.suspended
    BY <1>10, <2>3, AfterSite DEF PollWhileSuspended
  <2> QED BY <2>1, <2>2, <2>3
<1>11. CASE ApplyInRecovery
  BY <1>11 DEF ApplyInRecovery, Exit, After
<1>12. CASE HoldWhileSuspended
  BY <1>12 DEF HoldWhileSuspended
<1>13. CASE LeaveHold
  BY <1>13 DEF LeaveHold, Exit, After
<1>14. CASE StartupFails
  BY <1>14 DEF StartupFails, Exit
<1>15. CASE LaunchModel
  BY <1>15 DEF LaunchModel
<1>16. CASE CheckChild
  BY <1>16 DEF CheckChild
<1>17. CASE StepTasks
  BY <1>17 DEF StepTasks
<1>18. CASE ScheduledUpload
  BY <1>18 DEF ScheduledUpload
<1>19. CASE SubmitScheduled
  BY <1>19 DEF SubmitScheduled
<1>20. CASE Save
  BY <1>20 DEF Save
<1>21. CASE SaveFails
  BY <1>21 DEF SaveFails, EnterRecovery
<1>22. CASE FinalizeUploads
  BY <1>22 DEF FinalizeUploads, Exit
<1>23. CASE SubmitFinal
  BY <1>23 DEF SubmitFinal, Exit
<1>24. CASE UploadFails
  BY <1>24 DEF UploadFails, Exit
<1>25. CASE Complete
  BY <1>25 DEF Complete, Exit
<1>26. CASE FinishTaskExit
  BY <1>26 DEF FinishTaskExit, EndedCritical
<1>27. CASE Over
  BY <1>27 DEF Over, vars
<1>28. CASE UNCHANGED vars
  BY <1>28 DEF vars
<1> QED
  BY <1>1, <1>2, <1>3, <1>4, <1>5, <1>6, <1>7, <1>8, <1>9, <1>10, <1>11, <1>12, <1>13, <1>14, <1>15, <1>16, <1>17, <1>18, <1>19, <1>20, <1>21, <1>22, <1>23, <1>24, <1>25, <1>26, <1>27, <1>28
  DEF Next, Controller, Waits, Loop, Ending

\* Critical sections are balanced on every path through the controller.
THEOREM CriticalBalancedInvariant == Spec => []CriticalBalanced
<1>1. Init => CriticalInv
  BY DEF Init, CriticalInv, InUpload, Preparing, PCs, Sites
<1>2. CriticalInv /\ [Next]_vars => CriticalInv'
  BY CriticalStep
<1>3. CriticalInv => CriticalBalanced
  BY DEF CriticalInv, CriticalBalanced, InUpload, Preparing
<1> QED BY <1>1, <1>2, <1>3, PTL DEF Spec

-----------------------------------------------------------------------------
(* Exit codes.                                                             *)

\* A shutdown request that was seen is acted on at once.
Obeying == Shutdown(status) => pc \in {"apply", "exit", "over"}

\* The code decided on fits the requests seen.
CodeFits ==
    /\ status.quit_request => decision.code = 0
    /\ decision.code = 0 => \/ status.quit_request
                            \/ status.no_heartbeat /\ ~status.abort_request

ExitInv ==
    /\ site \in Sites
    /\ Obeying
    /\ pc \in {"exit", "over"} =>
          IF decision.route = "task_completed" THEN ~Shutdown(status) ELSE CodeFits
    /\ outcome = "returned" => pc = "over" /\ decision.route # "task_completed"
    /\ outcome = "finished" => pc = "over" /\ decision.route = "task_completed"

LEMMA ExitStep == ExitInv /\ [Next]_vars => ExitInv'
<1> SUFFICES ASSUME ExitInv, [Next]_vars PROVE ExitInv'
  OBVIOUS
<1> USE DEF ExitInv, Obeying, CodeFits, Sites, boinc, model, progress, exit
<1>1. CASE Client
  BY <1>1 DEF Client
<1>2. CASE Environment(ModelEnds)
  BY <1>2 DEF Environment, ModelEnds
<1>3. CASE Environment(StoppedByOthers)
  BY <1>3 DEF Environment, StoppedByOthers
<1>4. CASE Environment(ContinuedByOthers)
  BY <1>4 DEF Environment, ContinuedByOthers
<1>5. CASE PollClient
  BY <1>5, AfterSite DEF PollClient
<1>6. CASE SkipWait
  BY <1>6 DEF SkipWait, After, Shutdown
<1>7. CASE ApplyShutdown
  BY <1>7 DEF ApplyShutdown, GiveUp, Exit, EnterRecovery, ShutdownDecision, UploadFinishCode, Decide, Shutdown
<1>8. CASE ApplySuspend
  BY <1>8 DEF ApplySuspend
<1>9. CASE SuspendFails
  BY <1>9 DEF SuspendFails, GiveUp, Exit, EnterRecovery, ShutdownDecision, UploadFinishCode, Decide, Shutdown
<1>10. CASE PollWhileSuspended
  <2>1. CASE Shutdown(client) /\ site \in UploadSites
    BY <1>10, <2>1 DEF PollWhileSuspended, GiveUp, Exit, UploadFinishCode, Decide, Shutdown
  <2>2. CASE Shutdown(client) /\ site \notin UploadSites
    BY <1>10, <2>2 DEF PollWhileSuspended, GiveUp, Exit, ShutdownDecision, Decide, Shutdown
  <2>3. CASE ~Shutdown(client)
    BY <1>10, <2>3, AfterSite DEF PollWhileSuspended
  <2> QED BY <2>1, <2>2, <2>3
<1>11. CASE ApplyInRecovery
  BY <1>11 DEF ApplyInRecovery, Exit, After, ShutdownDecision, Decide, Shutdown
<1>12. CASE HoldWhileSuspended
  BY <1>12 DEF HoldWhileSuspended
<1>13. CASE LeaveHold
  BY <1>13 DEF LeaveHold, Exit, After, UploadFinishCode, Decide, Shutdown
<1>14. CASE StartupFails
  BY <1>14 DEF StartupFails, Exit, Decide, Shutdown
<1>15. CASE LaunchModel
  BY <1>15 DEF LaunchModel
<1>16. CASE CheckChild
  BY <1>16 DEF CheckChild
<1>17. CASE StepTasks
  BY <1>17 DEF StepTasks
<1>18. CASE ScheduledUpload
  BY <1>18 DEF ScheduledUpload
<1>19. CASE SubmitScheduled
  BY <1>19 DEF SubmitScheduled
<1>20. CASE Save
  BY <1>20 DEF Save
<1>21. CASE SaveFails
  BY <1>21 DEF SaveFails, EnterRecovery, Shutdown
<1>22. CASE FinalizeUploads
  BY <1>22 DEF FinalizeUploads, Exit, Recovered, Decide, Shutdown
<1>23. CASE SubmitFinal
  BY <1>23 DEF SubmitFinal, Exit, Recovered, Decide, Shutdown
<1>24. CASE UploadFails
  BY <1>24 DEF UploadFails, Exit, Decide, Shutdown
<1>25. CASE Complete
  BY <1>25 DEF Complete, Exit, Decide, Shutdown
<1>26. CASE FinishTaskExit
  BY <1>26 DEF FinishTaskExit
<1>27. CASE Over
  BY <1>27 DEF Over, vars
<1>28. CASE UNCHANGED vars
  BY <1>28 DEF vars
<1> QED
  BY <1>1, <1>2, <1>3, <1>4, <1>5, <1>6, <1>7, <1>8, <1>9, <1>10, <1>11, <1>12, <1>13, <1>14, <1>15, <1>16, <1>17, <1>18, <1>19, <1>20, <1>21, <1>22, <1>23, <1>24, <1>25, <1>26, <1>27, <1>28
  DEF Next, Controller, Waits, Loop, Ending

\* Whatever the requests and wherever they are seen, a quit, an abort and their absence
\* are answered as they should be, and nothing is handed over or finished after one.
THEOREM RequestsObeyedInvariant == Spec => []RequestsObeyed
<1>1. Init => ExitInv
  BY DEF Init, ExitInv, Obeying, Shutdown, Quiet, Sites
<1>2. ExitInv /\ [Next]_vars => ExitInv'
  BY ExitStep
<1>3. ExitInv => RequestsObeyed
  BY DEF ExitInv, Obeying, CodeFits, RequestsObeyed, SubmitsOnlyWhenAsked, Shutdown
<1> QED BY <1>1, <1>2, <1>3, PTL DEF Spec

-----------------------------------------------------------------------------
(* What is left of the model process.                                      *)

Alive == proc \in {"running", "stopped", "halted"}

ProcStates == {"none", "running", "stopped", "halted", "exited", "killed", "gone"}

Recovering == site \in {"recovery", "recovery_upload"}

\* The handle is that of the model process until it is reaped; recovery has it
\* killed; every route but that of a BOINC shutdown leaves with no model.
ModelInv ==
    /\ site \in Sites
    /\ proc \in ProcStates
    /\ handle \in [valid : BOOLEAN, suspended : BOOLEAN]
    /\ handle.valid => proc \notin {"none", "gone"}
    /\ Alive /\ pc # "over" => handle.valid
    /\ Recovering => ~Alive
    /\ pc = "exit" => \/ decision.route \in StoppingRoutes \cup {"boinc_shutdown"}
                      \/ decision.route = "controller_error_recovery" /\ ~Alive
    /\ pc = "over" => decision.route = "boinc_shutdown" \/ ~Alive
    /\ outcome # "running" => pc = "over"
    /\ pc = "finalize" => site \in {"settle", "recovery"}

\* After the loop the model is over, or was found stopped.
LoopLeft ==
    /\ pc \in {"check", "work"} => site = "loop"
    /\ site \in {"settle", "final", "last"} => model_completed /\ child_status # 0
    /\ pc = "save" => site \in {"loop", "scheduled"}
    /\ pc = "complete" => site = "last"
    /\ pc \in {"exit", "over"} /\ decision.route = "task_completed" =>
          /\ site = "last"
          /\ decision.code = IF model_success THEN 0 ELSE 1
    /\ outcome = "finished" => decision.route = "task_completed"
    /\ outcome # "running" => pc = "over"
    /\ model_success \in BOOLEAN
    /\ site # "loop" \/ pc \notin {"start", "exit", "over"} => proc # "none"

\* What a poll of the model process leaves of its handle.
LEMMA PolledHandleType ==
    ASSUME handle \in [valid : BOOLEAN, suspended : BOOLEAN]
    PROVE  /\ PolledHandle \in [valid : BOOLEAN, suspended : BOOLEAN]
           /\ Ended => ~PolledHandle.valid
           /\ ~Ended => PolledHandle.valid = handle.valid
<1>1. CASE Ended
  BY <1>1 DEF PolledHandle, Closed
<1>2. CASE ~Ended
  <2> DEFINE h(b) == [handle EXCEPT !.suspended = b]
  <2>1. \A b \in BOOLEAN : h(b) \in [valid : BOOLEAN, suspended : BOOLEAN] /\ h(b).valid = handle.valid
    OBVIOUS
  <2>2. (IF event = "none" THEN handle.suspended ELSE event = "stopped") \in BOOLEAN
    OBVIOUS
  <2> HIDE DEF h
  <2>3. PolledHandle = h(IF event = "none" THEN handle.suspended ELSE event = "stopped")
    BY <1>2 DEF PolledHandle, h
  <2> QED BY <1>2, <2>1, <2>2, <2>3
<1> QED BY <1>1, <1>2

\* Recovery is entered with the model stopped.
LEMMA EnterRecoveryStops ==
    ASSUME ModelInv, EnterRecovery, pc # "over"
    PROVE  ModelInv'
<1> USE DEF ModelInv, EnterRecovery, Alive, Recovering, ProcStates, Sites, exit
<1>1. CASE handle.valid
  <2>1. proc' \in {"gone", "killed"} /\ (proc' = "gone" <=> Ended)
    BY <1>1 DEF StopChild, Ended
  <2>2. handle' = PolledHandle
    BY <1>1
  <2>3. /\ handle' \in [valid : BOOLEAN, suspended : BOOLEAN]
        /\ handle'.valid => proc' # "gone"
    BY <2>1, <2>2, PolledHandleType
  <2> QED BY <2>1, <2>3
<1>2. CASE ~handle.valid
  BY <1>2 DEF StopChild, model
<1> QED BY <1>1, <1>2

LEMMA ModelStep == ModelInv /\ [Next]_vars => ModelInv'
<1> SUFFICES ASSUME ModelInv, [Next]_vars PROVE ModelInv'
  OBVIOUS
<1> USE DEF ModelInv, Alive, Recovering, ProcStates, Sites, boinc, model, progress, exit
<1>1. CASE Client
  BY <1>1 DEF Client
<1>2. CASE Environment(ModelEnds)
  BY <1>2 DEF Environment, ModelEnds
<1>3. CASE Environment(StoppedByOthers)
  BY <1>3 DEF Environment, StoppedByOthers
<1>4. CASE Environment(ContinuedByOthers)
  BY <1>4 DEF Environment, ContinuedByOthers
<1>5. CASE PollClient
  BY <1>5, AfterSite DEF PollClient
<1>6. CASE SkipWait
  BY <1>6 DEF SkipWait, After
<1>7. CASE ApplyShutdown
  BY <1>7 DEF ApplyShutdown, GiveUp, Exit, EnterRecovery, UploadSites, Decide, ShutdownDecision, StoppingRoutes
<1>8. CASE ApplySuspend
  BY <1>8 DEF ApplySuspend, SuspendChild
<1>9. CASE SuspendFails
  <2>1. CASE site \in UploadSites
    BY <1>9, <2>1 DEF SuspendFails, GiveUp, Exit, Decide, StoppingRoutes
  <2>2. CASE site \notin UploadSites
    <3>1. EnterRecovery /\ pc # "over"
      BY <1>9, <2>2 DEF SuspendFails, GiveUp
    <3> QED BY <3>1, EnterRecoveryStops
  <2> QED BY <2>1, <2>2
<1>10. CASE PollWhileSuspended
  <2>1. CASE Shutdown(client)
    BY <1>10, <2>1 DEF PollWhileSuspended, GiveUp, Exit, Decide, ShutdownDecision, StoppingRoutes
  <2>2. CASE ~Shutdown(client) /\ client.suspended
    BY <1>10, <2>2 DEF PollWhileSuspended
  <2>3. CASE ~Shutdown(client) /\ ~client.suspended
    BY <1>10, <2>3, AfterSite DEF PollWhileSuspended, ResumeChild
  <2> QED BY <2>1, <2>2, <2>3
<1>11. CASE ApplyInRecovery
  BY <1>11 DEF ApplyInRecovery, Exit, After, Decide, ShutdownDecision, StoppingRoutes, Recovered
<1>12. CASE HoldWhileSuspended
  BY <1>12 DEF HoldWhileSuspended
<1>13. CASE LeaveHold
  BY <1>13 DEF LeaveHold, Exit, After, Decide, ShutdownDecision, StoppingRoutes, Recovered
<1>14. CASE StartupFails
  BY <1>14 DEF StartupFails, Exit, Decide, ShutdownDecision, StoppingRoutes, Recovered
<1>15. CASE LaunchModel
  BY <1>15 DEF LaunchModel
<1>16. CASE CheckChild
  BY <1>16, PolledHandleType DEF CheckChild, PollChild, Ended
<1>17. CASE StepTasks
  BY <1>17 DEF StepTasks
<1>18. CASE ScheduledUpload
  BY <1>18 DEF ScheduledUpload
<1>19. CASE SubmitScheduled
  BY <1>19 DEF SubmitScheduled
<1>20. CASE Save
  BY <1>20 DEF Save
<1>21. CASE SaveFails
  <2>1. EnterRecovery /\ pc # "over"
    BY <1>21 DEF SaveFails
  <2> QED BY <2>1, EnterRecoveryStops
<1>22. CASE FinalizeUploads
  BY <1>22 DEF FinalizeUploads, Exit, Decide, ShutdownDecision, StoppingRoutes, Recovered
<1>23. CASE SubmitFinal
  BY <1>23 DEF SubmitFinal, Exit, Decide, ShutdownDecision, StoppingRoutes, Recovered
<1>24. CASE UploadFails
  BY <1>24 DEF UploadFails, Exit, Decide, ShutdownDecision, StoppingRoutes, Recovered
<1>25. CASE Complete
  BY <1>25 DEF Complete, Exit, Decide, ShutdownDecision, StoppingRoutes, Recovered
<1>26. CASE FinishTaskExit
  BY <1>26 DEF FinishTaskExit, StopChild, StoppingRoutes, Ended, Closed
<1>27. CASE Over
  BY <1>27 DEF Over, vars
<1>28. CASE UNCHANGED vars
  BY <1>28 DEF vars
<1> QED
  BY <1>1, <1>2, <1>3, <1>4, <1>5, <1>6, <1>7, <1>8, <1>9, <1>10, <1>11, <1>12, <1>13, <1>14, <1>15, <1>16, <1>17, <1>18, <1>19, <1>20, <1>21, <1>22, <1>23, <1>24, <1>25, <1>26, <1>27, <1>28
  DEF Next, Controller, Waits, Loop, Ending

LEMMA LoopStep == LoopLeft /\ site \in Sites /\ [Next]_vars => LoopLeft'
<1> SUFFICES ASSUME LoopLeft, site \in Sites, [Next]_vars PROVE LoopLeft'
  OBVIOUS
<1> USE DEF LoopLeft, Sites, boinc, model, progress, exit
<1>1. CASE Client
  BY <1>1 DEF Client
<1>2. CASE Environment(ModelEnds)
  BY <1>2 DEF Environment, ModelEnds
<1>3. CASE Environment(StoppedByOthers)
  BY <1>3 DEF Environment, StoppedByOthers
<1>4. CASE Environment(ContinuedByOthers)
  BY <1>4 DEF Environment, ContinuedByOthers
<1>5. CASE PollClient
  BY <1>5 DEF PollClient, After
<1>6. CASE SkipWait
  BY <1>6 DEF SkipWait, After
<1>7. CASE ApplyShutdown
  BY <1>7 DEF ApplyShutdown, GiveUp, Exit, EnterRecovery, StopChild, UploadSites, Decide, ShutdownDecision, StoppingRoutes
<1>8. CASE ApplySuspend
  BY <1>8 DEF ApplySuspend, SuspendChild
<1>9. CASE SuspendFails
  BY <1>9 DEF SuspendFails, GiveUp, Exit, EnterRecovery, StopChild, UploadSites, Decide, ShutdownDecision
<1>10. CASE PollWhileSuspended
  <2>1. CASE Shutdown(client)
    BY <1>10, <2>1 DEF PollWhileSuspended, GiveUp, Exit, EnterRecovery, StopChild, Decide, ShutdownDecision, StoppingRoutes
  <2>2. CASE ~Shutdown(client) /\ client.suspended
    BY <1>10, <2>2 DEF PollWhileSuspended
  <2>3. CASE ~Shutdown(client) /\ ~client.suspended
    BY <1>10, <2>3, AfterSite DEF PollWhileSuspended, ResumeChild
  <2> QED BY <2>1, <2>2, <2>3
<1>11. CASE ApplyInRecovery
  BY <1>11 DEF ApplyInRecovery, Exit, After, Decide, ShutdownDecision, StoppingRoutes, Recovered
<1>12. CASE HoldWhileSuspended
  BY <1>12 DEF HoldWhileSuspended
<1>13. CASE LeaveHold
  BY <1>13 DEF LeaveHold, Exit, After, Decide, ShutdownDecision, StoppingRoutes, Recovered
<1>14. CASE StartupFails
  BY <1>14 DEF StartupFails, Exit, Decide, ShutdownDecision, StoppingRoutes, Recovered
<1>15. CASE LaunchModel
  BY <1>15 DEF LaunchModel
<1>16. CASE CheckChild
  BY <1>16 DEF CheckChild, PollChild
<1>17. CASE StepTasks
  BY <1>17 DEF StepTasks
<1>18. CASE ScheduledUpload
  BY <1>18 DEF ScheduledUpload
<1>19. CASE SubmitScheduled
  BY <1>19 DEF SubmitScheduled
<1>20. CASE Save
  BY <1>20 DEF Save, LoopGoesOn
<1>21. CASE SaveFails
  BY <1>21 DEF SaveFails, EnterRecovery, StopChild
<1>22. CASE FinalizeUploads
  BY <1>22 DEF FinalizeUploads, Exit, Decide, ShutdownDecision, StoppingRoutes, Recovered
<1>23. CASE SubmitFinal
  BY <1>23 DEF SubmitFinal, Exit, Decide, ShutdownDecision, StoppingRoutes, Recovered
<1>24. CASE UploadFails
  BY <1>24 DEF UploadFails, Exit, Decide, ShutdownDecision, StoppingRoutes, Recovered
<1>25. CASE Complete
  BY <1>25 DEF Complete, Exit, Decide, ShutdownDecision, StoppingRoutes, Recovered
<1>26. CASE FinishTaskExit
  BY <1>26 DEF FinishTaskExit, StopChild
<1>27. CASE Over
  BY <1>27 DEF Over, vars
<1>28. CASE UNCHANGED vars
  BY <1>28 DEF vars
<1> QED
  BY <1>1, <1>2, <1>3, <1>4, <1>5, <1>6, <1>7, <1>8, <1>9, <1>10, <1>11, <1>12, <1>13, <1>14, <1>15, <1>16, <1>17, <1>18, <1>19, <1>20, <1>21, <1>22, <1>23, <1>24, <1>25, <1>26, <1>27, <1>28
  DEF Next, Controller, Waits, Loop, Ending

\* Signals go to the model process only, never to a process reaped before.
THEOREM HandleOwnsProcessInvariant == Spec => []HandleOwnsProcess
<1>1. Init => ModelInv
  BY DEF Init, ModelInv, Alive, Recovering, ProcStates, Sites, Closed
<1>2. ModelInv /\ [Next]_vars => ModelInv'
  BY ModelStep
<1>3. ModelInv => HandleOwnsProcess
  BY DEF ModelInv, HandleOwnsProcess
<1> QED BY <1>1, <1>2, <1>3, PTL DEF Spec

\* No exit but that of a BOINC shutdown leaves the model running or stopped.
THEOREM ErrorsLeaveNoModelInvariant == Spec => []ErrorsLeaveNoModel
<1>1. Init => ModelInv
  BY DEF Init, ModelInv, Alive, Recovering, ProcStates, Sites, Closed
<1>2. ModelInv /\ [Next]_vars => ModelInv'
  BY ModelStep
<1>3. ModelInv => ErrorsLeaveNoModel
  BY DEF ModelInv, Alive, ProcStates, ErrorsLeaveNoModel
<1> QED BY <1>1, <1>2, <1>3, PTL DEF Spec

\* The conclusions of LoopLeft and ModelInv meet when the task is reported.
THEOREM FinishGenuineInvariant == Spec => []FinishGenuine
<1> DEFINE Inv == ModelInv /\ LoopLeft
<1>1. Init => Inv
  <2>1. Init => ModelInv
    BY DEF Init, ModelInv, Alive, Recovering, ProcStates, Sites, Closed
  <2>2. Init => LoopLeft
    BY DEF Init, LoopLeft, Decide
  <2> QED BY <2>1, <2>2
<1>2. Inv /\ [Next]_vars => Inv'
  BY ModelStep, LoopStep DEF ModelInv
<1>3. Inv => FinishGenuine
  BY DEF ModelInv, LoopLeft, Alive, ProcStates, FinishGenuine
<1> QED BY <1>1, <1>2, <1>3, PTL DEF Spec

-----------------------------------------------------------------------------
(* Types, and a stopped model.                                             *)

\* What the client says, and the controller has seen of it.
ClientTypes ==
    client \in Statuses /\ suspends \in 0 .. MaxSuspends /\ status \in Statuses

LEMMA ClientTypesStep == ClientTypes /\ [Next]_vars => ClientTypes'
<1> SUFFICES ASSUME ClientTypes, [Next]_vars PROVE ClientTypes'
  OBVIOUS
<1>1. CASE Client
  <2>1. UNCHANGED status
    BY <1>1 DEF Client
  <2>2. CASE ClientSuspends
    <3>1. suspends' \in 0 .. MaxSuspends
      BY <2>2, BoundsAssumption DEF ClientSuspends, ClientTypes
    <3>2. client' \in Statuses
      BY <2>2 DEF ClientSuspends, ClientTypes, Statuses
    <3> QED BY <2>1, <3>1, <3>2 DEF ClientTypes
  <2>3. CASE ClientResumes \/ ClientQuits \/ ClientAborts \/ HeartbeatLost
    <3>1. client' \in Statuses /\ UNCHANGED suspends
      BY <2>3 DEF ClientResumes, ClientQuits, ClientAborts, HeartbeatLost, ClientTypes, Statuses
    <3> QED BY <2>1, <3>1 DEF ClientTypes
  <2> QED BY <1>1, <2>2, <2>3 DEF Client
<1>2. CASE PollClient \/ PollWhileSuspended \/ HoldWhileSuspended
  BY <1>2 DEF PollClient, PollWhileSuspended, HoldWhileSuspended, ClientTypes, boinc
<1>3. CASE Environment(ModelEnds) \/ Environment(StoppedByOthers) \/ Environment(ContinuedByOthers)
  BY <1>3 DEF Environment, ClientTypes, boinc
<1>4. CASE SkipWait \/ ApplyShutdown \/ ApplySuspend \/ SuspendFails \/ ApplyInRecovery \/ LeaveHold
  BY <1>4 DEF SkipWait, ApplyShutdown, ApplySuspend, SuspendFails, ApplyInRecovery, LeaveHold,
              ClientTypes, boinc
<1>5. CASE Loop
  BY <1>5 DEF Loop, StartupFails, LaunchModel, CheckChild, StepTasks, ScheduledUpload,
              SubmitScheduled, Save, SaveFails, ClientTypes, boinc
<1>6. CASE Ending
  BY <1>6 DEF Ending, FinalizeUploads, SubmitFinal, UploadFails, Complete, FinishTaskExit,
              ClientTypes, boinc
<1>7. CASE UNCHANGED vars
  BY <1>7 DEF vars, ClientTypes, boinc
<1> QED
  BY <1>1, <1>2, <1>3, <1>4, <1>5, <1>6, <1>7 DEF Next, Controller, Waits, Over

\* What is known of the model, and the end of the controller.
StateTypes ==
    /\ event \in {"none", "stopped", "continued"}
    /\ child_status \in {0, 1, 3, 4}
    /\ model_completed \in BOOLEAN /\ model_success \in BOOLEAN /\ hurry \in BOOLEAN
    /\ outcome \in {"running", "returned", "finished"}

LEMMA StateTypesStep == StateTypes /\ [Next]_vars => StateTypes'
<1> SUFFICES ASSUME StateTypes, [Next]_vars PROVE StateTypes'
  OBVIOUS
<1> USE DEF StateTypes, model, progress, exit
<1>1. CASE Client
  BY <1>1 DEF Client
<1>2. CASE Environment(ModelEnds)
  BY <1>2 DEF Environment, ModelEnds
<1>3. CASE Environment(StoppedByOthers)
  BY <1>3 DEF Environment, StoppedByOthers
<1>4. CASE Environment(ContinuedByOthers)
  BY <1>4 DEF Environment, ContinuedByOthers
<1>5. CASE PollClient \/ SkipWait \/ ApplyInRecovery \/ HoldWhileSuspended \/ LeaveHold
  BY <1>5 DEF PollClient, SkipWait, ApplyInRecovery, HoldWhileSuspended, LeaveHold, Exit
<1>6. ASSUME NEW s, GiveUp(s), UNCHANGED <<progress, hurry>>
      PROVE  StateTypes'
  BY <1>6 DEF GiveUp, Exit, EnterRecovery, StopChild
<1>7. CASE ApplyShutdown
  BY <1>6, <1>7 DEF ApplyShutdown
<1>8. CASE ApplySuspend
  BY <1>8 DEF ApplySuspend, SuspendChild
<1>9. CASE SuspendFails
  BY <1>6, <1>9 DEF SuspendFails
<1>10. CASE PollWhileSuspended
  <2>1. CASE Shutdown(client)
    BY <1>6, <1>10, <2>1 DEF PollWhileSuspended
  <2>2. CASE ~Shutdown(client)
    BY <1>10, <2>2 DEF PollWhileSuspended, ResumeChild
  <2> QED BY <2>1, <2>2
<1>11. CASE StartupFails
  BY <1>11 DEF StartupFails, Exit
<1>12. CASE LaunchModel
  BY <1>12 DEF LaunchModel
<1>13. CASE CheckChild
  <2>1. PolledStatus \in {0, 1, 3, 4}
    BY DEF PolledStatus, Ended
  <2>2. /\ child_status' = PolledStatus /\ hurry' = FALSE /\ event' = "none"
        /\ UNCHANGED <<model_completed, model_success, exit>>
    BY <1>13 DEF CheckChild, PollChild
  <2> QED BY <2>1, <2>2
<1>14. CASE StepTasks
  <2>1. hurry' \in BOOLEAN
    BY <1>14, FlagsAssumption DEF StepTasks
  <2> QED BY <1>14, <2>1 DEF StepTasks
<1>15. CASE ScheduledUpload \/ SubmitScheduled
  BY <1>15 DEF ScheduledUpload, SubmitScheduled
<1>16. CASE Save
  BY <1>16 DEF Save
<1>17. CASE SaveFails
  BY <1>17 DEF SaveFails, EnterRecovery, StopChild
<1>18. CASE FinalizeUploads
  BY <1>18 DEF FinalizeUploads, Exit
<1>19. CASE SubmitFinal
  BY <1>19 DEF SubmitFinal, Exit
<1>20. CASE UploadFails
  BY <1>20 DEF UploadFails, Exit
<1>21. CASE Complete
  BY <1>21 DEF Complete, Exit
<1>22. CASE FinishTaskExit
  BY <1>22 DEF FinishTaskExit, StopChild
<1>23. CASE UNCHANGED vars
  BY <1>23 DEF vars
<1> QED
  BY <1>1, <1>2, <1>3, <1>4, <1>5, <1>7, <1>8, <1>9, <1>10, <1>11, <1>12, <1>13, <1>14, <1>15,
     <1>16, <1>17, <1>18, <1>19, <1>20, <1>21, <1>22, <1>23
  DEF Next, Controller, Waits, Loop, Ending, Over

\* While an upload of the end is prepared there is one left.
LeftInv ==
    /\ left \in 0 .. FinalUploads
    /\ site \in {"final", "recovery_upload"} /\ Preparing => left > 0

LEMMA LeftStep == LeftInv /\ [Next]_vars => LeftInv'
<1> SUFFICES ASSUME LeftInv, [Next]_vars PROVE LeftInv'
  OBVIOUS
<1> USE BoundsAssumption DEF LeftInv
<1>1. ASSUME UNCHANGED left,
             \/ site' \notin {"final", "recovery_upload"}
             \/ UNCHANGED site /\ (Preparing \/ ~Preparing')
      PROVE  LeftInv'
  BY <1>1
<1>2. CASE Client \/ Environment(ModelEnds) \/ Environment(StoppedByOthers)
           \/ Environment(ContinuedByOthers)
  BY <1>1, <1>2 DEF Client, Environment, Preparing
<1>3. CASE PollClient \/ SkipWait \/ ApplyShutdown \/ ApplySuspend \/ SuspendFails
           \/ PollWhileSuspended \/ ApplyInRecovery \/ HoldWhileSuspended \/ LeaveHold
  <2>1. Preparing
    BY <1>3 DEF PollClient, SkipWait, ApplyShutdown, ApplySuspend, SuspendFails,
                PollWhileSuspended, ApplyInRecovery, HoldWhileSuspended, LeaveHold, Preparing
  <2>2. UNCHANGED left /\ site' \in {site, "recovery"}
    BY <1>3 DEF PollClient, SkipWait, ApplyShutdown, ApplySuspend, SuspendFails, PollWhileSuspended,
                ApplyInRecovery, HoldWhileSuspended, LeaveHold, GiveUp, EnterRecovery
  <2> QED BY <1>1, <2>1, <2>2
<1>4. CASE LaunchModel \/ ScheduledUpload \/ Save \/ SaveFails
  BY <1>1, <1>4 DEF LaunchModel, ScheduledUpload, Save, SaveFails, EnterRecovery
<1>5. CASE StartupFails \/ CheckChild \/ StepTasks \/ SubmitScheduled
  BY <1>1, <1>5 DEF StartupFails, CheckChild, StepTasks, SubmitScheduled, Exit, Preparing
<1>6. CASE FinalizeUploads
  BY <1>6 DEF FinalizeUploads, Exit, Preparing
<1>7. CASE SubmitFinal
  <2>1. left \in Nat /\ left > 0 /\ left <= FinalUploads /\ left' = left - 1
    BY <1>7 DEF SubmitFinal, Preparing
  <2>2. left > 1 \/ site' \notin {"final", "recovery_upload"} \/ pc' = "exit"
    BY <1>7 DEF SubmitFinal, Exit
  <2> QED BY <2>1, <2>2 DEF Preparing
<1>8. CASE UploadFails \/ Complete \/ FinishTaskExit
  BY <1>1, <1>8 DEF UploadFails, Complete, FinishTaskExit, Exit, Preparing
<1>9. CASE UNCHANGED vars
  BY <1>1, <1>9 DEF vars, Preparing
<1> QED
  BY <1>2, <1>3, <1>4, <1>5, <1>6, <1>7, <1>8, <1>9
  DEF Next, Controller, Waits, Loop, Ending, Over

Decisions == [reason : Reasons, code : {0, 1}, route : Routes]

LEMMA DecisionStep == decision \in Decisions /\ [Next]_vars => decision' \in Decisions
<1> SUFFICES ASSUME decision \in Decisions, [Next]_vars PROVE decision' \in Decisions
  OBVIOUS
<1>1. \A reason \in Reasons, code \in {0, 1}, route \in Routes :
          Decide(reason, code, route) \in Decisions
  BY DEF Decide, Decisions
<1>2. \A s : ShutdownDecision(s) \in Decisions
  BY <1>1 DEF ShutdownDecision, Reasons, Routes
<1>3. \A s : UploadFinishCode(s) \in {0, 1}
  BY DEF UploadFinishCode
<1>4. Recovered \in Decisions
  BY <1>1 DEF Recovered, Reasons, Routes
<1>5. ASSUME NEW s, GiveUp(s)
      PROVE  decision' \in Decisions
  BY <1>1, <1>2, <1>3, <1>5 DEF GiveUp, Exit, EnterRecovery, Reasons, Routes, exit
<1>6. CASE ApplyShutdown \/ SuspendFails
  BY <1>5, <1>6 DEF ApplyShutdown, SuspendFails
<1>7. CASE PollWhileSuspended
  BY <1>5, <1>7 DEF PollWhileSuspended, exit
<1>8. CASE ApplyInRecovery
  BY <1>2, <1>8 DEF ApplyInRecovery, Exit, exit
<1>9. CASE LeaveHold
  BY <1>1, <1>3, <1>9 DEF LeaveHold, Exit, Reasons, Routes, exit
<1>10. CASE StartupFails
  BY <1>1, <1>10 DEF StartupFails, Exit, Reasons, Routes
<1>11. CASE FinalizeUploads \/ SubmitFinal
  BY <1>4, <1>11 DEF FinalizeUploads, SubmitFinal, Exit, exit
<1>12. CASE UploadFails
  BY <1>1, <1>12 DEF UploadFails, Exit, Reasons, Routes
<1>13. CASE Complete
  BY <1>1, <1>13 DEF Complete, Exit, Reasons, Routes
<1>14. CASE Client \/ Environment(ModelEnds) \/ Environment(StoppedByOthers)
            \/ Environment(ContinuedByOthers)
  BY <1>14 DEF Client, Environment, exit
<1>15. CASE PollClient \/ SkipWait \/ ApplySuspend \/ HoldWhileSuspended
  BY <1>15 DEF PollClient, SkipWait, ApplySuspend, HoldWhileSuspended, exit
<1>16. CASE LaunchModel \/ CheckChild \/ StepTasks \/ ScheduledUpload \/ SubmitScheduled \/ Save
            \/ SaveFails
  BY <1>16 DEF LaunchModel, CheckChild, StepTasks, ScheduledUpload, SubmitScheduled, Save,
               SaveFails, EnterRecovery, exit
<1>17. CASE FinishTaskExit \/ UNCHANGED vars
  BY <1>17 DEF FinishTaskExit, vars, exit
<1> QED
  BY <1>6, <1>7, <1>8, <1>9, <1>10, <1>11, <1>12, <1>13, <1>14, <1>15, <1>16, <1>17
  DEF Next, Controller, Waits, Loop, Ending, Over

\* TypeOK: no upload is counted below 0, no critical section ended that is not open.
THEOREM TypeInvariant == Spec => []TypeOK
<1> DEFINE Inv == /\ CriticalInv /\ ModelInv /\ ClientTypes /\ StateTypes /\ LeftInv
                  /\ decision \in Decisions
<1>1. Init => Inv
  <2> SUFFICES ASSUME Init PROVE Inv
    OBVIOUS
  <2>1. CriticalInv
    BY DEF Init, CriticalInv, InUpload, Preparing, PCs, Sites
  <2>2. ModelInv
    BY DEF Init, ModelInv, Alive, Recovering, ProcStates, Sites, Closed
  <2>3. ClientTypes
    BY BoundsAssumption DEF Init, ClientTypes, Quiet, Statuses
  <2>4. StateTypes
    BY DEF Init, StateTypes
  <2>5. LeftInv
    BY BoundsAssumption DEF Init, LeftInv
  <2>6. decision \in Decisions
    BY DEF Init, Decide, Decisions, Reasons, Routes
  <2> QED BY <2>1, <2>2, <2>3, <2>4, <2>5, <2>6
<1>2. Inv /\ [Next]_vars => Inv'
  BY CriticalStep, ModelStep, ClientTypesStep, StateTypesStep, LeftStep, DecisionStep
<1>3. Inv => TypeOK
  <2> SUFFICES ASSUME Inv PROVE TypeOK
    OBVIOUS
  <2>1. critical \in Nat
    BY DEF CriticalInv, Preparing, PCs
  <2>2. pc \in PCs /\ site \in Sites
    BY DEF CriticalInv
  <2>3. /\ proc \in {"none", "running", "stopped", "halted", "exited", "killed", "gone"}
        /\ handle \in [valid : BOOLEAN, suspended : BOOLEAN]
    BY DEF ModelInv, ProcStates
  <2> QED
    BY <2>1, <2>2, <2>3 DEF TypeOK, ClientTypes, StateTypes, LeftInv, Decisions
<1> QED BY <1>1, <1>2, <1>3, PTL DEF Spec

\* A model that the controller stopped is resumed, or killed, before it goes on.
THEOREM ResumedBeforeGoingOnInvariant == Spec => []ResumedBeforeGoingOn
<1> DEFINE Inv == ModelInv /\ ResumedBeforeGoingOn
<1>1. Init => Inv
  BY DEF Init, ModelInv, Alive, Recovering, ProcStates, Sites, Closed, ResumedBeforeGoingOn
<1>2. Inv /\ [Next]_vars => ResumedBeforeGoingOn'
  <2> SUFFICES ASSUME ModelInv, ResumedBeforeGoingOn, [Next]_vars PROVE ResumedBeforeGoingOn'
    OBVIOUS
  <2> DEFINE Held == {"suspended", "exit", "over"}
  <2>1. ASSUME proc' = "stopped" => proc = "stopped", pc' = pc \/ pc \notin Held \/ pc' \in Held
        PROVE  ResumedBeforeGoingOn'
    BY <2>1 DEF ResumedBeforeGoingOn
  <2>2. StopChild /\ proc' = "stopped" => ~handle.valid /\ proc = "stopped"
    BY DEF StopChild, model
  <2>3. proc = "stopped" /\ pc # "over" => handle.valid
    BY DEF ModelInv, Alive
  <2>4. ASSUME NEW s, GiveUp(s), pc # "over"
        PROVE  ResumedBeforeGoingOn'
    <3>1. CASE EnterRecovery
      BY <2>2, <2>3, <2>4, <3>1 DEF EnterRecovery, ResumedBeforeGoingOn
    <3>2. CASE ~EnterRecovery
      BY <2>4, <3>2 DEF GiveUp, Exit, ResumedBeforeGoingOn
    <3> QED BY <3>1, <3>2
  <2>5. CASE Client
    BY <2>1, <2>5 DEF Client, model
  <2>6. CASE Environment(ModelEnds) \/ Environment(StoppedByOthers) \/ Environment(ContinuedByOthers)
    BY <2>1, <2>6 DEF Environment, ModelEnds, StoppedByOthers, ContinuedByOthers
  <2>7. CASE PollClient \/ SkipWait \/ ApplyInRecovery \/ HoldWhileSuspended \/ LeaveHold
    BY <2>1, <2>7 DEF PollClient, SkipWait, ApplyInRecovery, HoldWhileSuspended, LeaveHold, model
  <2>8. CASE ApplyShutdown \/ SuspendFails
    BY <2>4, <2>8 DEF ApplyShutdown, SuspendFails
  <2>9. CASE ApplySuspend
    BY <2>9 DEF ApplySuspend, ResumedBeforeGoingOn
  <2>10. CASE PollWhileSuspended
    <3>1. CASE Shutdown(client)
      BY <2>4, <2>10, <3>1 DEF PollWhileSuspended
    <3>2. CASE ~Shutdown(client) /\ client.suspended
      BY <2>1, <2>10, <3>2 DEF PollWhileSuspended, model
    <3>3. CASE ~Shutdown(client) /\ ~client.suspended
      BY <2>10, <3>3 DEF PollWhileSuspended, ResumeChild, ResumedBeforeGoingOn, model
    <3> QED BY <3>1, <3>2, <3>3
  <2>11. CASE StartupFails \/ StepTasks \/ ScheduledUpload \/ SubmitScheduled \/ Save
    BY <2>1, <2>11 DEF StartupFails, StepTasks, ScheduledUpload, SubmitScheduled, Save, model
  <2>12. CASE LaunchModel
    BY <2>12 DEF LaunchModel, ResumedBeforeGoingOn
  <2>13. CASE CheckChild
    BY <2>1, <2>13 DEF CheckChild, PollChild
  <2>14. CASE SaveFails
    <3>1. EnterRecovery /\ pc = "save"
      BY <2>14 DEF SaveFails
    <3> QED BY <2>2, <2>3, <3>1 DEF EnterRecovery, ResumedBeforeGoingOn
  <2>15. CASE FinalizeUploads \/ SubmitFinal \/ UploadFails \/ Complete
    BY <2>1, <2>15 DEF FinalizeUploads, SubmitFinal, UploadFails, Complete, model
  <2>16. CASE FinishTaskExit
    BY <2>16 DEF FinishTaskExit, ResumedBeforeGoingOn
  <2>17. CASE UNCHANGED vars
    BY <2>1, <2>17 DEF vars, model
  <2> QED
    BY <2>5, <2>6, <2>7, <2>8, <2>9, <2>10, <2>11, <2>12, <2>13, <2>14, <2>15, <2>16, <2>17
    DEF Next, Controller, Waits, Loop, Ending, Over
<1>3. Inv /\ [Next]_vars => Inv'
  BY <1>2, ModelStep
<1> QED BY <1>1, <1>3, PTL DEF Spec

-----------------------------------------------------------------------------
(* How far the controller is from its end.                                 *)

\* A bound on the steps of its own that the controller makes before it obeys, once
\* the client asks it to leave.
StepsToObey ==
    CASE pc = "over" -> 0
      [] pc = "exit" -> 1
      [] pc \in {"complete", "suspended"} -> 2
      [] pc = "apply" -> IF site = "recovery_upload" /\ status.suspended THEN 3
                         ELSE IF Shutdown(status) THEN 2 ELSE 6
      [] pc = "wait" -> IF site = "loop" /\ hurry THEN 8 ELSE 4
      [] pc = "save" -> IF hurry THEN 9 ELSE 5
      [] pc = "submit" -> IF site = "scheduled" THEN 10 ELSE 5
      [] pc = "finalize" -> 5
      [] pc = "work" -> 6
      [] pc = "check" -> 7
      [] pc = "start" -> 9

\* The steps that keep a controller from obeying: step tasks that leave no time
\* for a wait, and an upload of the recovery that waits for the task to resume.
TasksTakeAll == StepTasks /\ hurry'

HeldBack == HoldWhileSuspended /\ client.suspended

\* Every other step of the controller brings it nearer to its end while a
\* shutdown request is up.
ObeysInSteps ==
    [][Shutdown(client) /\ Controller /\ ~TasksTakeAll /\ ~HeldBack
          => StepsToObey' < StepsToObey]_vars

\* The steps left within a wait and the hand-over after it.
Waiting == CASE pc = "wait" -> 3 [] pc = "apply" -> 2 [] pc = "suspended" -> 1 [] OTHER -> 0

\* What may come after the recovery was entered, and after the loop was left.
RecoverySteps == 4 * FinalUploads + 7

EndingSteps == RecoverySteps + 4 * FinalUploads + 4

\* The loop is gone through once more when it has not seen that the model ended.
UnseenEnd == IF child_status = 0 THEN 10 ELSE 0

\* A bound on the steps of its own that the controller makes after the model ended.
StepsToEnd ==
    IF pc = "over" THEN 0
    ELSE IF pc = "exit" THEN 1
    ELSE IF pc = "complete" THEN 2
    ELSE CASE site = "recovery_upload" ->
                 4 * left + (IF pc = "apply" /\ ~status.suspended THEN 1 ELSE Waiting)
           [] site = "recovery" -> 4 * FinalUploads + 4 + Waiting
           [] site = "last" -> RecoverySteps + Waiting
           [] site = "final" -> RecoverySteps + 4 * left + Waiting
           [] site = "settle" -> EndingSteps + Waiting
           [] site \in {"loop", "scheduled"} ->
                 EndingSteps + (IF pc = "save" THEN 4 + UnseenEnd
                                ELSE IF pc = "work" THEN 9 + UnseenEnd
                                ELSE IF pc = "start" THEN 14
                                ELSE IF site = "scheduled" THEN 5 + UnseenEnd + Waiting
                                ELSE 10 + Waiting)

ModelOver == proc \in {"exited", "killed", "gone"}

\* The only step that does not bring the controller nearer to its end when the
\* model is over is to wait on while the task is suspended.
EndsInSteps ==
    [][ModelOver /\ Controller
          /\ ~((HoldWhileSuspended \/ PollWhileSuspended) /\ client.suspended)
          => StepsToEnd' < StepsToEnd]_vars

\* A shutdown request ends every wait at the next poll.
LEMMA ObeyStep ==
    ASSUME CriticalInv, Shutdown(client), Controller, ~TasksTakeAll, ~HeldBack
    PROVE  StepsToObey' < StepsToObey
<1> USE DEF CriticalInv, Sites, PCs, StepsToObey, boinc
<1>1. CASE PollClient
  BY <1>1 DEF PollClient
<1>2. CASE SkipWait
  BY <1>2 DEF SkipWait, After
<1>3. CASE ApplyShutdown
  BY <1>3 DEF ApplyShutdown, GiveUp, Exit, SupervisedSites
<1>4. CASE ApplySuspend
  BY <1>4 DEF ApplySuspend, SupervisedSites
<1>5. CASE SuspendFails
  BY <1>5 DEF SuspendFails, GiveUp, Exit, EnterRecovery, SupervisedSites
<1>6. CASE PollWhileSuspended
  BY <1>6 DEF PollWhileSuspended, GiveUp, Exit
<1>7. CASE ApplyInRecovery
  BY <1>7 DEF ApplyInRecovery, Exit, After
<1>8. CASE HoldWhileSuspended
  BY <1>8 DEF HoldWhileSuspended, HeldBack
<1>9. CASE LeaveHold
  BY <1>9 DEF LeaveHold, Exit, After
<1>10. CASE StartupFails
  BY <1>10 DEF StartupFails, Exit
<1>11. CASE LaunchModel
  BY <1>11 DEF LaunchModel
<1>12. CASE CheckChild
  BY <1>12 DEF CheckChild
<1>13. CASE StepTasks
  <2>1. ~hurry'
    BY <1>13 DEF TasksTakeAll
  <2>2. pc = "work" /\ pc' = "save"
    BY <1>13 DEF StepTasks
  <2> QED BY <2>1, <2>2
<1>14. CASE ScheduledUpload
  BY <1>14 DEF ScheduledUpload
<1>15. CASE SubmitScheduled
  BY <1>15 DEF SubmitScheduled
<1>16. CASE Save
  BY <1>16 DEF Save
<1>17. CASE SaveFails
  BY <1>17 DEF SaveFails, EnterRecovery
<1>18. CASE FinalizeUploads
  BY <1>18 DEF FinalizeUploads, Exit
<1>19. CASE SubmitFinal
  BY <1>19 DEF SubmitFinal, Exit
<1>20. CASE UploadFails
  BY <1>20 DEF UploadFails, Exit
<1>21. CASE Complete
  BY <1>21 DEF Complete, Exit
<1>22. CASE FinishTaskExit
  BY <1>22 DEF FinishTaskExit
<1> QED
  BY <1>1, <1>2, <1>3, <1>4, <1>5, <1>6, <1>7, <1>8, <1>9, <1>10, <1>11, <1>12, <1>13, <1>14,
     <1>15, <1>16, <1>17, <1>18, <1>19, <1>20, <1>21, <1>22
  DEF Controller, Waits, Loop, Ending

\* The controller has ended when it has no step left.
OverEnds == pc = "over" => outcome # "running"

LEMMA OverEndsStep == OverEnds /\ pc \in PCs /\ site \in Sites /\ [Next]_vars => OverEnds'
<1> SUFFICES ASSUME OverEnds, pc \in PCs, site \in Sites, [Next]_vars PROVE OverEnds'
  OBVIOUS
<1> USE DEF OverEnds, exit
<1>1. CASE Client \/ Environment(ModelEnds) \/ Environment(StoppedByOthers)
           \/ Environment(ContinuedByOthers) \/ UNCHANGED vars
  BY <1>1 DEF Client, Environment, vars
<1>2. CASE PollClient \/ SkipWait \/ ApplyInRecovery \/ HoldWhileSuspended \/ LeaveHold
  BY <1>2, AfterSite
  DEF PollClient, SkipWait, ApplyInRecovery, HoldWhileSuspended, LeaveHold, Exit
<1>3. CASE ApplyShutdown \/ ApplySuspend \/ SuspendFails
  BY <1>3 DEF ApplyShutdown, ApplySuspend, SuspendFails, GiveUp, EnterRecovery, Exit
<1>4. CASE PollWhileSuspended
  BY <1>4, AfterSite DEF PollWhileSuspended, GiveUp, EnterRecovery, Exit
<1>5. CASE Loop
  BY <1>5 DEF Loop, StartupFails, LaunchModel, CheckChild, StepTasks, ScheduledUpload,
              SubmitScheduled, Save, SaveFails, EnterRecovery, Exit
<1>6. CASE Ending
  BY <1>6 DEF Ending, FinalizeUploads, SubmitFinal, UploadFails, Complete, FinishTaskExit, Exit
<1> QED BY <1>1, <1>2, <1>3, <1>4, <1>5, <1>6 DEF Next, Controller, Waits, Over

\* The safety half of QuitHonoured: whatever the controller is doing, ten of its
\* steps are enough, those excepted that QuitHonoured assumes not to go on for ever.
THEOREM ObeysInStepsTheorem ==
    Spec => /\ [](StepsToObey \in 0 .. 10)
            /\ [](StepsToObey = 0 => outcome # "running")
            /\ ObeysInSteps
<1> DEFINE Inv == CriticalInv /\ OverEnds
<1>1. Init => Inv
  BY DEF Init, CriticalInv, InUpload, Preparing, PCs, Sites, OverEnds
<1>2. Inv /\ [Next]_vars => Inv'
  BY CriticalStep, OverEndsStep DEF CriticalInv
<1>3. Inv => StepsToObey \in 0 .. 10 /\ (StepsToObey = 0 => outcome # "running")
  <2> SUFFICES ASSUME Inv
               PROVE  StepsToObey \in 0 .. 10 /\ (StepsToObey = 0 => outcome # "running")
    OBVIOUS
  <2>1. CASE pc = "over"
    <3>1. StepsToObey = 0
      BY <2>1 DEF StepsToObey
    <3> QED BY <2>1, <3>1 DEF OverEnds
  <2>2. CASE pc \in {"apply", "wait"}
    <3>1. StepsToObey \in {2, 3, 4, 6, 8}
      BY <2>2 DEF StepsToObey
    <3> QED BY <3>1
  <2>3. CASE pc \in {"save", "submit"}
    <3>1. StepsToObey \in {5, 9, 10}
      BY <2>3 DEF StepsToObey
    <3> QED BY <3>1
  <2>4. CASE pc \in {"exit", "complete", "suspended"}
    <3>1. StepsToObey \in {1, 2}
      BY <2>4 DEF StepsToObey
    <3> QED BY <3>1
  <2>5. CASE pc \in {"finalize", "work", "check", "start"}
    <3>1. StepsToObey \in {5, 6, 7, 9}
      BY <2>5 DEF StepsToObey
    <3> QED BY <3>1
  <2> QED BY <2>1, <2>2, <2>3, <2>4, <2>5 DEF CriticalInv, PCs
<1>4. Inv /\ [Next]_vars
        => [Shutdown(client) /\ Controller /\ ~TasksTakeAll /\ ~HeldBack
               => StepsToObey' < StepsToObey]_vars
  BY ObeyStep
<1> QED BY <1>1, <1>2, <1>3, <1>4, PTL DEF Spec, ObeysInSteps

\* Where the controller can be: in the loop it has not seen the model's end, and
\* owns the model's process.
Places ==
    /\ pc = "start" => site = "loop"
    /\ pc = "suspended" => site \in SupervisedSites
    /\ site = "loop" /\ pc \in {"wait", "apply", "suspended", "check"} => child_status = 0
    /\ site \in {"loop", "scheduled"} /\ pc \notin {"start", "exit", "over"} /\ child_status = 0
          => handle.valid

LEMMA PlacesStep == Places /\ CriticalInv /\ ModelInv /\ LoopLeft /\ [Next]_vars => Places'
<1> SUFFICES ASSUME Places, CriticalInv, ModelInv, LoopLeft, [Next]_vars PROVE Places'
  OBVIOUS
<1>1. /\ site \in Sites /\ pc \in PCs
      /\ handle \in [valid : BOOLEAN, suspended : BOOLEAN]
      /\ pc \in {"check", "work"} => site = "loop"
      /\ pc = "save" => site \in {"loop", "scheduled"}
      /\ pc = "finalize" => site \in {"settle", "recovery"}
  BY DEF CriticalInv, ModelInv, LoopLeft
<1> USE <1>1 DEF Places, Sites, PCs, progress, exit, SupervisedSites
<1>2. CASE Client \/ Environment(ModelEnds) \/ Environment(StoppedByOthers)
           \/ Environment(ContinuedByOthers) \/ UNCHANGED vars
  BY <1>2 DEF Client, Environment, vars
<1>3. CASE PollClient
  BY <1>3, AfterSite DEF PollClient, After
<1>4. CASE SkipWait
  BY <1>4 DEF SkipWait, After
<1>5. ASSUME NEW s, GiveUp(s), UNCHANGED progress
      PROVE  Places'
  BY <1>5 DEF GiveUp, EnterRecovery, Exit
<1>6. CASE ApplyShutdown \/ SuspendFails
  BY <1>5, <1>6 DEF ApplyShutdown, SuspendFails
<1>7. CASE ApplySuspend
  BY <1>7 DEF ApplySuspend, SuspendChild
<1>8. CASE PollWhileSuspended
  <2>1. CASE Shutdown(client)
    BY <1>5, <1>8, <2>1 DEF PollWhileSuspended
  <2>2. CASE ~Shutdown(client) /\ client.suspended
    BY <1>8, <2>2 DEF PollWhileSuspended
  <2>3. CASE ~Shutdown(client) /\ ~client.suspended
    BY <1>8, <2>3 DEF PollWhileSuspended, ResumeChild, After
  <2> QED BY <2>1, <2>2, <2>3
<1>9. CASE ApplyInRecovery \/ HoldWhileSuspended \/ LeaveHold
  BY <1>9 DEF ApplyInRecovery, HoldWhileSuspended, LeaveHold, Exit, After
<1>10. CASE StartupFails \/ StepTasks \/ ScheduledUpload \/ SubmitScheduled
  BY <1>10 DEF StartupFails, StepTasks, ScheduledUpload, SubmitScheduled, Exit
<1>11. CASE LaunchModel
  BY <1>11 DEF LaunchModel
<1>12. CASE CheckChild
  <2>1. PolledStatus = 0 => ~Ended
    BY DEF PolledStatus, Ended
  <2>2. ~Ended => PolledHandle.valid = handle.valid
    BY PolledHandleType
  <2> QED BY <1>12, <2>1, <2>2 DEF CheckChild
<1>13. CASE Save
  BY <1>13 DEF Save, LoopGoesOn
<1>14. CASE SaveFails
  BY <1>14 DEF SaveFails, EnterRecovery
<1>15. CASE FinalizeUploads
  BY <1>15 DEF FinalizeUploads, Exit
<1>16. CASE SubmitFinal
  BY <1>16 DEF SubmitFinal, Exit
<1>17. CASE UploadFails \/ Complete \/ FinishTaskExit
  BY <1>17 DEF UploadFails, Complete, FinishTaskExit, Exit
<1> QED
  BY <1>2, <1>3, <1>4, <1>6, <1>7, <1>8, <1>9, <1>10, <1>11, <1>12, <1>13, <1>14, <1>15, <1>16,
     <1>17
  DEF Next, Controller, Waits, Loop, Ending, Over

\* A controller whose model is over goes through the loop at most once more, and
\* through the waits and uploads after it; what fails leads nearer to the end.
LEMMA EndStep ==
    ASSUME CriticalInv, ModelInv, LoopLeft, LeftInv, Places, child_status \in {0, 1, 3, 4},
           ModelOver, Controller,
           ~((HoldWhileSuspended \/ PollWhileSuspended) /\ client.suspended)
    PROVE  StepsToEnd' < StepsToEnd
<1>1. /\ site \in Sites /\ pc \in PCs
      /\ FinalUploads \in Nat /\ left \in Nat /\ left <= FinalUploads
      /\ site \in {"final", "recovery_upload"} /\ Preparing => left > 0
      /\ pc = "submit" => InUpload
      /\ pc \in {"check", "work"} => site = "loop"
      /\ pc = "save" => site \in {"loop", "scheduled"}
      /\ pc = "finalize" => site \in {"settle", "recovery"}
      /\ pc = "complete" => site = "last"
  BY BoundsAssumption DEF CriticalInv, ModelInv, LoopLeft, LeftInv
<1> USE <1>1 DEF Sites, PCs, Preparing, Places, InUpload, SupervisedSites, StepsToEnd, Waiting, RecoverySteps,
                 EndingSteps, UnseenEnd, progress, boinc
<1>2. CASE PollClient
  BY <1>2 DEF PollClient, After
<1>3. CASE SkipWait
  BY <1>3 DEF SkipWait, After
<1>4. CASE ApplyShutdown
  BY <1>4 DEF ApplyShutdown, GiveUp, Exit
<1>5. CASE ApplySuspend
  BY <1>5 DEF ApplySuspend
<1>6. CASE SuspendFails
  BY <1>6 DEF SuspendFails, GiveUp, Exit, EnterRecovery
<1>7. CASE PollWhileSuspended
  <2>1. CASE Shutdown(client)
    BY <1>7, <2>1 DEF PollWhileSuspended, GiveUp, Exit
  <2>2. CASE ~Shutdown(client) /\ ~client.suspended
    BY <1>7, <2>2 DEF PollWhileSuspended, After
  <2> QED BY <1>7, <2>1, <2>2
<1>8. CASE ApplyInRecovery
  BY <1>8 DEF ApplyInRecovery, Exit, After
<1>9. CASE HoldWhileSuspended
  BY <1>9 DEF HoldWhileSuspended
<1>10. CASE LeaveHold
  BY <1>10 DEF LeaveHold, Exit, After
<1>11. CASE StartupFails
  BY <1>11 DEF StartupFails, Exit
<1>12. CASE LaunchModel
  BY <1>12 DEF LaunchModel
<1>13. CASE CheckChild
  <2>1. pc = "check" /\ pc' = "work" /\ site = "loop" /\ site' = "loop" /\ child_status' = PolledStatus
    BY <1>13 DEF CheckChild
  <2>2. handle.valid
    BY <2>1
  <2>3. proc \in {"exited", "killed"}
    BY <2>2 DEF ModelInv, ModelOver
  <2>4. child_status' # 0
    BY <2>1, <2>3 DEF PolledStatus, Ended
  <2> QED BY <2>1, <2>4
<1>14. CASE StepTasks
  BY <1>14 DEF StepTasks
<1>15. CASE ScheduledUpload
  BY <1>15 DEF ScheduledUpload
<1>16. CASE SubmitScheduled
  BY <1>16 DEF SubmitScheduled
<1>17. CASE Save
  BY <1>17 DEF Save, LoopGoesOn
<1>18. CASE SaveFails
  BY <1>18 DEF SaveFails, EnterRecovery
<1>19. CASE FinalizeUploads
  BY <1>19 DEF FinalizeUploads, Exit
<1>20. CASE SubmitFinal
  BY <1>20 DEF SubmitFinal, Exit
<1>21. CASE UploadFails
  BY <1>21 DEF UploadFails, Exit
<1>22. CASE Complete
  BY <1>22 DEF Complete, Exit
<1>23. CASE FinishTaskExit
  BY <1>23 DEF FinishTaskExit
<1> QED
  BY <1>2, <1>3, <1>4, <1>5, <1>6, <1>7, <1>8, <1>9, <1>10, <1>11, <1>12, <1>13, <1>14, <1>15,
     <1>16, <1>17, <1>18, <1>19, <1>20, <1>21, <1>22, <1>23
  DEF Controller, Waits, Loop, Ending

\* The steps that are left are bounded by the uploads that are left.
LEMMA StepsToEndBound ==
    ASSUME CriticalInv, LeftInv
    PROVE  StepsToEnd \in 0 .. 8 * FinalUploads + 30
<1>1. /\ site \in Sites
      /\ FinalUploads \in Nat /\ left \in Nat /\ left <= FinalUploads
  BY BoundsAssumption DEF CriticalInv, LeftInv
<1>2. Waiting \in 0 .. 3
  <2>1. Waiting \in {0, 1, 2, 3}
    BY DEF Waiting
  <2> QED BY <2>1
<1>3. UnseenEnd \in 0 .. 10
  BY DEF UnseenEnd
<1> DEFINE Held == IF pc = "apply" /\ ~status.suspended THEN 1 ELSE Waiting
           Looping == IF pc = "save" THEN 4 + UnseenEnd
                      ELSE IF pc = "work" THEN 9 + UnseenEnd
                      ELSE IF pc = "start" THEN 14
                      ELSE IF site = "scheduled" THEN 5 + UnseenEnd + Waiting
                      ELSE 10 + Waiting
<1>4. Held \in 0 .. 3 /\ Looping \in 0 .. 19
  BY <1>2, <1>3
<1>5. StepsToEnd \in {0, 1, 2, 4 * left + Held, 4 * FinalUploads + 4 + Waiting,
                      RecoverySteps + Waiting, RecoverySteps + 4 * left + Waiting,
                      EndingSteps + Waiting, EndingSteps + Looping}
  BY <1>1 DEF StepsToEnd, Sites
<1> HIDE DEF Held, Looping
<1>6. RecoverySteps = 4 * FinalUploads + 7 /\ EndingSteps = 8 * FinalUploads + 11
  BY <1>1 DEF RecoverySteps, EndingSteps
<1>7. CASE StepsToEnd \in {0, 1, 2, 4 * left + Held, 4 * FinalUploads + 4 + Waiting}
  BY <1>1, <1>2, <1>4, <1>7
<1>8. CASE StepsToEnd \in {RecoverySteps + Waiting, RecoverySteps + 4 * left + Waiting}
  BY <1>1, <1>2, <1>6, <1>8
<1>9. CASE StepsToEnd \in {EndingSteps + Waiting, EndingSteps + Looping}
  BY <1>1, <1>2, <1>4, <1>6, <1>9
<1> QED BY <1>5, <1>7, <1>8, <1>9

\* The safety half of ControllerEnds: once the model is over the controller has
\* a bounded number of steps left, waiting out a suspension excepted.
THEOREM EndsInStepsTheorem ==
    Spec => [](StepsToEnd \in 0 .. 8 * FinalUploads + 30) /\ EndsInSteps
<1> DEFINE Inv == CriticalInv /\ ModelInv /\ LoopLeft /\ LeftInv /\ Places /\ StateTypes
<1>1. Init => Inv
  <2> SUFFICES ASSUME Init PROVE Inv
    OBVIOUS
  <2>1. CriticalInv
    BY DEF Init, CriticalInv, InUpload, Preparing, PCs, Sites
  <2>2. ModelInv
    BY DEF Init, ModelInv, Alive, Recovering, ProcStates, Sites, Closed
  <2>3. LoopLeft
    BY DEF Init, LoopLeft, Decide
  <2>4. LeftInv
    BY BoundsAssumption DEF Init, LeftInv
  <2>5. StateTypes
    BY DEF Init, StateTypes
  <2>6. Places
    BY DEF Init, Places
  <2> QED BY <2>1, <2>2, <2>3, <2>4, <2>5, <2>6
<1>2. Inv /\ [Next]_vars => Inv'
  BY CriticalStep, ModelStep, LoopStep, LeftStep, PlacesStep, StateTypesStep DEF ModelInv
<1>3. Inv => StepsToEnd \in 0 .. 8 * FinalUploads + 30
  BY StepsToEndBound
<1>4. Inv /\ [Next]_vars
        => [ModelOver /\ Controller
               /\ ~((HoldWhileSuspended \/ PollWhileSuspended) /\ client.suspended)
               => StepsToEnd' < StepsToEnd]_vars
  BY EndStep DEF StateTypes
<1> QED BY <1>1, <1>2, <1>3, <1>4, PTL DEF Spec, EndsInSteps

=============================================================================
