--------------------------- MODULE UploadsProofs ---------------------------
(***************************************************************************)
(* Proofs about Uploads, for every number of steps, every upload, output   *)
(* and restart interval and every bound on the sessions.                   *)
(*                                                                         *)
(* ScheduledLeavesFinal is not inductive: that an upload is due says       *)
(* nothing about the number it will use.  What carries it is a budget that *)
(* the loop, the progress file and every restart keep: an upload number    *)
(* has been paid for with upload_interval steps.                           *)
(***************************************************************************)
EXTENDS Uploads, TLAPS

\* k uploads have been paid for by the steps up to the last upload, which was
\* not made at the last step.
WithinBudget(t) ==
    /\ UploadInterval * t.upload_file_number <= t.last_upload_step
    /\ t.last_upload_step < TotalSteps

\* The controller has not entered finalize_remaining_uploads() this session.
InLoop ==
    \/ pc \in {"record", "launch", "wait", "endstep", "save"}
    \/ mode = "scheduled" /\ pc \in {"move", "zip", "delete", "hold", "submit"}

Budget ==
    /\ WithinBudget(progress.state)
    /\ InLoop => WithinBudget(tstate)
    /\ mode = "scheduled" /\ pc \in {"zip", "delete", "hold", "submit"} => UploadDue
    /\ pc = "filler" => mode # "scheduled"

\* The upload being prepared has the next number.
IndexIsNext ==
    pc \in {"zip", "filler", "delete", "hold", "submit"}
        => index = tstate.upload_file_number

IInv == TypeOK /\ Budget /\ IndexIsNext

-----------------------------------------------------------------------------

\* Arithmetic of expected_upload_file_count(): k intervals that end before the
\* last step are fewer than the promised uploads.
LEMMA DivBound ==
    ASSUME NEW k \in Nat, UploadInterval * k < TotalSteps
    PROVE  k < ExpectedUploads
<1> DEFINE q == ExpectedUploads
<1>0. UploadInterval \in Nat /\ UploadInterval > 0 /\ TotalSteps \in Nat
  BY IntervalAssumption, StepsAssumption
<1>1. q \in Int /\ TotalSteps + UploadInterval - 1 < UploadInterval * (q + 1)
  BY <1>0 DEF ExpectedUploads
<1>2. ASSUME k >= q PROVE FALSE
  <2>1. UploadInterval * k >= UploadInterval * q
    BY <1>0, <1>1, <1>2
  <2>2. UploadInterval * (q + 1) = UploadInterval * q + UploadInterval
    BY <1>0, <1>1
  <2> QED BY <2>1, <2>2, <1>0, <1>1
<1> QED BY <1>1, <1>2

\* The constants, as the provers want them.
LEMMA Constants ==
    /\ TotalSteps \in Nat /\ TotalSteps > 0
    /\ UploadInterval \in Nat /\ UploadInterval > 0
    /\ RestartInterval \in Nat /\ RestartInterval > 0
    /\ OutputInterval \in Nat /\ OutputInterval > 0
    /\ MaxSessions \in Nat
    /\ 0 \in Steps /\ 0 \in Outputs
    /\ Steps \subseteq Nat /\ Outputs \subseteq Steps
<1>1. /\ TotalSteps \in Nat /\ TotalSteps > 0
      /\ UploadInterval \in Nat /\ UploadInterval > 0
      /\ RestartInterval \in Nat /\ RestartInterval > 0
      /\ OutputInterval \in Nat /\ OutputInterval > 0
      /\ MaxSessions \in Nat
  BY StepsAssumption, IntervalAssumption, RestartAssumption, OutputAssumption,
     SessionsAssumption
<1>2. 0 \in Steps /\ Steps \subseteq Nat /\ Outputs \subseteq Steps
  BY <1>1 DEF Steps, Outputs
<1>3. 0 % OutputInterval = 0
  BY <1>1
<1> QED BY <1>1, <1>2, <1>3 DEF Outputs

\* A read of the model log yields a step of the run.
LEMMA ReadableIsStep == TypeOK => ReadableSteps \subseteq Steps
<1> SUFFICES ASSUME TypeOK, NEW s \in ReadableSteps PROVE s \in Steps
  OBVIOUS
<1> USE Constants
<1>1. CASE s = 0
  BY <1>1
<1>2. CASE old_log # NoLog /\ s = old_log
  BY <1>2 DEF TypeOK
<1>3. CASE s = tstate.last_completed_step
  BY <1>3 DEF TypeOK, TaskStates
<1>4. CASE old_log = NoLog /\ s \in Lower(tstate.last_completed_step, model_step) .. model_step
  BY <1>4 DEF TypeOK, TaskStates, Lower, Steps
<1> QED BY <1>1, <1>2, <1>3, <1>4 DEF ReadableSteps

\* Every action keeps the type invariant.
LEMMA TypeStep == TypeOK /\ [Next]_vars => TypeOK'
<1> SUFFICES ASSUME TypeOK, [Next]_vars PROVE TypeOK'
  OBVIOUS
<1> USE Constants DEF TypeOK, disk, client, child, control, PCs, Modes
<1>1. CASE ModelOpensLog
  BY <1>1 DEF ModelOpensLog
<1>2. CASE ModelStep
  BY <1>2 DEF ModelStep, Steps
<1>3. CASE ModelExit
  BY <1>3 DEF ModelExit
<1>4. CASE Start
  <2>1. FreshTask \in TaskStates
    BY DEF FreshTask, TaskStates
  <2>2. RestartRun => [progress.state EXCEPT !.last_completed_step = rcf] \in TaskStates
    BY DEF RestartRun, TaskStates
  <2>3. tstate' \in TaskStates
    BY <1>4, <2>1, <2>2 DEF Start
  <2>4. session' \in 0 .. MaxSessions /\ pc' \in PCs /\ outcome' \in {"open", "finished", "failed"}
    BY <1>4 DEF Start
  <2> QED BY <1>4, <2>3, <2>4 DEF Start
<1>5. CASE RecordStart
  BY <1>5 DEF RecordStart, Saved
<1>6. CASE Launch
  BY <1>6 DEF Launch
<1>7. CASE StartupFails
  BY <1>7 DEF StartupFails
<1>8. CASE Observe
  BY <1>8, ReadableIsStep DEF Observe, ModelGone
<1>9. CASE MoveCopyableOutputFiles
  BY <1>9 DEF MoveCopyableOutputFiles, Copyable, TaskStates
<1>10. CASE Zip
  BY <1>10 DEF Zip, Collected
<1>11. CASE ZipPlaceholder
  BY <1>11 DEF ZipPlaceholder
<1>12. CASE DeleteZipped
  BY <1>12 DEF DeleteZipped
<1>13. CASE UploadWait
  BY <1>13 DEF UploadWait
<1>14. CASE SubmitScheduled
  <2>1. tstate' \in TaskStates
    <3>1. index + 1 \in Nat
      BY Constants
    <3>2. tstate' = [tstate EXCEPT !.upload_file_number = index + 1,
                                   !.last_upload_step = observed]
      BY <1>14 DEF SubmitScheduled
    <3> HIDE DEF disk, client, child, control, PCs, Modes
    <3> QED BY <3>1, <3>2 DEF TaskStates
  <2> QED BY <1>14, <2>1 DEF SubmitScheduled, HandOff
<1>15. CASE SubmitFinal
  <2>1. tstate' \in TaskStates /\ index' \in Nat
    BY <1>15 DEF SubmitFinal, HandOff, TaskStates
  <2> QED BY <1>15, <2>1 DEF SubmitFinal, HandOff
<1>16. CASE EndStep
  BY <1>16 DEF EndStep, TaskStates
<1>17. CASE Save
  BY <1>17 DEF Save, Saved
<1>18. CASE SaveFails
  BY <1>18 DEF SaveFails, StopModel
<1>19. CASE Settle
  BY <1>19 DEF Settle
<1>20. CASE CleanupUploadDir
  BY <1>20 DEF CleanupUploadDir
<1>21. CASE Finish
  BY <1>21 DEF Finish
<1>22. CASE Recover
  BY <1>22 DEF Recover
<1>23. CASE UploadFails
  BY <1>23 DEF UploadFails, StopModel
<1>24. CASE Quit
  BY <1>24 DEF Quit, StopModel, LeaveArchive
<1>25. CASE Abort
  BY <1>25 DEF Abort, StopModel
<1>26. CASE SuspendWithoutModel
  BY <1>26 DEF SuspendWithoutModel, StopModel
<1>27. CASE Crash
  BY <1>27 DEF Crash, LeaveArchive
<1>28. CASE Over
  BY <1>28 DEF Over, vars
<1>29. CASE UNCHANGED vars
  BY <1>29 DEF vars
<1> QED BY <1>1, <1>2, <1>3, <1>4, <1>5, <1>6, <1>7, <1>8, <1>9, <1>10, <1>11, <1>12, <1>13, <1>14, <1>15, <1>16, <1>17, <1>18, <1>19, <1>20, <1>21, <1>22, <1>23, <1>24, <1>25, <1>26, <1>27, <1>28, <1>29
  DEF Next, Model, Controller, Client

\* The initial state is well typed.
LEMMA InitTypeOK == Init => TypeOK
<1>1. FreshTask \in TaskStates
  BY Constants DEF FreshTask, TaskStates
<1>2. [exists |-> FALSE, state |-> FreshTask] \in [exists : BOOLEAN, state : TaskStates]
  BY <1>1
<1>3. Init => session \in 0 .. MaxSessions /\ pc \in PCs /\ mode \in Modes
  BY Constants DEF Init, PCs, Modes
<1>4. Init => index \in Nat /\ observed \in Steps /\ model_step \in Steps
  BY Constants DEF Init
<1>5. Init => tstate \in TaskStates /\ progress \in [exists : BOOLEAN, state : TaskStates]
  BY <1>1, <1>2 DEF Init
<1> QED BY <1>3, <1>4, <1>5 DEF Init, TypeOK

\* Every variable keeps its type, in every behaviour of the specification.
THEOREM TypeInvariant == Spec => []TypeOK
<1>1. Init => TypeOK
  BY InitTypeOK
<1>2. TypeOK /\ [Next]_vars => TypeOK'
  BY TypeStep
<1> QED BY <1>1, <1>2, PTL DEF Spec

-----------------------------------------------------------------------------

\* Every action keeps the budget.
LEMMA BudgetStep == IInv /\ TypeOK' /\ [Next]_vars => Budget' /\ IndexIsNext'
<1> SUFFICES ASSUME IInv, TypeOK', [Next]_vars PROVE Budget' /\ IndexIsNext'
  OBVIOUS
<1> USE Constants DEF IInv, Budget, IndexIsNext, InLoop, disk, client, child, control
<1>1. CASE ModelOpensLog
  BY <1>1 DEF ModelOpensLog, UploadDue
<1>2. CASE ModelStep
  BY <1>2 DEF ModelStep, UploadDue
<1>3. CASE ModelExit
  BY <1>3 DEF ModelExit, UploadDue
<1>4. CASE Start
  <2>1. WithinBudget(FreshTask)
    BY DEF WithinBudget, FreshTask
  <2>2. WithinBudget([progress.state EXCEPT !.last_completed_step = rcf])
    BY DEF WithinBudget, TypeOK, TaskStates
  <2>3. pc' = "record" => WithinBudget(tstate')
    BY <1>4, <2>1, <2>2 DEF Start
  <2>4. pc' \in {"record", "ended"} /\ progress' = progress
    BY <1>4 DEF Start
  <2> QED BY <2>3, <2>4
<1>5. CASE RecordStart
  BY <1>5 DEF RecordStart, Saved, UploadDue
<1>6. CASE Launch
  BY <1>6 DEF Launch, UploadDue
<1>7. CASE StartupFails
  BY <1>7 DEF StartupFails, UploadDue
<1>8. CASE Observe
  BY <1>8 DEF Observe, UploadDue
<1>9. CASE MoveCopyableOutputFiles
  BY <1>9 DEF MoveCopyableOutputFiles, UploadDue
<1>10. CASE Zip
  BY <1>10 DEF Zip, UploadDue
<1>11. CASE ZipPlaceholder
  BY <1>11 DEF ZipPlaceholder, UploadDue
<1>12. CASE DeleteZipped
  BY <1>12 DEF DeleteZipped, UploadDue
<1>13. CASE UploadWait
  BY <1>13 DEF UploadWait, UploadDue
<1>14. CASE SubmitScheduled
  <2>1. /\ tstate.upload_file_number \in Nat /\ tstate.last_upload_step \in Nat
        /\ observed \in Nat /\ index = tstate.upload_file_number
    BY <1>14 DEF SubmitScheduled, HandOff, TypeOK, TaskStates
  <2>2. /\ UploadInterval * index <= tstate.last_upload_step
        /\ observed - tstate.last_upload_step >= UploadInterval
        /\ observed < TotalSteps
    BY <1>14, <2>1 DEF SubmitScheduled, HandOff, UploadDue, WithinBudget
  <2>3. UploadInterval * (index + 1) = UploadInterval * index + UploadInterval
    BY <2>1
  <2>4. UploadInterval * (index + 1) <= observed
    BY <2>1, <2>2, <2>3
  <2>5. /\ tstate'.upload_file_number = index + 1
        /\ tstate'.last_upload_step = observed
    BY <1>14 DEF SubmitScheduled, TypeOK, TaskStates
  <2>6. WithinBudget(tstate')
    BY <2>2, <2>4, <2>5 DEF WithinBudget
  <2> QED BY <1>14, <2>6 DEF SubmitScheduled, HandOff
<1>15. CASE SubmitFinal
  BY <1>15 DEF SubmitFinal, HandOff, UploadDue
<1>16. CASE EndStep
  <2>1. WithinBudget(tstate) => WithinBudget(tstate')
    BY <1>16 DEF EndStep, TypeOK, TaskStates, WithinBudget
  <2> QED BY <1>16, <2>1 DEF EndStep
<1>17. CASE Save
  BY <1>17 DEF Save, Saved, UploadDue
<1>18. CASE SaveFails
  BY <1>18 DEF SaveFails, UploadDue
<1>19. CASE Settle
  BY <1>19 DEF Settle, UploadDue
<1>20. CASE CleanupUploadDir
  BY <1>20 DEF CleanupUploadDir, UploadDue
<1>21. CASE Finish
  BY <1>21 DEF Finish, UploadDue
<1>22. CASE Recover
  BY <1>22 DEF Recover, UploadDue
<1>23. CASE UploadFails
  BY <1>23 DEF UploadFails, UploadDue
<1>24. CASE Quit
  BY <1>24 DEF Quit, UploadDue
<1>25. CASE Abort
  BY <1>25 DEF Abort, UploadDue
<1>26. CASE SuspendWithoutModel
  BY <1>26 DEF SuspendWithoutModel, UploadDue
<1>27. CASE Crash
  BY <1>27 DEF Crash, UploadDue
<1>28. CASE Over
  BY <1>28 DEF Over, vars, UploadDue
<1>29. CASE UNCHANGED vars
  BY <1>29 DEF vars, UploadDue
<1> QED BY <1>1, <1>2, <1>3, <1>4, <1>5, <1>6, <1>7, <1>8, <1>9, <1>10, <1>11, <1>12, <1>13, <1>14, <1>15, <1>16, <1>17, <1>18, <1>19, <1>20, <1>21, <1>22, <1>23, <1>24, <1>25, <1>26, <1>27, <1>28, <1>29
  DEF Next, Model, Controller, Client

\* The budget holds in every behaviour, and the upload being prepared has the
\* next number.
THEOREM BudgetInvariant == Spec => []IInv
<1>1. Init => IInv
  <2>1. Init => TypeOK
    BY InitTypeOK
  <2>2. Init => Budget /\ IndexIsNext
    BY Constants DEF Init, Budget, IndexIsNext, InLoop, WithinBudget, FreshTask
  <2> QED BY <2>1, <2>2 DEF IInv
<1>2. IInv /\ [Next]_vars => IInv'
  BY TypeStep, BudgetStep DEF IInv
<1> QED BY <1>1, <1>2, PTL DEF Spec

\* A scheduled upload leaves a number for the final one, whatever the intervals
\* are, however the sessions are interrupted and whatever fails.
THEOREM ScheduledLeavesFinalInvariant == Spec => []ScheduledLeavesFinal
<1>1. IInv => ScheduledLeavesFinal
  <2> SUFFICES ASSUME IInv, mode = "scheduled", pc \in {"zip", "delete", "hold", "submit"}
               PROVE  index + 1 < ExpectedUploads
    BY DEF ScheduledLeavesFinal
  <2>1. /\ index \in Nat /\ index = tstate.upload_file_number
        /\ tstate.last_upload_step \in Nat /\ observed \in Nat
    BY Constants DEF IInv, TypeOK, TaskStates, IndexIsNext
  <2>2. /\ UploadInterval * index <= tstate.last_upload_step
        /\ observed - tstate.last_upload_step >= UploadInterval
        /\ observed < TotalSteps
    BY <2>1 DEF IInv, Budget, InLoop, WithinBudget, UploadDue
  <2>3. UploadInterval * (index + 1) = UploadInterval * index + UploadInterval
    BY <2>1, Constants
  <2>4. UploadInterval * (index + 1) < TotalSteps
    BY <2>1, <2>2, <2>3, Constants
  <2> QED BY <2>1, <2>4, DivBound
<1> QED BY <1>1, BudgetInvariant, PTL

-----------------------------------------------------------------------------

\* A hand-off extends the numbers submitted by the next one.
LEMMA HandOffFillsGap ==
    ASSUME IInv, HandOff, 0 .. tstate.upload_file_number - 1 \subseteq submitted
    PROVE  /\ 0 .. index \subseteq submitted'
           /\ index + 1 - 1 = index
<1>1. index \in Nat /\ index = tstate.upload_file_number
  BY DEF IInv, TypeOK, IndexIsNext, HandOff
<1>2. 0 .. index = (0 .. index - 1) \cup {index}
  BY <1>1
<1> QED BY <1>1, <1>2 DEF HandOff

\* What every action does to the numbers submitted and the counters.
LEMMA NumbersStep == IInv /\ TypeOK' /\ NoNumberSkipped /\ [Next]_vars => NoNumberSkipped'
<1> SUFFICES ASSUME IInv, TypeOK', NoNumberSkipped, [Next]_vars PROVE NoNumberSkipped'
  OBVIOUS
<1> USE DEF IInv, IndexIsNext, NoNumberSkipped, ControllerUp, disk, client, child, control
<1>1. CASE ModelOpensLog
  BY <1>1 DEF ModelOpensLog
<1>2. CASE ModelStep
  BY <1>2 DEF ModelStep
<1>3. CASE ModelExit
  BY <1>3 DEF ModelExit
<1>4. CASE Start
  <2>1. 0 .. FreshTask.upload_file_number - 1 = {}
    BY DEF FreshTask
  <2>2. RestartRun => [progress.state EXCEPT !.last_completed_step = rcf].upload_file_number
                        = progress.state.upload_file_number
    BY DEF TypeOK, TaskStates
  <2>3. CASE pc' = "record"
    BY <1>4, <2>1, <2>2, <2>3 DEF Start
  <2>4. CASE pc' = "ended"
    BY <1>4, <2>4 DEF Start
  <2> QED BY <1>4, <2>3, <2>4 DEF Start
<1>5. CASE RecordStart
  BY <1>5 DEF RecordStart, Saved
<1>6. CASE Launch
  BY <1>6 DEF Launch
<1>7. CASE StartupFails
  BY <1>7 DEF StartupFails
<1>8. CASE Observe
  BY <1>8 DEF Observe
<1>9. CASE MoveCopyableOutputFiles
  BY <1>9 DEF MoveCopyableOutputFiles
<1>10. CASE Zip
  BY <1>10 DEF Zip
<1>11. CASE ZipPlaceholder
  BY <1>11 DEF ZipPlaceholder
<1>12. CASE DeleteZipped
  BY <1>12 DEF DeleteZipped
<1>13. CASE UploadWait
  BY <1>13 DEF UploadWait
<1>14. CASE SubmitScheduled
  <2>1. tstate' = [tstate EXCEPT !.upload_file_number = index + 1,
                                 !.last_upload_step = observed]
    BY <1>14 DEF SubmitScheduled
  <2> QED BY <1>14, <2>1, HandOffFillsGap DEF SubmitScheduled, HandOff, TypeOK, TaskStates
<1>15. CASE SubmitFinal
  <2>1. tstate' = [tstate EXCEPT !.upload_file_number = index + 1]
    BY <1>15 DEF SubmitFinal
  <2> QED BY <1>15, <2>1, HandOffFillsGap DEF SubmitFinal, HandOff, TypeOK, TaskStates
<1>16. CASE EndStep
  BY <1>16 DEF EndStep
<1>17. CASE Save
  BY <1>17 DEF Save, Saved
<1>18. CASE SaveFails
  BY <1>18 DEF SaveFails
<1>19. CASE Settle
  BY <1>19 DEF Settle
<1>20. CASE CleanupUploadDir
  BY <1>20 DEF CleanupUploadDir
<1>21. CASE Finish
  BY <1>21 DEF Finish
<1>22. CASE Recover
  BY <1>22 DEF Recover
<1>23. CASE UploadFails
  BY <1>23 DEF UploadFails
<1>24. CASE Quit
  BY <1>24 DEF Quit, LeaveArchive
<1>25. CASE Abort
  BY <1>25 DEF Abort
<1>26. CASE SuspendWithoutModel
  BY <1>26 DEF SuspendWithoutModel
<1>27. CASE Crash
  BY <1>27 DEF Crash, LeaveArchive
<1>28. CASE Over
  BY <1>28 DEF Over, vars
<1>29. CASE UNCHANGED vars
  BY <1>29 DEF vars
<1> QED BY <1>1, <1>2, <1>3, <1>4, <1>5, <1>6, <1>7, <1>8, <1>9, <1>10, <1>11, <1>12, <1>13, <1>14, <1>15, <1>16, <1>17, <1>18, <1>19, <1>20, <1>21, <1>22, <1>23, <1>24, <1>25, <1>26, <1>27, <1>28, <1>29
  DEF Next, Model, Controller, Client

\* No upload number is skipped: whatever is interrupted or fails, all numbers
\* below the counter were accepted by boinc_upload_file().
THEOREM NoNumberSkippedInvariant == Spec => []NoNumberSkipped
<1>1. Init => NoNumberSkipped
  BY DEF Init, NoNumberSkipped, ControllerUp, FreshTask
<1>2. IInv /\ IInv' /\ NoNumberSkipped /\ [Next]_vars => NoNumberSkipped'
  BY NumbersStep DEF IInv
<1> QED BY <1>1, <1>2, BudgetInvariant, PTL DEF Spec

-----------------------------------------------------------------------------
(* The uploads of a task implement the contract.  A suspension that follows *)
(* the last upload starts a recovery, which finalizes the uploads a second *)
(* time and sends one number more; it cannot do so twice.                  *)

Sending == pc \in {"zip", "filler", "delete", "hold", "submit"}

\* All promised numbers are used and a recovery is to finalize once more.
SecondFinal == SuspendAfterModelExit /\ tstate.upload_file_number = ExpectedUploads

\* finalize_remaining_uploads() is entered within the budget, or once more after
\* its end, and left with every promised number used.
FinalNumbers ==
    /\ pc = "settle" => WithinBudget(tstate)
    /\ pc = "recover" => WithinBudget(tstate) \/ SecondFinal
    /\ pc = "move" => WithinBudget(tstate) \/ (SecondFinal /\ mode = "recovery")
    /\ Sending => \/ index < ExpectedUploads
                  \/ SuspendAfterModelExit /\ index = ExpectedUploads /\ mode = "recovery"
    /\ pc \in {"cleanup", "last"} => ExpectedUploads <= tstate.upload_file_number
    /\ pc = "last" \/ (pc = "cleanup" /\ mode = "final")
          => tstate.upload_file_number = ExpectedUploads
    /\ submitted \subseteq 0 .. ExpectedUploads - 1 + SurplusUploads
    /\ outcome = "open" <=> pc # "ended"

LEMMA ExpectedIsNat == ExpectedUploads \in Nat /\ ExpectedUploads > 0
<1>1. UploadInterval * 0 < TotalSteps
  BY Constants
<1>2. 0 < ExpectedUploads
  BY <1>1, DivBound
<1>3. ExpectedUploads \in Int
  BY Constants DEF ExpectedUploads
<1> QED BY <1>2, <1>3

LEMMA SurplusIsNat == SurplusUploads \in {0, 1} /\ (SuspendAfterModelExit => SurplusUploads = 1)
  BY DEF SurplusUploads

LEMMA FinalNumbersStep ==
    ASSUME IInv, TypeOK', FinalNumbers, [Next]_vars
    PROVE  FinalNumbers'
<1> USE ExpectedIsNat, SurplusIsNat DEF IInv, Budget, IndexIsNext, InLoop, FinalNumbers,
        Sending, SecondFinal,
        disk, client, child, control
<1>1. CASE ModelOpensLog
  BY <1>1 DEF ModelOpensLog
<1>2. CASE ModelStep
  BY <1>2 DEF ModelStep
<1>3. CASE ModelExit
  BY <1>3 DEF ModelExit
<1>4. CASE Start
  BY <1>4 DEF Start
<1>5. CASE RecordStart
  BY <1>5 DEF RecordStart, Saved
<1>6. CASE Launch
  BY <1>6 DEF Launch
<1>7. CASE StartupFails
  BY <1>7 DEF StartupFails
<1>8. CASE Observe
  BY <1>8 DEF Observe
<1>9. CASE MoveCopyableOutputFiles
  <2>1. /\ pc = "move" /\ pc' \in {"endstep", "zip"}
        /\ index' = tstate.upload_file_number
        /\ UNCHANGED <<submitted, tstate, outcome, mode>>
    BY <1>9 DEF MoveCopyableOutputFiles
  <2>2. WithinBudget(tstate) => index' < ExpectedUploads
    <3>1. tstate.upload_file_number \in Nat /\ tstate.last_upload_step \in Nat
      BY Constants DEF TypeOK, TaskStates
    <3>2. WithinBudget(tstate) => UploadInterval * tstate.upload_file_number < TotalSteps
      BY <3>1, Constants DEF WithinBudget
    <3> QED BY <2>1, <3>1, <3>2, DivBound
  <2> QED BY <2>1, <2>2
<1>10. CASE Zip
  BY <1>10 DEF Zip
<1>11. CASE ZipPlaceholder
  BY <1>11 DEF ZipPlaceholder
<1>12. CASE DeleteZipped
  BY <1>12 DEF DeleteZipped
<1>13. CASE UploadWait
  BY <1>13 DEF UploadWait
<1>14. CASE SubmitScheduled
  <2>1. /\ index \in Nat /\ index < ExpectedUploads
        /\ submitted' = submitted \cup {index}
        /\ outcome' = outcome /\ pc = "submit" /\ pc' = "endstep"
    BY <1>14 DEF SubmitScheduled, HandOff, TypeOK
  <2>2. submitted' \subseteq 0 .. ExpectedUploads - 1 + SurplusUploads
    BY <2>1
  <2> QED BY <2>1, <2>2
<1>15. CASE SubmitFinal
  <2>1. /\ index \in Nat
        /\ \/ index < ExpectedUploads
           \/ SuspendAfterModelExit /\ index = ExpectedUploads /\ mode = "recovery"
        /\ submitted' = submitted \cup {index}
        /\ outcome' = outcome /\ pc = "submit" /\ mode' = mode
        /\ tstate'.upload_file_number = index + 1
    BY <1>15 DEF SubmitFinal, HandOff, TypeOK, TaskStates
  <2>2. submitted' \subseteq 0 .. ExpectedUploads - 1 + SurplusUploads
    BY <2>1
  <2>3. CASE MoreFinalUploads
    <3>1. pc' = "filler" /\ index' = index + 1 /\ index + 1 < ExpectedUploads
      BY <1>15, <2>3 DEF SubmitFinal, MoreFinalUploads
    <3> QED BY <2>1, <2>2, <3>1
  <2>4. CASE ~MoreFinalUploads
    <3>1. pc' = "cleanup" /\ ~(index + 1 < ExpectedUploads)
      BY <1>15, <2>4 DEF SubmitFinal, MoreFinalUploads
    <3> QED BY <2>1, <2>2, <3>1
  <2> QED BY <2>3, <2>4
<1>16. CASE EndStep
  BY <1>16 DEF EndStep
<1>17. CASE Save
  BY <1>17 DEF Save
<1>18. CASE SaveFails
  BY <1>18 DEF SaveFails
<1>19. CASE Settle
  BY <1>19 DEF Settle
<1>20. CASE CleanupUploadDir
  BY <1>20 DEF CleanupUploadDir
<1>21. CASE Finish
  BY <1>21 DEF Finish
<1>22. CASE Recover
  BY <1>22 DEF Recover
<1>23. CASE UploadFails
  BY <1>23 DEF UploadFails
<1>24. CASE Quit
  BY <1>24 DEF Quit, PolledWaits, LeaveArchive
<1>25. CASE Abort
  BY <1>25 DEF Abort
<1>26. CASE SuspendWithoutModel
  BY <1>26 DEF SuspendWithoutModel
<1>27. CASE Crash
  BY <1>27 DEF Crash, LeaveArchive
<1>28. CASE Over
  BY <1>28 DEF Over, vars
<1>29. CASE UNCHANGED vars
  BY <1>29 DEF vars
<1> QED BY <1>1, <1>2, <1>3, <1>4, <1>5, <1>6, <1>7, <1>8, <1>9, <1>10, <1>11, <1>12, <1>13, <1>14, <1>15, <1>16, <1>17, <1>18, <1>19, <1>20, <1>21, <1>22, <1>23, <1>24, <1>25, <1>26, <1>27, <1>28, <1>29
  DEF Next, Model, Controller, Client

\* The detailed specification implements the contract: each submission is that
\* of the next promised number or of one submitted before, or the one number more
\* of a recovery that follows the last upload; and a task finishes only with all
\* that were promised.
THEOREM ContractRefinement == Spec => ImplementsContract
<1>1. Init => FinalNumbers
  BY ExpectedIsNat DEF Init, FinalNumbers, Sending
<1>2. IInv /\ IInv' /\ FinalNumbers /\ [Next]_vars => FinalNumbers'
  BY FinalNumbersStep DEF IInv
<1>3. Init => Contract!Init
  BY DEF Init, Contract!Init
<1>4. ASSUME IInv, IInv', NoNumberSkipped, FinalNumbers, FinalNumbers', [Next]_vars
      PROVE  [Contract!Next]_(Contract!vars)
  <2> USE DEF disk, client, child, control
  <2>1. ASSUME HandOff PROVE Contract!Send
    <3>1. index \in 0 .. ExpectedUploads + SurplusUploads - 1
      BY <1>4, <2>1, ExpectedIsNat, SurplusIsNat DEF HandOff, FinalNumbers, Sending, IInv, TypeOK
    <3>2. 0 .. index - 1 \subseteq submitted
      BY <1>4, <2>1 DEF HandOff, NoNumberSkipped, ControllerUp, IInv, IndexIsNext
    <3>3. submitted' = submitted \cup {index} /\ outcome' = outcome /\ outcome = "open"
      BY <1>4, <2>1 DEF HandOff, FinalNumbers
    <3> QED BY <3>1, <3>2, <3>3 DEF Contract!Send
  <2>2. CASE SubmitScheduled \/ SubmitFinal
    BY <2>1, <2>2 DEF SubmitScheduled, SubmitFinal, Contract!Next
  <2>3. CASE Finish
    <3>1. ExpectedUploads <= tstate.upload_file_number
      BY <1>4, <2>3 DEF Finish, FinalNumbers
    <3>2. 0 .. tstate.upload_file_number - 1 \subseteq submitted
      BY <1>4, <2>3 DEF Finish, NoNumberSkipped, ControllerUp
    <3>3. tstate.upload_file_number \in Nat
      BY <1>4 DEF IInv, TypeOK, TaskStates
    <3>4. 0 .. ExpectedUploads - 1 \subseteq 0 .. tstate.upload_file_number - 1
      BY <3>1, <3>3, ExpectedIsNat
    <3>5. 0 .. ExpectedUploads - 1 \subseteq submitted
      BY <3>2, <3>4
    <3>6. outcome = "open" /\ outcome' = "finished" /\ submitted' = submitted
      BY <1>4, <2>3 DEF Finish, FinalNumbers
    <3> QED BY <3>5, <3>6 DEF Contract!Complete, Contract!Next
  <2>4. CASE StartupFails \/ UploadFails \/ Abort \/ SuspendWithoutModel
    <3>1. /\ outcome = "open" /\ submitted' = submitted
          /\ outcome' \in {outcome, "failed"}
      BY <1>4, <2>4 DEF StartupFails, UploadFails, Abort, SuspendWithoutModel,
         PolledWaits, FinalNumbers
    <3> QED BY <3>1 DEF Contract!Fail, Contract!Next, Contract!vars
  <2>5. CASE Start \/ CleanupUploadDir
    <3>1. /\ outcome = "open" /\ submitted' = submitted
          /\ outcome' \in {outcome, "failed"}
      BY <1>4, <2>5 DEF Start, CleanupUploadDir, FinalNumbers
    <3> QED BY <3>1 DEF Contract!Fail, Contract!Next, Contract!vars
  <2>6. CASE \/ ModelOpensLog \/ ModelStep \/ ModelExit \/ RecordStart \/ Launch
             \/ Observe \/ MoveCopyableOutputFiles \/ Zip \/ ZipPlaceholder
             \/ DeleteZipped \/ UploadWait \/ EndStep \/ Save \/ SaveFails
             \/ Settle \/ Recover \/ Quit \/ Crash \/ Over \/ UNCHANGED vars
    BY <2>6 DEF ModelOpensLog, ModelStep, ModelExit, RecordStart, Launch, Observe,
       MoveCopyableOutputFiles, Zip, ZipPlaceholder, DeleteZipped, UploadWait,
       EndStep, Save, SaveFails, Settle, Recover, Quit, Crash, LeaveArchive, Over,
       vars, Contract!vars
  <2> QED BY <1>4, <2>2, <2>3, <2>4, <2>5, <2>6 DEF Next, Model, Controller, Client
<1> QED BY <1>1, <1>2, <1>3, <1>4, BudgetInvariant, NoNumberSkippedInvariant, PTL
    DEF Spec, ImplementsContract, Contract!Spec
-----------------------------------------------------------------------------

-----------------------------------------------------------------------------
(* What becomes of the output files, whatever fails and wherever a session *)
(* ends.                                                                   *)

\* Where an output can be once it has left the slot, and where it can be at all; an
\* output that was abandoned counts as accounted for.
Beyond == upload_dir \cup archive \cup delivered \cup abandoned

Accounted == slot \cup Beyond

\* The outputs up to step n are in a set of files; the output of step 0 is only written
\* by the first model process.
KeptIn(n, files) == \A f \in Outputs : 0 < f /\ f <= n => f \in files

\* A step the controller or the progress file knows was the model's, and what the model
\* has written stays accounted for, also when a later model process starts from an
\* earlier step.
KeepInv ==
    outcome = "open" =>
        /\ model # "none" => 0 \in Accounted /\ KeptIn(model_step, Accounted)
        /\ rcf # NoRestart => model # "none"
        /\ KeptIn(rcf, Accounted) /\ KeptIn(old_log, Accounted)
        /\ KeptIn(progress.state.last_completed_step, Accounted)
        /\ ControllerUp => KeptIn(tstate.last_completed_step, Accounted)
        /\ mode = "scheduled" /\ pc \in {"move", "zip", "delete", "hold", "submit", "endstep"}
              => KeptIn(observed, Accounted)

\* Only an archive that awaits its hand-off holds what is nowhere else.
StageInv ==
    outcome = "open" =>
        /\ ~AwaitingHandOff => archive \subseteq delivered \cup upload_dir \cup abandoned
        /\ pc = "last" => upload_dir = {}

Finalizing ==
    mode = "final" /\ pc \in {"move", "zip", "filler", "delete", "hold", "submit", "cleanup", "last"}

\* The final upload starts when the model is over, and takes all that is ready.
PathInv ==
    /\ pc \notin {"down", "record", "launch", "ended"} => model # "none"
    /\ pc = "ended" <=> outcome # "open"
    /\ pc = "settle" => child_gone
    /\ pc = "endstep" => mode = "scheduled"
    /\ pc = "filler" => mode # "scheduled"
    /\ pc = "last" => mode = "final"
    /\ child_gone /\ pc \in {"move", "zip", "filler", "delete", "hold", "submit", "endstep", "save",
                             "settle", "recover"}
          => model = "exited"
    /\ Finalizing => model = "exited"
    /\ Finalizing /\ pc # "move" => slot \cap Copyable(tstate.last_completed_step) \subseteq Beyond

OutputInv == TypeOK /\ KeepInv /\ StageInv /\ PathInv

LEMMA OpenBefore ==
    ASSUME PathInv, outcome' = "open", [Next]_vars
    PROVE  outcome = "open"
<1>1. pc = "ended" => UNCHANGED outcome
  BY DEF Next, Model, Controller, Client, Over, vars, control, ModelOpensLog, ModelStep, ModelExit,
         Start, RecordStart, Launch, StartupFails, Observe, MoveCopyableOutputFiles, Zip,
         ZipPlaceholder, DeleteZipped, UploadWait, SubmitScheduled, SubmitFinal, HandOff, EndStep,
         Save, SaveFails, Settle, CleanupUploadDir, Finish, Recover, UploadFails, Quit, Abort,
         SuspendWithoutModel, Crash, PolledWaits
<1> QED BY <1>1 DEF PathInv

\* Nothing that is accounted for is lost sight of while the task is open, and what has
\* left the slot does not come back to be lost there.
LEMMA AccountedGrows ==
    ASSUME TypeOK, StageInv, outcome = "open", [Next]_vars
    PROVE  Accounted \subseteq Accounted' /\ Beyond \subseteq Beyond'
<1> USE DEF Accounted, Beyond, StageInv, AwaitingHandOff, disk, client, child, control
<1>1. CASE ModelStep \/ Launch
  BY <1>1 DEF ModelStep, Launch
<1>2. CASE MoveCopyableOutputFiles
  <2>1. PICK copied \in SUBSET (Copyable(MoveStep) \cap slot) : \E removed \in SUBSET copied :
            upload_dir' = upload_dir \cup copied /\ slot' = slot \ removed
    BY <1>2 DEF MoveCopyableOutputFiles
  <2>2. UNCHANGED <<archive, delivered>> /\ abandoned \subseteq abandoned'
    BY <1>2 DEF MoveCopyableOutputFiles
  <2> QED BY <2>1, <2>2
<1>3. CASE Zip
  <2>1. pc = "zip" /\ UNCHANGED <<slot, upload_dir, delivered, abandoned>>
    BY <1>3 DEF Zip
  <2> QED BY <2>1
<1>4. CASE ZipPlaceholder
  <2>1. pc = "filler" /\ UNCHANGED <<slot, upload_dir, delivered, abandoned>>
    BY <1>4 DEF ZipPlaceholder
  <2> QED BY <2>1
<1>5. CASE DeleteZipped
  BY <1>5 DEF DeleteZipped
<1>6. CASE SubmitScheduled \/ SubmitFinal
  BY <1>6 DEF SubmitScheduled, SubmitFinal, HandOff
<1>7. CASE CleanupUploadDir
  BY <1>7 DEF CleanupUploadDir
<1>8. CASE Quit \/ Crash
  BY <1>8 DEF Quit, Crash, LeaveArchive
<1>9. CASE \/ ModelOpensLog \/ ModelExit \/ Start \/ RecordStart \/ StartupFails \/ Observe
           \/ UploadWait \/ EndStep \/ Save \/ SaveFails \/ Settle \/ Finish \/ Recover
           \/ UploadFails \/ Abort \/ SuspendWithoutModel \/ UNCHANGED vars
  BY <1>9 DEF ModelOpensLog, ModelExit, Start, RecordStart, StartupFails, Observe, UploadWait,
              EndStep, Save, SaveFails, Settle, Finish, Recover, UploadFails, Abort,
              SuspendWithoutModel, vars
<1> QED
  BY <1>1, <1>2, <1>3, <1>4, <1>5, <1>6, <1>7, <1>8, <1>9
  DEF Next, Model, Controller, Client, Over

LEMMA KeptInGrows ==
    ASSUME NEW n, NEW files, NEW more, files \subseteq more, KeptIn(n, files)
    PROVE  KeptIn(n, more)
  BY DEF KeptIn

LEMMA StageStep ==
    ASSUME PathInv, StageInv, [Next]_vars
    PROVE  StageInv'
<1> SUFFICES ASSUME outcome' = "open" PROVE StageInv'
  BY DEF StageInv
<1>0. outcome = "open"
  BY OpenBefore
<1> USE <1>0 DEF StageInv, AwaitingHandOff, disk, client, child, control
<1>1. CASE ModelOpensLog \/ ModelStep \/ ModelExit
  BY <1>1 DEF ModelOpensLog, ModelStep, ModelExit
<1>2. CASE Start
  BY <1>2 DEF Start
<1>3. CASE RecordStart \/ Launch \/ Observe
  BY <1>3 DEF RecordStart, Launch, Observe
<1>4. CASE MoveCopyableOutputFiles
  <2>1. /\ pc = "move" /\ pc' \in {"endstep", "zip"} /\ UNCHANGED <<archive, delivered>>
        /\ upload_dir \subseteq upload_dir' /\ abandoned \subseteq abandoned'
    BY <1>4 DEF MoveCopyableOutputFiles
  <2> QED BY <2>1
<1>5. CASE Zip
  <2>1. /\ pc' = "delete" /\ archive' \subseteq upload_dir
        /\ UNCHANGED <<upload_dir, delivered, abandoned>>
    BY <1>5 DEF Zip, Collected
  <2> QED BY <2>1
<1>6. CASE ZipPlaceholder
  <2>1. pc' = "delete" /\ archive' = {}
    BY <1>6 DEF ZipPlaceholder
  <2> QED BY <2>1
<1>7. CASE DeleteZipped \/ UploadWait
  <2>1. pc' \in {"hold", "submit"}
    BY <1>7 DEF DeleteZipped, UploadWait
  <2> QED BY <2>1
<1>8. CASE SubmitScheduled \/ SubmitFinal
  <2>1. /\ pc' \in {"endstep", "filler", "cleanup"}
        /\ delivered' = delivered \cup archive /\ UNCHANGED archive
    BY <1>8 DEF SubmitScheduled, SubmitFinal, HandOff
  <2> QED BY <2>1
<1>9. CASE EndStep \/ Save \/ Settle \/ Recover
  BY <1>9 DEF EndStep, Save, Settle, Recover
<1>10. CASE CleanupUploadDir
  <2>1. /\ pc = "cleanup" /\ upload_dir' = {} /\ abandoned' = abandoned \cup upload_dir
        /\ UNCHANGED <<archive, delivered>>
    BY <1>10 DEF CleanupUploadDir
  <2> QED BY <2>1
<1>11. CASE SaveFails \/ StartupFails \/ UploadFails
  BY <1>11 DEF SaveFails, StartupFails, UploadFails
<1>12. CASE Finish \/ Abort
  BY <1>12 DEF Finish, Abort
<1>13. CASE SuspendWithoutModel
  <2>1. pc \in {"settle", "last"} /\ pc' = "recover" /\ UNCHANGED <<disk, client>>
    BY <1>13 DEF SuspendWithoutModel
  <2> QED BY <2>1
<1>14. CASE Quit \/ Crash
  <2>1. /\ pc' = "down" /\ UNCHANGED <<disk, delivered>>
        /\ abandoned' = IF AwaitingHandOff THEN abandoned \cup archive ELSE abandoned
    BY <1>14 DEF Quit, Crash, LeaveArchive
  <2> QED BY <2>1
<1>15. CASE UNCHANGED vars
  BY <1>15 DEF vars
<1> QED
  BY <1>1, <1>2, <1>3, <1>4, <1>5, <1>6, <1>7, <1>8, <1>9, <1>10, <1>11, <1>12, <1>13, <1>14,
     <1>15
  DEF Next, Model, Controller, Client, Over

LEMMA PathStep ==
    ASSUME TypeOK, StageInv, PathInv, [Next]_vars
    PROVE  PathInv'
<1>0. outcome = "open" => Beyond \subseteq Beyond'
  BY AccountedGrows
<1> USE <1>0 DEF PathInv, Finalizing, disk, client, child, control
<1>1. CASE ModelOpensLog \/ ModelExit
  BY <1>1 DEF ModelOpensLog, ModelExit
<1>2. CASE ModelStep
  BY <1>2 DEF ModelStep
<1>3. CASE Start
  BY <1>3 DEF Start
<1>4. CASE RecordStart \/ Launch
  BY <1>4 DEF RecordStart, Launch
<1>5. CASE Observe
  BY <1>5 DEF Observe, ModelGone
<1>6. CASE MoveCopyableOutputFiles
  <2>1. /\ pc = "move" /\ pc' \in {"endstep", "zip"} /\ (pc' = "endstep" => mode = "scheduled")
        /\ UNCHANGED <<model, child_gone, mode, outcome, tstate>>
    BY <1>6 DEF MoveCopyableOutputFiles
  <2>2. mode = "final" => slot' \cap Copyable(tstate.last_completed_step) \subseteq Beyond'
    <3> SUFFICES ASSUME mode = "final"
                 PROVE  slot' \cap Copyable(tstate.last_completed_step) \subseteq Beyond'
      OBVIOUS
    <3>1. MoveStep = tstate.last_completed_step
      BY DEF MoveStep
    <3>2. PICK copied \in SUBSET (Copyable(MoveStep) \cap slot) :
              /\ upload_dir' = upload_dir \cup copied
              /\ slot' \subseteq slot
              /\ abandoned' = abandoned \cup ((Copyable(MoveStep) \cap slot) \ copied)
      BY <1>6 DEF MoveCopyableOutputFiles
    <3> QED BY <3>1, <3>2 DEF Beyond
  <2>3. mode' = "final" /\ pc' # "move"
          => slot' \cap Copyable(tstate'.last_completed_step) \subseteq Beyond'
    BY <2>1, <2>2
  <2> QED BY <2>1, <2>3
<1>7. CASE Zip \/ ZipPlaceholder \/ DeleteZipped \/ UploadWait
  <2>1. /\ pc \in {"zip", "filler", "delete", "hold"} /\ pc' \in {"delete", "hold", "submit"}
        /\ UNCHANGED <<slot, child, mode, tstate, child_gone, outcome>>
    BY <1>7 DEF Zip, ZipPlaceholder, DeleteZipped, UploadWait
  <2> QED BY <2>1
<1>8. CASE SubmitScheduled
  BY <1>8 DEF SubmitScheduled, HandOff
<1>9. CASE SubmitFinal
  <2>1. /\ pc = "submit" /\ pc' \in {"filler", "cleanup"} /\ mode # "scheduled"
        /\ UNCHANGED <<model, child_gone, mode, outcome, slot>>
    BY <1>9 DEF SubmitFinal, HandOff
  <2>2. tstate'.last_completed_step = tstate.last_completed_step
    BY <1>9 DEF SubmitFinal, TypeOK, TaskStates
  <2> QED BY <2>1, <2>2
<1>10. CASE EndStep
  BY <1>10 DEF EndStep
<1>11. CASE Save \/ Settle \/ Recover
  <2>1. CASE Save
    BY <2>1 DEF Save
  <2>2. CASE Settle
    BY <2>2 DEF Settle
  <2>3. CASE Recover
    BY <2>3 DEF Recover
  <2> QED BY <1>11, <2>1, <2>2, <2>3
<1>12. CASE CleanupUploadDir
  <2>1. /\ pc = "cleanup" /\ pc' \in {"last", "ended"}
        /\ pc' = "last" => mode = "final" /\ outcome' = outcome
        /\ pc' = "ended" => outcome' = "failed"
        /\ UNCHANGED <<slot, child, mode, tstate, child_gone>>
    BY <1>12 DEF CleanupUploadDir
  <2> QED BY <2>1
<1>13. CASE Finish
  BY <1>13 DEF Finish
<1>14. CASE SaveFails \/ StartupFails \/ UploadFails
  BY <1>14 DEF SaveFails, StartupFails, UploadFails, StopModel
<1>15. CASE SuspendWithoutModel
  BY <1>15 DEF SuspendWithoutModel, StopModel
<1>16. CASE Quit \/ Abort
  BY <1>16 DEF Quit, Abort, StopModel, PolledWaits
<1>17. CASE Crash
  BY <1>17 DEF Crash
<1>18. CASE UNCHANGED vars
  BY <1>18 DEF vars
<1> QED
  BY <1>1, <1>2, <1>3, <1>4, <1>5, <1>6, <1>7, <1>8, <1>9, <1>10, <1>11, <1>12, <1>13, <1>14,
     <1>15, <1>16, <1>17, <1>18
  DEF Next, Model, Controller, Client, Over

LEMMA KeepStep ==
    ASSUME TypeOK, KeepInv, StageInv, PathInv, [Next]_vars
    PROVE  KeepInv'
<1> SUFFICES ASSUME outcome' = "open" PROVE KeepInv'
  BY DEF KeepInv
<1>0. outcome = "open"
  BY OpenBefore
<1>a. Accounted \subseteq Accounted'
  BY <1>0, AccountedGrows
<1> DEFINE Handling == mode = "scheduled"
                       /\ pc \in {"move", "zip", "delete", "hold", "submit", "endstep"}
<1>b. /\ model # "none" => 0 \in Accounted' /\ KeptIn(model_step, Accounted')
      /\ rcf # NoRestart => model # "none"
      /\ KeptIn(rcf, Accounted') /\ KeptIn(old_log, Accounted')
      /\ KeptIn(progress.state.last_completed_step, Accounted')
      /\ ControllerUp => KeptIn(tstate.last_completed_step, Accounted')
      /\ Handling => KeptIn(observed, Accounted')
  BY <1>0, <1>a, KeptInGrows DEF KeepInv
<1>c. /\ KeptIn(0, Accounted') /\ KeptIn(-1, Accounted')
      /\ \A n \in Int : n <= 0 => KeptIn(n, Accounted')
  BY Constants DEF KeptIn
\* What is enough, when nothing is written that was not known.
<1>d. ASSUME UNCHANGED <<model, model_step, old_log, rcf, progress>>,
             ControllerUp' => KeptIn(tstate'.last_completed_step, Accounted'),
             Handling' => KeptIn(observed', Accounted')
      PROVE  KeepInv'
  BY <1>b, <1>d DEF KeepInv
<1> USE <1>0 DEF disk, client, child, control
<1>1. CASE ModelOpensLog
  <2>1. /\ old_log' = -1 /\ UNCHANGED <<model, model_step, rcf, progress, pc, mode, tstate, observed>>
    BY <1>1 DEF ModelOpensLog, NoLog
  <2> QED BY <1>b, <1>c, <2>1 DEF KeepInv, ControllerUp
<1>2. CASE ModelStep
  <2>1. /\ model = "running" /\ model_step' = model_step + 1 /\ model_step \in Nat
        /\ slot' = slot \cup ({model_step + 1} \cap Outputs)
        /\ rcf' \in {rcf, model_step + 1}
        /\ UNCHANGED <<model, old_log, progress, pc, mode, tstate, observed>>
    BY <1>2, Constants DEF ModelStep, TypeOK
  <2>2. KeptIn(model_step', Accounted')
    <3> SUFFICES ASSUME NEW f \in Outputs, 0 < f, f <= model_step + 1 PROVE f \in Accounted'
      BY <2>1 DEF KeptIn
    <3>1. CASE f <= model_step
      BY <1>b, <2>1, <3>1 DEF KeptIn
    <3>2. CASE ~(f <= model_step)
      <4>1. f = model_step + 1
        BY <2>1, <3>2, Constants
      <4> QED BY <2>1, <4>1 DEF Accounted
    <3> QED BY <3>1, <3>2
  <2>3. KeptIn(rcf', Accounted')
    BY <1>b, <2>1, <2>2
  <2> QED BY <1>b, <2>1, <2>2, <2>3 DEF KeepInv, ControllerUp
<1>3. CASE ModelExit
  <2>1. /\ model = "running" /\ model' = "exited"
        /\ UNCHANGED <<model_step, old_log, rcf, progress, pc, mode, tstate, observed>>
    BY <1>3 DEF ModelExit
  <2> QED BY <1>b, <2>1 DEF KeepInv, ControllerUp
<1>4. CASE Start
  <2>1. /\ pc' = "record" /\ UNCHANGED <<model, model_step, old_log, rcf, progress>>
        /\ \/ tstate' = FreshTask
           \/ tstate' = [progress.state EXCEPT !.last_completed_step = rcf]
           \/ tstate' = progress.state
    BY <1>4 DEF Start
  <2>2. tstate'.last_completed_step \in {0, rcf, progress.state.last_completed_step}
    BY <2>1 DEF FreshTask, TypeOK, TaskStates
  <2> QED BY <1>b, <1>c, <1>d, <2>1, <2>2
<1>5. CASE RecordStart \/ Save
  <2>1. /\ pc \in {"record", "save"} /\ pc' \in {"launch", "settle", "wait"}
        /\ progress'.state = tstate
        /\ UNCHANGED <<model, model_step, old_log, rcf, mode, tstate, observed>>
    BY <1>5 DEF RecordStart, Save, Saved
  <2> QED BY <1>b, <2>1 DEF KeepInv, ControllerUp
<1>6. CASE Launch
  <2>1. /\ pc = "launch" /\ pc' = "wait" /\ model' = "running"
        /\ model_step' = IF rcf = NoRestart THEN 0 ELSE rcf
        /\ old_log' \in {old_log, model_step} /\ (model = "none" => old_log' = old_log)
        /\ slot' = IF rcf = NoRestart THEN slot \cup {0} ELSE slot
        /\ UNCHANGED <<rcf, progress, mode, tstate, observed>>
    BY <1>6 DEF Launch
  <2>2. 0 \in Accounted'
    <3>1. CASE rcf = NoRestart
      BY <2>1, <3>1 DEF Accounted
    <3>2. CASE rcf # NoRestart
      BY <1>b, <3>2
    <3> QED BY <3>1, <3>2
  <2>3. KeptIn(model_step', Accounted') /\ KeptIn(old_log', Accounted')
    BY <1>b, <1>c, <2>1
  <2> QED BY <1>b, <2>1, <2>2, <2>3 DEF KeepInv, ControllerUp
<1>7. CASE Observe
  <2>1. /\ pc = "wait" /\ observed' \in ReadableSteps /\ pc' \in {"move", "save"}
        /\ UNCHANGED <<model, model_step, old_log, rcf, progress, tstate>>
    BY <1>7 DEF Observe
  <2>2. model # "none"
    BY <2>1 DEF PathInv
  <2>3. KeptIn(observed', Accounted')
    <3>1. CASE observed' \in {tstate.last_completed_step, 0, old_log}
      BY <1>b, <1>c, <2>1, <3>1 DEF ControllerUp
    <3>2. CASE observed' \in Lower(tstate.last_completed_step, model_step) .. model_step
      <4>1. /\ observed' \in Int /\ observed' <= model_step /\ model_step \in Nat
        BY <3>2, Constants DEF TypeOK
      <4> QED BY <1>b, <2>2, <4>1, Constants DEF KeptIn
    <3> QED BY <2>1, <3>1, <3>2 DEF ReadableSteps
  <2>4. KeptIn(tstate.last_completed_step, Accounted')
    BY <1>b, <2>1 DEF ControllerUp
  <2> QED BY <1>d, <2>1, <2>3, <2>4
<1>8. CASE MoveCopyableOutputFiles \/ Zip \/ ZipPlaceholder \/ DeleteZipped \/ UploadWait
  <2>1. /\ pc \in {"move", "zip", "filler", "delete", "hold"}
        /\ UNCHANGED <<model, model_step, old_log, rcf, progress, mode, tstate, observed>>
    BY <1>8 DEF MoveCopyableOutputFiles, Zip, ZipPlaceholder, DeleteZipped, UploadWait
  <2>2. mode = "scheduled" => pc # "filler"
    BY <2>1 DEF PathInv
  <2> QED BY <1>b, <1>d, <2>1, <2>2 DEF ControllerUp
<1>9. CASE SubmitScheduled \/ SubmitFinal
  <2>1. /\ pc = "submit" /\ pc' \in {"endstep", "filler", "cleanup"}
        /\ UNCHANGED <<model, model_step, old_log, rcf, progress, mode, observed>>
    BY <1>9 DEF SubmitScheduled, SubmitFinal, HandOff
  <2>2. tstate'.last_completed_step = tstate.last_completed_step
    BY <1>9 DEF SubmitScheduled, SubmitFinal, TypeOK, TaskStates
  <2> QED BY <1>b, <1>d, <2>1, <2>2 DEF ControllerUp
<1>10. CASE EndStep
  <2>1. /\ pc = "endstep" /\ pc' = "save"
        /\ UNCHANGED <<model, model_step, old_log, rcf, progress, mode, observed>>
    BY <1>10 DEF EndStep
  <2>2. tstate'.last_completed_step = observed
    BY <1>10 DEF EndStep, TypeOK, TaskStates
  <2>3. KeptIn(observed, Accounted')
    BY <1>b, <2>1 DEF PathInv
  <2> QED BY <1>d, <2>1, <2>2, <2>3
<1>11. CASE Settle \/ Recover \/ CleanupUploadDir
  <2>1. /\ pc \in {"settle", "recover", "cleanup"}
        /\ pc' = "move" => mode' # "scheduled"
        /\ pc' \in {"move", "last", "ended"}
        /\ UNCHANGED <<model, model_step, old_log, rcf, progress, tstate, observed>>
    BY <1>11 DEF Settle, Recover, CleanupUploadDir
  <2> QED BY <1>b, <1>d, <2>1 DEF ControllerUp
<1>12. CASE StartupFails \/ UploadFails \/ Finish \/ Abort
  BY <1>12 DEF StartupFails, UploadFails, Finish, Abort
<1>13. CASE SuspendWithoutModel \/ Quit
  <2>1. /\ pc \in PolledWaits /\ pc' \in {"recover", "down"}
        /\ model' \in {model, "exited"} /\ model # "none"
        /\ UNCHANGED <<model_step, old_log, rcf, progress, tstate, observed, mode>>
    BY <1>13 DEF SuspendWithoutModel, Quit, StopModel, PolledWaits, PathInv
  <2> QED BY <1>b, <2>1 DEF KeepInv, ControllerUp, PolledWaits
<1>16. CASE SaveFails
  <2>1. /\ pc = "save" /\ pc' = "recover" /\ model' = "exited" /\ model # "none"
        /\ UNCHANGED <<model_step, old_log, rcf, progress, tstate, observed, mode>>
    BY <1>16 DEF SaveFails, StopModel, PathInv
  <2> QED BY <1>b, <2>1 DEF KeepInv, ControllerUp
<1>14. CASE Crash
  <2>1. /\ pc' = "down" /\ (model' = "none" <=> model = "none")
        /\ UNCHANGED <<model_step, old_log, rcf, progress, tstate, observed, mode>>
    BY <1>14 DEF Crash
  <2> QED BY <1>b, <2>1 DEF KeepInv, ControllerUp
<1>15. CASE UNCHANGED vars
  BY <1>b, <1>d, <1>15 DEF vars, ControllerUp
<1> QED
  BY <1>1, <1>2, <1>3, <1>4, <1>5, <1>6, <1>7, <1>8, <1>9, <1>10, <1>11, <1>12, <1>13, <1>14,
     <1>15, <1>16
  DEF Next, Model, Controller, Client, Over

LEMMA OutputInvariant == Spec => []OutputInv
<1>1. Init => OutputInv
  <2> SUFFICES ASSUME Init PROVE OutputInv
    OBVIOUS
  <2>1. TypeOK
    BY InitTypeOK
  <2>2. KeptIn(0, Accounted) /\ KeptIn(-1, Accounted)
    BY Constants DEF KeptIn
  <2>3. KeepInv
    BY <2>2 DEF Init, KeepInv, ControllerUp, FreshTask, NoRestart, NoLog
  <2>4. StageInv
    BY DEF Init, StageInv
  <2>5. PathInv
    BY DEF Init, PathInv, Finalizing
  <2> QED BY <2>1, <2>3, <2>4, <2>5 DEF OutputInv
<1>2. OutputInv /\ [Next]_vars => OutputInv'
  BY TypeStep, KeepStep, StageStep, PathStep DEF OutputInv
<1> QED BY <1>1, <1>2, PTL DEF Spec

\* No output of an open task is lost but in the two ways of the history variable, for
\* every interval, lag, failure, interruption and number of sessions.
THEOREM OutputsAccountedForInvariant == Spec => []OutputsAccountedFor
<1>1. OutputInv => OutputsAccountedFor
  <2> SUFFICES ASSUME OutputInv, outcome = "open", NEW f \in Outputs, f <= WrittenUpTo
               PROVE  f \in Accounted
    BY DEF OutputsAccountedFor, Known, Accounted, Beyond
  <2>1. f \in Nat /\ (rcf = NoRestart => ~(f <= rcf))
    BY Constants DEF NoRestart
  <2>2. CASE pc \in {"down", "record", "launch"}
    <3>1. f <= rcf /\ 0 \in Accounted /\ KeptIn(rcf, Accounted)
      BY <2>1, <2>2 DEF OutputInv, KeepInv, WrittenUpTo
    <3> QED BY <2>1, <3>1 DEF KeptIn
  <2>3. CASE pc \notin {"down", "record", "launch"}
    <3>1. f <= model_step /\ 0 \in Accounted /\ KeptIn(model_step, Accounted)
      BY <2>3 DEF OutputInv, KeepInv, PathInv, WrittenUpTo
    <3> QED BY <2>1, <3>1 DEF KeptIn
  <2> QED BY <2>2, <2>3
<1> QED BY <1>1, OutputInvariant, PTL

\* A task that finishes has handed over every output that was ready at the last step seen,
\* but for what the history variable records.
THEOREM FinishedAccountsForInvariant == Spec => []FinishedAccountsFor
<1>1. Init => FinishedAccountsFor
  BY DEF Init, FinishedAccountsFor
<1>2. OutputInv /\ FinishedAccountsFor /\ [Next]_vars => FinishedAccountsFor'
  <2> SUFFICES ASSUME OutputInv, FinishedAccountsFor, [Next]_vars, outcome' = "finished"
               PROVE  Copyable(tstate'.last_completed_step) \subseteq delivered' \cup abandoned'
    BY DEF FinishedAccountsFor, Copyable
  <2>1. CASE Finish
    <3>1. /\ pc = "last" /\ UNCHANGED <<disk, client, tstate, mode>> /\ outcome = "open"
      BY <2>1 DEF Finish, OutputInv, PathInv
    <3>2. /\ upload_dir = {} /\ archive \subseteq delivered \cup abandoned
          /\ 0 \in Accounted /\ KeptIn(tstate.last_completed_step, Accounted)
      BY <3>1 DEF OutputInv, StageInv, AwaitingHandOff, KeepInv, PathInv, ControllerUp
    <3>3. slot \cap Copyable(tstate.last_completed_step) \subseteq Beyond
      BY <3>1 DEF OutputInv, PathInv, Finalizing
    <3>4. Copyable(tstate.last_completed_step) \subseteq Accounted
      <4> SUFFICES ASSUME NEW f \in Outputs, f + OutputLag <= tstate.last_completed_step
                   PROVE  f \in Accounted
        BY DEF Copyable
      <4>1. f \in Nat /\ OutputLag \in Nat /\ tstate.last_completed_step \in Nat
        BY Constants, LagAssumption DEF OutputInv, TypeOK, TaskStates
      <4>2. f = 0 \/ (0 < f /\ f <= tstate.last_completed_step)
        BY <4>1
      <4> QED BY <3>2, <4>2 DEF KeptIn
    <3>5. Copyable(tstate.last_completed_step) \subseteq delivered \cup abandoned
      BY <3>2, <3>3, <3>4 DEF Accounted, Beyond
    <3> QED BY <3>1, <3>5 DEF client
  <2>2. CASE ~Finish
    <3>1. outcome = "finished" /\ pc = "ended"
      BY <2>2 DEF OutputInv, PathInv, Next, Model, Controller, Client, Over, vars, control,
         ModelOpensLog, ModelStep, ModelExit, Start, RecordStart, Launch, StartupFails, Observe,
         MoveCopyableOutputFiles, Zip, ZipPlaceholder, DeleteZipped, UploadWait, SubmitScheduled,
         SubmitFinal, HandOff, EndStep, Save, SaveFails, Settle, CleanupUploadDir, Recover,
         UploadFails, Quit, Abort, SuspendWithoutModel, Crash
    <3>2. UNCHANGED <<tstate, delivered, abandoned>>
      BY <3>1 DEF Next, Model, Controller, Client, Over, vars, control, client,
         ModelOpensLog, ModelStep, ModelExit, Start, RecordStart, Launch, StartupFails, Observe,
         MoveCopyableOutputFiles, Zip, ZipPlaceholder, DeleteZipped, UploadWait, SubmitScheduled,
         SubmitFinal, HandOff, EndStep, Save, SaveFails, Settle, CleanupUploadDir, Finish, Recover,
         UploadFails, Quit, Abort, SuspendWithoutModel, Crash, PolledWaits
    <3> QED BY <3>1, <3>2 DEF FinishedAccountsFor, Copyable
  <2> QED BY <2>1, <2>2
<1> QED BY <1>1, <1>2, OutputInvariant, PTL DEF Spec

\* Without failures the upload directory is empty whenever an archive awaits its hand-off
\* or the directory is deleted; a session that may not end there abandons nothing.
QuietInv ==
    /\ abandoned = {}
    /\ pc = "delete" => upload_dir \subseteq archive
    /\ pc \in {"hold", "submit", "filler", "cleanup", "last"} => upload_dir = {}

LEMMA QuietStep ==
    ASSUME ~Failures, ~InterruptUploads, QuietInv, [Next]_vars
    PROVE  QuietInv'
<1> USE DEF QuietInv, disk, client, child, control
<1>1. CASE ModelOpensLog \/ ModelStep \/ ModelExit
  BY <1>1 DEF ModelOpensLog, ModelStep, ModelExit
<1>2. CASE Start \/ RecordStart \/ Launch \/ StartupFails \/ Observe
  BY <1>2 DEF Start, RecordStart, Launch, StartupFails, Observe
<1>3. CASE MoveCopyableOutputFiles
  <2>1. pc' \in {"endstep", "zip"}
    BY <1>3 DEF MoveCopyableOutputFiles
  <2>2. PICK copied : /\ Copyable(MoveStep) \cap slot \subseteq copied
                      /\ abandoned' \in {abandoned, abandoned \cup
                                                    ((Copyable(MoveStep) \cap slot) \ copied)}
    BY <1>3 DEF MoveCopyableOutputFiles
  <2>3. abandoned' = {}
    BY <2>2
  <2> QED BY <2>1, <2>3
<1>4. CASE Zip
  <2>1. pc' = "delete" /\ archive' = upload_dir /\ UNCHANGED <<upload_dir, abandoned>>
    BY <1>4 DEF Zip, Collected
  <2> QED BY <2>1
<1>5. CASE ZipPlaceholder
  <2>1. pc = "filler" /\ pc' = "delete" /\ UNCHANGED <<upload_dir, abandoned>>
    BY <1>5 DEF ZipPlaceholder
  <2> QED BY <2>1
<1>6. CASE DeleteZipped
  <2>1. pc = "delete" /\ pc' = "hold" /\ upload_dir' = upload_dir \ archive /\ UNCHANGED abandoned
    BY <1>6 DEF DeleteZipped
  <2> QED BY <2>1
<1>7. CASE UploadWait \/ EndStep \/ Save \/ Settle \/ Finish \/ Recover
  BY <1>7 DEF UploadWait, EndStep, Save, Settle, Finish, Recover
<1>8. CASE SubmitScheduled \/ SubmitFinal
  <2>1. /\ pc = "submit" /\ pc' \in {"endstep", "filler", "cleanup"}
        /\ UNCHANGED <<upload_dir, abandoned>>
    BY <1>8 DEF SubmitScheduled, SubmitFinal, HandOff
  <2> QED BY <2>1
<1>9. CASE CleanupUploadDir
  <2>1. /\ pc = "cleanup" /\ pc' \in {"last", "ended"} /\ upload_dir' = {}
        /\ abandoned' = abandoned \cup upload_dir
    BY <1>9 DEF CleanupUploadDir
  <2> QED BY <2>1
<1>10. CASE SaveFails \/ UploadFails \/ Abort \/ SuspendWithoutModel
  BY <1>10 DEF SaveFails, UploadFails, Abort, SuspendWithoutModel
<1>11. CASE Quit \/ Crash
  <2>1. ~AwaitingHandOff /\ pc' = "down" /\ UNCHANGED <<upload_dir, abandoned>>
    BY <1>11 DEF Quit, Crash, LeaveArchive
  <2> QED BY <2>1
<1>12. CASE UNCHANGED vars
  BY <1>12 DEF vars
<1> QED
  BY <1>1, <1>2, <1>3, <1>4, <1>5, <1>6, <1>7, <1>8, <1>9, <1>10, <1>11, <1>12
  DEF Next, Model, Controller, Client, Over

\* If nothing fails and no session ends between an archive and its hand-off, nothing is
\* abandoned, however often the task is suspended, stopped and restarted elsewhere: no
\* output of an open task is lost and a finished one has handed over all that was ready.
THEOREM NothingAbandoned ==
    ~Failures /\ ~InterruptUploads
        => (Spec => [](abandoned = {} /\ OutputsKept /\ FinishedDelivers))
<1> SUFFICES ASSUME ~Failures, ~InterruptUploads
             PROVE  Spec => [](abandoned = {} /\ OutputsKept /\ FinishedDelivers)
  OBVIOUS
<1>1. Init => QuietInv
  BY DEF Init, QuietInv
<1>2. QuietInv /\ [Next]_vars => QuietInv'
  BY QuietStep
<1>3. QuietInv /\ OutputsAccountedFor /\ FinishedAccountsFor
        => abandoned = {} /\ OutputsKept /\ FinishedDelivers
  BY DEF QuietInv, OutputsAccountedFor, OutputsKept, FinishedAccountsFor, FinishedDelivers
<1> QED
  BY <1>1, <1>2, <1>3, OutputsAccountedForInvariant, FinishedAccountsForInvariant, PTL DEF Spec

-----------------------------------------------------------------------------
(* The upload counters over sessions.                                      *)

\* The counters in memory are not behind those in the progress file.
GrowInv ==
    /\ ~progress.exists => progress.state = FreshTask
    /\ ControllerUp => /\ tstate.upload_file_number >= progress.state.upload_file_number
                       /\ tstate.last_upload_step >= progress.state.last_upload_step

LEMMA GrowStep == IInv /\ GrowInv /\ [Next]_vars => GrowInv'
<1> SUFFICES ASSUME IInv, GrowInv, [Next]_vars PROVE GrowInv'
  OBVIOUS
<1>0. /\ tstate \in TaskStates /\ progress.state \in TaskStates /\ index \in Nat /\ observed \in Nat
      /\ progress \in [exists : BOOLEAN, state : TaskStates]
  BY Constants DEF IInv, TypeOK
<1>1. /\ tstate.upload_file_number \in Nat /\ tstate.last_upload_step \in Nat
      /\ progress.state.upload_file_number \in Nat /\ progress.state.last_upload_step \in Nat
  BY <1>0, Constants DEF TaskStates
<1> USE DEF GrowInv, ControllerUp, disk, client, child, control
<1>2. CASE ModelOpensLog \/ ModelStep \/ ModelExit
  BY <1>2 DEF ModelOpensLog, ModelStep, ModelExit
<1>3. CASE Start
  <2>1. /\ UNCHANGED progress
        /\ \/ ~progress.exists /\ tstate' = FreshTask
           \/ tstate' = [progress.state EXCEPT !.last_completed_step = rcf]
           \/ tstate' = progress.state
           \/ pc' = "ended"
    BY <1>3 DEF Start, FreshRun
  <2>2. \/ pc' = "ended"
        \/ /\ tstate'.upload_file_number = progress.state.upload_file_number
           /\ tstate'.last_upload_step = progress.state.last_upload_step
    BY <1>0, <2>1 DEF TaskStates
  <2> QED BY <1>1, <2>1, <2>2
<1>4. CASE RecordStart \/ Save
  <2>1. progress' = Saved(tstate) /\ UNCHANGED tstate
    BY <1>4 DEF RecordStart, Save
  <2> QED BY <1>1, <2>1 DEF Saved
<1>5. CASE \/ Launch \/ StartupFails \/ Observe \/ MoveCopyableOutputFiles \/ Zip \/ ZipPlaceholder
           \/ DeleteZipped \/ UploadWait
  <2>1. ControllerUp /\ UNCHANGED <<progress, tstate>>
    BY <1>5 DEF Launch, StartupFails, Observe, MoveCopyableOutputFiles, Zip, ZipPlaceholder,
                DeleteZipped, UploadWait
  <2> QED BY <2>1
<1>6. CASE SubmitScheduled
  <2>1. /\ pc = "submit" /\ mode = "scheduled" /\ UNCHANGED progress
        /\ tstate' = [tstate EXCEPT !.upload_file_number = index + 1, !.last_upload_step = observed]
    BY <1>6 DEF SubmitScheduled, HandOff
  <2>2. tstate'.upload_file_number = index + 1 /\ tstate'.last_upload_step = observed
    BY <1>0, <2>1 DEF TaskStates
  <2>3. index = tstate.upload_file_number /\ observed - tstate.last_upload_step >= UploadInterval
    BY <2>1 DEF IInv, Budget, IndexIsNext, UploadDue
  <2> QED BY <1>0, <1>1, <2>1, <2>2, <2>3, Constants
<1>7. CASE SubmitFinal
  <2>1. pc = "submit" /\ UNCHANGED progress /\ tstate' = [tstate EXCEPT !.upload_file_number = index + 1]
    BY <1>7 DEF SubmitFinal, HandOff
  <2>2. /\ tstate'.upload_file_number = index + 1
        /\ tstate'.last_upload_step = tstate.last_upload_step
    BY <1>0, <2>1 DEF TaskStates
  <2>3. index = tstate.upload_file_number
    BY <2>1 DEF IInv, IndexIsNext
  <2> QED BY <1>0, <1>1, <2>1, <2>2, <2>3
<1>8. CASE EndStep
  <2>1. pc = "endstep" /\ UNCHANGED progress /\ tstate' = [tstate EXCEPT !.last_completed_step = observed]
    BY <1>8 DEF EndStep
  <2>2. /\ tstate'.upload_file_number = tstate.upload_file_number
        /\ tstate'.last_upload_step = tstate.last_upload_step
    BY <1>0, <2>1 DEF TaskStates
  <2> QED BY <2>1, <2>2
<1>9. CASE SaveFails \/ Settle \/ CleanupUploadDir \/ Finish \/ Recover \/ UploadFails
  <2>1. ControllerUp /\ UNCHANGED <<progress, tstate>>
    BY <1>9 DEF SaveFails, Settle, CleanupUploadDir, Finish, Recover, UploadFails
  <2> QED BY <2>1
<1>10. CASE Quit \/ Abort \/ SuspendWithoutModel \/ Crash
  <2>1. ControllerUp /\ UNCHANGED <<progress, tstate>>
    BY <1>10 DEF Quit, Abort, SuspendWithoutModel, Crash, PolledWaits
  <2> QED BY <2>1
<1>11. CASE UNCHANGED vars
  BY <1>11 DEF vars
<1> QED
  BY <1>2, <1>3, <1>4, <1>5, <1>6, <1>7, <1>8, <1>9, <1>10, <1>11
  DEF Next, Model, Controller, Client, Over

\* Over any number of sessions and failures the progress file never takes an upload back.
THEOREM PersistedUploadsOnlyGrowTheorem == Spec => PersistedUploadsOnlyGrow
<1>1. Init => GrowInv
  BY DEF Init, GrowInv, ControllerUp
<1>2. IInv /\ GrowInv /\ [Next]_vars =>
          [/\ progress.exists => progress'.exists
           /\ progress'.state.upload_file_number >= progress.state.upload_file_number
           /\ progress'.state.last_upload_step >= progress.state.last_upload_step]_vars
  <2> SUFFICES ASSUME IInv, GrowInv, [Next]_vars
               PROVE  /\ progress.exists => progress'.exists
                      /\ progress'.state.upload_file_number >= progress.state.upload_file_number
                      /\ progress'.state.last_upload_step >= progress.state.last_upload_step
    OBVIOUS
  <2>1. CASE RecordStart \/ Save
    BY <2>1 DEF RecordStart, Save, Saved, GrowInv, ControllerUp
  <2>2. CASE ~(RecordStart \/ Save)
    <3>1. UNCHANGED progress
      BY <2>2 DEF Next, Model, Controller, Client, Over, vars, disk, ModelOpensLog, ModelStep,
         ModelExit, Start, Launch, StartupFails, Observe, MoveCopyableOutputFiles, Zip,
         ZipPlaceholder, DeleteZipped, UploadWait, SubmitScheduled, SubmitFinal, HandOff, EndStep,
         SaveFails, Settle, CleanupUploadDir, Finish, Recover, UploadFails, Quit, Abort,
         SuspendWithoutModel, Crash
    <3>2. /\ progress.state.upload_file_number \in Nat
          /\ progress.state.last_upload_step \in Nat
      BY Constants DEF IInv, TypeOK, TaskStates
    <3> QED BY <3>1, <3>2
  <2> QED BY <2>1, <2>2
<1> QED BY <1>1, <1>2, BudgetInvariant, GrowStep, PTL DEF Spec, PersistedUploadsOnlyGrow

-----------------------------------------------------------------------------
(* A session comes to an end once the model has: the safety half of        *)
(* EventuallyOver, with the number of steps it takes.                      *)

\* Uploads finalize_remaining_uploads() has still to send.
UploadsLeft ==
    IF tstate.upload_file_number < ExpectedUploads
    THEN ExpectedUploads - tstate.upload_file_number
    ELSE 1

\* What lies between a scheduled upload and the final one: the rest of the iteration, and
\* another iteration if this one has not yet seen that the model is gone.
Detour == IF mode # "scheduled" THEN 0 ELSE IF child_gone THEN 8 ELSE 16

\* Own steps of the controller until it leaves.
StepsLeft ==
    CASE pc \in {"down", "ended"} -> 0
      [] pc = "last" -> 1
      [] pc = "cleanup" -> 2
      [] pc = "submit" -> 4 * UploadsLeft - 1 + Detour
      [] pc = "hold" -> 4 * UploadsLeft + Detour
      [] pc = "delete" -> 4 * UploadsLeft + 1 + Detour
      [] pc \in {"zip", "filler"} -> 4 * UploadsLeft + 2 + Detour
      [] pc = "move" -> 4 * UploadsLeft + 3 + Detour
      [] pc \in {"settle", "recover"} -> 4 * UploadsLeft + 4
      [] pc = "save" -> 4 * UploadsLeft + (IF child_gone THEN 5 ELSE 13)
      [] pc = "endstep" -> 4 * UploadsLeft + (IF child_gone THEN 6 ELSE 14)
      [] pc = "wait" -> 4 * UploadsLeft + 12
      [] pc \in {"record", "launch"} -> 4 * UploadsLeft + 20

\* Every step brings a controller whose model has exited nearer to its end, which is at
\* most 4 * ExpectedUploads + 20 steps away.
EndsWithModel ==
    /\ [](StepsLeft \in 0 .. 4 * ExpectedUploads + 20)
    /\ [][(Controller /\ model = "exited" /\ pc \notin {"down", "record", "launch"})
              => StepsLeft' < StepsLeft]_vars

LEMMA UploadsLeftBounds == TypeOK => UploadsLeft \in 1 .. ExpectedUploads
  BY ExpectedIsNat DEF UploadsLeft, TypeOK, TaskStates

LEMMA StepsLeftBounds == TypeOK => StepsLeft \in 0 .. 4 * ExpectedUploads + 20
<1> SUFFICES ASSUME TypeOK PROVE StepsLeft \in 0 .. 4 * ExpectedUploads + 20
  OBVIOUS
<1>1. PICK u : u = UploadsLeft
  OBVIOUS
<1>2. PICK e : e = ExpectedUploads
  OBVIOUS
<1>3. u \in Nat /\ 1 <= u /\ e \in Nat /\ u <= e
  BY <1>1, <1>2, UploadsLeftBounds, ExpectedIsNat
<1>4. Detour \in {0, 8, 16}
  BY DEF Detour
<1>5. CASE pc \in {"down", "ended", "last", "cleanup"}
  <2>1. StepsLeft \in {0, 1, 2}
    BY <1>5 DEF StepsLeft
  <2> QED BY <1>2, <1>3, <2>1
<1>6. CASE pc \in {"submit", "hold", "delete", "zip", "filler", "move"}
  <2>1. StepsLeft \in {4 * u - 1 + Detour, 4 * u + Detour, 4 * u + 1 + Detour,
                       4 * u + 2 + Detour, 4 * u + 3 + Detour}
    BY <1>1, <1>6 DEF StepsLeft
  <2> QED BY <1>2, <1>3, <1>4, <2>1
<1>7. CASE pc \in {"settle", "recover", "save", "endstep", "wait", "record", "launch"}
  <2>1. StepsLeft \in {4 * u + 4, 4 * u + 5, 4 * u + 6, 4 * u + 12, 4 * u + 13, 4 * u + 14,
                       4 * u + 20}
    BY <1>1, <1>7 DEF StepsLeft
  <2> QED BY <1>2, <1>3, <2>1
<1> QED BY <1>5, <1>6, <1>7 DEF TypeOK, PCs

LEMMA StepsLeftFalls ==
    ASSUME TypeOK, IndexIsNext, PathInv, Controller, model = "exited",
           pc \notin {"down", "record", "launch"}
    PROVE  StepsLeft' < StepsLeft
<1>1. PICK u : u = UploadsLeft
  OBVIOUS
<1>2. PICK v : v = UploadsLeft'
  OBVIOUS
<1>3. u \in Nat /\ 1 <= u
  BY <1>1, UploadsLeftBounds, ExpectedIsNat
<1>4. UNCHANGED tstate => v = u
  BY <1>1, <1>2 DEF UploadsLeft
<1> USE <1>1, <1>2, <1>3 DEF StepsLeft, Detour, control
<1>5. CASE StartupFails
  BY <1>5 DEF StartupFails
<1>6. CASE Observe
  <2>1. /\ pc = "wait" /\ child_gone' = TRUE /\ UNCHANGED tstate
        /\ pc' = "save" \/ (pc' = "move" /\ mode' = "scheduled")
    BY <1>6 DEF Observe, ModelGone
  <2> QED BY <1>4, <2>1
<1>7. CASE MoveCopyableOutputFiles
  <2>1. /\ pc = "move" /\ UNCHANGED <<tstate, mode, child_gone>>
        /\ pc' = "zip" \/ (pc' = "endstep" /\ mode = "scheduled")
    BY <1>7 DEF MoveCopyableOutputFiles
  <2> QED BY <1>4, <2>1
<1>8. CASE Zip \/ ZipPlaceholder \/ DeleteZipped \/ UploadWait
  BY <1>4, <1>8 DEF Zip, ZipPlaceholder, DeleteZipped, UploadWait
<1>9. CASE SubmitScheduled
  <2>1. /\ pc = "submit" /\ pc' = "endstep" /\ mode = "scheduled" /\ UNCHANGED child_gone
        /\ index = tstate.upload_file_number /\ index \in Nat
        /\ tstate'.upload_file_number = index + 1
    BY <1>9 DEF SubmitScheduled, HandOff, IndexIsNext, TypeOK, TaskStates
  <2>2. v \in Nat /\ v <= u
    BY <2>1, ExpectedIsNat DEF UploadsLeft
  <2> QED BY <2>1, <2>2
<1>10. CASE SubmitFinal
  <2>1. /\ pc = "submit" /\ mode # "scheduled" /\ UNCHANGED <<child_gone, mode>>
        /\ index = tstate.upload_file_number /\ index \in Nat
        /\ tstate'.upload_file_number = index + 1
    BY <1>10 DEF SubmitFinal, HandOff, IndexIsNext, TypeOK, TaskStates
  <2>2. CASE MoreFinalUploads
    <3>1. pc' = "filler" /\ index + 1 < ExpectedUploads
      BY <1>10, <2>2 DEF SubmitFinal, MoreFinalUploads
    <3>2. v = u - 1
      BY <2>1, <3>1, ExpectedIsNat DEF UploadsLeft
    <3> QED BY <2>1, <3>1, <3>2
  <2>3. CASE ~MoreFinalUploads
    <3>1. pc' = "cleanup"
      BY <1>10, <2>3 DEF SubmitFinal
    <3> QED BY <2>1, <3>1
  <2> QED BY <2>2, <2>3
<1>11. CASE EndStep
  <2>1. /\ pc = "endstep" /\ pc' = "save" /\ UNCHANGED <<mode, child_gone>>
        /\ tstate'.upload_file_number = tstate.upload_file_number
    BY <1>11 DEF EndStep, TypeOK, TaskStates
  <2>2. v = u
    BY <2>1 DEF UploadsLeft
  <2> QED BY <2>1, <2>2
<1>12. CASE Save \/ SaveFails
  BY <1>4, <1>12 DEF Save, SaveFails
<1>13. CASE Settle \/ Recover
  BY <1>4, <1>13 DEF Settle, Recover
<1>14. CASE CleanupUploadDir \/ Finish \/ UploadFails
  BY <1>14 DEF CleanupUploadDir, Finish, UploadFails
<1> QED
  BY <1>5, <1>6, <1>7, <1>8, <1>9, <1>10, <1>11, <1>12, <1>13, <1>14
  DEF Controller, Start, RecordStart, Launch

\* Once the model has exited the session ends within a number of steps that the number of
\* promised uploads bounds, whatever fails.
THEOREM EndsWithModelTheorem == Spec => EndsWithModel
<1>1. Spec => [](TypeOK /\ IndexIsNext /\ PathInv)
  BY BudgetInvariant, OutputInvariant, PTL DEF IInv, OutputInv
<1>2. TypeOK /\ IndexIsNext /\ PathInv /\ [Next]_vars
        => [(Controller /\ model = "exited" /\ pc \notin {"down", "record", "launch"})
                => StepsLeft' < StepsLeft]_vars
  BY StepsLeftFalls
<1> QED BY <1>1, <1>2, StepsLeftBounds, PTL DEF Spec, EndsWithModel

=============================================================================
