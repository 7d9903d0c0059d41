--------------------------- MODULE StepLogProofs ---------------------------
(***************************************************************************)
(* Theorems about StepLog: a controller that is interrupted can always go  *)
(* on, and it reads the log of its model to the end.                       *)
(***************************************************************************)
EXTENDS StepLog, TLAPS

USE DEF Missing

Starting == {"decide", "record", "launch"}

Looking == {"wait", "read", "save", "final", "done"}

\* Where the processes can be together.
ControlInv ==
    /\ pc \in Starting => ~Live
    /\ (pc \in Looking /\ pc # "wait" /\ child_gone) => model = "exited"
    /\ pc \in {"final", "done"} => child_gone
    /\ pc \in {"launch", "wait", "read"} => last_completed = progress
    /\ (pc \in Starting \cup Looking \cup {"refused"}) \/ pc = "down"
    /\ progress = Missing
          => /\ model = "none" /\ rcf = Missing /\ stat = <<>>
             /\ pc \in {"down", "decide", "record"}
    /\ progress = Missing /\ pc = "record" => last_completed = 0

\* What the log of a model can look like, and how long it can be.
LogInv ==
    /\ \/ LastLine \in {NoLine, FirstLine, CloseLine}
       \/ \E step \in Steps : LastLine = StepLine(step)
    /\ model = "running" =>
          /\ stat # <<>>
          /\ LastLine.step \in Steps => LastLine.step = model_step
          /\ LastLine = CloseLine => model_step = TotalSteps
          /\ LastLine # CloseLine => Len(stat) <= model_step + 1

\* How far the restart file and the model can be ahead of a step.
Within(step) ==
    /\ rcf # Missing => rcf <= step + MaxLag + 1
    /\ Live => model_step <= step + MaxLag
    /\ rcf = Missing => step < RestartInterval

\* The restart file is at most one step ahead of the log, whose steps may be read at
\* any time, and both are near the progress file.
LagInv ==
    /\ Live => rcf <= model_step + 1
    /\ model = "starting" => model_step = IF rcf = Missing THEN 0 ELSE rcf
    /\ Live /\ rcf = Missing => model_step < RestartInterval
    /\ LastLine.step \in Steps =>
          /\ rcf <= LastLine.step + 1
          /\ rcf = Missing => LastLine.step < RestartInterval
    /\ progress # Missing => Within(progress)
    /\ pc = "save" => Within(observed)
    /\ pc \in {"record", "launch"} /\ rcf # Missing => last_completed = rcf
    /\ pc \in {"record", "launch"} /\ rcf = Missing => last_completed < RestartInterval

\* What was read is what is in the log up to there.
Current ==
    /\ last_offset <= Len(stat)
    /\ last_line = IF last_offset = 0 THEN NoLine ELSE stat[last_offset]

\* Unless the log was replaced since the last look, that look is current; the step
\* in the line that was read is the one that was dealt with.
ReaderInv ==
    /\ Current \/ last_offset = replaced
    /\ pc \in Starting => last_line = NoLine
    /\ (pc \in {"wait", "read"} /\ last_line.step \in Steps) => last_completed = last_line.step
    /\ (pc = "save" /\ last_line.step \in Steps) => observed = last_line.step
    /\ (pc = "save" /\ Len(stat) # replaced /\ child_gone) => last_line = LastLine
    /\ pc = "done" =>
          /\ success <=> last_line.word = "CNT0"
          /\ Len(stat) # replaced => last_line = LastLine

IInv == TypeOK /\ ControlInv /\ LogInv /\ LagInv /\ ReaderInv /\ StartNotRefused
            /\ LogReadToEnd


-----------------------------------------------------------------------------
(* Types.                                                                  *)

\* The lines of a log are lines.
LEMMA LineTypes ==
    /\ NoLine \in Lines /\ FirstLine \in Lines /\ CloseLine \in Lines
    /\ \A step \in Steps : StepLine(step) \in Lines
    /\ \A line \in Lines : line.step \in Int
<1> USE StepsAssumption DEF Lines, Steps
<1>1. NoLine \in Lines
  BY DEF NoLine
<1>2. FirstLine \in Lines
  BY DEF FirstLine
<1>3. CloseLine \in Lines
  BY DEF CloseLine
<1>4. ASSUME NEW step \in Steps
      PROVE  StepLine(step) \in Lines
  BY DEF StepLine
<1>5. \A line \in Lines : line.step \in Int
  OBVIOUS
<1> QED
  BY <1>1, <1>2, <1>3, <1>4, <1>5

\* The last line of a log is a line.
LEMMA LastLineType ==
    ASSUME stat \in Seq(Lines)
    PROVE  LastLine \in Lines
  BY LineTypes DEF LastLine

\* A line that is added is the last line of the log.
LEMMA Appended ==
    ASSUME stat \in Seq(Lines), NEW line \in Lines, stat' = Append(stat, line)
    PROVE  /\ stat' \in Seq(Lines) /\ stat' # <<>>
           /\ Len(stat') = Len(stat) + 1
           /\ stat'[Len(stat')] = line /\ LastLine' = line
           /\ \A i \in 1 .. Len(stat) : stat'[i] = stat[i]
  BY DEF LastLine

\* A log that is replaced has one line.
LEMMA Opened ==
    ASSUME stat' = <<FirstLine>>
    PROVE  /\ stat' \in Seq(Lines) /\ stat' # <<>> /\ Len(stat') = 1
           /\ LastLine' = FirstLine
  BY LineTypes DEF LastLine

\* The types are kept, because a log is never longer than the run.
LEMMA TypeStep ==
    ASSUME TypeOK, LogInv, ControlInv, [Next]_vars
    PROVE  TypeOK'
<1> USE StepsAssumption, LagAssumption, BoundsAssumption DEF TypeOK, vars, slot, child, control, reader, Steps, LogInv, Live
<1>1. CASE ModelOpensLog
  BY <1>1, Opened DEF ModelOpensLog
<1>2. CASE ModelWritesRestart
  BY <1>2 DEF ModelWritesRestart, RestartDue
<1>3. CASE ModelLogsStep
  BY <1>3, Appended, LineTypes DEF ModelLogsStep, RestartDue, RecordedStep
<1>4. CASE ModelCloses
  BY <1>4, Appended, LineTypes DEF ModelCloses
<1>5. CASE ModelExits
  BY <1>5 DEF ModelExits
<1>6. CASE Start
  BY <1>6, LineTypes DEF Start
<1>7. CASE Decide
  BY <1>7 DEF Decide, FreshRun, RestartRun, RunAgainFromStepZero, AllowedRestartStepDiff
<1>8. CASE RecordStart
  BY <1>8 DEF RecordStart
<1>9. CASE Launch
  <2>1. model_step' \in Steps
    BY <1>9 DEF Launch
  <2> QED
    BY <1>9, <2>1 DEF Launch
<1>10. CASE RefreshStatus
  BY <1>10 DEF RefreshStatus
<1>11. CASE GetCurrentStep
  BY <1>11, LastLineType, LineTypes DEF GetCurrentStep, ReadLastLine, NewLines, Truncated, ValidStep
<1>12. CASE Save
  BY <1>12 DEF Save, LoopGoesOn
<1>13. CASE CheckModelSuccess
  BY <1>13, LastLineType, LineTypes DEF CheckModelSuccess, ReadLastLine, NewLines, Truncated, Successful
<1>14. CASE Interrupt
  BY <1>14 DEF Interrupt
<1>15. CASE UNCHANGED vars
  BY <1>15
<1> QED
  BY <1>1, <1>2, <1>3, <1>4, <1>5, <1>6, <1>7, <1>8, <1>9, <1>10, <1>11, <1>12, <1>13, <1>14, <1>15 DEF Next, Model, Over

\* Controller and model stay in step.
LEMMA ControlStep ==
    ASSUME TypeOK, ControlInv, [Next]_vars
    PROVE  ControlInv'
<1> USE StepsAssumption, LagAssumption, BoundsAssumption DEF TypeOK, vars, slot, child, control, reader, Steps, ControlInv, Starting, Looking, Live
<1>1. CASE ModelOpensLog
  BY <1>1 DEF ModelOpensLog
<1>2. CASE ModelWritesRestart
  BY <1>2 DEF ModelWritesRestart, RestartDue
<1>3. CASE ModelLogsStep
  BY <1>3 DEF ModelLogsStep, RestartDue, RecordedStep
<1>4. CASE ModelCloses
  BY <1>4 DEF ModelCloses
<1>5. CASE ModelExits
  BY <1>5 DEF ModelExits
<1>6. CASE Start
  BY <1>6 DEF Start
<1>7. CASE Decide
  BY <1>7 DEF Decide, FreshRun, RestartRun, RunAgainFromStepZero, AllowedRestartStepDiff
<1>8. CASE RecordStart
  BY <1>8 DEF RecordStart
<1>9. CASE Launch
  BY <1>9 DEF Launch
<1>10. CASE RefreshStatus
  BY <1>10 DEF RefreshStatus
<1>11. CASE GetCurrentStep
  BY <1>11 DEF GetCurrentStep, ReadLastLine, NewLines, Truncated, ValidStep
<1>12. CASE Save
  BY <1>12 DEF Save, LoopGoesOn
<1>13. CASE CheckModelSuccess
  BY <1>13 DEF CheckModelSuccess, ReadLastLine, NewLines, Truncated, Successful
<1>14. CASE Interrupt
  BY <1>14 DEF Interrupt
<1>15. CASE UNCHANGED vars
  BY <1>15
<1> QED
  BY <1>1, <1>2, <1>3, <1>4, <1>5, <1>6, <1>7, <1>8, <1>9, <1>10, <1>11, <1>12, <1>13, <1>14, <1>15 DEF Next, Model, Over

-----------------------------------------------------------------------------
(* The log.                                                                *)

\* The kinds of lines can be told apart, and only two of them name a step of the run.
LEMMA LineKinds ==
    /\ FirstLine # CloseLine /\ NoLine # CloseLine /\ CloseLine.word = "CNT0"
    /\ FirstLine.step \notin Steps /\ NoLine.step \notin Steps
    /\ CloseLine.step \in Steps => CloseLine.step = TotalSteps
    /\ \A step \in Steps : StepLine(step).word # "CNT0" /\ StepLine(step).step = step
    /\ FirstLine.word # "CNT0" /\ NoLine.word # "CNT0"
<1>1. FirstLine.word = "CNT3" /\ FirstLine.step \notin Steps
  BY StepsAssumption DEF FirstLine, Steps
<1>2. NoLine.word = "" /\ NoLine.step \notin Steps
  BY StepsAssumption DEF NoLine, Steps
<1>3. CloseLine.word = "CNT0" /\ (CloseLine.step \in Steps => CloseLine.step = TotalSteps)
  BY StepsAssumption DEF CloseLine, Steps
<1>4. ASSUME NEW step \in Steps
      PROVE  StepLine(step).word = "STEPO" /\ StepLine(step).step = step
  BY DEF StepLine
<1>5. FirstLine # CloseLine /\ NoLine # CloseLine
  BY <1>1, <1>2, <1>3
<1>6. ASSUME NEW step \in Steps
      PROVE  StepLine(step).word # "CNT0"
  BY <1>4
<1>7. FirstLine.word # "CNT0" /\ NoLine.word # "CNT0"
  BY <1>1, <1>2
<1> QED
  BY <1>1, <1>2, <1>3, <1>4, <1>5, <1>6, <1>7, Zenon

\* The last line of a log is the same as long as the log is.
LEMMA SameLastLine ==
    ASSUME UNCHANGED stat
    PROVE  UNCHANGED LastLine
  BY DEF LastLine

\* The log of a model grows by a line for each step.
LEMMA LogStep ==
    ASSUME TypeOK, ControlInv, LogInv, [Next]_vars
    PROVE  LogInv'
<1> USE StepsAssumption, LagAssumption, BoundsAssumption DEF TypeOK, vars, slot, child, control, reader, Steps, ControlInv, LogInv, Live, Starting, Looking
<1>1. CASE ModelOpensLog
  <2>1. stat' # <<>> /\ Len(stat') = 1 /\ LastLine' = FirstLine
    BY <1>1, Opened DEF ModelOpensLog
  <2>2. model_step' \in Nat
    BY <1>1 DEF ModelOpensLog
  <2>3. LastLine'.step \notin Steps /\ LastLine' # CloseLine
    BY <2>1, LineKinds
  <2>4. \A n \in Nat : 1 <= n + 1
    OBVIOUS
  <2>5. Len(stat') <= model_step' + 1
    BY <2>1, <2>2, <2>4, Zenon
  <2> QED
    BY <2>1, <2>3, <2>5
<1>2. CASE ModelWritesRestart
  BY <1>2, SameLastLine DEF ModelWritesRestart, RestartDue
<1>3. CASE ModelLogsStep
  <2>1. /\ model = "running" /\ model_step < TotalSteps /\ model_step' = model_step + 1
        /\ stat' = Append(stat, StepLine(model_step'))
    BY <1>3 DEF ModelLogsStep
  <2>2. model_step' \in Steps
    BY <2>1
  <2>3. StepLine(model_step') \in Lines
    BY <2>2, LineTypes
  <2>4. stat' # <<>> /\ Len(stat') = Len(stat) + 1 /\ LastLine' = StepLine(model_step')
    BY <2>1, <2>3, Appended
  <2>5. LastLine # CloseLine
    BY <2>1
  <2>6. Len(stat') <= model_step' + 1
    BY <2>1, <2>4, <2>5
  <2> QED
    BY <2>2, <2>4, <2>6, LineKinds
<1>4. CASE ModelCloses
  <2>1. /\ model = "running" /\ model_step = TotalSteps /\ UNCHANGED model_step
        /\ stat' = Append(stat, CloseLine)
    BY <1>4 DEF ModelCloses
  <2>2. stat' # <<>> /\ LastLine' = CloseLine
    BY <2>1, Appended, LineTypes
  <2> QED
    BY <2>1, <2>2, LineKinds
<1>5. CASE ModelExits
  BY <1>5, SameLastLine DEF ModelExits
<1>6. CASE Start
  BY <1>6, SameLastLine DEF Start
<1>7. CASE Decide
  BY <1>7, SameLastLine DEF Decide, FreshRun, RestartRun, RunAgainFromStepZero, AllowedRestartStepDiff
<1>8. CASE RecordStart
  BY <1>8, SameLastLine DEF RecordStart
<1>9. CASE Launch
  BY <1>9, SameLastLine DEF Launch
<1>10. CASE RefreshStatus
  BY <1>10, SameLastLine DEF RefreshStatus
<1>11. CASE GetCurrentStep
  BY <1>11, SameLastLine DEF GetCurrentStep, ReadLastLine, NewLines, Truncated, ValidStep
<1>12. CASE Save
  BY <1>12, SameLastLine DEF Save, LoopGoesOn
<1>13. CASE CheckModelSuccess
  BY <1>13, SameLastLine DEF CheckModelSuccess, ReadLastLine, NewLines, Truncated, Successful
<1>14. CASE Interrupt
  BY <1>14, SameLastLine DEF Interrupt
<1>15. CASE UNCHANGED vars
  <2>1. UNCHANGED stat /\ UNCHANGED LastLine
    BY <1>15, SameLastLine
  <2> QED
    BY <1>15, <2>1
<1> QED
  BY <1>1, <1>2, <1>3, <1>4, <1>5, <1>6, <1>7, <1>8, <1>9, <1>10, <1>11, <1>12, <1>13, <1>14, <1>15 DEF Next, Model, Over

\* Restart file, log and progress file stay near each other.
LEMMA LagStep ==
    ASSUME TypeOK, ControlInv, LogInv, LagInv, [Next]_vars
    PROVE  LagInv'
<1> USE StepsAssumption, LagAssumption, BoundsAssumption DEF TypeOK, vars, slot, child, control, reader, Steps, ControlInv, LogInv, LagInv, Within, Live, Starting, Looking
<1>1. CASE ModelOpensLog
  <2>1. LastLine' = FirstLine
    BY <1>1, Opened DEF ModelOpensLog
  <2>2. LastLine'.step \notin Steps
    BY <2>1, LineKinds
  <2> QED
    BY <1>1, <2>2 DEF ModelOpensLog
<1>2. CASE ModelWritesRestart
  BY <1>2, SameLastLine DEF ModelWritesRestart, RestartDue
<1>3. CASE ModelLogsStep
  <2>1. /\ model = "running" /\ model_step < TotalSteps /\ model_step' = model_step + 1
        /\ stat' = Append(stat, StepLine(model_step'))
        /\ model_step < RecordedStep + MaxLag /\ ~RestartDue
    BY <1>3 DEF ModelLogsStep
  <2>2. UNCHANGED <<rcf, progress, model, pc, observed, last_completed>>
    BY <1>3 DEF ModelLogsStep
  <2>3. model_step' \in Steps
    BY <2>1
  <2>4. LastLine' = StepLine(model_step')
    BY <2>1, <2>3, Appended, LineTypes
  <2>5. LastLine'.step = model_step'
    BY <2>3, <2>4, LineKinds
  <2>6. rcf = Missing => model_step' < RestartInterval
    <3>1. SUFFICES ASSUME rcf = Missing
                   PROVE  model_step + 1 # RestartInterval
      BY <2>1
    <3>2. (model_step + 1) % RestartInterval # 0
      BY <2>1, <3>1 DEF RestartDue
    <3> QED
      BY <3>2
  <2>7. progress # Missing /\ progress \in Nat
    BY <2>1
  <2>8. /\ model_step' <= progress + MaxLag
        /\ pc = "save" => model_step' <= observed + MaxLag
    BY <2>1, <2>7 DEF RecordedStep
  <2> QED
    BY <2>1, <2>2, <2>5, <2>6, <2>7, <2>8
<1>4. CASE ModelCloses
  <2>1. model = "running" /\ model_step = TotalSteps /\ stat' = Append(stat, CloseLine)
    BY <1>4 DEF ModelCloses
  <2>2. LastLine' = CloseLine
    BY <2>1, Appended, LineTypes
  <2>3. LastLine'.step \in Steps => LastLine'.step = model_step
    BY <2>1, <2>2, LineKinds
  <2> QED
    BY <1>4, <2>1, <2>3 DEF ModelCloses
<1>5. CASE ModelExits
  BY <1>5, SameLastLine DEF ModelExits
<1>6. CASE Start
  BY <1>6, SameLastLine DEF Start
<1>7. CASE Decide
  BY <1>7, SameLastLine DEF Decide, FreshRun, RestartRun, RunAgainFromStepZero, AllowedRestartStepDiff
<1>8. CASE RecordStart
  BY <1>8, SameLastLine DEF RecordStart
<1>9. CASE Launch
  BY <1>9, SameLastLine DEF Launch
<1>10. CASE RefreshStatus
  BY <1>10, SameLastLine DEF RefreshStatus
<1>11. CASE GetCurrentStep
  BY <1>11, LastLineType, SameLastLine DEF GetCurrentStep, ReadLastLine, NewLines, Truncated, ValidStep
<1>12. CASE Save
  BY <1>12, SameLastLine DEF Save, LoopGoesOn
<1>13. CASE CheckModelSuccess
  BY <1>13, SameLastLine DEF CheckModelSuccess, ReadLastLine, NewLines, Truncated, Successful
<1>14. CASE Interrupt
  BY <1>14, SameLastLine DEF Interrupt
<1>15. CASE UNCHANGED vars
  <2>1. UNCHANGED stat /\ UNCHANGED LastLine
    BY <1>15, SameLastLine
  <2> QED
    BY <1>15, <2>1
<1> QED
  BY <1>1, <1>2, <1>3, <1>4, <1>5, <1>6, <1>7, <1>8, <1>9, <1>10, <1>11, <1>12, <1>13, <1>14, <1>15 DEF Next, Model, Over

\* What a look at the log leaves: the reader is current, unless the log was replaced
\* by one of the same length.
ReadState ==
    \/ /\ last_line' = LastLine
       /\ Current'
    \/ /\ last_offset' = replaced /\ replaced = Len(stat)

\* A look at the log.
LEMMA ReadCurrent ==
    ASSUME TypeOK, ReaderInv, ReadLastLine, UNCHANGED stat
    PROVE  ReadState
<1> USE DEF TypeOK, ReaderInv, ReadLastLine, NewLines, Truncated
<1>1. last_offset' = Len(stat) /\ Len(stat) \in Nat /\ last_offset \in Nat
  OBVIOUS
<1>2. LastLine = IF Len(stat) = 0 THEN NoLine ELSE stat[Len(stat)]
  BY DEF LastLine
<1>3. CASE Current /\ last_offset = Len(stat)
  <2>1. last_line' = last_line
    BY <1>1, <1>3
  <2> QED
    BY <1>1, <1>2, <1>3, <2>1 DEF Current, ReadState
<1>4. CASE last_offset # Len(stat)
  <2>1. last_line' = LastLine
    BY <1>1, <1>2, <1>4
  <2> QED
    BY <1>1, <1>2, <2>1 DEF Current, ReadState
<1>5. CASE ~Current /\ last_offset = Len(stat)
  BY <1>1, <1>5 DEF ReadState
<1> QED
  BY <1>3, <1>4, <1>5

\* The reader of the log knows its last line, or that it was replaced.
LEMMA ReaderStep ==
    ASSUME TypeOK, ControlInv, ReaderInv, [Next]_vars
    PROVE  ReaderInv'
<1> USE StepsAssumption, LagAssumption, BoundsAssumption DEF TypeOK, vars, slot, child, control, reader, Steps, ControlInv, ReaderInv, Current, Live, Starting, Looking
<1>1. CASE ModelOpensLog
  BY <1>1, Opened, LineKinds DEF ModelOpensLog
<1>2. CASE ModelWritesRestart
  BY <1>2, SameLastLine DEF ModelWritesRestart, RestartDue
<1>3. CASE ModelLogsStep
  BY <1>3, Appended, LineTypes, LineKinds DEF ModelLogsStep, RestartDue, RecordedStep
<1>4. CASE ModelCloses
  BY <1>4, Appended, LineTypes, LineKinds DEF ModelCloses
<1>5. CASE ModelExits
  BY <1>5, SameLastLine DEF ModelExits
<1>6. CASE Start
  BY <1>6, LineKinds, SameLastLine DEF Start
<1>7. CASE Decide
  BY <1>7, SameLastLine DEF Decide, FreshRun, RestartRun, RunAgainFromStepZero, AllowedRestartStepDiff
<1>8. CASE RecordStart
  BY <1>8, SameLastLine DEF RecordStart
<1>9. CASE Launch
  BY <1>9, SameLastLine, LineKinds DEF Launch
<1>10. CASE RefreshStatus
  BY <1>10, SameLastLine DEF RefreshStatus
<1>11. CASE GetCurrentStep
  <2>1. /\ pc = "read" /\ pc' = "save" /\ ReadLastLine /\ UNCHANGED <<stat, replaced>>
        /\ observed' = IF NewLines /\ LastLine.step \in Steps THEN LastLine.step
                                                             ELSE last_completed
    BY <1>11 DEF GetCurrentStep, ValidStep
  <2>2. ReadState
    BY <2>1, ReadCurrent
  <2>3. UNCHANGED LastLine
    BY <2>1, SameLastLine
  <2>4. Current' \/ last_offset' = replaced'
    BY <2>1, <2>2 DEF ReadState
  <2>5. last_line'.step \in Steps => observed' = last_line'.step
    <3>1. CASE NewLines
      BY <2>1, <3>1 DEF ReadLastLine
    <3>2. CASE ~NewLines /\ Truncated
      BY <2>1, <3>2, LineKinds DEF ReadLastLine
    <3>3. CASE ~NewLines /\ ~Truncated
      <4>1. last_line' = last_line /\ observed' = last_completed
        BY <2>1, <3>3 DEF ReadLastLine
      <4> QED
        BY <2>1, <4>1
    <3> QED
      BY <3>1, <3>2, <3>3
  <2>6. Len(stat') # replaced' => last_line' = LastLine'
    BY <2>1, <2>2, <2>3 DEF ReadState
  <2> QED
    BY <2>1, <2>4, <2>5, <2>6
<1>12. CASE Save
  BY <1>12, SameLastLine DEF Save, LoopGoesOn
<1>13. CASE CheckModelSuccess
  <2>1. /\ pc' = "done" /\ ReadLastLine /\ UNCHANGED <<stat, replaced>>
        /\ success' = (last_line'.word = "CNT0")
    BY <1>13 DEF CheckModelSuccess, Successful
  <2>2. ReadState /\ UNCHANGED LastLine
    BY <2>1, ReadCurrent, SameLastLine
  <2> QED
    BY <2>1, <2>2 DEF ReadState
<1>14. CASE Interrupt
  BY <1>14, SameLastLine DEF Interrupt
<1>15. CASE UNCHANGED vars
  <2>1. UNCHANGED stat /\ UNCHANGED LastLine
    BY <1>15, SameLastLine
  <2> QED
    BY <1>15, <2>1
<1> QED
  BY <1>1, <1>2, <1>3, <1>4, <1>5, <1>6, <1>7, <1>8, <1>9, <1>10, <1>11, <1>12, <1>13, <1>14, <1>15 DEF Next, Model, Over

-----------------------------------------------------------------------------
(* The properties.                                                         *)

\* The progress file and the restart file always agree well enough for a start.
LEMMA StartStep ==
    ASSUME IInv, [Next]_vars
    PROVE  StartNotRefused'
<1> USE StepsAssumption, LagAssumption DEF IInv, TypeOK, Steps, StartNotRefused
<1>1. CASE Decide
  <2>1. SUFFICES FreshRun \/ RestartRun \/ RunAgainFromStepZero
    BY <1>1 DEF Decide
  <2>2. CASE progress = Missing
    BY <2>2 DEF ControlInv, FreshRun
  <2>3. CASE progress # Missing /\ rcf = Missing
    BY <2>3 DEF LagInv, Within, RunAgainFromStepZero
  <2>4. CASE progress # Missing /\ rcf # Missing
    BY <2>4 DEF LagInv, Within, RestartRun, AllowedRestartStepDiff
  <2> QED
    BY <2>2, <2>3, <2>4
<1>2. CASE Model
  BY <1>2 DEF Model, ModelOpensLog, ModelWritesRestart, ModelLogsStep, ModelCloses,
              ModelExits, control
<1>3. CASE Start \/ RecordStart \/ Launch \/ RefreshStatus \/ GetCurrentStep \/ Save
           \/ CheckModelSuccess \/ Interrupt
  BY <1>3 DEF Start, RecordStart, Launch, RefreshStatus, GetCurrentStep, Save,
              CheckModelSuccess, Interrupt
<1>4. CASE UNCHANGED vars
  BY <1>4 DEF vars, control
<1> QED
  BY <1>1, <1>2, <1>3, <1>4 DEF Next, Over

\* The step that ends the loop has dealt with the last line of the log.
LEMMA EndStep ==
    ASSUME IInv, [Next]_vars
    PROVE  LogReadToEnd'
<1> USE DEF IInv, TypeOK, LogReadToEnd
<1>1. CASE Save
  <2>1. SUFFICES ASSUME pc' = "final", Len(stat') # replaced', LastLine'.step \in Steps
                 PROVE  last_completed' = LastLine'.step
    OBVIOUS
  <2>2. /\ pc = "save" /\ child_gone /\ UNCHANGED <<stat, replaced>>
        /\ last_completed' = observed
    BY <1>1, <2>1 DEF Save, LoopGoesOn
  <2>3. UNCHANGED LastLine
    BY <2>2, SameLastLine
  <2>4. last_line = LastLine /\ last_line.step \in Steps
    BY <2>1, <2>2, <2>3 DEF ReaderInv
  <2> QED
    BY <2>2, <2>3, <2>4 DEF ReaderInv
<1>2. CASE Model
  <2>1. SUFFICES ASSUME pc' = "final"
                 PROVE  UNCHANGED <<stat, replaced, last_completed, pc>>
    BY SameLastLine
  <2>2. pc = "final" /\ UNCHANGED last_completed
    BY <1>2, <2>1 DEF Model, ModelOpensLog, ModelWritesRestart, ModelLogsStep,
                      ModelCloses, ModelExits, control
  <2>3. model = "exited"
    BY <2>2 DEF ControlInv, Looking
  <2> QED
    BY <1>2, <2>1, <2>2, <2>3 DEF Model, ModelOpensLog, ModelWritesRestart, ModelLogsStep,
                                  ModelCloses, ModelExits, Live
<1>3. CASE Start \/ Decide \/ RecordStart \/ Launch \/ RefreshStatus \/ GetCurrentStep
           \/ CheckModelSuccess \/ Interrupt
  BY <1>3 DEF Start, Decide, RecordStart, Launch, RefreshStatus, GetCurrentStep,
              CheckModelSuccess, Interrupt
<1>4. CASE UNCHANGED vars
  <2>1. UNCHANGED <<stat, replaced, last_completed, pc>>
    BY <1>4 DEF vars, slot, control
  <2> QED
    BY <2>1, SameLastLine
<1> QED
  BY <1>1, <1>2, <1>3, <1>4 DEF Next, Over

\* The invariant holds in the initial state.
LEMMA Initially == Init => IInv
<1> SUFFICES ASSUME Init
             PROVE  IInv
  OBVIOUS
<1> USE StepsAssumption, LagAssumption, BoundsAssumption DEF Init
<1>1. TypeOK
  <2>1. stat \in Seq(Lines) /\ Len(stat) = 0
    OBVIOUS
  <2>2. 0 \in Steps /\ TotalSteps + 2 \in Nat /\ 0 <= TotalSteps + 2
    BY DEF Steps
  <2>3. {child_gone, success} \subseteq BOOLEAN
    OBVIOUS
  <2>4. session \in 0 .. MaxSessions
    OBVIOUS
  <2>5. /\ Len(stat) <= TotalSteps + 2 /\ replaced \in 0 .. TotalSteps + 2
        /\ last_offset \in 0 .. TotalSteps + 2
    BY <2>1, <2>2
  <2>6. last_line \in Lines
    BY LineTypes
  <2> QED
    BY <2>1, <2>2, <2>3, <2>4, <2>5, <2>6 DEF TypeOK
<1>2. LastLine = NoLine
  BY DEF LastLine
<1>3. ControlInv
  BY DEF ControlInv, Starting, Looking, Live
<1>4. LogInv
  BY <1>2 DEF LogInv
<1>5. LagInv
  BY <1>2, LineKinds DEF LagInv, Within, Live
<1>6. ReaderInv
  BY DEF ReaderInv, Starting
<1>7. StartNotRefused /\ LogReadToEnd
  BY DEF StartNotRefused, LogReadToEnd
<1> QED
  BY <1>1, <1>3, <1>4, <1>5, <1>6, <1>7 DEF IInv

\* The invariant is inductive.
LEMMA Inductive == IInv /\ [Next]_vars => IInv'
<1> SUFFICES ASSUME IInv, [Next]_vars
             PROVE  IInv'
  OBVIOUS
<1>1. TypeOK /\ ControlInv /\ LogInv /\ LagInv /\ ReaderInv
  BY DEF IInv
<1>2. TypeOK' /\ ControlInv'
  BY <1>1, TypeStep, ControlStep
<1>3. LogInv' /\ LagInv' /\ ReaderInv'
  BY <1>1, LogStep, LagStep, ReaderStep
<1>4. StartNotRefused' /\ LogReadToEnd'
  BY StartStep, EndStep
<1> QED
  BY <1>2, <1>3, <1>4 DEF IInv

\* A log that was read to its end tells whether the model succeeded: only the closing
\* line of a model has the word that check_model_success() looks for.
LEMMA SuccessFromLine == IInv => SuccessTrue
<1> SUFFICES ASSUME IInv, pc = "done", Len(stat) # replaced
             PROVE  success <=> LastLine = CloseLine
  BY DEF SuccessTrue
<1>1. (success <=> last_line.word = "CNT0") /\ last_line = LastLine
  BY DEF IInv, ReaderInv
<1>2. LastLine.word = "CNT0" <=> LastLine = CloseLine
  BY LineKinds DEF IInv, LogInv
<1> QED
  BY <1>1, <1>2

\* TypeOK: every variable of the controller, the model and the slot has its type.
THEOREM TypeInvariant == Spec => []TypeOK
<1>1. IInv => TypeOK
  BY DEF IInv
<1> QED
  BY Initially, Inductive, <1>1, PTL DEF Spec

\* However often the controller is interrupted, control_start.cpp lets it go on.
THEOREM StartNotRefusedInvariant == Spec => []StartNotRefused
<1>1. IInv => StartNotRefused
  BY DEF IInv
<1> QED
  BY Initially, Inductive, <1>1, PTL DEF Spec

\* The main loop ends only once the last step in the log has been dealt with.
THEOREM LogReadToEndInvariant == Spec => []LogReadToEnd
<1>1. IInv => LogReadToEnd
  BY DEF IInv
<1> QED
  BY Initially, Inductive, <1>1, PTL DEF Spec

\* check_model_success() finds the model to have succeeded just if its log is closed.
THEOREM SuccessTrueInvariant == Spec => []SuccessTrue
<1> QED
  BY Initially, Inductive, SuccessFromLine, PTL DEF Spec

-----------------------------------------------------------------------------
(* The last step.                                                          *)

\* The first log of a task is that of the model of the present session, and while it
\* is closed and not read the loop has come near the end of the run.
ClosedInv ==
    /\ session = 0 => model = "none" /\ stat = <<>> /\ pc = "down" /\ last_offset = 0
    /\ session = 1 =>
          /\ pc \in Starting => model = "none"
          /\ model \in {"none", "starting"} => stat = <<>> /\ last_offset = 0
          /\ replaced = 0
          /\ model = "exited" /\ LastLine = CloseLine =>
                /\ TotalSteps <= progress + MaxLag
                /\ pc = "save" => TotalSteps <= observed + MaxLag
    /\ pc = "final" => last_completed = progress

LEMMA ClosedStep ==
    ASSUME IInv, ClosedInv, [Next]_vars
    PROVE  ClosedInv'
<1>1. TypeOK /\ ControlInv /\ LogInv /\ LagInv
  BY DEF IInv
<1>2. progress \in Int /\ observed \in Int /\ TotalSteps \in Int /\ session \in Nat
  BY <1>1, StepsAssumption, BoundsAssumption DEF TypeOK, Steps
<1> USE LagAssumption DEF ClosedInv, vars, slot, child, control, reader, Starting
<1>3. CASE ModelOpensLog
  BY <1>3 DEF ModelOpensLog
<1>4. CASE ModelWritesRestart
  BY <1>4 DEF ModelWritesRestart
<1>5. CASE ModelLogsStep
  BY <1>5 DEF ModelLogsStep
<1>6. CASE ModelCloses
  BY <1>6 DEF ModelCloses
<1>7. CASE ModelExits
  <2>1. /\ Live /\ model' = "exited"
        /\ UNCHANGED <<slot, model_step, control, replaced, LastLine>>
    BY <1>7, SameLastLine DEF ModelExits
  <2>2. CASE session = 1 /\ LastLine = CloseLine
    <3>1. stat # <<>>
      BY <2>2, LineKinds DEF LastLine
    <3>2. model = "running"
      BY <2>1, <2>2, <3>1 DEF Live
    <3>3. model_step = TotalSteps /\ progress # Missing
      BY <1>1, <2>2, <3>2 DEF LogInv, ControlInv
    <3>4. TotalSteps <= progress + MaxLag /\ (pc = "save" => TotalSteps <= observed + MaxLag)
      BY <1>1, <2>1, <3>3 DEF LagInv, Within
    <3>5. ~(pc \in Starting)
      BY <2>2, <3>2
    <3> QED
      BY <2>1, <2>2, <3>4, <3>5
  <2>3. CASE ~(session = 1 /\ LastLine = CloseLine)
    <3>1. session # 0 /\ pc \notin Starting
      BY <1>1, <2>1 DEF Live, ControlInv
    <3> QED
      BY <2>1, <2>3, <3>1
  <2> QED
    BY <2>2, <2>3
<1>8. CASE Start
  BY <1>2, <1>8, LineKinds DEF Start, LastLine
<1>9. CASE Decide
  BY <1>9, SameLastLine DEF Decide
<1>10. CASE RecordStart
  <2>1. session = 1 => model = "none"
    BY <1>10 DEF RecordStart
  <2> QED
    BY <1>10, <2>1 DEF RecordStart
<1>11. CASE Launch
  BY <1>11 DEF Launch
<1>12. CASE RefreshStatus
  BY <1>12, SameLastLine DEF RefreshStatus
<1>13. CASE GetCurrentStep
  <2>1. /\ pc = "read" /\ pc' = "save"
        /\ UNCHANGED <<slot, child, last_completed, session, LastLine>>
    BY <1>13, SameLastLine DEF GetCurrentStep
  <2>2. \/ observed' = LastLine.step /\ LastLine.step \in Steps
        \/ observed' = progress
    BY <1>1, <1>13, <2>1 DEF GetCurrentStep, ControlInv, ValidStep
  <2>3. LastLine = CloseLine => observed' \in {TotalSteps, progress}
    BY <2>2, LineKinds
  <2>4. stat = <<>> => last_offset' = 0
    BY <1>13 DEF GetCurrentStep, ReadLastLine
  <2>5. UNCHANGED replaced
    BY <1>13 DEF GetCurrentStep
  <2> QED
    BY <1>2, <2>1, <2>3, <2>4, <2>5
<1>14. CASE Save
  BY <1>14, SameLastLine DEF Save
<1>15. CASE CheckModelSuccess
  <2>1. model = "exited"
    BY <1>1, <1>15 DEF CheckModelSuccess, ControlInv, Looking
  <2> QED
    BY <1>15, <2>1, SameLastLine DEF CheckModelSuccess
<1>16. CASE Interrupt
  <2>1. session # 0
    BY <1>16 DEF Interrupt
  <2> QED
    BY <1>16, <2>1, SameLastLine DEF Interrupt
<1>17. CASE UNCHANGED vars
  BY <1>17, SameLastLine
<1> QED
  BY <1>3, <1>4, <1>5, <1>6, <1>7, <1>8, <1>9, <1>10, <1>11, <1>12, <1>13, <1>14, <1>15, <1>16,
     <1>17 DEF Next, Model, Over

\* What is left of LastStepSeen when the closing line hides the last step: no more
\* steps are missed than the log can be ahead of the progress file.
LastStepNearlySeen ==
    (pc = "final" /\ session = 1 /\ LastLine = CloseLine)
        => TotalSteps <= last_completed + MaxLag

THEOREM LastStepNearlySeenInvariant == Spec => []LastStepNearlySeen
<1>1. Init => ClosedInv
  BY DEF Init, ClosedInv, Starting
<1>2. IInv /\ ClosedInv => LastStepNearlySeen
  BY DEF IInv, ControlInv, Looking, ClosedInv, LastStepNearlySeen
<1>3. IInv /\ ClosedInv /\ [Next]_vars => ClosedInv'
  BY ClosedStep
<1> QED
  BY Initially, Inductive, <1>1, <1>2, <1>3, PTL DEF Spec

\* It is the number in the closing line that hides it: when the closing line carries
\* the last step, the last step of a model that completes is dealt with.
THEOREM LastStepSeenInvariant ==
    CloseStep = TotalSteps => (Spec => []LastStepSeen)
<1> SUFFICES ASSUME CloseStep = TotalSteps
             PROVE  Spec => []LastStepSeen
  OBVIOUS
<1>1. Init => ClosedInv
  BY DEF Init, ClosedInv, Starting
<1>2. IInv /\ ClosedInv => LastStepSeen
  <2> SUFFICES ASSUME IInv, ClosedInv, pc = "final", session = 1, LastLine = CloseLine
               PROVE  last_completed = TotalSteps
    BY DEF LastStepSeen
  <2>1. LastLine.step = TotalSteps /\ TotalSteps \in Steps
    BY StepsAssumption DEF CloseLine, Steps
  <2>2. stat # <<>> /\ stat \in Seq(Lines)
    BY LineKinds DEF LastLine, IInv, TypeOK
  <2>3. Len(stat) # replaced
    BY <2>2 DEF ClosedInv
  <2> QED
    BY <2>1, <2>3 DEF IInv, LogReadToEnd
<1>3. IInv /\ ClosedInv /\ [Next]_vars => ClosedInv'
  BY ClosedStep
<1> QED
  BY Initially, Inductive, <1>1, <1>2, <1>3, PTL DEF Spec

=============================================================================
