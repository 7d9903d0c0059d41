--------------------------- MODULE ReportsProofs ---------------------------
(***************************************************************************)
(* Theorems about Reports, for any length of the run, number of cores and  *)
(* amount of CPU time: what is counted is what was used, what is reported  *)
(* of the last checkpoint is at most twice that, and a fraction fits its   *)
(* step.                                                                   *)
(***************************************************************************)
EXTENDS Reports, TLAPS

Loop == {"wait", "check", "save", "report"}

Starting == {"record", "launch"}

\* What the processes of the sessions so far can have used.
Budget(sessions) == sessions * MaxCpu

\* The CPU time used, and when a model runs.
UsedInv ==
    /\ spent + child_cpu <= Budget(session)
    /\ pc \in Starting => spent + child_cpu <= Budget(session - 1)
    /\ proc = "running" => spent <= Budget(session - 1)
    /\ pc \in Starting \cup {"down"} => proc # "running"
    /\ pc # "down" => session > 0

\* The CPU time counted.  That carried over is of earlier processes; the present one is
\* counted on top of it, and the progress file is never ahead.
CountedInv ==
    /\ progress.cpu <= spent + child_cpu
    /\ pc \in Starting \cup Loop =>
          prior <= current /\ current <= spent + child_cpu /\ progress.cpu <= current
    /\ pc \in Starting => prior = current
    /\ pc \in Loop => prior <= spent /\ current <= prior + child_cpu

CpuInv == TypeOK /\ UsedInv /\ CountedInv

-----------------------------------------------------------------------------
(* Arithmetic.                                                             *)

\* Budgets grow by MaxCpu with each session, up to the bound of CpuTimes.
LEMMA Budgets ==
    /\ \A s \in Nat : Budget(s) \in Nat /\ Budget(s + 1) = Budget(s) + MaxCpu
    /\ \A s \in 0 .. MaxSessions : Budget(s) <= MaxCpu * MaxSessions
    /\ Budget(0) = 0
    /\ MaxCpu * MaxSessions \in Nat
  BY BoundsAssumption DEF Budget

\* The last restart step before a step.
LEMMA RestartBefore ==
    ASSUME NEW step \in Nat
    PROVE  step % RestartInterval \in Nat
  BY StepsAssumption

\* The fraction is between 0 and 1, whatever the heartbeat.
LEMMA FractionRange ==
    ASSUME NEW step \in Steps, NEW beat \in Int
    PROVE  Fraction(step, beat) \in 0 .. Complete
  BY StepsAssumption DEF Fraction, Complete, AlmostComplete, OneStep, Steps

LEMMA BeatInteger ==
    ASSUME NEW beat \in Int
    PROVE  Beat(beat) \in Int
  BY StepsAssumption, CoresAssumption DEF Beat, OneStep, HeartbeatInc, Thousandth

\* The heartbeat of a look at a step: never beyond the next.
Beats == {beat \in Int : beat <= OneStep}

LEMMA BeatInBounds ==
    ASSUME NEW beat \in Beats
    PROVE  Beat(beat) \in Beats
<1>1. HeartbeatInc \in Nat /\ OneStep \in Nat /\ Thousandth \in Nat
  BY StepsAssumption, CoresAssumption DEF HeartbeatInc, OneStep, Thousandth
<1>2. beat \in Int
  BY DEF Beats
<1>3. CASE beat + HeartbeatInc > OneStep
  <2>1. Beat(beat) = OneStep - Thousandth
    BY <1>3 DEF Beat
  <2> QED
    BY <1>1, <2>1 DEF Beats
<1>4. CASE ~(beat + HeartbeatInc > OneStep)
  <2>1. Beat(beat) = beat + HeartbeatInc
    BY <1>4 DEF Beat
  <2> QED
    BY <1>1, <1>2, <1>4, <2>1 DEF Beats
<1> QED
  BY <1>3, <1>4

\* The fraction of such a heartbeat is at most that of the next step.
LEMMA FractionWithinStep ==
    ASSUME NEW step \in Steps, NEW beat \in Beats
    PROVE  Fraction(step, beat) <= (step + 1) * OneStep
<1>1. /\ step \in Int /\ 0 <= step /\ step <= TotalSteps /\ TotalSteps \in Int
      /\ beat \in Int /\ beat <= 70000
  BY StepsAssumption DEF Steps, OneStep, Beats
<1> DEFINE f == step * 70000 + beat
<1>2. f \in Int /\ f <= (step + 1) * 70000
  BY <1>1
<1>3. AlmostComplete \in Int /\ Complete \in Int /\ AlmostComplete <= Complete
  BY <1>1 DEF AlmostComplete, Complete
<1>4. Fraction(step, beat) = IF f < 0 THEN 0 ELSE IF f > Complete THEN AlmostComplete ELSE f
  BY DEF Fraction, OneStep
<1> QED
  BY <1>1, <1>2, <1>3, <1>4 DEF OneStep

\* A step seen for the first time is shown as what it is.
LEMMA FractionOfStep ==
    ASSUME NEW step \in Steps
    PROVE  Fraction(step, 0) = step * OneStep
<1>1. step \in Int /\ 0 <= step /\ step <= TotalSteps /\ TotalSteps \in Int
  BY StepsAssumption DEF Steps
<1> DEFINE f == step * 70000
<1>2. f \in Int /\ 0 <= f /\ f <= 70000 * TotalSteps
  BY <1>1
<1>3. Fraction(step, 0) =
        IF f + 0 < 0 THEN 0 ELSE IF f + 0 > Complete THEN AlmostComplete ELSE f + 0
  BY DEF Fraction, OneStep
<1>4. Complete \in Int /\ f <= Complete
  BY <1>1, <1>2 DEF Complete
<1>5. f = step * OneStep
  BY DEF OneStep
<1> HIDE DEF f
<1> QED
  BY <1>2, <1>3, <1>4, <1>5

-----------------------------------------------------------------------------
(* CPU time.                                                               *)

LEMMA CpuInitially == Init => CpuInv
<1> SUFFICES ASSUME Init
             PROVE  CpuInv
  OBVIOUS
<1> USE StepsAssumption, BoundsAssumption, Budgets DEF Init
<1>1. 0 \in CpuTimes /\ 0 \in Steps
  BY DEF CpuTimes, Steps
<1>2. progress.cpu = -1
  BY DEF Missing
<1>3. TypeOK
  <2>1. /\ progress \in [cpu : CpuTimes, step : Steps] \cup {Missing}
        /\ proc \in {"none", "running", "exited", "gone"}
        /\ pc \in {"down", "record", "launch", "wait", "check", "save", "report", "over"}
        /\ child_gone \in BOOLEAN /\ stepm1 \in Steps \cup {-1}
        /\ report \in [cpu : CpuTimes, checkpoint : Nat, step : Steps,
                         fraction : 0 .. Complete] \cup {NoReport}
    OBVIOUS
  <2>2. /\ restart \in Steps /\ log \in Steps /\ model_step \in Steps
        /\ current_step \in Steps /\ last_completed \in Steps
        /\ prior \in CpuTimes /\ current \in CpuTimes /\ restart_cpu \in CpuTimes
        /\ spent \in CpuTimes
    BY <1>1
  <2>3. child_cpu \in 0 .. MaxCpu /\ session \in 0 .. MaxSessions /\ heartbeat \in Int
    OBVIOUS
  <2> QED
    BY <2>1, <2>2, <2>3 DEF TypeOK
<1>4. UsedInv
  BY DEF UsedInv, Starting
<1>5. CountedInv
  BY <1>2 DEF CountedInv, Starting, Loop
<1> QED
  BY <1>3, <1>4, <1>5 DEF CpuInv

\* The types of what most steps deal with, as numbers.
LEMMA Numbers ==
    ASSUME CpuInv
    PROVE  /\ session \in Nat /\ session <= MaxSessions
           /\ spent \in Nat /\ child_cpu \in Nat /\ child_cpu <= MaxCpu
           /\ prior \in Nat /\ current \in Nat /\ restart_cpu \in Nat
           /\ progress.cpu \in Int /\ progress.cpu >= -1
           /\ progress # Missing => progress.cpu \in CpuTimes /\ progress.step \in Steps
           /\ \A n \in Nat : n <= MaxCpu * MaxSessions => n \in CpuTimes
           /\ Budget(session) <= MaxCpu * MaxSessions
<1> USE BoundsAssumption, Budgets DEF CpuInv, TypeOK, CpuTimes
<1>1. progress = Missing => progress.cpu = -1
  BY DEF Missing
<1> QED
  BY <1>1

\* Steps that leave all that is counted and used alone.
LEMMA CountUnchanged ==
    ASSUME CpuInv, TypeOK',
           UNCHANGED <<progress, spent, child_cpu, prior, current, session>>,
           \/ UNCHANGED pc \/ (pc \in Loop /\ pc' \in Loop \cup {"over", "down"})
           \/ (pc # "down" /\ pc' = "down"),
           proc' = "running" => proc = "running",
           pc' = "down" => proc' # "running"
    PROVE  CpuInv'
<1>1. UsedInv'
  BY DEF CpuInv, UsedInv, Starting, Loop
<1>2. CountedInv'
  BY DEF CpuInv, CountedInv, Starting, Loop
<1> QED
  BY <1>1, <1>2 DEF CpuInv

LEMMA CpuStep == CpuInv /\ [Next]_vars => CpuInv'
<1> SUFFICES ASSUME CpuInv, [Next]_vars
             PROVE  CpuInv'
  OBVIOUS
<1> USE StepsAssumption, BoundsAssumption, Numbers
<1>1. TypeOK /\ UsedInv /\ CountedInv
  BY DEF CpuInv
<1>2. CASE ModelComputes
  <2>1. /\ proc = "running" /\ child_cpu' = child_cpu + 1 /\ child_cpu < MaxCpu
        /\ UNCHANGED <<slot, proc, model_step, spent, pc, times, steps, fraction, session,
                       report>>
    BY <1>2 DEF ModelComputes
  <2>2. TypeOK'
    BY <1>1, <2>1 DEF TypeOK, slot, times, steps, fraction
  <2>3. spent <= Budget(session - 1) /\ session > 0 /\ pc \notin Starting \cup {"down"}
    BY <1>1, <2>1 DEF UsedInv
  <2>4. Budget(session) = Budget(session - 1) + MaxCpu /\ Budget(session - 1) \in Nat
    <3>1. session - 1 \in Nat /\ (session - 1) + 1 = session
      BY <2>3
    <3> QED
      BY <3>1, Budgets
  <2>5. UsedInv'
    BY <1>1, <2>1, <2>3, <2>4 DEF UsedInv
  <2>6. CountedInv'
    BY <1>1, <2>1 DEF CountedInv, slot, times
  <2> QED
    BY <2>2, <2>5, <2>6 DEF CpuInv
<1>3. CASE ModelLogs
  <2>1. PICK step \in SeenSteps :
            /\ step > model_step /\ model_step' = step /\ log' = step
            /\ restart' \in {restart, step - (step % RestartInterval)}
            /\ restart' >= restart
    BY <1>3 DEF ModelLogs
  <2>2. UNCHANGED <<progress, proc, child_cpu, spent, pc, times, steps, fraction,
                    session, report>>
    BY <1>3 DEF ModelLogs
  <2>3. step \in Steps /\ step \in Nat
    BY DEF Steps
  <2>4. restart' \in Steps
    <3>1. restart \in Nat /\ restart <= TotalSteps
      BY <1>1 DEF TypeOK, Steps
    <3>2. step - (step % RestartInterval) \in Int /\ step - (step % RestartInterval) <= step
      BY <2>3, RestartBefore
    <3> QED
      BY <2>1, <2>3, <3>1, <3>2 DEF Steps
  <2>5. TypeOK'
    BY <1>1, <2>1, <2>2, <2>3, <2>4 DEF TypeOK, times, steps, fraction
  <2> QED
    BY <1>1, <2>2, <2>5, CountUnchanged DEF times, UsedInv
<1>4. CASE ModelExit
  <2>1. TypeOK'
    BY <1>1, <1>4 DEF ModelExit, TypeOK, slot, times, steps, fraction
  <2> QED
    BY <1>4, <2>1, CountUnchanged DEF ModelExit, slot, times
<1>5. ASSUME NewProcess, NEW cpu \in CpuTimes, NEW step \in Steps, PrepareTaskState(cpu, step),
             progress.cpu <= cpu, cpu <= spent + child_cpu, pc' = "record"
      PROVE  CpuInv'
  <2>1. /\ pc = "down" /\ session < MaxSessions /\ session' = session + 1
        /\ UNCHANGED <<slot, child, report>>
        /\ restart_cpu' = 0 /\ child_gone' = FALSE /\ stepm1' = -1 /\ heartbeat' = 0
    BY <1>5 DEF NewProcess
  <2>2. prior' = cpu /\ current' = cpu /\ last_completed' = step /\ current_step' = step
    BY <1>5 DEF PrepareTaskState
  <2>3. 0 \in CpuTimes /\ cpu \in Nat
    BY DEF CpuTimes
  <2>4. TypeOK'
    <3>1. /\ session' \in 0 .. MaxSessions /\ heartbeat' \in Int
          /\ stepm1' \in Steps \cup {-1}
      BY <2>1
    <3>5. child_gone' \in BOOLEAN
      BY <2>1
    <3>2. /\ prior' \in CpuTimes /\ current' \in CpuTimes /\ restart_cpu' \in CpuTimes
          /\ current_step' \in Steps /\ last_completed' \in Steps
      BY <1>1, <1>5, <2>1, <2>2, <2>3 DEF TypeOK
    <3>3. pc' \in {"down", "record", "launch", "wait", "check", "save", "report", "over"}
      BY <1>5
    <3>4. UNCHANGED <<slot, child, report>>
      BY <2>1
    <3> QED
      BY <1>1, <3>1, <3>2, <3>3, <3>4, <3>5 DEF TypeOK, slot, child
  <2>5. Budget(session') = Budget(session) + MaxCpu /\ Budget(session) \in Nat
        /\ session' - 1 = session
    BY <2>1, Budgets
  <2>6. UsedInv'
    BY <1>1, <1>5, <2>1, <2>5 DEF UsedInv, child, Starting
  <2>7. CountedInv'
    BY <1>1, <1>5, <2>1, <2>2, <2>3 DEF CountedInv, slot, child, Starting, Loop
  <2> QED
    BY <2>4, <2>6, <2>7 DEF CpuInv
<1>6. CASE FreshRun
  <2>1. 0 \in CpuTimes /\ 0 \in Steps /\ progress.cpu = -1
    BY <1>6 DEF CpuTimes, Steps, FreshRun, Missing
  <2> QED
    BY <1>5, <1>6, <2>1 DEF FreshRun
<1>7. CASE RestartRun
  <2>1. progress.cpu \in CpuTimes /\ progress.cpu <= progress.cpu
    BY <1>7 DEF RestartRun
  <2>2. restart \in Steps /\ progress.cpu <= spent + child_cpu
    BY <1>1 DEF TypeOK, CountedInv
  <2> QED
    BY <1>5, <1>7, <2>1, <2>2 DEF RestartRun
<1>8. CASE RunAgainFromStepZero
  <2>1. progress.cpu \in CpuTimes /\ progress.step \in Steps /\ progress.cpu <= progress.cpu
    BY <1>8 DEF RunAgainFromStepZero
  <2>2. progress.cpu <= spent + child_cpu
    BY <1>1 DEF CountedInv
  <2> QED
    BY <1>5, <1>8, <2>1, <2>2 DEF RunAgainFromStepZero
<1>9. CASE Refuse
  <2>1. /\ pc = "down" /\ pc' = "over" /\ session < MaxSessions /\ session' = session + 1
        /\ UNCHANGED <<slot, child, report, prior, current, last_completed, current_step>>
        /\ restart_cpu' = 0 /\ child_gone' = FALSE /\ stepm1' = -1 /\ heartbeat' = 0
    BY <1>9 DEF Refuse, NewProcess
  <2>2. 0 \in CpuTimes
    BY DEF CpuTimes
  <2>3. TypeOK'
    <3>1. /\ session' \in 0 .. MaxSessions /\ heartbeat' \in Int
          /\ stepm1' \in Steps \cup {-1}
      BY <2>1
    <3>5. child_gone' \in BOOLEAN
      BY <2>1
    <3>2. /\ prior' \in CpuTimes /\ current' \in CpuTimes /\ restart_cpu' \in CpuTimes
          /\ current_step' \in Steps /\ last_completed' \in Steps
      BY <1>1, <2>1, <2>2 DEF TypeOK
    <3>3. pc' \in {"down", "record", "launch", "wait", "check", "save", "report", "over"}
      BY <2>1
    <3>4. UNCHANGED <<slot, child, report>>
      BY <2>1
    <3> QED
      BY <1>1, <3>1, <3>2, <3>3, <3>4, <3>5 DEF TypeOK, slot, child
  <2>4. Budget(session') = Budget(session) + MaxCpu /\ Budget(session) \in Nat
    BY <2>1, Budgets
  <2>5. UsedInv'
    BY <1>1, <2>1, <2>4 DEF UsedInv, child, Starting
  <2>6. CountedInv'
    BY <1>1, <2>1 DEF CountedInv, slot, child, Starting, Loop
  <2> QED
    BY <2>3, <2>5, <2>6 DEF CpuInv
<1>10. ASSUME pc = "record" \/ pc = "save", progress' = Stored,
              pc' = IF pc = "record" THEN "launch" ELSE "report",
              UNCHANGED <<restart, log, child, times, steps, fraction, session, report>>
       PROVE  CpuInv'
  <2>1. Stored \in [cpu : CpuTimes, step : Steps]
    BY <1>1 DEF TypeOK, Stored
  <2>2. progress'.cpu = current
    BY <1>10 DEF Stored
  <2>3. TypeOK'
    BY <1>1, <1>10, <2>1 DEF TypeOK, child, times, steps, fraction
  <2>4. UsedInv'
    BY <1>1, <1>10 DEF UsedInv, child, Starting
  <2>5. CountedInv'
    BY <1>1, <1>10, <2>2 DEF CountedInv, child, times, Starting, Loop
  <2> QED
    BY <2>3, <2>4, <2>5 DEF CpuInv
<1>11. CASE RecordStart
  BY <1>10, <1>11 DEF RecordStart
<1>12. CASE Save
  BY <1>10, <1>12 DEF Save
<1>13. CASE Launch
  <2>1. /\ pc = "launch" /\ pc' = "wait" /\ spent' = spent + child_cpu
        /\ proc' = "running" /\ child_cpu' = 0 /\ model_step' = restart
        /\ UNCHANGED <<slot, times, steps, fraction, session, report>>
    BY <1>13 DEF Launch
  <2>2. /\ session > 0 /\ spent' <= Budget(session - 1) /\ spent' \in Nat
        /\ Budget(session) = Budget(session - 1) + MaxCpu /\ Budget(session - 1) \in Nat
    <3>1. session > 0 /\ spent' <= Budget(session - 1)
      BY <1>1, <2>1 DEF UsedInv, Starting
    <3>2. session - 1 \in Nat /\ (session - 1) + 1 = session
      BY <3>1
    <3>3. /\ Budget(session - 1) \in Nat
          /\ Budget((session - 1) + 1) = Budget(session - 1) + MaxCpu
      BY <3>2, Budgets
    <3>4. Budget(session) = Budget(session - 1) + MaxCpu
      BY <3>2, <3>3
    <3>5. spent' \in Nat
      BY <2>1
    <3> QED
      BY <3>1, <3>3, <3>4, <3>5
  <2>3. TypeOK'
    <3>1. spent' \in CpuTimes
      BY <2>2
    <3> QED
      BY <1>1, <2>1, <3>1 DEF TypeOK, slot, times, steps, fraction
  <2>4. UsedInv'
    BY <1>1, <2>1, <2>2 DEF UsedInv, Starting
  <2>5. CountedInv'
    BY <1>1, <2>1, <2>2 DEF CountedInv, slot, times, Starting, Loop
  <2> QED
    BY <2>3, <2>4, <2>5 DEF CpuInv
<1>14. CASE Refresh
  <2>1. /\ pc = "wait" /\ pc' = "check" /\ current' \in {current, prior + child_cpu}
        /\ UNCHANGED <<slot, child, prior, restart_cpu, steps, fraction, session, report>>
    BY <1>14 DEF Refresh
  <2>2. /\ prior <= spent /\ current <= prior + child_cpu /\ prior <= current
        /\ spent + child_cpu <= MaxCpu * MaxSessions
    <3>1. spent + child_cpu <= Budget(session)
      BY <1>1 DEF UsedInv
    <3> QED
      BY <1>1, <2>1, <3>1, Budgets DEF CountedInv, Loop
  <2>3. current' \in CpuTimes
    BY <2>1, <2>2, Budgets
  <2>4. TypeOK'
    BY <1>1, <2>1, <2>3 DEF TypeOK, slot, child, steps, fraction
  <2>5. UsedInv'
    BY <1>1, <2>1 DEF UsedInv, child, Starting
  <2>6. CountedInv'
    BY <1>1, <2>1, <2>2 DEF CountedInv, slot, child, Starting, Loop
  <2> QED
    BY <2>4, <2>5, <2>6 DEF CpuInv
<1>15. CASE CheckAndObserve
  <2>1. TypeOK'
    BY <1>1, <1>15 DEF CheckAndObserve, TypeOK, slot, times, fraction
  <2> QED
    BY <1>15, <2>1, CountUnchanged DEF CheckAndObserve, slot, times, Loop
<1>16. CASE Report
  <2>1. /\ pc = "report" /\ pc' \in {"over", "wait"}
        /\ restart_cpu' \in {current, restart_cpu}
        /\ UNCHANGED <<slot, child, prior, current, steps, session>>
    BY <1>16 DEF Report
  <2>2. heartbeat' \in Int /\ stepm1' \in Steps \cup {-1}
    BY <1>1, <1>16, BeatInteger DEF Report, UpdateFraction, TypeOK
  <2>3. FractionDone \in 0 .. Complete
    <3>1. current_step \in Steps
      BY <1>1 DEF TypeOK
    <3>2. (IF current_step > stepm1 THEN 0 ELSE heartbeat') \in Int
      BY <2>2
    <3> QED
      BY <3>1, <3>2, FractionRange DEF FractionDone
  <2>4. restart_cpu' + prior \in Nat
    BY <2>1
  <2>5. report' \in [cpu : CpuTimes, checkpoint : Nat, step : Steps, fraction : 0 .. Complete]
    BY <1>1, <1>16, <2>3, <2>4 DEF Report, TypeOK
  <2>6. TypeOK'
    BY <1>1, <2>1, <2>2, <2>5 DEF TypeOK, slot, child, steps
  <2> QED
    BY <2>1, <2>6, CountUnchanged DEF slot, child, Loop
<1>17. CASE Interrupt
  <2>1. TypeOK'
    BY <1>1, <1>17 DEF Interrupt, TypeOK, slot, times, steps, fraction
  <2> QED
    BY <1>17, <2>1, CountUnchanged DEF Interrupt, slot, times
<1>18. CASE UNCHANGED vars
  <2>1. TypeOK'
    BY <1>1, <1>18 DEF vars, TypeOK, slot, child, times, steps, fraction
  <2> QED
    BY <1>1, <1>18, <2>1, CountUnchanged DEF vars, slot, child, times, UsedInv
<1> QED
  BY <1>2, <1>3, <1>4, <1>6, <1>7, <1>8, <1>9, <1>11, <1>12, <1>13, <1>14, <1>15, <1>16,
     <1>17, <1>18 DEF Next, Start, Stopped

LEMMA CpuInvariant == Spec => []CpuInv
<1> QED
  BY CpuInitially, CpuStep, PTL DEF Spec

\* TypeOK: times stay within what all processes can use, and fractions within 0 and 1.
THEOREM TypeInvariant == Spec => []TypeOK
<1>1. CpuInv => TypeOK
  BY DEF CpuInv
<1> QED
  BY <1>1, CpuInvariant, PTL

\* No CPU time is claimed that the processes of the task have not used, over any number
\* of refreshes, failed starts and restarts.
THEOREM CpuNotOvercountedInvariant == Spec => []CpuNotOvercounted
<1>1. CpuInv => CpuNotOvercounted
  BY DEF CpuInv, CountedInv, CpuNotOvercounted, TypeOK, Starting, Loop
<1> QED
  BY <1>1, CpuInvariant, PTL

\* The CPU time in the progress file never goes back.
THEOREM RecordedCpuKeptTheorem == Spec => RecordedCpuKept
<1>1. CpuInv /\ [Next]_vars => [progress'.cpu >= progress.cpu]_vars
  <2> SUFFICES ASSUME CpuInv, [Next]_vars
               PROVE  progress'.cpu >= progress.cpu
    OBVIOUS
  <2>1. progress.cpu \in Int
    BY Numbers
  <2>2. CASE RecordStart \/ Save
    <3>1. progress'.cpu = current /\ pc \in Starting \cup Loop
      BY <2>2 DEF RecordStart, Save, Stored, Starting, Loop
    <3> QED
      BY <3>1 DEF CpuInv, CountedInv
  <2>3. CASE ~(RecordStart \/ Save)
    <3>1. UNCHANGED progress
      BY <2>3 DEF Next, vars, slot, child, Start, FreshRun, RestartRun, RunAgainFromStepZero,
                  Refuse, NewProcess, ModelComputes, ModelLogs, ModelExit, Launch, Refresh,
                  CheckAndObserve, Report, Interrupt, Stopped
    <3> QED
      BY <2>1, <3>1
  <2> QED
    BY <2>2, <2>3
<1> QED
  BY <1>1, CpuInvariant, PTL DEF Spec, RecordedCpuKept

-----------------------------------------------------------------------------
(* The CPU time at the last checkpoint.                                    *)

\* What CheckpointNotOvercounted leaves true, though the reported figure holds the
\* time carried over twice: it is right until the first restart, and never more than
\* twice the time used.
CheckpointWithinTwice ==
    /\ report.checkpoint <= 2 * (spent + child_cpu)
    /\ session <= 1 => CheckpointNotOvercounted

\* The time noted at a checkpoint is part of the time counted; nothing is carried over
\* into the first session.
NotedInv ==
    /\ pc \in Starting \cup Loop => restart_cpu <= current
    /\ session = 0 => progress = Missing
    /\ session <= 1 => prior = 0

CheckpointInv == NotedInv /\ CheckpointWithinTwice

LEMMA CheckpointStep == CpuInv /\ CheckpointInv /\ [Next]_vars => CheckpointInv'
<1> SUFFICES ASSUME CpuInv, CheckpointInv, [Next]_vars
             PROVE  CheckpointInv'
  OBVIOUS
<1> USE Numbers
<1>1. TypeOK /\ UsedInv /\ CountedInv
  BY DEF CpuInv
<1>2. report.checkpoint \in Nat
  BY <1>1 DEF TypeOK, NoReport
<1> USE DEF CheckpointInv, NotedInv, CheckpointWithinTwice, CheckpointNotOvercounted
<1>3. ASSUME UNCHANGED <<report, session, prior, restart_cpu>>,
             spent' + child_cpu' >= spent + child_cpu, spent' \in Nat, child_cpu' \in Nat,
             session = 0 => UNCHANGED progress,
             pc' \in Starting \cup Loop => pc \in Starting \cup Loop /\ current' >= current,
             current' \in Nat
      PROVE  CheckpointInv'
  BY <1>2, <1>3
<1>4. CASE ModelComputes \/ ModelLogs \/ ModelExit \/ Interrupt \/ UNCHANGED vars
  BY <1>3, <1>4 DEF ModelComputes, ModelLogs, ModelExit, Interrupt, vars, slot, child, times,
                    Starting, Loop
<1>5. ASSUME NEW cpu, NEW step, PrepareTaskState(cpu, step), NewProcess, pc' = "record",
             cpu \in Nat, session = 0 => cpu = 0
      PROVE  CheckpointInv'
  BY <1>2, <1>5 DEF PrepareTaskState, NewProcess, slot, child
<1>6. CASE Start
  <2>1. CASE FreshRun
    BY <1>5, <2>1 DEF FreshRun
  <2>2. CASE RestartRun
    BY <1>1, <1>5, <2>2 DEF RestartRun, CpuTimes
  <2>3. CASE RunAgainFromStepZero
    BY <1>1, <1>5, <2>3 DEF RunAgainFromStepZero, CpuTimes
  <2>4. CASE Refuse
    BY <1>2, <2>4 DEF Refuse, NewProcess, slot, child, Starting, Loop
  <2> QED
    BY <1>6, <2>1, <2>2, <2>3, <2>4 DEF Start
<1>7. CASE RecordStart \/ Save
  <2>1. session > 0
    BY <1>1, <1>7 DEF RecordStart, Save, UsedInv
  <2> QED
    BY <1>3, <1>7, <2>1 DEF RecordStart, Save, child, times, Starting, Loop
<1>8. CASE Launch
  BY <1>3, <1>8 DEF Launch, slot, times, Starting, Loop
<1>9. CASE Refresh
  <2>1. current <= prior + child_cpu /\ current' \in {current, prior + child_cpu}
    BY <1>1, <1>9 DEF Refresh, CountedInv, Loop
  <2> QED
    BY <1>3, <1>9, <2>1 DEF Refresh, slot, child, Starting, Loop
<1>10. CASE CheckAndObserve
  BY <1>3, <1>10 DEF CheckAndObserve, slot, times, Starting, Loop
<1>11. CASE Report
  <2>1. /\ pc = "report" /\ report'.checkpoint = restart_cpu' + prior
        /\ restart_cpu' \in {current, restart_cpu}
        /\ UNCHANGED <<slot, child, prior, current, session>>
    BY <1>11 DEF Report
  <2>2. restart_cpu' <= current /\ current <= spent + child_cpu /\ prior <= current
        /\ restart_cpu' \in Nat
    BY <1>1, <2>1 DEF CountedInv, Loop
  <2> QED
    BY <2>1, <2>2 DEF slot, child
<1> QED
  BY <1>4, <1>6, <1>7, <1>8, <1>9, <1>10, <1>11 DEF Next, Stopped

\* A report right after a checkpoint tells of at most twice the CPU time used.
THEOREM CheckpointWithinTwiceInvariant == Spec => []CheckpointWithinTwice
<1>1. Init => CheckpointInv
  BY DEF Init, CheckpointInv, NotedInv, CheckpointWithinTwice, CheckpointNotOvercounted, NoReport,
         Starting, Loop
<1>2. CheckpointInv => CheckpointWithinTwice
  BY DEF CheckpointInv
<1> QED
  BY <1>1, <1>2, CheckpointStep, CpuInvariant, PTL DEF Spec

-----------------------------------------------------------------------------
(* The fraction done.                                                      *)

\* What has been shown for a step is at most what is shown for the next.
ShownInv == heartbeat \in Beats /\ report.fraction <= (report.step + 1) * OneStep

LEMMA NoBeat == 0 \in Beats
  BY DEF Beats, OneStep

LEMMA ShownInvariant == Spec => []ShownInv
<1>1. Init => ShownInv
  BY NoBeat DEF Init, ShownInv, NoReport, OneStep
<1>2. CpuInv /\ ShownInv /\ [Next]_vars => ShownInv'
  <2> SUFFICES ASSUME TypeOK, ShownInv, [Next]_vars
               PROVE  ShownInv'
    BY DEF CpuInv
  <2>1. CASE Report
    <3>1. heartbeat' \in Beats
      <4>1. heartbeat' \in {0, Beat(heartbeat)}
        BY <2>1 DEF Report, UpdateFraction
      <4> QED
        BY <4>1, NoBeat, BeatInBounds DEF ShownInv
    <3>2. PICK beat \in Beats : report'.fraction = Fraction(current_step, beat)
      BY <2>1, <3>1, NoBeat DEF Report, FractionDone
    <3>3. report'.step = current_step /\ current_step \in Steps
      BY <2>1 DEF Report, TypeOK
    <3> QED
      BY <3>1, <3>2, <3>3, FractionWithinStep DEF ShownInv
  <2>2. CASE Start
    <3>1. heartbeat' = 0 /\ UNCHANGED report
      BY <2>2 DEF Start, FreshRun, RestartRun, RunAgainFromStepZero, Refuse, NewProcess
    <3> QED
      BY <3>1, NoBeat DEF ShownInv
  <2>3. CASE ~Report /\ ~Start
    <3>1. UNCHANGED <<heartbeat, report>>
      BY <2>3 DEF Next, vars, fraction, ModelComputes, ModelLogs, ModelExit, RecordStart, Launch,
                  Refresh, CheckAndObserve, Save, Interrupt, Stopped
    <3> QED
      BY <3>1 DEF ShownInv
  <2> QED
    BY <2>1, <2>2, <2>3
<1> QED
  BY <1>1, <1>2, CpuInvariant, PTL DEF Spec

\* For every number of steps and cores, and however often a step is looked at, the fraction
\* shown does not go back at the first look at a later step.
THEOREM FractionAdvancesTheorem == Spec => FractionAdvances
<1>1. TypeOK /\ ShownInv /\ [Next]_vars =>
          [(report'.step > report.step /\ report'.step > stepm1)
              => report'.fraction >= report.fraction]_vars
  <2> SUFFICES ASSUME TypeOK, ShownInv, [Next]_vars,
                      report'.step > report.step, report'.step > stepm1
               PROVE  report'.fraction >= report.fraction
    OBVIOUS
  <2>1. report.step \in Int /\ report.fraction \in Int
    BY StepsAssumption DEF TypeOK, NoReport, Steps, Complete
  <2>2. CASE Report
    <3>1. report'.step = current_step /\ current_step \in Steps /\ current_step > stepm1
      BY <2>2 DEF Report, TypeOK
    <3>2. report'.fraction = current_step * OneStep
      BY <2>2, <3>1, FractionOfStep DEF Report, FractionDone
    <3>3. current_step \in Int /\ current_step >= report.step + 1
      BY <2>1, <3>1, StepsAssumption DEF Steps
    <3> QED
      BY <2>1, <3>2, <3>3 DEF ShownInv, OneStep
  <2>3. CASE ~Report
    <3>1. UNCHANGED report
      BY <2>3 DEF Next, vars, Start, FreshRun, RestartRun, RunAgainFromStepZero, Refuse, NewProcess,
                  ModelComputes, ModelLogs, ModelExit, RecordStart, Launch, Refresh,
                  CheckAndObserve, Save, Interrupt, Stopped
    <3> QED
      BY <2>1, <3>1
  <2> QED
    BY <2>2, <2>3
<1>2. CpuInv => TypeOK
  BY DEF CpuInv
<1> QED
  BY <1>1, <1>2, CpuInvariant, ShownInvariant, PTL DEF Spec, FractionAdvances

\* What the comments in model_frac_done() exclude and the code does: 1 is reported at the
\* first look at the last step, with the final uploads still to come; a heartbeat that adds
\* up to exactly one step shows the next step; and in a run of more than 1000 steps a
\* heartbeat that is set back by 0.001 shows less than the step that is done.
THEOREM FractionAgainstComments ==
    ASSUME TypeOK, Report
    PROVE  /\ (current_step = TotalSteps /\ current_step > stepm1)
                 => report'.fraction = Complete
           /\ (/\ current_step < TotalSteps /\ current_step <= stepm1
               /\ heartbeat + HeartbeatInc = OneStep)
                 => report'.fraction = (current_step + 1) * OneStep
           /\ (/\ TotalSteps > 1000 /\ current_step > 0 /\ current_step <= stepm1
               /\ heartbeat + HeartbeatInc > OneStep)
                 => report'.fraction < current_step * OneStep
<1>1. /\ current_step \in Int /\ 0 <= current_step /\ current_step <= TotalSteps
      /\ TotalSteps \in Int /\ TotalSteps > 0 /\ stepm1 \in Int
  BY StepsAssumption DEF TypeOK, Steps
<1>2. ASSUME current_step <= stepm1
      PROVE  report'.fraction = Fraction(current_step, Beat(heartbeat))
  <2>1. ~(current_step > stepm1)
    BY <1>1, <1>2
  <2> QED
    BY <2>1 DEF Report, UpdateFraction, FractionDone
<1>3. ASSUME current_step = TotalSteps, current_step > stepm1
      PROVE  report'.fraction = Complete
  <2>1. report'.fraction = current_step * OneStep
    BY <1>1, <1>3, FractionOfStep DEF Report, FractionDone, Steps
  <2>2. current_step * OneStep = Complete
    BY <1>1, <1>3 DEF Complete, OneStep
  <2> QED
    BY <2>1, <2>2
<1>4. ASSUME current_step < TotalSteps, current_step <= stepm1,
             heartbeat + HeartbeatInc = OneStep
      PROVE  report'.fraction = (current_step + 1) * OneStep
  <2>1. Beat(heartbeat) = OneStep
    BY <1>4 DEF Beat, OneStep
  <2> DEFINE f == current_step * OneStep + OneStep
  <2>2. /\ f \in Int /\ f = (current_step + 1) * OneStep
        /\ 0 <= f /\ f <= Complete /\ Complete \in Int
    BY <1>1, <1>4 DEF OneStep, Complete
  <2>3. report'.fraction = IF f < 0 THEN 0 ELSE IF f > Complete THEN AlmostComplete ELSE f
    BY <1>2, <1>4, <2>1 DEF Fraction
  <2> HIDE DEF f
  <2> QED
    BY <2>2, <2>3
<1>5. ASSUME TotalSteps > 1000, current_step > 0, current_step <= stepm1,
             heartbeat + HeartbeatInc > OneStep
      PROVE  report'.fraction < current_step * OneStep
  <2>1. Beat(heartbeat) = OneStep - Thousandth
    BY <1>5 DEF Beat
  <2>2. Beat(heartbeat) < 0 /\ Beat(heartbeat) \in Int
    BY <1>1, <1>5, <2>1 DEF OneStep, Thousandth
  <2> DEFINE f == current_step * OneStep + Beat(heartbeat)
  <2>3. /\ f \in Int /\ f < current_step * OneStep /\ f <= Complete
        /\ 0 < current_step * OneStep
        /\ current_step * OneStep \in Int /\ Complete \in Int
    BY <1>1, <1>5, <2>2 DEF OneStep, Complete
  <2>4. report'.fraction = IF f < 0 THEN 0 ELSE IF f > Complete THEN AlmostComplete ELSE f
    BY <1>2, <1>5 DEF Fraction
  <2> HIDE DEF f
  <2> QED
    BY <2>3, <2>4
<1> QED
  BY <1>3, <1>4, <1>5

=============================================================================
