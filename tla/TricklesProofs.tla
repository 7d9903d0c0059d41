-------------------------- MODULE TricklesProofs ---------------------------
(***************************************************************************)
(* Theorems about Trickles, for any length of the run and of a time step,  *)
(* any output interval and any number of sessions.                         *)
(***************************************************************************)
EXTENDS Trickles, TLAPS

-----------------------------------------------------------------------------
(* Boundaries.                                                             *)

LEMMA FrequencyNatural == TrickleFrequency \in Nat
<1>1. (TotalSteps * 6) \div 100 \in Int
  BY StepsAssumption
<1>2. (24 * 3600) \div Timestep \in Nat
  BY TimestepAssumption
<1>3. CASE \/ (TotalSteps * 6) \div 100 < (24 * 3600) \div Timestep
           \/ (TotalSteps * 6) \div 100 <= 0
  BY <1>2, <1>3 DEF TrickleFrequency
<1>4. CASE ~(\/ (TotalSteps * 6) \div 100 < (24 * 3600) \div Timestep
             \/ (TotalSteps * 6) \div 100 <= 0)
  BY <1>1, <1>4 DEF TrickleFrequency
<1> QED
  BY <1>3, <1>4

\* A multiple that is not above a number is not above the largest one.
LEMMA MultipleBelow ==
    ASSUME NEW f \in Nat, f > 0, NEW b \in Nat, NEW low \in Nat, NEW high \in Nat,
           b % f = 0, b <= high, high \div f <= low \div f
    PROVE  b <= low
<1> DEFINE k == b \div f
           top == high \div f
           q == low \div f
<1>1. k \in Int /\ b = f * k
  BY SMTT(20)
<1>2. top \in Int /\ high < f * (top + 1)
  BY SMTT(20)
<1>3. q \in Int /\ f * q <= low
  BY SMTT(20)
<1> HIDE DEF k, top, q
<1>4. k <= top
  <2>1. ASSUME k >= top + 1
        PROVE  FALSE
    <3>1. f * k >= f * (top + 1)
      BY <1>1, <1>2, <2>1
    <3> QED
      BY <1>1, <1>2, <3>1
  <2> QED
    BY <1>1, <1>2, <2>1
<1>5. k <= q
  BY <1>1, <1>2, <1>3, <1>4 DEF top, q
<1>6. f * k <= f * q
  BY <1>1, <1>3, <1>5
<1> QED
  BY <1>1, <1>3, <1>6

\* A step that crosses no boundary leaves none between itself and the one before.
LEMMA NothingCrossed ==
    ASSUME NEW previous \in Steps, NEW step \in Steps,
           ~CrossedTrickleBoundary(previous, step), NEW b \in Boundaries, b <= step
    PROVE  b <= previous
<1>1. /\ previous \in Nat /\ step \in Nat /\ b \in Nat
      /\ TrickleFrequency \in Nat /\ TrickleFrequency > 0 /\ b % TrickleFrequency = 0
  BY FrequencyNatural, StepsAssumption DEF Steps, Boundaries
<1>2. CASE step <= previous
  BY <1>1, <1>2
<1>3. CASE step > previous
  <2>1. previous \div TrickleFrequency \in Int /\ step \div TrickleFrequency \in Int
    BY <1>1
  <2>2. step \div TrickleFrequency <= previous \div TrickleFrequency
    BY <1>1, <1>3, <2>1 DEF CrossedTrickleBoundary
  <2> QED
    BY <1>1, <2>2, MultipleBelow
<1> QED
  BY <1>1, <1>2, <1>3

\* The boundaries up to a step are covered by the steps of trickles.
CoveredBy(n, steps, passed) ==
    \A b \in Boundaries \ passed : b <= n => \E s \in steps : b <= s

LEMMA CoverGrows ==
    ASSUME NEW n, NEW steps, NEW more, NEW passed, NEW beyond,
           CoveredBy(n, steps, passed), steps \subseteq more, passed \subseteq beyond
    PROVE  CoveredBy(n, more, beyond)
  BY DEF CoveredBy

-----------------------------------------------------------------------------
(* The invariants.                                                         *)

\* Only a program that runs or has failed leaves a torn file behind, while none has
\* outlived its controller.
ProgramInv ==
    /\ NoHelperLeft
    /\ ~orphaned => orphans = {}
    /\ ~orphaned /\ trickle_data = Torn => helper \in {"running", "failed"}
    /\ DataGenuine

\* What is reported covers the progress file, and what the controller knows.
CoverInv ==
    /\ CoveredBy(progress, Attempted, jumped)
    /\ pc # "down" => CoveredBy(last_completed, Attempted, jumped)

\* last_trickle_step is the step of a trickle sent.
LastInv ==
    /\ last_trickle = 0 \/ \E t \in sent : t.step = last_trickle
    /\ finished => pc = "ended"
    /\ LastStepReported

\* What SendTrickle does to the trickles, and to the steps attempted.
LEMMA SendEffects ==
    ASSUME TypeOK, NEW step \in Steps, NEW kind \in {"progress", "final"},
           SendTrickle(step, kind)
    PROVE  /\ sent' \subseteq [step : Steps, data : DataFiles]
           /\ failed' \subseteq Steps \X {"progress", "final"}
           /\ last_trickle' \in Steps
           /\ Attempted \subseteq Attempted' /\ step \in Attempted'
           /\ sent \subseteq sent'
           /\ \A t \in sent' \ sent : t.data = trickle_data
           /\ \/ last_trickle' = step /\ \E t \in sent' : t.step = step
              \/ last_trickle' = last_trickle /\ <<step, kind>> \in failed'
<1> DEFINE new == [step |-> step, data |-> trickle_data]
<1>1. new \in [step : Steps, data : DataFiles] /\ new.step = step /\ new.data = trickle_data
  BY DEF TypeOK
<1>2. <<step, kind>> \in Steps \X {"progress", "final"} /\ <<step, kind>>[1] = step
  OBVIOUS
<1>3. CASE sent' = sent \cup {new} /\ last_trickle' = step /\ UNCHANGED failed
  <2>1. step \in {t.step : t \in sent'}
    BY <1>1, <1>3
  <2> QED
    BY <1>1, <1>3, <2>1 DEF TypeOK, Attempted
<1>4. CASE failed' = failed \cup {<<step, kind>>} /\ UNCHANGED <<sent, last_trickle>>
  <2>1. step \in {a[1] : a \in failed'}
    BY <1>2, <1>4
  <2> QED
    BY <1>2, <1>4, <2>1 DEF TypeOK, Attempted
<1> QED
  BY <1>3, <1>4 DEF SendTrickle

\* A step that leaves all trickles alone.
LEMMA NothingSent ==
    ASSUME UNCHANGED <<sent, failed>>
    PROVE  Attempted' = Attempted
  BY DEF Attempted

-----------------------------------------------------------------------------
(* Type correctness.                                                       *)

LEMMA TypeInitially == Init => TypeOK
<1> SUFFICES ASSUME Init
             PROVE  TypeOK
  OBVIOUS
<1>1. 0 \in Steps
  BY StepsAssumption DEF Steps
<1>2. session \in 0 .. MaxSessions
  BY BoundsAssumption DEF Init
<1> QED
  BY <1>1, <1>2 DEF Init, TypeOK, DataFiles, PCs

LEMMA TypeStep == TypeOK /\ [Next]_vars => TypeOK'
<1> SUFFICES ASSUME TypeOK, [Next]_vars
             PROVE  TypeOK'
  OBVIOUS
<1> USE StepsAssumption, BoundsAssumption
<1>0. 0 \in Steps
  BY DEF Steps
<1>1. CASE ModelLogs
  <2>1. log' \in Steps
    BY <1>1 DEF ModelLogs, TypeOK, Steps
  <2> QED
    BY <1>1, <2>1 DEF ModelLogs, TypeOK, program, trickling, control
<1>2. CASE HelperOpens
  BY <1>2 DEF HelperOpens, TypeOK, DataFiles, program, trickling, control
<1>3. CASE HelperWrites
  BY <1>3 DEF HelperWrites, TypeOK, DataFiles, trickling, control
<1>4. CASE HelperEnds
  BY <1>4 DEF HelperEnds, TypeOK, slot, trickling, control
<1>5. CASE OrphanRuns
  <2>1. /\ trickle_data' \in DataFiles /\ orphans' \subseteq Steps
        /\ UNCHANGED <<log, progress, helper, helper_step, orphaned, trickling, control, jumped>>
    BY <1>5 DEF OrphanRuns, TypeOK, DataFiles
  <2> QED
    BY <2>1 DEF TypeOK, trickling, control
<1>6. CASE Start
  <2>1. PICK restart \in Steps :
            /\ last_completed' = restart /\ progress' = restart
            /\ jumped' = jumped \cup {b \in Boundaries : progress < b /\ b <= restart}
            /\ log' \in {0, restart, log}
    BY <1>6 DEF Start
  <2>2. session' \in 0 .. MaxSessions
    BY <1>6 DEF Start, TypeOK
  <2>3. /\ log' \in Steps /\ jumped' \subseteq Boundaries
        /\ last_completed' \in Steps /\ progress' \in Steps
    BY <1>0, <2>1 DEF TypeOK
  <2>4. /\ last_tasks' = -1 /\ last_trickle' = 0 /\ child_gone' = FALSE /\ pc' = "wait"
        /\ UNCHANGED <<trickle_data, program, observed, sent, failed, finished>>
    BY <1>6 DEF Start
  <2> QED
    BY <1>0, <2>2, <2>3, <2>4 DEF TypeOK, PCs, program
<1>7. CASE Observe
  BY <1>7 DEF Observe, TypeOK, PCs, slot, program, trickling
<1>8. CASE RunDiagnostics
  BY <1>8 DEF RunDiagnostics, TypeOK, PCs, DataFiles, trickling
<1>9. CASE NoDiagnostics
  BY <1>9 DEF NoDiagnostics, TypeOK, PCs, slot, program, trickling
<1>10. CASE ReapHelper
  BY <1>10 DEF ReapHelper, LeaveDiagnostics, DataLeft, TypeOK, PCs, DataFiles, trickling
<1>11. CASE TimeUp
  BY <1>11 DEF TimeUp, TypeOK, PCs, slot, program, trickling
<1>12. CASE Terminate
  BY <1>12 DEF Terminate, LeaveDiagnostics, DataLeft, TypeOK, PCs, DataFiles, trickling
<1>13. CASE GraceOver
  BY <1>13 DEF GraceOver, LeaveDiagnostics, DataLeft, TypeOK, PCs, DataFiles, trickling
<1>14. CASE ProgressTrickle
  <2>1. /\ sent' \subseteq [step : Steps, data : DataFiles]
        /\ failed' \subseteq Steps \X {"progress", "final"} /\ last_trickle' \in Steps
    <3>1. CASE CrossedTrickleBoundary(last_completed, observed)
      BY <1>14, <3>1, SendEffects DEF ProgressTrickle, TypeOK
    <3>2. CASE ~CrossedTrickleBoundary(last_completed, observed)
      BY <1>14, <3>2 DEF ProgressTrickle, trickling, TypeOK
    <3> QED
      BY <3>1, <3>2
  <2> QED
    BY <1>14, <2>1 DEF ProgressTrickle, TypeOK, PCs, slot, program
<1>15. CASE Save
  BY <1>15 DEF Save, TypeOK, PCs, program, trickling
<1>16. CASE FinalTrickle
  <2>1. /\ sent' \subseteq [step : Steps, data : DataFiles]
        /\ failed' \subseteq Steps \X {"progress", "final"} /\ last_trickle' \in Steps
    <3>1. CASE FinalTrickleDue
      BY <1>16, <3>1, SendEffects DEF FinalTrickle, TypeOK
    <3>2. CASE ~FinalTrickleDue
      BY <1>16, <3>2 DEF FinalTrickle, trickling, TypeOK
    <3> QED
      BY <3>1, <3>2
  <2> QED
    BY <1>16, <2>1 DEF FinalTrickle, TypeOK, PCs, slot, program
<1>17. CASE Interrupt
  <2>1. orphaned' \in BOOLEAN
    BY <1>17 DEF Interrupt
  <2> QED
    BY <1>17, <2>1 DEF Interrupt, TypeOK, PCs, slot, trickling
<1>18. CASE UNCHANGED vars
  BY <1>18 DEF TypeOK, vars, slot, program, trickling, control
<1> QED
  BY <1>1, <1>2, <1>3, <1>4, <1>5, <1>6, <1>7, <1>8, <1>9, <1>10, <1>11, <1>12, <1>13,
     <1>14, <1>15, <1>16, <1>17, <1>18 DEF Next, Controller, Over

\* TypeOK: every step, data file and trickle is of the run.
THEOREM TypeInvariant == Spec => []TypeOK
<1> QED
  BY TypeInitially, TypeStep, PTL DEF Spec

-----------------------------------------------------------------------------
(* The diagnostics program and its file.                                   *)

LEMMA ProgramStep == TypeOK /\ ProgramInv /\ [Next]_vars => ProgramInv'
<1> SUFFICES ASSUME TypeOK, ProgramInv, [Next]_vars
             PROVE  ProgramInv'
  OBVIOUS
<1> DEFINE Busy == {"helper", "timeup", "grace"}
<1>0. /\ pc \notin Busy => helper = "none"
      /\ ~orphaned => orphans = {}
      /\ ~orphaned /\ trickle_data = Torn => helper \in {"running", "failed"}
      /\ ~orphaned => \A t \in sent : t.data # Torn
  BY DEF ProgramInv, NoHelperLeft, DataGenuine
<1>a. NoData # Torn /\ \A step \in Steps : step # Torn
  BY StepsAssumption DEF NoData, Torn, Steps
<1>b. ASSUME (pc' \notin Busy => helper' = "none"),
             (~orphaned' => ~orphaned /\ orphans' = {}),
             (~orphaned' /\ trickle_data' = Torn => helper' \in {"running", "failed"}),
             UNCHANGED sent
      PROVE  ProgramInv'
  BY <1>0, <1>b DEF ProgramInv, NoHelperLeft, DataGenuine
<1>1. CASE ModelLogs
  BY <1>0, <1>1, <1>b DEF ModelLogs, program, trickling, control
<1>2. CASE HelperOpens
  BY <1>0, <1>2, <1>b DEF HelperOpens, program, trickling, control
<1>3. CASE HelperWrites
  <2>1. trickle_data' # Torn
    BY <1>3, <1>a DEF HelperWrites, TypeOK
  <2> QED
    BY <1>0, <1>3, <1>b, <2>1 DEF HelperWrites, trickling, control
<1>4. CASE HelperEnds
  <2>1. trickle_data' = Torn => helper' = "failed"
    BY <1>4, <1>a DEF HelperEnds, slot
  <2> QED
    BY <1>0, <1>4, <1>b, <2>1 DEF HelperEnds, trickling, control
<1>5. CASE OrphanRuns
  <2>1. orphans # {} /\ UNCHANGED <<helper, orphaned, trickling, control>>
    BY <1>5 DEF OrphanRuns
  <2> QED
    BY <1>0, <1>b, <2>1 DEF trickling, control
<1>6. CASE Start
  <2>1. pc = "down" /\ pc' = "wait" /\ UNCHANGED <<trickle_data, program, sent>>
    BY <1>6 DEF Start
  <2> QED
    BY <1>0, <1>b, <2>1 DEF program
<1>7. CASE Observe
  <2>1. pc = "wait" /\ UNCHANGED <<slot, program, trickling>>
    BY <1>7 DEF Observe
  <2> QED
    BY <1>0, <1>b, <2>1 DEF slot, program, trickling
<1>8. CASE RunDiagnostics
  <2>1. /\ pc' = "helper" /\ trickle_data' # Torn /\ UNCHANGED <<orphans, orphaned, trickling>>
    BY <1>8, <1>a DEF RunDiagnostics
  <2> QED
    BY <1>0, <1>b, <2>1 DEF trickling
<1>9. CASE NoDiagnostics
  <2>1. pc = "tasks" /\ UNCHANGED <<slot, program, trickling>>
    BY <1>9 DEF NoDiagnostics
  <2> QED
    BY <1>0, <1>b, <2>1 DEF slot, program, trickling
<1>10. ASSUME ReapHelper \/ (Terminate /\ Ended) \/ GraceOver
       PROVE  ProgramInv'
  <2>1. helper' = "none" /\ UNCHANGED <<orphans, orphaned, trickling>>
    BY <1>10 DEF ReapHelper, Terminate, GraceOver, LeaveDiagnostics
  <2>2. ~orphaned => trickle_data' # Torn
    <3>1. CASE ReapHelper
      BY <1>0, <1>a, <3>1 DEF ReapHelper, LeaveDiagnostics, DataLeft, Ended
    <3>2. CASE (Terminate /\ Ended) \/ GraceOver
      BY <1>a, <3>2 DEF Terminate, GraceOver, LeaveDiagnostics, DataLeft
    <3> QED
      BY <1>10, <3>1, <3>2
  <2> QED
    BY <1>0, <1>b, <2>1, <2>2 DEF trickling
<1>11. CASE TimeUp
  BY <1>0, <1>11, <1>b DEF TimeUp, slot, program, trickling
<1>12. CASE Terminate /\ ~Ended
  BY <1>0, <1>12, <1>b DEF Terminate, trickling
<1>13. CASE ProgressTrickle
  <2>1. /\ pc = "trickle" /\ pc' = "save" /\ helper = "none"
        /\ UNCHANGED <<slot, program>>
    BY <1>0, <1>13 DEF ProgressTrickle
  <2>2. ~orphaned => \A t \in sent' : t.data # Torn
    <3>1. CASE CrossedTrickleBoundary(last_completed, observed)
      <4>1. \A t \in sent' \ sent : t.data = trickle_data
        BY <1>13, <3>1, SendEffects DEF ProgressTrickle, TypeOK
      <4> QED
        BY <1>0, <2>1, <4>1
    <3>2. CASE ~CrossedTrickleBoundary(last_completed, observed)
      BY <1>0, <1>13, <3>2 DEF ProgressTrickle, trickling
    <3> QED
      BY <3>1, <3>2
  <2> QED
    BY <1>0, <2>1, <2>2 DEF ProgramInv, NoHelperLeft, DataGenuine, slot, program
<1>14. CASE Save
  <2>1. pc = "save" /\ UNCHANGED <<trickle_data, program, trickling>>
    BY <1>14 DEF Save
  <2> QED
    BY <1>0, <1>b, <2>1 DEF program, trickling
<1>15. CASE FinalTrickle
  <2>1. /\ pc = "final" /\ pc' = "ended" /\ helper = "none"
        /\ UNCHANGED <<slot, program>>
    BY <1>0, <1>15 DEF FinalTrickle
  <2>2. ~orphaned => \A t \in sent' : t.data # Torn
    <3>1. CASE FinalTrickleDue
      <4>1. \A t \in sent' \ sent : t.data = trickle_data
        BY <1>15, <3>1, SendEffects DEF FinalTrickle, TypeOK
      <4> QED
        BY <1>0, <2>1, <4>1
    <3>2. CASE ~FinalTrickleDue
      BY <1>0, <1>15, <3>2 DEF FinalTrickle, trickling
    <3> QED
      BY <3>1, <3>2
  <2> QED
    BY <1>0, <2>1, <2>2 DEF ProgramInv, NoHelperLeft, DataGenuine, slot, program
<1>16. CASE Interrupt
  <2>1. /\ helper' = "none" /\ UNCHANGED <<slot, trickling>>
        /\ orphaned' = (orphaned \/ helper # "none")
        /\ helper # "running" => orphans' = orphans
    BY <1>16 DEF Interrupt
  <2>2. ~orphaned' => ~orphaned /\ helper = "none"
    BY <2>1
  <2> QED
    BY <1>0, <1>b, <2>1, <2>2 DEF slot, trickling
<1>17. CASE UNCHANGED vars
  BY <1>0, <1>17, <1>b DEF vars, slot, program, trickling, control
<1> QED
  BY <1>1, <1>2, <1>3, <1>4, <1>5, <1>6, <1>7, <1>8, <1>9, <1>10, <1>11, <1>12, <1>13,
     <1>14, <1>15, <1>16, <1>17 DEF Next, Controller, Over

LEMMA ProgramInvariant == Spec => []ProgramInv
<1>1. Init => ProgramInv
  BY DEF Init, ProgramInv, NoHelperLeft, DataGenuine, NoData, Torn
<1> QED
  BY <1>1, TypeInvariant, ProgramStep, PTL DEF Spec

\* No diagnostics program is left, alive or unreaped, when the controller goes on.
THEOREM NoHelperLeftInvariant == Spec => []NoHelperLeft
<1>1. ProgramInv => NoHelperLeft
  BY DEF ProgramInv
<1> QED
  BY <1>1, ProgramInvariant, PTL

\* A trickle never carries half-written data, unless a program outlived a controller.
THEOREM DataGenuineInvariant == Spec => []DataGenuine
<1>1. ProgramInv => DataGenuine
  BY DEF ProgramInv
<1> QED
  BY <1>1, ProgramInvariant, PTL

-----------------------------------------------------------------------------
(* What is reported.                                                       *)

LEMMA CoverStep == TypeOK /\ CoverInv /\ [Next]_vars => CoverInv'
<1> SUFFICES ASSUME TypeOK, CoverInv, [Next]_vars
             PROVE  CoverInv'
  OBVIOUS
<1> DEFINE Quiet == UNCHANGED <<progress, last_completed, sent, failed, jumped>>
<1>1. ASSUME Quiet, pc' = "down" \/ pc # "down"
      PROVE  CoverInv'
  BY <1>1, NothingSent DEF CoverInv
<1>2. CASE ModelLogs \/ HelperOpens \/ HelperWrites \/ HelperEnds \/ OrphanRuns
  <2>1. UNCHANGED <<progress, trickling, control, jumped>>
    BY <1>2 DEF ModelLogs, HelperOpens, HelperWrites, HelperEnds, OrphanRuns, slot
  <2> QED
    BY <1>1, <2>1 DEF trickling, control
<1>3. CASE Start
  <2>1. PICK restart \in Steps :
            /\ last_completed' = restart /\ progress' = restart
            /\ jumped' = jumped \cup {b \in Boundaries : progress < b /\ b <= restart}
    BY <1>3 DEF Start
  <2>2. Attempted' = Attempted
    BY <1>3, NothingSent DEF Start
  <2>3. CoveredBy(progress, Attempted, jumped) /\ progress \in Nat
    BY StepsAssumption DEF CoverInv, TypeOK, Steps
  <2>4. CoveredBy(restart, Attempted, jumped')
    <3> SUFFICES ASSUME NEW b \in Boundaries \ jumped', b <= restart
                 PROVE  \E s \in Attempted : b <= s
      BY DEF CoveredBy
    <3>1. b \notin jumped /\ ~(progress < b) /\ b \in Nat
      BY <2>1, StepsAssumption DEF Boundaries, Steps
    <3>2. b <= progress
      BY <2>3, <3>1
    <3> QED
      BY <2>3, <3>1, <3>2 DEF CoveredBy
  <2> QED
    BY <2>1, <2>2, <2>4 DEF CoverInv
<1>4. CASE Observe \/ RunDiagnostics \/ NoDiagnostics \/ ReapHelper \/ TimeUp \/ Terminate
           \/ GraceOver \/ Interrupt
  <2>1. pc # "down" /\ UNCHANGED <<progress, last_completed, jumped>>
    BY <1>4 DEF Observe, RunDiagnostics, NoDiagnostics, ReapHelper, TimeUp, Terminate, GraceOver,
                Interrupt, slot
  <2>2. UNCHANGED trickling
    BY <1>4 DEF Observe, RunDiagnostics, NoDiagnostics, ReapHelper, TimeUp, Terminate, GraceOver,
                Interrupt
  <2> QED
    BY <1>1, <2>1, <2>2 DEF trickling
<1>5. CASE ProgressTrickle
  <2>1. /\ pc = "trickle" /\ last_completed' = observed
        /\ UNCHANGED <<progress, jumped>>
    BY <1>5 DEF ProgressTrickle, slot
  <2>2. /\ observed \in Steps /\ last_completed \in Steps
        /\ CoveredBy(progress, Attempted, jumped)
        /\ CoveredBy(last_completed, Attempted, jumped)
    BY <2>1 DEF TypeOK, CoverInv
  <2>3. CASE CrossedTrickleBoundary(last_completed, observed)
    <3>1. Attempted \subseteq Attempted' /\ observed \in Attempted'
      BY <1>5, <2>2, <2>3, SendEffects DEF ProgressTrickle
    <3>2. CoveredBy(observed, Attempted', jumped)
      BY <3>1 DEF CoveredBy
    <3>3. CoveredBy(progress, Attempted', jumped)
      BY <2>2, <3>1, CoverGrows
    <3> QED
      BY <2>1, <3>2, <3>3 DEF CoverInv
  <2>4. CASE ~CrossedTrickleBoundary(last_completed, observed)
    <3>1. Attempted' = Attempted
      BY <1>5, <2>4, NothingSent DEF ProgressTrickle, trickling
    <3>2. CoveredBy(observed, Attempted, jumped)
      BY <2>2, <2>4, NothingCrossed DEF CoveredBy
    <3> QED
      BY <2>1, <2>2, <3>1, <3>2 DEF CoverInv
  <2> QED
    BY <2>3, <2>4
<1>6. CASE Save
  <2>1. /\ pc = "save" /\ progress' = last_completed
        /\ UNCHANGED <<last_completed, sent, failed, jumped>>
    BY <1>6 DEF Save, trickling
  <2> QED
    BY <2>1, NothingSent DEF CoverInv
<1>7. CASE FinalTrickle
  <2>1. pc = "final" /\ UNCHANGED <<progress, last_completed, jumped>>
    BY <1>7 DEF FinalTrickle, slot
  <2>2. Attempted \subseteq Attempted'
    <3>1. CASE FinalTrickleDue
      BY <1>7, <3>1, SendEffects DEF FinalTrickle, TypeOK
    <3>2. CASE ~FinalTrickleDue
      BY <1>7, <3>2, NothingSent DEF FinalTrickle, trickling
    <3> QED
      BY <3>1, <3>2
  <2> QED
    BY <2>1, <2>2, CoverGrows DEF CoverInv
<1>8. CASE UNCHANGED vars
  BY <1>8, NothingSent DEF CoverInv, vars, slot, trickling, control
<1> QED
  BY <1>2, <1>3, <1>4, <1>5, <1>6, <1>7, <1>8 DEF Next, Controller, Over

\* Every boundary up to a step that has been dealt with, and up to the one recorded, has
\* been reported, but those a restart ahead of the progress file has passed over.
THEOREM BoundariesReportedInvariant == Spec => []BoundariesReported
<1>1. Init => CoverInv
  <2> SUFFICES ASSUME Init
               PROVE  CoverInv
    OBVIOUS
  <2>1. CoveredBy(0, Attempted, jumped)
    BY StepsAssumption DEF CoveredBy, Boundaries, Steps
  <2> QED
    BY <2>1 DEF Init, CoverInv
<1>2. CoverInv => BoundariesReported
  BY DEF CoverInv, CoveredBy, BoundariesReported
<1> QED
  BY <1>1, <1>2, TypeInvariant, CoverStep, PTL DEF Spec

LEMMA LastStep == TypeOK /\ LastInv /\ [Next]_vars => LastInv'
<1> SUFFICES ASSUME TypeOK, LastInv, [Next]_vars
             PROVE  LastInv'
  OBVIOUS
<1>1. ASSUME UNCHANGED <<last_trickle, sent, failed, finished, last_completed>>,
             finished => pc' = "ended"
      PROVE  LastInv'
  BY <1>1 DEF LastInv, LastStepReported
<1>2. ASSUME ~finished, ~finished', last_trickle' = 0 \/ \E t \in sent' : t.step = last_trickle'
      PROVE  LastInv'
  BY <1>2 DEF LastInv, LastStepReported
<1>3. finished => pc = "ended"
  BY DEF LastInv
<1>4. CASE ModelLogs \/ HelperOpens \/ HelperWrites \/ HelperEnds \/ OrphanRuns
  <2>1. UNCHANGED <<trickling, control>>
    BY <1>4 DEF ModelLogs, HelperOpens, HelperWrites, HelperEnds, OrphanRuns, slot
  <2> QED
    BY <1>1, <1>3, <2>1 DEF trickling, control
<1>5. CASE Start
  BY <1>2, <1>3, <1>5 DEF Start
<1>6. CASE Observe \/ RunDiagnostics \/ NoDiagnostics \/ ReapHelper \/ TimeUp \/ Terminate
           \/ GraceOver \/ Save \/ Interrupt
  <2>1. pc # "ended" /\ UNCHANGED <<last_completed, finished>>
    BY <1>6 DEF Observe, RunDiagnostics, NoDiagnostics, ReapHelper, TimeUp, Terminate, GraceOver,
                Save, Interrupt
  <2>2. UNCHANGED trickling
    BY <1>6 DEF Observe, RunDiagnostics, NoDiagnostics, ReapHelper, TimeUp, Terminate, GraceOver,
                Save, Interrupt
  <2> QED
    BY <1>1, <1>3, <2>1, <2>2 DEF trickling
<1>7. last_trickle = 0 \/ \E t \in sent : t.step = last_trickle
  BY DEF LastInv
<1>8. CASE ProgressTrickle
  <2>1. ~finished /\ ~finished'
    BY <1>3, <1>8 DEF ProgressTrickle, TypeOK
  <2>2. last_trickle' = 0 \/ \E t \in sent' : t.step = last_trickle'
    <3>1. CASE CrossedTrickleBoundary(last_completed, observed)
      <4>1. /\ sent \subseteq sent'
            /\ (last_trickle' = observed /\ \E t \in sent' : t.step = observed)
               \/ last_trickle' = last_trickle
        BY <1>8, <3>1, SendEffects DEF ProgressTrickle, TypeOK
      <4> QED
        BY <1>7, <4>1
    <3>2. CASE ~CrossedTrickleBoundary(last_completed, observed)
      BY <1>7, <1>8, <3>2 DEF ProgressTrickle, trickling
    <3> QED
      BY <3>1, <3>2
  <2> QED
    BY <1>2, <2>1, <2>2
<1>9. CASE FinalTrickle
  <2>1. pc' = "ended" /\ UNCHANGED last_completed /\ last_completed \in Nat /\ last_trickle \in Nat
    BY <1>9, StepsAssumption DEF FinalTrickle, TypeOK, Steps
  <2>2. CASE FinalTrickleDue
    <3>1. /\ sent \subseteq sent'
          /\ \/ last_trickle' = last_completed /\ \E t \in sent' : t.step = last_completed
             \/ last_trickle' = last_trickle /\ <<last_completed, "final">> \in failed'
      BY <1>9, <2>2, SendEffects DEF FinalTrickle, TypeOK
    <3> QED
      BY <1>7, <2>1, <3>1 DEF LastInv, LastStepReported
  <2>3. CASE ~FinalTrickleDue
    <3>1. UNCHANGED <<sent, failed, last_trickle>> /\ last_completed <= last_trickle
      BY <1>9, <2>1, <2>3 DEF FinalTrickle, FinalTrickleDue, trickling
    <3> QED
      BY <1>7, <2>1, <3>1 DEF LastInv, LastStepReported
  <2> QED
    BY <2>2, <2>3
<1>10. CASE UNCHANGED vars
  BY <1>1, <1>3, <1>10 DEF vars, trickling, control
<1> QED
  BY <1>4, <1>5, <1>6, <1>8, <1>9, <1>10 DEF Next, Controller, Over

\* A finished task has told the project of its last step, or tried to at the end.
THEOREM LastStepReportedInvariant == Spec => []LastStepReported
<1>1. Init => LastInv
  BY DEF Init, LastInv, LastStepReported
<1>2. LastInv => LastStepReported
  BY DEF LastInv
<1> QED
  BY <1>1, <1>2, TypeInvariant, LastStep, PTL DEF Spec

-----------------------------------------------------------------------------
(* What a trickle carries.                                                 *)

\* The diagnostics a trickle carries in the first session are those of the step it
\* reports or of an earlier one.  (A restart behind the progress file finds the file
\* of a later step in the slot, and sends it.)
DataOfStep == session <= 1 /\ ~orphaned => \A t \in sent : t.data <= t.step

\* The first session sees ever later steps, and runs its programs for them.
FirstSessionInv ==
    /\ session = 0 => pc = "down" /\ observed = 0
    /\ session <= 1 =>
          /\ last_completed <= observed /\ observed <= log
          /\ pc \in {"wait", "save", "final"} => last_completed = observed
          /\ helper # "none" => helper_step <= observed
          /\ ~orphaned => trickle_data <= observed

LEMMA FirstSessionStep == TypeOK /\ FirstSessionInv /\ ProgramInv /\ [Next]_vars => FirstSessionInv'
<1> SUFFICES ASSUME TypeOK, FirstSessionInv, ProgramInv, [Next]_vars
             PROVE  FirstSessionInv'
  OBVIOUS
<1>1. /\ log \in Nat /\ observed \in Nat /\ last_completed \in Nat /\ helper_step \in Nat
      /\ session \in Nat /\ trickle_data \in Int
      /\ \A n \in Steps : n \in Nat
  BY StepsAssumption, BoundsAssumption DEF TypeOK, Steps, DataFiles, NoData, Torn
<1>2. ~orphaned => orphans = {}
  BY DEF ProgramInv
<1> USE <1>1 DEF FirstSessionInv, NoData, Torn, slot, program, trickling, control
<1>3. CASE ModelLogs
  BY <1>3 DEF ModelLogs
<1>4. CASE HelperOpens \/ HelperWrites \/ HelperEnds
  BY <1>4 DEF HelperOpens, HelperWrites, HelperEnds
<1>5. CASE OrphanRuns
  BY <1>2, <1>5 DEF OrphanRuns
<1>6. CASE Start
  BY <1>6 DEF Start
<1>7. CASE Observe
  BY <1>7 DEF Observe
<1>8. CASE RunDiagnostics
  BY <1>8 DEF RunDiagnostics
<1>9. CASE NoDiagnostics
  BY <1>9 DEF NoDiagnostics
<1>10. CASE ReapHelper \/ Terminate \/ GraceOver
  BY <1>10 DEF ReapHelper, Terminate, GraceOver, LeaveDiagnostics, DataLeft
<1>11. CASE TimeUp
  BY <1>11 DEF TimeUp
<1>12. CASE ProgressTrickle
  BY <1>12 DEF ProgressTrickle
<1>13. CASE Save
  BY <1>13 DEF Save
<1>14. CASE FinalTrickle
  BY <1>14 DEF FinalTrickle
<1>15. CASE Interrupt
  BY <1>15 DEF Interrupt
<1>16. CASE UNCHANGED vars
  BY <1>16 DEF vars
<1> QED
  BY <1>3, <1>4, <1>5, <1>6, <1>7, <1>8, <1>9, <1>10, <1>11, <1>12, <1>13, <1>14, <1>15, <1>16
  DEF Next, Controller, Over

LEMMA DataStep == TypeOK /\ FirstSessionInv /\ DataOfStep /\ [Next]_vars => DataOfStep'
<1> SUFFICES ASSUME TypeOK, FirstSessionInv, DataOfStep, [Next]_vars
             PROVE  DataOfStep'
  OBVIOUS
<1>1. session \in Nat
  BY BoundsAssumption DEF TypeOK
<1>2. ASSUME UNCHANGED sent, session' >= session, session' \in Nat, orphaned => orphaned'
      PROVE  DataOfStep'
  BY <1>1, <1>2 DEF DataOfStep
<1>3. ASSUME NEW step, NEW kind, SendTrickle(step, kind), step = observed,
             UNCHANGED <<session, orphaned>>
      PROVE  DataOfStep'
  <2>1. SUFFICES ASSUME session <= 1, ~orphaned, NEW t \in sent'
                 PROVE  t.data <= t.step
    BY <1>3 DEF DataOfStep
  <2>2. t \in sent \/ t = [step |-> step, data |-> trickle_data]
    BY <1>3, <2>1 DEF SendTrickle
  <2>3. trickle_data <= observed
    BY <2>1 DEF FirstSessionInv
  <2> QED
    BY <1>3, <2>1, <2>2, <2>3 DEF DataOfStep
<1>4. CASE ProgressTrickle
  <2>1. UNCHANGED <<session, orphaned>>
    BY <1>4 DEF ProgressTrickle, program
  <2>2. SendTrickle(observed, "progress") \/ UNCHANGED sent
    BY <1>4 DEF ProgressTrickle, trickling
  <2> QED
    BY <1>1, <1>2, <1>3, <2>1, <2>2
<1>5. CASE FinalTrickle
  <2>1. UNCHANGED <<session, orphaned>> /\ pc = "final"
    BY <1>5 DEF FinalTrickle, program
  <2>2. SendTrickle(last_completed, "final") \/ UNCHANGED sent
    BY <1>5 DEF FinalTrickle, trickling
  <2>3. CASE session <= 1
    BY <1>1, <1>2, <1>3, <2>1, <2>2, <2>3 DEF FirstSessionInv
  <2>4. CASE ~(session <= 1)
    BY <2>1, <2>4 DEF DataOfStep
  <2> QED
    BY <2>3, <2>4
<1>6. CASE ModelLogs \/ HelperOpens \/ HelperWrites \/ HelperEnds \/ OrphanRuns
  BY <1>1, <1>2, <1>6
  DEF ModelLogs, HelperOpens, HelperWrites, HelperEnds, OrphanRuns, slot, program, trickling, control
<1>7. CASE Start \/ Observe \/ RunDiagnostics \/ NoDiagnostics \/ TimeUp \/ Save
  BY <1>1, <1>2, <1>7
  DEF Start, Observe, RunDiagnostics, NoDiagnostics, TimeUp, Save, slot, program, trickling, control
<1>8. CASE ReapHelper \/ Terminate \/ GraceOver
  BY <1>1, <1>2, <1>8
  DEF ReapHelper, Terminate, GraceOver, slot, program, trickling, control
<1>9. CASE Interrupt
  <2>1. UNCHANGED <<sent, session>>
    BY <1>9 DEF Interrupt, trickling
  <2>2. orphaned => orphaned'
    BY <1>9, Zenon DEF Interrupt
  <2> QED
    BY <1>1, <1>2, <2>1, <2>2
<1>10. CASE UNCHANGED vars
  BY <1>1, <1>2, <1>10 DEF vars, program, trickling, control
<1> QED
  BY <1>4, <1>5, <1>6, <1>7, <1>8, <1>9, <1>10 DEF Next, Controller, Over

\* Diagnostics are not taken for those of an earlier step as long as the task is not
\* restarted.
THEOREM DataOfStepInvariant == Spec => []DataOfStep
<1>1. Init => FirstSessionInv /\ DataOfStep
  BY DEF Init, FirstSessionInv, DataOfStep, NoData
<1> QED
  BY <1>1, TypeInvariant, ProgramInvariant, FirstSessionStep, DataStep, PTL DEF Spec

-----------------------------------------------------------------------------
(* How long the controller is deaf.                                        *)

StepsToTrickle ==
    CASE pc = "helper" -> 3 [] pc = "timeup" -> 2 [] pc = "grace" -> 1 [] OTHER -> 0

\* The safety half of DiagnosticsEnd: every step the controller takes while a
\* diagnostics program runs brings it nearer to the trickle, whatever the program does
\* meanwhile; nothing but the controller takes it away from there, or back.
DiagnosticsEndInSteps ==
    [][/\ pc \in {"helper", "timeup", "grace"} /\ Controller => StepsToTrickle' < StepsToTrickle
       /\ StepsToTrickle' > StepsToTrickle => RunDiagnostics]_vars

THEOREM DiagnosticsEndTheorem == Spec => DiagnosticsEndInSteps
<1> DEFINE Busy == {"helper", "timeup", "grace"}
<1>1. StepsToTrickle \in {0, 1, 2, 3}
  BY DEF StepsToTrickle
<1>2. pc' \notin Busy => StepsToTrickle' = 0
  BY DEF StepsToTrickle
<1>3. ASSUME pc \in Busy, Controller
      PROVE  StepsToTrickle' < StepsToTrickle
  <2>1. StepsToTrickle \in {1, 2, 3}
    BY <1>3 DEF StepsToTrickle
  <2>2. CASE ReapHelper \/ GraceOver
    BY <1>2, <2>1, <2>2 DEF ReapHelper, GraceOver, LeaveDiagnostics
  <2>3. CASE TimeUp
    BY <2>3 DEF TimeUp, StepsToTrickle
  <2>4. CASE Terminate
    BY <2>4 DEF Terminate, LeaveDiagnostics, StepsToTrickle
  <2> QED
    BY <1>3, <2>2, <2>3, <2>4
    DEF Controller, Start, Observe, RunDiagnostics, NoDiagnostics, ProgressTrickle, Save, FinalTrickle
<1>4. ASSUME [Next]_vars, ~RunDiagnostics
      PROVE  ~(StepsToTrickle' > StepsToTrickle)
  <2>1. CASE UNCHANGED pc
    <3>1. StepsToTrickle' = StepsToTrickle
      BY <2>1 DEF StepsToTrickle
    <3> QED
      BY <1>1, <3>1
  <2>2. CASE pc' \notin Busy
    BY <1>1, <1>2, <2>2
  <2>3. CASE pc \in Busy /\ Controller
    BY <1>1, <1>3, <2>3 DEF StepsToTrickle
  <2>4. UNCHANGED pc \/ pc' \notin Busy \/ (pc \in Busy /\ Controller)
    <3>1. CASE ModelLogs \/ HelperOpens \/ HelperWrites \/ HelperEnds \/ OrphanRuns \/ UNCHANGED vars
      BY <3>1 DEF ModelLogs, HelperOpens, HelperWrites, HelperEnds, OrphanRuns, control, vars
    <3>2. CASE Start \/ Observe \/ NoDiagnostics \/ ProgressTrickle \/ Save \/ FinalTrickle \/ Interrupt
      BY <3>2 DEF Start, Observe, NoDiagnostics, ProgressTrickle, Save, FinalTrickle, Interrupt
    <3>3. CASE ReapHelper \/ TimeUp \/ Terminate \/ GraceOver
      BY <3>3 DEF Controller, ReapHelper, TimeUp, Terminate, GraceOver
    <3> QED
      BY <1>4, <3>1, <3>2, <3>3 DEF Next, Controller, Over
  <2> QED
    BY <2>1, <2>2, <2>3, <2>4
<1>5. [Next]_vars
        => [/\ pc \in Busy /\ Controller => StepsToTrickle' < StepsToTrickle
            /\ StepsToTrickle' > StepsToTrickle => RunDiagnostics]_vars
  BY <1>3, <1>4
<1> QED
  BY <1>5, PTL DEF Spec, DiagnosticsEndInSteps

-----------------------------------------------------------------------------
(* The frequency at its limits.                                            *)

\* get_trickle_frequency() is said to return a positive number of steps.  It does,
\* unless a time step is longer than a day and the run shorter than 17 steps.
THEOREM FrequencyPositive ==
    TrickleFrequency > 0 <=> (Timestep <= 24 * 3600 \/ TotalSteps >= 17)
<1>1. (TotalSteps * 6) \div 100 > 0 <=> TotalSteps >= 17
  BY StepsAssumption
<1>2. (24 * 3600) \div Timestep > 0 <=> Timestep <= 24 * 3600
  BY TimestepAssumption
<1>3. (TotalSteps * 6) \div 100 \in Int /\ (24 * 3600) \div Timestep \in Nat
  BY StepsAssumption, TimestepAssumption
<1> QED
  BY <1>1, <1>2, <1>3 DEF TrickleFrequency

NothingBeforeTheEnd == pc # "ended" => Attempted = {}

\* In such a run the project hears nothing of the task before its end, however often
\* the task is interrupted.
THEOREM NothingBeforeTheEndInvariant ==
    TrickleFrequency = 0 => (Spec => []NothingBeforeTheEnd)
<1> SUFFICES ASSUME TrickleFrequency = 0
             PROVE  Spec => []NothingBeforeTheEnd
  OBVIOUS
<1> DEFINE Nothing == pc # "ended" => sent = {} /\ failed = {}
<1>1. Init => Nothing
  BY DEF Init
<1>2. Nothing /\ [Next]_vars => Nothing'
  <2> SUFFICES ASSUME Nothing, [Next]_vars, pc' # "ended"
               PROVE  sent' = {} /\ failed' = {}
    OBVIOUS
  <2>1. CASE ProgressTrickle
    BY <2>1 DEF ProgressTrickle, CrossedTrickleBoundary, trickling
  <2>2. CASE FinalTrickle
    BY <2>2 DEF FinalTrickle
  <2>3. CASE ModelLogs \/ HelperOpens \/ HelperWrites \/ HelperEnds \/ OrphanRuns \/ Over
             \/ UNCHANGED vars
    BY <2>3 DEF ModelLogs, HelperOpens, HelperWrites, HelperEnds, OrphanRuns, Over, vars,
                trickling, control
  <2>4. CASE Start \/ Observe \/ RunDiagnostics \/ NoDiagnostics \/ ReapHelper \/ TimeUp
             \/ Terminate \/ GraceOver \/ Save \/ Interrupt
    <3>1. pc # "ended" /\ UNCHANGED <<sent, failed>>
      BY <2>4 DEF Start, Observe, RunDiagnostics, NoDiagnostics, ReapHelper, TimeUp, Terminate,
                  GraceOver, Save, Interrupt, trickling
    <3> QED
      BY <3>1
  <2> QED
    BY <2>1, <2>2, <2>3, <2>4 DEF Next, Controller
<1>3. Nothing => NothingBeforeTheEnd
  BY DEF NothingBeforeTheEnd, Attempted
<1> QED
  BY <1>1, <1>2, <1>3, PTL DEF Spec

=============================================================================
