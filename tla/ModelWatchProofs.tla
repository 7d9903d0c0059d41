-------------------------- MODULE ModelWatchProofs --------------------------
(***************************************************************************)
(* Theorems about the progress file and the models that watch it, for any  *)
(* number of controllers, of writes and of crashes: the file is replaced   *)
(* as a whole, the watch stops no model that is under control, and none    *)
(* that has seen its controller goes on beside a later one.                *)
(***************************************************************************)
EXTENDS ModelWatch, TLAPS

-----------------------------------------------------------------------------
(* The progress file by itself (ProgressFile).                              *)

\* How far the write in progress has got, and what a crash can leave: only
\* whole versions, none older than the last one confirmed.
Inv ==
    /\ TypeOK
    /\ pc \in {"sync", "rename"} => tmp = writes
    /\ pc \in {"open", "fill", "sync", "rename", "sync_parent"} => writes > 0
    /\ pc = "rename" => synced
    /\ pc = "sync_parent" => file = writes /\ synced
    /\ \A v \in on_disk : confirmed <= v /\ v <= file

LEMMA ContentsFacts ==
    /\ Torn \in Contents /\ Absent \in Contents
    /\ \A v \in 0 .. MaxWrites : v \in Contents
    /\ \A v \in Contents : v \in Int /\ v >= Torn
BY MaxWritesAssumption DEF Contents, Torn, Absent

LEMMA InitInv == Init => Inv
<1> SUFFICES ASSUME Init PROVE Inv
  OBVIOUS
<1>1. TypeOK
  <2>1. on_disk \subseteq Contents /\ file \in on_disk
    BY ContentsFacts DEF Init
  <2>2. writes \in 0 .. MaxWrites /\ confirmed \in 0 .. writes /\ file <= writes
    BY MaxWritesAssumption DEF Init, Absent
  <2> QED BY <2>1, <2>2, ContentsFacts DEF Init, TypeOK, PCs
<1> QED BY <1>1 DEF Init, Inv, Absent

\* The invariant is preserved by every step of the controller and every crash.
LEMMA InvStep == Inv /\ [Next]_vars => Inv'
<1> SUFFICES ASSUME Inv, [Next]_vars PROVE Inv'
  OBVIOUS
<1> USE MaxWritesAssumption, ContentsFacts DEF Inv, TypeOK, PCs, fs
<1>1. CASE Start
  BY <1>1 DEF Start
<1>2. CASE CallWrite
  BY <1>2 DEF CallWrite
<1>3. CASE OpenTmp
  BY <1>3 DEF OpenTmp
<1>4. CASE Fill
  BY <1>4 DEF Fill
<1>5. CASE SyncTmp
  BY <1>5 DEF SyncTmp
<1>6. CASE Rename
  <2>1. /\ tmp = writes /\ file' = writes
        /\ on_disk' = on_disk \cup {writes}
    BY <1>6 DEF Rename, Durable
  <2>2. writes \in 1 .. MaxWrites
    BY <1>6 DEF Rename
  <2>3. TypeOK'
    <3>1. on_disk' \subseteq Contents /\ file' \in on_disk'
      BY <2>1
    <3> QED BY <1>6, <2>1, <2>2, <3>1 DEF Rename
  <2>4. \A v \in on_disk' : confirmed' <= v /\ v <= file'
    BY <1>6, <2>1 DEF Rename
  <2> QED BY <1>6, <2>1, <2>3, <2>4 DEF Rename
<1>7. CASE SyncParent
  <2>1. /\ file = writes /\ confirmed' = writes
        /\ on_disk' = {file}
    BY <1>7 DEF SyncParent, Durable
  <2> QED BY <1>7, <2>1 DEF SyncParent
<1>8. CASE WriteFails
  BY <1>8 DEF WriteFails
<1>9. CASE ControllerDies
  BY <1>9 DEF ControllerDies
<1>10. CASE HostCrash
  BY <1>10 DEF HostCrash
<1>11. CASE UNCHANGED vars
  BY <1>11 DEF vars
<1> QED
  BY <1>1, <1>2, <1>3, <1>4, <1>5, <1>6, <1>7, <1>8, <1>9, <1>10, <1>11 DEF Next

THEOREM InvInvariant == Spec => []Inv
<1> QED BY InitInv, InvStep, PTL DEF Spec

\* Nobody ever reads an empty or a partial progress file.
THEOREM NeverTornInvariant == Spec => []NeverTorn
<1>1. Inv => NeverTorn
  BY DEF Inv, TypeOK, NeverTorn, Torn
<1> QED BY <1>1, InvInvariant, PTL

\* What write() has confirmed survives crashes and later failures.
THEOREM ConfirmedSurvivesInvariant == Spec => []ConfirmedSurvives
<1>1. Inv => ConfirmedSurvives
  BY DEF Inv, TypeOK, Contents, Torn, Absent, ConfirmedSurvives
<1> QED BY <1>1, InvInvariant, PTL

\* The system calls of write() amount to the replacement of a record as a whole.
THEOREM RecordRefinement == Spec => ImplementsRecord
<1>1. Init => Record!Init
  BY DEF Init, Record!Init, Absent
<1>2. Inv /\ [Next]_vars => [Record!Next]_(Record!vars)
  <2> SUFFICES ASSUME Inv, [Next]_vars PROVE [Record!Next]_(Record!vars)
    OBVIOUS
  <2> USE DEF Inv, Record!vars, fs
  <2>1. CASE CallWrite
    BY <2>1 DEF CallWrite, Record!Next, Record!Request
  <2>2. CASE Rename
    BY <2>2 DEF Rename, Record!Next, Record!Store
  <2>3. CASE SyncParent
    BY <2>3 DEF SyncParent, Record!Next, Record!Confirm
  <2>4. CASE HostCrash
    BY <2>4 DEF HostCrash, Record!Next, Record!FallBack, TypeOK, Contents, Torn, Absent
  <2>5. CASE Start \/ OpenTmp \/ Fill \/ SyncTmp \/ WriteFails \/ ControllerDies \/ UNCHANGED vars
    BY <2>5 DEF Start, OpenTmp, Fill, SyncTmp, WriteFails, ControllerDies, vars
  <2> QED BY <2>1, <2>2, <2>3, <2>4, <2>5 DEF Next
<1>3. Spec => []Inv
  BY InvInvariant
<1> QED BY <1>1, <1>2, <1>3, PTL DEF Spec, ImplementsRecord, Record!Spec

-----------------------------------------------------------------------------
(* Controllers and models (ModelWatch).                                     *)

\* The process numbers in the versions of the progress file: they grow, and the
\* present controller has written just those since its start.
AuthorInv ==
    /\ pc # "down" => session \in Sessions
    /\ \A w \in 1 .. writes :
          /\ author[w] \in 1 .. session
          /\ w > inherited => author[w] = session
    /\ \A v, w \in 1 .. writes : v <= w => author[v] <= author[w]

\* A model is launched when its controller's number is on record for good, and what
\* it remembers is what it has seen.
ModelInv ==
    \A m \in Sessions :
        /\ Running(m) => confirmed > 0 /\ author[confirmed] >= m
        /\ m > session => phase[m] = "none" /\ last_pid[m] = Nobody
        /\ m = session => last_pid[m] \in {Nobody, m}
        /\ lfirst[m] => last_pid[m] = Nobody

WatchInv ==
    WatchTypeOK /\ Inv /\ AuthorInv /\ ModelInv /\ NeverTakenForStandalone

\* The file a running model reads is whole, and no older than its own controller.
LEMMA FileRead ==
    ASSUME WatchInv, NEW m \in Sessions, Running(m)
    PROVE  /\ file \in 1 .. writes /\ file \notin {Absent, Torn}
           /\ author[file] \in m .. session
<1> USE DEF WatchInv
<1>1. confirmed > 0 /\ author[confirmed] >= m
  BY DEF ModelInv
<1>2. writes \in Nat /\ confirmed \in 1 .. writes /\ confirmed <= file /\ file <= writes
  BY <1>1 DEF Inv, TypeOK
<1>3. file \in 1 .. writes
  BY <1>2, ContentsFacts DEF Inv, TypeOK
<1>4. session \in Int /\ m \in Int
  BY SessionsAssumption DEF WatchTypeOK, Sessions
<1>5. author[file] \in 1 .. session /\ author[confirmed] \in 1 .. session
  BY <1>2, <1>3 DEF AuthorInv
<1>6. author[confirmed] <= author[file]
  BY <1>2, <1>3 DEF AuthorInv
<1>7. file \notin {Absent, Torn}
  BY <1>3 DEF Absent, Torn
<1>8. author[file] \in m .. session
  BY <1>1, <1>4, <1>5, <1>6
<1> QED
  BY <1>3, <1>7, <1>8

\* Every step is one of the progress file, or leaves it alone.
LEMMA FileStep == [WatchNext]_watchVars => [Next]_vars
<1> SUFFICES ASSUME [WatchNext]_watchVars
             PROVE  [Next]_vars
  OBVIOUS
<1>1. CASE StartSession \/ CallWritePid \/ ReplaceFile \/ SessionDies \/ HostDies
  BY <1>1 DEF StartSession, CallWritePid, ReplaceFile, SessionDies, HostDies, Next
<1>2. CASE Launch
  BY <1>2 DEF Launch
<1>3. ASSUME NEW m \in Sessions, Model(m) \/ ModelEnds(m) \/ NumberTaken(m)
      PROVE  UNCHANGED vars
  BY <1>3 DEF Model, CheckPid, StepEnds, ModelEnds, NumberTaken
<1>4. CASE UNCHANGED watchVars
  BY <1>4 DEF watchVars
<1> QED
  BY <1>1, <1>2, <1>3, <1>4 DEF WatchNext

\* The progress file is as ProgressFile has it, whatever the models do.
LEMMA WatchImplementsFile == WatchSafety => Spec
<1>1. WatchInit => Init
  BY DEF WatchInit
<1> QED
  BY <1>1, FileStep, PTL DEF WatchSafety, Spec

LEMMA WatchInitially == WatchInit => WatchInv
<1> SUFFICES ASSUME WatchInit
             PROVE  WatchInv
  OBVIOUS
<1> USE SessionsAssumption, MaxWritesAssumption DEF WatchInit
<1>1. Inv
  BY InitInv
<1>2. writes = 0 /\ pc = "down"
  BY DEF Init
<1>3. WatchTypeOK
  BY <1>1, <1>2 DEF WatchTypeOK, Inv, Nobody, Sessions
<1>4. AuthorInv
  BY <1>2 DEF AuthorInv
<1>5. ModelInv /\ NeverTakenForStandalone
  BY DEF ModelInv, NeverTakenForStandalone, Running
<1> QED
  BY <1>1, <1>3, <1>4, <1>5 DEF WatchInv

\* The steps that leave the models alone, but may confirm a write.
LEMMA FileStepKeepsModels ==
    ASSUME WatchInv, Inv', AuthorInv', UNCHANGED <<session, watch>>,
           confirmed <= confirmed', writes <= writes',
           \A w \in 1 .. writes : author'[w] = author[w]
    PROVE  ModelInv' /\ NeverTakenForStandalone'
<1> USE DEF WatchInv
<1>1. ASSUME NEW m \in Sessions, Running(m)
      PROVE  confirmed' > 0 /\ author'[confirmed'] >= m
  <2>1. confirmed > 0 /\ author[confirmed] >= m
    BY <1>1 DEF ModelInv
  <2>2. /\ confirmed \in 1 .. writes /\ writes \in Nat
        /\ confirmed' \in 1 .. writes' /\ writes' \in Nat
    BY <2>1 DEF Inv, TypeOK
  <2>3. author'[confirmed] = author[confirmed] /\ confirmed \in 1 .. writes'
    BY <2>2
  <2>4. author'[confirmed] <= author'[confirmed']
    BY <2>2, <2>3 DEF AuthorInv
  <2>5. author'[confirmed] \in Int /\ author'[confirmed'] \in Int
    BY <2>2, <2>3 DEF AuthorInv
  <2>6. m \in Int
    BY DEF Sessions
  <2> QED
    BY <2>1, <2>2, <2>3, <2>4, <2>5, <2>6
<1>2. ModelInv'
  BY <1>1 DEF ModelInv, Running, watch
<1> QED
  BY <1>2 DEF NeverTakenForStandalone, watch

LEMMA WatchStep == WatchInv /\ [WatchNext]_watchVars => WatchInv'
<1> SUFFICES ASSUME WatchInv, [WatchNext]_watchVars
             PROVE  WatchInv'
  OBVIOUS
<1> USE SessionsAssumption, MaxWritesAssumption
<1>1. WatchTypeOK /\ Inv /\ AuthorInv /\ ModelInv /\ NeverTakenForStandalone
  BY DEF WatchInv
<1>2. Inv' /\ TypeOK' /\ TypeOK
  BY <1>1, FileStep, InvStep DEF Inv
<1>3. writes \in Nat /\ writes' \in Nat /\ session \in Nat
  BY <1>1, <1>2 DEF TypeOK, WatchTypeOK
<1>4. CASE StartSession
  <2>1. /\ session' = session + 1 /\ session < MaxSessions /\ inherited' = writes
        /\ UNCHANGED <<author, taken, watch, writes, confirmed>>
    BY <1>4 DEF StartSession, Start
  <2>2. WatchTypeOK'
    BY <1>1, <1>2, <1>3, <2>1 DEF WatchTypeOK, watch, Sessions
  <2>3. AuthorInv'
    BY <1>1, <1>3, <2>1 DEF AuthorInv, Sessions
  <2>4. ModelInv'
    BY <1>1, <1>3, <2>1 DEF ModelInv, watch, Running, Sessions
  <2>5. NeverTakenForStandalone'
    BY <1>1, <2>1 DEF NeverTakenForStandalone, watch
  <2> QED
    BY <1>2, <2>2, <2>3, <2>4, <2>5 DEF WatchInv
<1>5. CASE CallWritePid
  <2>1. /\ pc = "run" /\ writes < MaxWrites /\ writes' = writes + 1
        /\ UNCHANGED <<session, inherited, taken, watch, confirmed>>
        /\ author' = [author EXCEPT ![writes'] = session]
    BY <1>5 DEF CallWritePid, CallWrite
  <2>2. session \in Sessions
    BY <1>1, <2>1 DEF AuthorInv
  <2>3. WatchTypeOK'
    <3>1. author' \in [1 .. MaxWrites -> Sessions \cup {Nobody}]
      BY <1>1, <2>1, <2>2 DEF WatchTypeOK
    <3>2. inherited' \in 0 .. writes'
      BY <1>1, <1>3, <2>1 DEF WatchTypeOK
    <3> QED
      BY <1>1, <1>2, <2>1, <3>1, <3>2 DEF WatchTypeOK, watch
  <2>4. /\ \A w \in 1 .. writes : author'[w] = author[w] /\ w \in 1 .. writes'
        /\ author'[writes'] = session
        /\ \A w \in 1 .. writes' : w \in 1 .. writes \/ w = writes'
    BY <1>1, <1>3, <2>1 DEF WatchTypeOK
  <2>5. AuthorInv'
    <3>1. ASSUME NEW w \in 1 .. writes'
          PROVE  author'[w] \in 1 .. session' /\ (w > inherited' => author'[w] = session')
      BY <1>1, <1>3, <2>1, <2>2, <2>4 DEF AuthorInv, Sessions
    <3>2. ASSUME NEW v \in 1 .. writes', NEW w \in 1 .. writes', v <= w
          PROVE  author'[v] <= author'[w]
      <4>1. CASE w = writes'
        BY <2>1, <2>4, <3>1, <4>1, <1>3
      <4>2. CASE w \in 1 .. writes
        <5>1. v \in 1 .. writes
          BY <1>3, <3>2, <4>2
        <5> QED
          BY <1>1, <2>4, <3>2, <4>2, <5>1 DEF AuthorInv
      <4> QED
        BY <2>4, <4>1, <4>2
    <3>3. pc' # "down" => session' \in Sessions
      BY <2>1, <2>2
    <3> QED
      BY <3>1, <3>2, <3>3 DEF AuthorInv
  <2>6. confirmed <= confirmed' /\ writes <= writes'
    BY <1>2, <1>3, <2>1 DEF TypeOK
  <2>7. ModelInv' /\ NeverTakenForStandalone'
    BY <1>2, <2>1, <2>4, <2>5, <2>6, FileStepKeepsModels
  <2> QED
    BY <1>2, <2>3, <2>5, <2>7 DEF WatchInv
<1>6. CASE ReplaceFile
  <2>1. /\ UNCHANGED <<session, author, inherited, taken, watch, writes>>
        /\ confirmed' \in {confirmed, writes} /\ pc # "down"
    BY <1>6 DEF ReplaceFile, OpenTmp, Fill, SyncTmp, Rename, SyncParent, WriteFails
  <2>2. WatchTypeOK'
    BY <1>1, <1>2, <2>1 DEF WatchTypeOK, watch
  <2>3. AuthorInv'
    BY <1>1, <2>1 DEF AuthorInv
  <2>4. confirmed <= confirmed' /\ writes <= writes'
    BY <1>2, <1>3, <2>1 DEF TypeOK
  <2>5. ModelInv' /\ NeverTakenForStandalone'
    BY <1>2, <2>1, <2>3, <2>4, FileStepKeepsModels
  <2> QED
    BY <1>2, <2>2, <2>3, <2>5 DEF WatchInv
<1>7. CASE SessionDies
  <2>1. /\ UNCHANGED <<session, author, inherited, taken, watch, writes, confirmed>>
        /\ pc' = "down"
    BY <1>7 DEF SessionDies, ControllerDies
  <2>2. WatchTypeOK' /\ AuthorInv'
    BY <1>1, <1>2, <2>1 DEF WatchTypeOK, AuthorInv, watch
  <2>3. ModelInv' /\ NeverTakenForStandalone'
    BY <1>1, <2>1 DEF ModelInv, NeverTakenForStandalone, watch, Running
  <2> QED
    BY <1>2, <2>2, <2>3 DEF WatchInv
<1>8. CASE HostDies
  <2>1. /\ UNCHANGED <<session, author, inherited, taken, lfirst, alone, last_pid, writes, confirmed>>
        /\ pc' = "down"
        /\ phase' = [m \in Sessions |-> IF phase[m] = "none" /\ m > session
                                        THEN "none" ELSE "gone"]
    BY <1>8 DEF HostDies, HostCrash
  <2>2. WatchTypeOK' /\ AuthorInv'
    BY <1>1, <1>2, <2>1 DEF WatchTypeOK, AuthorInv
  <2>3. ModelInv' /\ NeverTakenForStandalone'
    BY <1>1, <2>1 DEF ModelInv, NeverTakenForStandalone, Running
  <2> QED
    BY <1>2, <2>2, <2>3 DEF WatchInv
<1>9. CASE Launch
  <2>1. /\ pc = "run" /\ confirmed > inherited
        /\ phase' = [phase EXCEPT ![session] = "between"]
        /\ UNCHANGED <<vars, session, author, inherited, taken, lfirst, alone, last_pid>>
    BY <1>9 DEF Launch, ReadyToLaunch
  <2>2. UNCHANGED <<writes, confirmed, pc>> /\ session \in Sessions
    BY <1>1, <2>1 DEF AuthorInv, vars
  <2>3. WatchTypeOK' /\ AuthorInv'
    BY <1>1, <1>2, <2>1, <2>2 DEF WatchTypeOK, AuthorInv
  <2>4. confirmed \in 1 .. writes /\ confirmed > 0 /\ author[confirmed] = session
    <3>1. confirmed \in 0 .. writes /\ inherited \in 0 .. writes
      BY <1>1, <1>2 DEF TypeOK, WatchTypeOK
    <3>2. confirmed \in 1 .. writes /\ confirmed > 0
      BY <1>3, <2>1, <3>1
    <3> QED
      BY <1>1, <2>1, <3>2 DEF AuthorInv
  <2>5. ModelInv'
    <3> SUFFICES ASSUME NEW m \in Sessions
                 PROVE  ModelInv!(m)'
      BY DEF ModelInv
    <3>1. CASE m = session
      BY <1>1, <1>3, <2>1, <2>2, <2>4, <3>1 DEF ModelInv, WatchTypeOK, Running
    <3>2. CASE m # session
      BY <1>1, <2>1, <2>2, <3>2 DEF ModelInv, WatchTypeOK, Running
    <3> QED
      BY <3>1, <3>2
  <2>6. NeverTakenForStandalone'
    BY <1>1, <2>1 DEF NeverTakenForStandalone
  <2> QED
    BY <1>2, <2>3, <2>5, <2>6 DEF WatchInv
<1>10. ASSUME NEW m \in Sessions, CheckPid(m)
       PROVE  WatchInv'
  <2>1. /\ UNCHANGED <<vars, session, author, inherited, taken>>
        /\ UNCHANGED <<writes, confirmed, pc>> /\ phase[m] = "between"
    BY <1>10 DEF CheckPid, vars
  <2>2. /\ file \in 1 .. writes /\ file \notin {Absent, Torn} /\ author[file] \in m .. session
        /\ Running(m)
    BY <2>1, FileRead DEF Running
  <2>3. ~Standalone(m)
    BY <1>1, <2>2 DEF Standalone, NeverTakenForStandalone
  <2>4. /\ alone' = [alone EXCEPT ![m] = FALSE]
        /\ lfirst' = [lfirst EXCEPT ![m] = FALSE]
        /\ \E p \in {"step", "gone"} : phase' = [phase EXCEPT ![m] = p]
        /\ \E pid \in {last_pid[m], author[file]} : last_pid' = [last_pid EXCEPT ![m] = pid]
    <3>1. Standalone(m) = FALSE
      BY <2>3 DEF Standalone, NeverTakenForStandalone, WatchTypeOK, WatchInv
    <3> QED
      BY <1>10, <3>1, Zenon DEF CheckPid
  <2>5. author[file] \in Sessions /\ m \in Int
    BY <1>1, <1>3, <2>2 DEF WatchTypeOK, Sessions
  <2>6. WatchTypeOK'
    BY <1>1, <1>2, <2>1, <2>4, <2>5 DEF WatchTypeOK
  <2>7. AuthorInv'
    BY <1>1, <2>1 DEF AuthorInv
  <2>8. m <= session /\ (m = session => author[file] = m)
    BY <1>3, <2>2, <2>5
  <2>9. ModelInv'
    <3> SUFFICES ASSUME NEW n \in Sessions
                 PROVE  ModelInv!(n)'
      BY DEF ModelInv
    <3>1. CASE n = m
      BY <1>1, <1>3, <2>1, <2>2, <2>4, <2>5, <2>8, <3>1 DEF ModelInv, WatchTypeOK, Running
    <3>2. CASE n # m
      BY <1>1, <2>1, <2>4, <3>2 DEF ModelInv, WatchTypeOK, Running
    <3> QED
      BY <3>1, <3>2
  <2>10. NeverTakenForStandalone'
    BY <1>1, <2>4 DEF NeverTakenForStandalone, WatchTypeOK
  <2> QED
    BY <1>2, <2>6, <2>7, <2>9, <2>10 DEF WatchInv
<1>11. ASSUME NEW m \in Sessions, StepEnds(m) \/ ModelEnds(m)
       PROVE  WatchInv'
  <2>1. /\ UNCHANGED <<vars, session, author, inherited, taken, lfirst, alone, last_pid>>
        /\ UNCHANGED <<writes, confirmed, pc>> /\ Running(m)
        /\ \E p \in {"between", "gone"} : phase' = [phase EXCEPT ![m] = p]
    BY <1>11 DEF StepEnds, ModelEnds, vars, Running
  <2>2. WatchTypeOK' /\ AuthorInv'
    BY <1>1, <1>2, <2>1 DEF WatchTypeOK, AuthorInv
  <2>3. ModelInv' /\ NeverTakenForStandalone'
    BY <1>1, <2>1 DEF ModelInv, WatchTypeOK, Running, NeverTakenForStandalone
  <2> QED
    BY <1>2, <2>2, <2>3 DEF WatchInv
<1>12. ASSUME NEW pid \in Sessions, NumberTaken(pid)
       PROVE  WatchInv'
  <2>1. /\ UNCHANGED <<vars, session, author, inherited, watch>>
        /\ UNCHANGED <<writes, confirmed, pc>> /\ taken' \subseteq taken \cup {pid}
    BY <1>12 DEF NumberTaken, vars
  <2>2. WatchTypeOK' /\ AuthorInv'
    BY <1>1, <1>2, <2>1 DEF WatchTypeOK, AuthorInv, watch
  <2>3. ModelInv' /\ NeverTakenForStandalone'
    BY <1>1, <2>1 DEF ModelInv, Running, NeverTakenForStandalone, watch
  <2> QED
    BY <1>2, <2>2, <2>3 DEF WatchInv
<1>13. CASE UNCHANGED watchVars
  BY <1>1, <1>2, <1>13 DEF WatchInv, watchVars, vars, watch, WatchTypeOK, AuthorInv, ModelInv,
                           Running, NeverTakenForStandalone
<1> QED
  BY <1>4, <1>5, <1>6, <1>7, <1>8, <1>9, <1>10, <1>11, <1>12, <1>13 DEF WatchNext, Model

LEMMA WatchInvariant == WatchSafety => []WatchInv
<1> QED
  BY WatchInitially, WatchStep, PTL DEF WatchSafety

-----------------------------------------------------------------------------

\* WatchTypeOK: the variables of the controllers and their models have their types.
THEOREM WatchTypeInvariant == WatchSpec => []WatchTypeOK
<1>1. WatchInv => WatchTypeOK
  BY DEF WatchInv
<1> QED
  BY <1>1, WatchInvariant, PTL DEF WatchSpec

\* A model launched by a controller never takes itself for a standalone one: the
\* progress file was confirmed before the launch and is there ever after.
THEOREM NeverTakenForStandaloneInvariant == WatchSpec => []NeverTakenForStandalone
<1>1. WatchInv => NeverTakenForStandalone
  BY DEF WatchInv
<1> QED
  BY <1>1, WatchInvariant, PTL DEF WatchSpec

\* cpdn_checkpid() stops no model whose own controller is there.
THEOREM WatchSparesControlledTheorem == WatchSpec => WatchSparesControlled
<1>1. WatchInv /\ [WatchNext]_watchVars
          => [\A m \in Sessions :
                 (CheckPid(m) /\ phase'[m] = "gone") => ~Alive(m)]_watchVars
  <2> SUFFICES ASSUME WatchInv, NEW m \in Sessions, CheckPid(m), Alive(m)
               PROVE  phase'[m] # "gone"
    OBVIOUS
  <2>1. phase[m] = "between" /\ m = session /\ pc # "down"
    BY DEF CheckPid, Alive
  <2>2. file \notin {Absent, Torn} /\ author[file] \in m .. session
    BY <2>1, FileRead DEF Running
  <2>3. author[file] = m
    BY <2>1, <2>2, SessionsAssumption DEF Sessions
  <2>4. last_pid[m] \in {Nobody, m}
    BY <2>1 DEF WatchInv, ModelInv
  <2>5. ControllerFound(m)
    BY <2>2, <2>3, <2>4 DEF ControllerFound, SamePid, IsRunning
  <2>6. phase' = [phase EXCEPT ![m] = "step"]
    BY <2>5 DEF CheckPid
  <2> QED
    BY <2>6 DEF WatchInv, WatchTypeOK
<1> QED
  BY <1>1, WatchInvariant, PTL DEF WatchSpec, WatchSafety, WatchSparesControlled

\* A model that has seen its controller begins no step beside a model of a later one:
\* the later controller's number was on record before its model was launched.
THEOREM NoStepBesideSuccessorTheorem == WatchSpec => NoStepBesideSuccessor
<1>1. WatchInv /\ [WatchNext]_watchVars
          => [\A m, n \in Sessions :
                 (m < n /\ Running(n) /\ last_pid[m] = m) => ~BeginsStep(m)]_watchVars
  <2> SUFFICES ASSUME WatchInv, [WatchNext]_watchVars,
                      NEW m \in Sessions, NEW n \in Sessions,
                      m < n, Running(n), last_pid[m] = m, BeginsStep(m)
               PROVE  FALSE
    OBVIOUS
  <2>1. phase \in [Sessions -> {"none", "between", "step", "gone"}]
    BY DEF WatchInv, WatchTypeOK
  <2>2. phase[m] = "between" /\ phase'[m] = "step"
    BY DEF BeginsStep
  <2>3. CheckPid(m)
    <3>1. CASE StartSession \/ CallWritePid \/ ReplaceFile \/ SessionDies \/ UNCHANGED watchVars
      BY <2>2, <3>1 DEF StartSession, CallWritePid, ReplaceFile, SessionDies, watch, watchVars
    <3>2. CASE Launch
      BY <2>1, <2>2, <3>2 DEF Launch
    <3>3. CASE HostDies
      BY <2>2, <3>3 DEF HostDies
    <3>4. ASSUME NEW k \in Sessions, CheckPid(k) \/ StepEnds(k) \/ ModelEnds(k) \/ NumberTaken(k)
          PROVE  CheckPid(m)
      <4>1. CASE NumberTaken(k)
        BY <2>2, <4>1 DEF NumberTaken, watch
      <4>2. CASE StepEnds(k) \/ ModelEnds(k)
        BY <2>1, <2>2, <4>2 DEF StepEnds, ModelEnds
      <4>3. CASE CheckPid(k)
        BY <2>1, <2>2, <4>3 DEF CheckPid
      <4> QED
        BY <3>4, <4>1, <4>2, <4>3
    <3> QED
      BY <3>1, <3>2, <3>3, <3>4 DEF WatchNext, Model
  <2>4. m \in Int /\ n \in Int /\ m > 0
    BY DEF Sessions
  <2>5. last_pid[m] # Nobody /\ ~lfirst[m]
    BY <2>4 DEF WatchInv, ModelInv, Nobody
  <2>6. ~Standalone(m)
    BY <2>5 DEF Standalone, WatchInv, NeverTakenForStandalone
  <2>7. ControllerFound(m)
    BY <2>1, <2>2, <2>3, <2>6 DEF CheckPid
  <2>8. author[file] = m
    BY <2>5, <2>7 DEF ControllerFound, SamePid
  <2>9. author[file] \in n .. session
    BY FileRead
  <2>10. session \in Int
    BY DEF WatchInv, WatchTypeOK
  <2> QED
    BY <2>4, <2>8, <2>9, <2>10
<1> QED
  BY <1>1, WatchInvariant, PTL DEF WatchSpec, WatchSafety, NoStepBesideSuccessor

\* With models that read it and controllers that come and go, the progress file still
\* is a record that is replaced as a whole.
THEOREM WatchImplementsRecord == WatchSpec => ImplementsRecord
<1> QED
  BY WatchImplementsFile, RecordRefinement, PTL DEF WatchSpec

-----------------------------------------------------------------------------
(* Liveness is TLC's part; that OrphansEnd cannot fail for want of progress *)
(* within a model is an action property, and can be proved.                *)

\* The model has seen its controller, which is no more.
Orphan(m) == Running(m) /\ last_pid[m] = m /\ ~Alive(m)

\* What the model still does of its own: the rest of a time step, and a last look.
StepsLeft(m) == IF phase[m] = "step" THEN 2 ELSE 1

\* An orphan stays one until it has gone or another process has its controller's
\* number, and everything it does in between brings its end nearer.
OrphansEndInSteps ==
    [][\A m \in Sessions :
          (Orphan(m) /\ m \notin taken) =>
              \/ ~Running(m)'
              \/ /\ Orphan(m)'
                 /\ StepsLeft(m)' <= StepsLeft(m)
                 /\ Model(m) => StepsLeft(m)' < StepsLeft(m)]_watchVars

\* The safety half of OrphansEnd: a model whose controller is gone does at most two
\* more things, for its next look at the progress file finds another controller's
\* number there, or its own controller's and no such process.
THEOREM OrphansEndInStepsTheorem == WatchSpec => OrphansEndInSteps
<1>1. WatchInv /\ [WatchNext]_watchVars
          => [\A m \in Sessions :
                 (Orphan(m) /\ m \notin taken) =>
                     \/ ~Running(m)'
                     \/ /\ Orphan(m)'
                        /\ StepsLeft(m)' <= StepsLeft(m)
                        /\ Model(m) => StepsLeft(m)' < StepsLeft(m)]_watchVars
  <2> SUFFICES ASSUME WatchInv, [WatchNext]_watchVars,
                      NEW m \in Sessions, Orphan(m), m \notin taken, Running(m)'
               PROVE  /\ Orphan(m)'
                      /\ StepsLeft(m)' <= StepsLeft(m)
                      /\ Model(m) => StepsLeft(m)' < StepsLeft(m)
    OBVIOUS
  <2>1. /\ phase \in [Sessions -> {"none", "between", "step", "gone"}]
        /\ last_pid \in [Sessions -> Sessions \cup {Nobody}]
        /\ session \in Int /\ m \in Int /\ m > 0
    BY SessionsAssumption DEF WatchInv, WatchTypeOK, Sessions
  <2>2. Running(m) /\ last_pid[m] = m /\ ~Alive(m)
    BY DEF Orphan
  <2>3. phase[m] \in {"between", "step"} /\ phase'[m] \in {"between", "step"}
    BY <2>2 DEF Running
  <2>4. m <= session
    BY <2>1, <2>3 DEF WatchInv, ModelInv
  <2>5. ~ControllerFound(m) /\ ~Standalone(m)
    <3>1. last_pid[m] # Nobody /\ ~lfirst[m]
      BY <2>1, <2>2 DEF WatchInv, ModelInv, Nobody
    <3>2. ~Standalone(m)
      BY <3>1 DEF Standalone, WatchInv, NeverTakenForStandalone
    <3>3. SamePid(m) => author[file] = m
      BY <2>2, <3>1 DEF SamePid
    <3>4. ~IsRunning(m)
      BY <2>2 DEF IsRunning
    <3> QED
      BY <3>2, <3>3, <3>4 DEF ControllerFound
  <2>6. ~CheckPid(m)
    BY <2>1, <2>3, <2>5 DEF CheckPid
  \* The controller does not come back.
  <2>7. ~Alive(m)'
    <3>1. CASE StartSession
      BY <2>1, <2>4, <3>1 DEF StartSession, Alive
    <3>2. CASE CallWritePid \/ ReplaceFile \/ SessionDies \/ HostDies
      <4>1. session' = session /\ (pc = "down" => pc' = "down")
        BY <3>2 DEF CallWritePid, ReplaceFile, SessionDies, HostDies, CallWrite, OpenTmp, Fill,
                    SyncTmp, Rename, SyncParent, WriteFails, ControllerDies, HostCrash
      <4> QED
        BY <2>2, <4>1 DEF Alive
    <3>3. ASSUME Launch \/ (\E k \in Sessions : Model(k) \/ ModelEnds(k) \/ NumberTaken(k))
                 \/ UNCHANGED watchVars
          PROVE  ~Alive(m)'
      <4>1. UNCHANGED <<session, pc>>
        BY <3>3 DEF Launch, Model, CheckPid, StepEnds, ModelEnds, NumberTaken, watchVars, vars
      <4> QED
        BY <2>2, <4>1 DEF Alive
    <3> QED
      BY <3>1, <3>2, <3>3 DEF WatchNext
  \* It has the same steps to do, unless this is one of them.
  <2>8. /\ last_pid'[m] = m
        /\ \/ phase'[m] = phase[m]
           \/ phase[m] = "step" /\ phase'[m] = "between"
    <3>1. CASE StartSession \/ CallWritePid \/ ReplaceFile \/ SessionDies \/ UNCHANGED watchVars
      BY <2>2, <3>1 DEF StartSession, CallWritePid, ReplaceFile, SessionDies, watch, watchVars
    <3>2. CASE Launch
      BY <2>1, <2>2, <2>3, <3>2 DEF Launch
    <3>3. CASE HostDies
      BY <2>3, <3>3 DEF HostDies
    <3>4. ASSUME NEW k \in Sessions, NumberTaken(k)
          PROVE  phase'[m] = phase[m] /\ last_pid'[m] = m
      BY <2>2, <3>4 DEF NumberTaken, watch
    <3>5. ASSUME NEW k \in Sessions, StepEnds(k) \/ ModelEnds(k)
          PROVE  /\ last_pid'[m] = m
                 /\ \/ phase'[m] = phase[m]
                    \/ phase[m] = "step" /\ phase'[m] = "between"
      BY <2>1, <2>2, <2>3, <3>5 DEF StepEnds, ModelEnds
    <3>6. ASSUME NEW k \in Sessions, CheckPid(k)
          PROVE  phase'[m] = phase[m] /\ last_pid'[m] = m
      <4>1. k # m
        BY <2>6, <3>6
      <4> QED
        BY <2>1, <2>2, <3>6, <4>1 DEF CheckPid
    <3> QED
      BY <3>1, <3>2, <3>3, <3>4, <3>5, <3>6 DEF WatchNext, Model
  <2>9. Model(m) => phase[m] = "step" /\ phase'[m] = "between"
    BY <2>1, <2>6 DEF Model, StepEnds
  <2>10. Orphan(m)'
    BY <2>7, <2>8 DEF Orphan
  <2> QED
    BY <2>8, <2>9, <2>10 DEF StepsLeft
<1> QED
  BY <1>1, WatchInvariant, PTL DEF WatchSpec, WatchSafety, OrphansEndInSteps

=============================================================================
