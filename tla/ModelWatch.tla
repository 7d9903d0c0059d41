----------------------------- MODULE ModelWatch -----------------------------
(***************************************************************************)
(* How a model notices that its controller is gone: at every time step it  *)
(* reads the progress file, in which each controller writes its process    *)
(* number, and asks whether that process is there (cpdn_checkpid.f90,      *)
(* cpdn_process_check.c).  The file is the one ProgressFile describes, read *)
(* while it is being replaced; controllers are killed and started again,   *)
(* and a model outlives its own.                                           *)
(*                                                                         *)
(* Session n of the controller has process number n, and starts model n.   *)
(***************************************************************************)
EXTENDS ProgressFile

CONSTANT MaxSessions    \* bound: controller processes of one task

ASSUME SessionsAssumption == MaxSessions \in Nat \ {0}

Sessions == 1 .. MaxSessions

Nobody == 0

VARIABLES
    session,    \* the controller process that runs, or ran last
    author,     \* control_pid of each version of the progress file
    inherited,  \* versions written by the sessions before this one
    taken,      \* numbers of ended controllers that other processes have now
    (* the models: none, between two steps, in a step, or gone *)
    phase,
    lfirst,     \* it has not looked yet
    alone,      \* lstandalone
    last_pid    \* the controller it has seen, or Nobody

watch == <<phase, lfirst, alone, last_pid>>
watchVars == <<vars, session, author, inherited, taken, watch>>

WatchTypeOK ==
    /\ TypeOK
    /\ session \in 0 .. MaxSessions
    /\ author \in [1 .. MaxWrites -> Sessions \cup {Nobody}]
    /\ inherited \in 0 .. writes
    /\ taken \subseteq Sessions
    /\ phase \in [Sessions -> {"none", "between", "step", "gone"}]
    /\ lfirst \in [Sessions -> BOOLEAN]
    /\ alone \in [Sessions -> BOOLEAN]
    /\ last_pid \in [Sessions -> Sessions \cup {Nobody}]

WatchInit ==
    /\ Init
    /\ session = 0
    /\ author = [w \in 1 .. MaxWrites |-> Nobody]
    /\ inherited = 0
    /\ taken = {}
    /\ phase = [m \in Sessions |-> "none"]
    /\ lfirst = [m \in Sessions |-> TRUE]
    /\ alone = [m \in Sessions |-> FALSE]
    /\ last_pid = [m \in Sessions |-> Nobody]

-----------------------------------------------------------------------------
(* The controllers.                                                        *)

\* main() from its beginning to the decision how to start.
StartSession ==
    /\ session < MaxSessions
    /\ Start
    /\ session' = session + 1
    /\ inherited' = writes
    /\ UNCHANGED <<author, taken, watch>>

\* Mutant: the process number is left as an earlier controller wrote it.
CallWriteOldPid ==
    /\ CallWrite
    /\ author' = [author EXCEPT ![writes'] = IF file > 0 THEN author[file] ELSE session]
    /\ UNCHANGED <<session, inherited, taken, watch>>

CallWritePid ==
    /\ CallWrite
    /\ author' = [author EXCEPT ![writes'] = session]
    /\ UNCHANGED <<session, inherited, taken, watch>>

ReplaceFile ==
    /\ OpenTmp \/ Fill \/ SyncTmp \/ Rename \/ SyncParent \/ WriteFails
    /\ UNCHANGED <<session, author, inherited, taken, watch>>

\* Mutant: the model is launched before the progress file is written.
ReadyToLaunchAtOnce == pc = "run"

\* The progress file is written, then the model launched.
ReadyToLaunch == pc = "run" /\ confirmed > inherited

Launch ==
    /\ ReadyToLaunch /\ phase[session] = "none"
    /\ phase' = [phase EXCEPT ![session] = "between"]
    /\ UNCHANGED <<vars, session, author, inherited, taken, lfirst, alone, last_pid>>

SessionDies ==
    /\ ControllerDies
    /\ UNCHANGED <<session, author, inherited, taken, watch>>

-----------------------------------------------------------------------------
(* The models.                                                             *)

Alive(pid) == pid = session /\ pc # "down"

\* Mutant: what the last look has found is trusted.
IsRunningIfSeen(pid) == pid # Nobody

\* cpdn_is_process_running(): kill(pid, 0) finds any process of that number.
IsRunning(pid) == Alive(pid) \/ pid \in taken

\* Mutant: a changed control_pid is accepted.
SamePidAny(m) == TRUE

\* The control_pid is the one seen before, or the first one seen.
SamePid(m) == last_pid[m] \in {Nobody, author[file]}

Standalone(m) == IF lfirst[m] THEN file = Absent ELSE alone[m]

\* The progress file can be read and names a process that is there.
ControllerFound(m) ==
    /\ file \notin {Absent, Torn}
    /\ SamePid(m)
    /\ IsRunning(author[file])

\* cpdn_checkpid() at the beginning of a time step.
CheckPid(m) ==
    /\ phase[m] = "between"
    /\ lfirst' = [lfirst EXCEPT ![m] = FALSE]
    /\ alone' = [alone EXCEPT ![m] = Standalone(m)]
    /\ last_pid' = [last_pid EXCEPT ![m] =
                       IF ~Standalone(m) /\ @ = Nobody /\ file \notin {Absent, Torn}
                       THEN author[file] ELSE @]
    /\ phase' = [phase EXCEPT ![m] =
                    IF Standalone(m) \/ ControllerFound(m) THEN "step" ELSE "gone"]
    /\ UNCHANGED <<vars, session, author, inherited, taken>>

StepEnds(m) ==
    /\ phase[m] = "step"
    /\ phase' = [phase EXCEPT ![m] = "between"]
    /\ UNCHANGED <<vars, session, author, inherited, taken, lfirst, alone, last_pid>>

\* Its last step done, or for any other reason.
ModelEnds(m) ==
    /\ phase[m] \in {"between", "step"}
    /\ phase' = [phase EXCEPT ![m] = "gone"]
    /\ UNCHANGED <<vars, session, author, inherited, taken, lfirst, alone, last_pid>>

\* Another process gets the number of a controller that is no more, or ends.
NumberTaken(pid) ==
    /\ pid <= session /\ ~Alive(pid)
    /\ taken' = IF pid \in taken THEN taken \ {pid} ELSE taken \cup {pid}
    /\ UNCHANGED <<vars, session, author, inherited, watch>>

\* The host crashes with all that runs on it.
HostDies ==
    /\ HostCrash
    /\ phase' = [m \in Sessions |-> IF phase[m] = "none" /\ m > session
                                    THEN "none" ELSE "gone"]
    /\ UNCHANGED <<session, author, inherited, taken, lfirst, alone, last_pid>>

Model(m) == CheckPid(m) \/ StepEnds(m)

WatchNext ==
    \/ StartSession \/ CallWritePid \/ ReplaceFile \/ Launch \/ SessionDies
    \/ \E m \in Sessions : Model(m) \/ ModelEnds(m) \/ NumberTaken(m)
    \/ HostDies

WatchSafety == WatchInit /\ [][WatchNext]_watchVars

\* A model gets on with its steps and its checks.
WatchSpec == WatchSafety /\ \A m \in Sessions : WF_watchVars(Model(m))

-----------------------------------------------------------------------------
(* Properties.                                                             *)

Running(m) == phase[m] \in {"between", "step"}

BeginsStep(m) == phase[m] = "between" /\ phase'[m] = "step"

\* A model under control never takes itself for a standalone one, which nobody
\* would stop: when it looks first, the progress file is there.
NeverTakenForStandalone == \A m \in Sessions : ~alone[m]

\* The watch never stops a model whose own controller is there, in whatever
\* state of its writes the controller is, and whether they succeed.
WatchSparesControlled ==
    [][\A m \in Sessions :
          (CheckPid(m) /\ phase'[m] = "gone") => ~Alive(m)]_watchVars

\* Once a model has been launched by the next controller, no earlier one that has
\* seen its own controller begins a step, though another process may have got
\* that controller's number.
NoStepBesideSuccessor ==
    [][\A m, n \in Sessions :
          (m < n /\ Running(n) /\ last_pid[m] = m) => ~BeginsStep(m)]_watchVars

\* A model that has seen its controller does not go on for ever without it,
\* unless another process has got that controller's number.
OrphansEnd ==
    \A m \in Sessions :
        (Running(m) /\ last_pid[m] = m /\ ~Alive(m))
            ~> (~Running(m) \/ m \in taken)

=============================================================================
