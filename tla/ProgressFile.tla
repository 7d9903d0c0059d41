---------------------------- MODULE ProgressFile ----------------------------
(***************************************************************************)
(* How ProgressFileHandler::write() replaces the progress file, one system *)
(* call after the other, when the controller or the whole host may die     *)
(* between any two of them (progressfile_handler.cpp, POSIX branch).       *)
(*                                                                         *)
(* The contents of a file are named by the number of the write() that      *)
(* produced them.  The page cache is what every process sees; of what was  *)
(* not synchronised, a crash of the host keeps or loses any part.          *)
(***************************************************************************)
EXTENDS Integers

CONSTANTS
    MaxWrites,     \* bound: calls of write(), over all controller processes
    HostCrashes    \* may the host crash?

ASSUME MaxWritesAssumption == MaxWrites \in Nat
ASSUME HostCrashesAssumption == HostCrashes \in BOOLEAN

Absent == 0      \* there is no file of that name

Torn == -1       \* the file is empty or a part of what was written

Contents == Torn .. MaxWrites

VARIABLES
    file,        \* the progress file, as processes see it
    on_disk,     \* what it may be after a crash of the host
    tmp,         \* the temporary file, as processes see it
    synced,      \* is the temporary file on disk?
    pc,          \* the next step of the controller
    writes,      \* calls of write() so far
    confirmed    \* the last call that returned true

fs == <<file, on_disk, tmp, synced>>
vars == <<fs, pc, writes, confirmed>>

PCs == {"down", "run", "open", "fill", "sync", "rename", "sync_parent", "leaving"}

TypeOK ==
    /\ writes \in 0 .. MaxWrites
    /\ confirmed \in 0 .. writes
    /\ file \in Contents /\ file <= writes
    /\ on_disk \subseteq Contents /\ file \in on_disk
    /\ tmp \in Contents
    /\ synced \in BOOLEAN
    /\ pc \in PCs

Init ==
    /\ file = Absent /\ on_disk = {Absent}
    /\ tmp = Absent /\ synced = FALSE
    /\ pc = "down"
    /\ writes = 0 /\ confirmed = 0

\* initialize_task_state_from_restart(): an empty or incomplete file is refused.
Start ==
    /\ pc = "down"
    /\ pc' = IF file = Torn THEN "leaving" ELSE "run"
    /\ UNCHANGED <<fs, writes, confirmed>>

CallWrite ==
    /\ pc = "run" /\ writes < MaxWrites
    /\ writes' = writes + 1
    /\ pc' = "open"
    /\ UNCHANGED <<fs, confirmed>>

\* Mutant: the progress file itself is truncated and filled.
OpenTmpInPlace ==
    /\ pc = "open"
    /\ file' = Torn /\ on_disk' = on_disk \cup {Torn}
    /\ tmp' = Torn /\ synced' = FALSE
    /\ pc' = "fill"
    /\ UNCHANGED <<writes, confirmed>>

\* The temporary file is created, or one left over is truncated.
OpenTmp ==
    /\ pc = "open"
    /\ tmp' = Torn /\ synced' = FALSE
    /\ pc' = "fill"
    /\ UNCHANGED <<file, on_disk, writes, confirmed>>

\* Mutant: what is written is one version ahead of the task state.
FillTooNew ==
    /\ pc = "fill"
    /\ tmp' = writes + 1
    /\ pc' = "sync"
    /\ UNCHANGED <<file, on_disk, synced, writes, confirmed>>

\* The fields are written and the stream is closed.
Fill ==
    /\ pc = "fill"
    /\ tmp' = writes
    /\ pc' = "sync"
    /\ UNCHANGED <<file, on_disk, synced, writes, confirmed>>

\* Mutant: the file descriptor is closed and fsync() forgotten.
SyncTmpForgotten ==
    /\ pc = "sync"
    /\ pc' = "rename"
    /\ UNCHANGED <<fs, writes, confirmed>>

\* sync_file_to_disk()
SyncTmp ==
    /\ pc = "sync"
    /\ synced' = TRUE
    /\ pc' = "rename"
    /\ UNCHANGED <<file, on_disk, tmp, writes, confirmed>>

\* What a file may be on disk that processes see as c.
Durable(c) == IF synced THEN {c} ELSE {c, Torn}

\* replace_file_atomically(): on disk the name may still be that of an earlier
\* file.
Rename ==
    /\ pc = "rename"
    /\ file' = tmp
    /\ on_disk' = on_disk \cup Durable(tmp)
    /\ tmp' = Absent
    /\ pc' = "sync_parent"
    /\ UNCHANGED <<synced, writes, confirmed>>

\* Mutant: success is reported without waiting for the directory.
SyncParentForgotten ==
    /\ pc = "sync_parent"
    /\ confirmed' = writes
    /\ pc' = "run"
    /\ UNCHANGED <<fs, writes>>

\* sync_parent_directory(), and write() returns true.
SyncParent ==
    /\ pc = "sync_parent"
    /\ on_disk' = Durable(file)
    /\ confirmed' = writes
    /\ pc' = "run"
    /\ UNCHANGED <<file, tmp, synced, writes>>

\* A step fails: the temporary file is removed if it can be, and write()
\* returns false.  The controller does not write again: it recovers and leaves.
WriteFails ==
    /\ pc \in {"open", "fill", "sync", "rename", "sync_parent"}
    /\ tmp' \in (IF pc \in {"open", "sync_parent"} THEN {tmp} ELSE {Absent, tmp})
    /\ pc' = "leaving"
    /\ UNCHANGED <<file, on_disk, synced, writes, confirmed>>

\* The controller process is killed, or leaves; it is started again.
ControllerDies ==
    /\ pc # "down"
    /\ pc' = "down"
    /\ UNCHANGED <<fs, writes, confirmed>>

\* The host crashes: of the page cache only what is on disk is left.
HostCrash ==
    /\ HostCrashes
    /\ file' \in on_disk
    /\ on_disk' = {file'}
    /\ tmp' \in {Absent, Torn, tmp}
    /\ pc' = "down"
    /\ UNCHANGED <<synced, writes, confirmed>>

Next ==
    \/ Start \/ CallWrite \/ OpenTmp \/ Fill \/ SyncTmp \/ Rename \/ SyncParent
    \/ WriteFails \/ ControllerDies \/ HostCrash

Spec == Init /\ [][Next]_vars

-----------------------------------------------------------------------------
(* Properties.                                                             *)

\* The model process, which reads the progress file while it is replaced, and
\* the controller started after a crash never find an empty or a partial one.
NeverTorn == Torn \notin on_disk

\* Once write() has returned true, neither a crash of the host nor a failure of
\* a later write() takes the progress file back behind what was written.
ConfirmedSurvives == \A v \in on_disk : v >= confirmed

\* The progress file is a record that is replaced as a whole.
Record == INSTANCE DurableRecord WITH
    requested <- writes,
    stored    <- file,
    confirmed <- confirmed

ImplementsRecord == Record!Spec

=============================================================================
