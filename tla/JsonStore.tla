----------------------------- MODULE JsonStore ------------------------------
(***************************************************************************)
(* One JSON file of the v3 manager and agent (manager/storage.go,          *)
(* writeJSONAtomicUnlocked and copyFile): the file itself, its .tmp and its *)
(* .bak, as a save goes through its system calls.                          *)
(*                                                                         *)
(* Saves and loads of one process hold storageMu from beginning to end, so *)
(* that at most one save is under way and no load of the same process sees *)
(* it.  The mutex does not reach the other process: the agent loads        *)
(* config.json while the manager saves it.  Windows refuses to replace or  *)
(* remove a file that somebody has open, which is when the rename fails.   *)
(*                                                                         *)
(* A content is its version: saves are numbered.                           *)
(***************************************************************************)
EXTENDS Integers

CONSTANTS
    Readers,      \* loads of the other process
    MaxVersion,   \* number of saves
    Faults,       \* the kinds of failure that may happen
    Missing,      \* there is no such file
    Torn,         \* a file that was not written to its end
    NotReading    \* a load is not under way

FaultKinds == {"stop", "write", "copy", "rename"}

Versions == 0 .. MaxVersion

ASSUME StoreAssumption ==
    /\ MaxVersion \in Nat
    /\ Faults \subseteq FaultKinds
    /\ Missing \notin Nat /\ Torn \notin Nat /\ NotReading \notin Nat
    /\ Missing # Torn /\ Missing # NotReading /\ Torn # NotReading

VARIABLES
    file,       \* the content of path
    tmp,        \* ... of path.tmp
    bak,        \* ... of path.bak
    pc,         \* how far the save is
    version,    \* the version it saves, or the last one saved
    opened,     \* opened[r]: what load r has found, while it has the file open
    last,       \* the last version whose save returned nil
    faults      \* the kinds of failure that happened

vars == <<file, tmp, bak, pc, version, opened, last, faults>>

Contents == Versions \cup {Missing, Torn}

\* The manager has installed the first version.
Init ==
    /\ file = 0
    /\ tmp = Missing
    /\ bak = Missing
    /\ pc = "idle"
    /\ version = 0
    /\ opened = [r \in Readers |-> NotReading]
    /\ last = 0
    /\ faults = {}

-----------------------------------------------------------------------------
\* Somebody has the file open.
InUse == \E r \in Readers : opened[r] \notin {NotReading, Missing}

Hit(kind) == kind \in Faults /\ faults' = faults \cup {kind}

Save ==
    /\ pc = "idle"
    /\ version < MaxVersion
    /\ version' = version + 1
    /\ pc' = "write"
    /\ UNCHANGED <<file, tmp, bak, opened, last, faults>>

\* os.WriteFile(tmp)
WriteTmp ==
    /\ pc = "write"
    /\ tmp' = version
    /\ pc' = "copy"
    /\ UNCHANGED <<file, bak, version, opened, last, faults>>

\* Mutant: an error of WriteFile is not returned.
WriteTmpFailsGoesOn ==
    /\ pc = "write"
    /\ Hit("write")
    /\ tmp' \in {tmp, Torn}
    /\ pc' = "copy"
    /\ UNCHANGED <<file, bak, version, opened, last>>

\* The directory cannot be made, or the disk is full.
WriteTmpFails ==
    /\ pc = "write"
    /\ Hit("write")
    /\ tmp' \in {tmp, Torn}
    /\ pc' = "idle"
    /\ UNCHANGED <<file, bak, version, opened, last>>

\* Mutant: no copy is made.
CopyBakSkipped ==
    /\ pc = "copy"
    /\ pc' = "rename"
    /\ UNCHANGED <<file, tmp, bak, version, opened, last, faults>>

\* copyFile(path, path.bak), when there is a file.
CopyBak ==
    /\ pc = "copy"
    /\ bak' = IF file = Missing THEN bak ELSE file
    /\ pc' = "rename"
    /\ UNCHANGED <<file, tmp, version, opened, last, faults>>

\* Creating the copy has emptied the old one; the error is ignored.
CopyBakFails ==
    /\ pc = "copy"
    /\ file # Missing
    /\ Hit("copy")
    /\ bak' \in {bak, Torn}
    /\ pc' = "rename"
    /\ UNCHANGED <<file, tmp, version, opened, last>>

\* The file is replaced by tmp.
Replace ==
    /\ ~InUse
    /\ file' = tmp
    /\ tmp' = Missing
    /\ pc' = "done"
    /\ UNCHANGED <<bak, version, opened, last, faults>>

\* os.Rename fails for whatever reason.
Refused ==
    /\ \/ InUse /\ UNCHANGED faults
       \/ Hit("rename")
    /\ UNCHANGED <<tmp, bak, version, opened, last>>

Rename ==
    /\ pc = "rename"
    /\ \/ Replace
       \/ Refused /\ pc' = "remove" /\ UNCHANGED file

\* os.Remove(path), its error ignored.
Remove ==
    /\ pc = "remove"
    /\ \/ ~InUse /\ file' = Missing /\ UNCHANGED <<tmp, bak, version, opened, last, faults>>
       \/ Refused /\ UNCHANGED file
    /\ pc' = "retry"

\* The second rename; when it fails too, the save returns the first error.
Retry ==
    /\ pc = "retry"
    /\ \/ Replace
       \/ Refused /\ pc' = "idle" /\ UNCHANGED file

Return ==
    /\ pc = "done"
    /\ last' = version
    /\ pc' = "idle"
    /\ UNCHANGED <<file, tmp, bak, version, opened, faults>>

\* The process is stopped, possibly in the middle of writing tmp or bak.
Stop ==
    /\ pc # "idle"
    /\ Hit("stop")
    /\ tmp' \in IF pc = "write" THEN {tmp, Torn} ELSE {tmp}
    /\ bak' \in IF pc = "copy" /\ file # Missing THEN {bak, Torn} ELSE {bak}
    /\ pc' = "idle"
    /\ UNCHANGED <<file, version, opened, last>>

\* os.ReadFile in the other process.
Open(r) ==
    /\ opened[r] = NotReading
    /\ opened' = [opened EXCEPT ![r] = file]
    /\ UNCHANGED <<file, tmp, bak, pc, version, last, faults>>

Close(r) ==
    /\ opened[r] # NotReading
    /\ opened' = [opened EXCEPT ![r] = NotReading]
    /\ UNCHANGED <<file, tmp, bak, pc, version, last, faults>>

SaveStep ==
    \/ Save \/ WriteTmp \/ WriteTmpFails \/ CopyBak \/ CopyBakFails
    \/ Rename \/ Remove \/ Retry \/ Return \/ Stop

Next ==
    \/ SaveStep
    \/ \E r \in Readers : Open(r) \/ Close(r)

Spec == Init /\ [][Next]_vars

-----------------------------------------------------------------------------
(* Properties.                                                              *)

\* Every file holds a version, part of one, or is not there.
TypeOK ==
    /\ file \in Contents
    /\ tmp \in Contents
    /\ bak \in Contents
    /\ pc \in {"idle", "write", "copy", "rename", "remove", "retry", "done"}
    /\ version \in Versions
    /\ opened \in [Readers -> Contents \cup {NotReading}]
    /\ last \in Versions
    /\ faults \in SUBSET FaultKinds

\* A complete version that is not older than the last one saved.
UpToDate(c) == c \in Versions /\ c >= last

\* Whatever fails and wherever the process is stopped, a load never gets half
\* a file nor goes back behind a save that has returned: at worst the file is
\* not there.
NeverOlder == file = Missing \/ UpToDate(file)

\* The last version that was saved is in the file or in the snapshot, even
\* when the file was removed and the rename failed twice, or the process was
\* stopped there; only a copy that fails as well can lose it.
Recoverable == "copy" \notin faults => UpToDate(file) \/ UpToDate(bak)

\* A load of the other process finds the old content or the new one:
\* docs/DEBUGGING.md, "JSON writes are atomic".
AtomicForReaders == \A r \in Readers : opened[r] # Missing

NoSave == MaxVersion + 1

Atomic == INSTANCE AtomicFile WITH
    Absent <- Missing,
    value <- file,
    pending <- IF pc = "idle" THEN NoSave ELSE version,
    refused <- pc \in {"remove", "retry"},
    replaced <- pc = "done",
    answered <- last

\* Whatever fails and wherever the process is stopped, the file behaves as if it
\* were replaced in one step; only a save whose rename was refused may remove it.
ReplacedInOneStep == Atomic!Spec
=============================================================================
