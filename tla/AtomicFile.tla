----------------------------- MODULE AtomicFile -----------------------------
(***************************************************************************)
(* What the storage of the manager promises of one JSON file: it is        *)
(* replaced in one step.  A load sees the content that was there before a  *)
(* save or the one that is saved, a save that answers "done" has replaced  *)
(* the content, one that fails has not, and a process that is stopped has  *)
(* or has not.  The one exception: once the replacement was refused, the   *)
(* same save may take the content away before it tries again.              *)
(***************************************************************************)
CONSTANTS
    Versions,   \* the contents a save may be asked to write
    NoSave,     \* no save is under way
    Absent      \* there is no content

VARIABLES
    value,      \* what a load sees
    pending,    \* the content being saved
    refused,    \* the replacement was refused to the save under way
    replaced,   \* the save under way has replaced the value
    answered    \* the content of the last save that answered "done"

vars == <<value, pending, refused, replaced, answered>>

Init ==
    /\ value \in Versions
    /\ pending = NoSave
    /\ refused = FALSE
    /\ replaced = FALSE
    /\ answered = value

Save(v) ==
    /\ pending = NoSave
    /\ pending' = v
    /\ UNCHANGED <<value, refused, replaced, answered>>

\* The save has not replaced the value yet.
Trying == pending # NoSave /\ ~replaced

Replace ==
    /\ Trying
    /\ value' = pending
    /\ refused' = FALSE
    /\ replaced' = TRUE
    /\ UNCHANGED <<pending, answered>>

\* Another process uses the file, or the disk fails.
Refuse ==
    /\ Trying
    /\ refused' = TRUE
    /\ UNCHANGED <<value, pending, replaced, answered>>

Vanish ==
    /\ Trying
    /\ refused
    /\ value' = Absent
    /\ UNCHANGED <<pending, refused, replaced, answered>>

Done ==
    /\ replaced
    /\ answered' = pending
    /\ pending' = NoSave
    /\ replaced' = FALSE
    /\ UNCHANGED <<value, refused>>

Fail ==
    /\ Trying
    /\ pending' = NoSave
    /\ refused' = FALSE
    /\ UNCHANGED <<value, replaced, answered>>

\* The process is stopped: no answer.
Stop ==
    /\ pending' = NoSave
    /\ refused' = FALSE
    /\ replaced' = FALSE
    /\ UNCHANGED <<value, answered>>

Next ==
    \/ \E v \in Versions : Save(v)
    \/ Replace
    \/ Refuse
    \/ Vanish
    \/ Done
    \/ Fail
    \/ Stop

Spec == Init /\ [][Next]_vars
=============================================================================
