--------------------------- MODULE JsonStoreProofs --------------------------
(***************************************************************************)
(* Proofs about JsonStore, for any number of saves, of loads of the other   *)
(* process, and for every set of failures.                                  *)
(***************************************************************************)
EXTENDS JsonStore, TLAPS

\* What the steps of a save rely on: tmp holds the version until it has become
\* the file, and before the file may be removed the snapshot holds its content.
SaveInv ==
    /\ last <= version
    /\ pc \in {"copy", "rename", "remove", "retry"} => tmp = version
    /\ pc = "done" => file = version
    /\ pc \in {"rename", "remove"} /\ "copy" \notin faults /\ file # Missing
         => bak = file

StoreInv == TypeOK /\ SaveInv /\ NeverOlder /\ Recoverable

LEMMA StoreInit == Init => StoreInv
BY StoreAssumption DEF Init, StoreInv, TypeOK, SaveInv, NeverOlder, Recoverable,
   UpToDate, Contents, Versions

LEMMA SaveStepKeeps ==
    ASSUME StoreInv, SaveStep
    PROVE  StoreInv'
<1> USE StoreAssumption DEF StoreInv, TypeOK, SaveInv, NeverOlder, Recoverable,
        UpToDate, Contents, Versions, FaultKinds, Hit
<1>1. CASE Save
  BY <1>1 DEF Save
<1>2. CASE WriteTmp
  BY <1>2 DEF WriteTmp
<1>3. CASE WriteTmpFails
  BY <1>3 DEF WriteTmpFails
<1>4. CASE CopyBak
  BY <1>4 DEF CopyBak
<1>5. CASE CopyBakFails
  BY <1>5 DEF CopyBakFails
<1>6. CASE Rename
  BY <1>6 DEF Rename, Replace, Refused
<1>7. CASE Remove
  BY <1>7 DEF Remove, Refused
<1>8. CASE Retry
  BY <1>8 DEF Retry, Replace, Refused
<1>9. CASE Return
  BY <1>9 DEF Return
<1>10. CASE Stop
  BY <1>10 DEF Stop
<1> QED
  BY <1>1, <1>2, <1>3, <1>4, <1>5, <1>6, <1>7, <1>8, <1>9, <1>10 DEF SaveStep

LEMMA StoreStep ==
    ASSUME StoreInv, [Next]_vars
    PROVE  StoreInv'
<1>1. ASSUME NEW r \in Readers, Open(r) \/ Close(r)
      PROVE  StoreInv'
  <2>1. UNCHANGED <<file, tmp, bak, pc, version, last, faults>>
    BY <1>1 DEF Open, Close
  <2>2. opened' \in [Readers -> Contents \cup {NotReading}]
    BY <1>1 DEF Open, Close, StoreInv, TypeOK
  <2> QED
    BY <2>1, <2>2 DEF StoreInv, TypeOK, SaveInv, NeverOlder, Recoverable, UpToDate
<1>2. CASE UNCHANGED vars
  BY <1>2 DEF vars, StoreInv, TypeOK, SaveInv, NeverOlder, Recoverable, UpToDate
<1> QED
  BY <1>1, <1>2, SaveStepKeeps DEF Next

LEMMA StoreCorrect == Spec => []StoreInv
BY StoreInit, StoreStep, PTL DEF Spec

\* Whatever fails, the file never holds part of a version nor one older than
\* the last that was saved.
THEOREM FileNeverOlder == Spec => []NeverOlder
<1>1. StoreInv => NeverOlder
  BY DEF StoreInv
<1> QED
  BY <1>1, StoreCorrect, PTL

\* The last version that was saved is in the file or in the snapshot, unless a
\* copy has failed.
THEOREM SaveRecoverable == Spec => []Recoverable
<1>1. StoreInv => Recoverable
  BY DEF StoreInv
<1> QED
  BY <1>1, StoreCorrect, PTL

-----------------------------------------------------------------------------
(* The save implements AtomicFile.                                         *)

\* Each step of a save is a step of AtomicFile or changes nothing there: either
\* rename is where the value is replaced.
LEMMA StepImplements ==
    ASSUME StoreInv, [Next]_vars
    PROVE  [Atomic!Next]_(Atomic!vars)
<1> USE DEF Atomic!Next, Atomic!vars
<1>t. /\ version \in Versions /\ version # NoSave
      /\ pc \in {"copy", "rename", "retry"} => tmp = version
      /\ pc = "done" => file = version
  BY StoreAssumption DEF StoreInv, TypeOK, SaveInv, Versions, NoSave
<1>1. CASE Save
  <2>1. version' \in Versions /\ pc = "idle" /\ pc' = "write"
        /\ UNCHANGED <<file, last>>
    BY <1>1, <1>t, StoreAssumption DEF Save, Versions
  <2>2. Atomic!Save(version')
    BY <2>1 DEF Atomic!Save
  <2> QED BY <2>1, <2>2
<1>2. CASE WriteTmp \/ CopyBak \/ CopyBakFails
  <2>1. /\ pc \notin {"idle", "remove", "retry", "done"}
        /\ pc' \notin {"idle", "remove", "retry", "done"}
        /\ UNCHANGED <<file, version, last>>
    BY <1>2 DEF WriteTmp, CopyBak, CopyBakFails
  <2> QED BY <2>1
<1>3. CASE WriteTmpFails
  <2>1. pc = "write" /\ pc' = "idle" /\ UNCHANGED <<file, last>>
    BY <1>3 DEF WriteTmpFails
  <2>2. Atomic!Fail
    BY <1>t, <2>1 DEF Atomic!Fail, Atomic!Trying
  <2> QED BY <2>2
<1>4. ASSUME pc \in {"rename", "retry"}, Replace
      PROVE  Atomic!Replace
  BY <1>t, <1>4 DEF Replace, Atomic!Replace, Atomic!Trying
<1>5. CASE Rename
  <2>1. CASE pc = "rename" /\ pc' = "remove" /\ UNCHANGED <<file, version, last>>
    <3>1. Atomic!Refuse
      BY <1>t, <2>1 DEF Atomic!Refuse, Atomic!Trying
    <3> QED BY <3>1
  <2> QED
    BY <1>4, <1>5, <2>1 DEF Rename, Refused
<1>6. CASE Remove
  <2>1. /\ pc = "remove" /\ pc' = "retry"
        /\ file' = Missing \/ file' = file
        /\ UNCHANGED <<version, last>>
    BY <1>6 DEF Remove, Refused
  <2>2. CASE file' = Missing
    <3>1. Atomic!Vanish
      BY <1>t, <2>1, <2>2 DEF Atomic!Vanish, Atomic!Trying
    <3> QED BY <3>1
  <2>3. CASE file' = file
    BY <2>1, <2>3
  <2> QED BY <2>1, <2>2, <2>3
<1>7. CASE Retry
  <2>1. CASE pc = "retry" /\ pc' = "idle" /\ UNCHANGED <<file, version, last>>
    <3>1. Atomic!Fail
      BY <1>t, <2>1 DEF Atomic!Fail, Atomic!Trying
    <3> QED BY <3>1
  <2> QED
    BY <1>4, <1>7, <2>1 DEF Retry, Refused
<1>8. CASE Return
  <2>1. pc = "done" /\ pc' = "idle" /\ last' = version /\ UNCHANGED <<file, version>>
    BY <1>8 DEF Return
  <2>2. Atomic!Done
    BY <1>t, <2>1 DEF Atomic!Done
  <2> QED BY <2>2
<1>9. CASE Stop
  <2>1. pc' = "idle" /\ UNCHANGED <<file, last>>
    BY <1>9 DEF Stop
  <2>2. Atomic!Stop
    BY <2>1 DEF Atomic!Stop
  <2> QED BY <2>2
<1>10. CASE \E r \in Readers : Open(r) \/ Close(r)
  BY <1>10 DEF Open, Close
<1>11. CASE UNCHANGED vars
  BY <1>11 DEF vars
<1> QED
  BY <1>1, <1>2, <1>3, <1>5, <1>6, <1>7, <1>8, <1>9, <1>10, <1>11 DEF Next, SaveStep

\* Wherever the process is stopped, whatever fails and whoever reads, the file is
\* replaced in one step, or removed by a save whose rename was refused.
THEOREM OneStep == Spec => ReplacedInOneStep
<1>1. Init => Atomic!Init
  BY StoreAssumption DEF Init, Versions, Atomic!Init
<1>2. StoreInv /\ [Next]_vars => [Atomic!Next]_(Atomic!vars)
  BY StepImplements
<1> QED
  BY <1>1, <1>2, StoreCorrect, PTL DEF Spec, ReplacedInOneStep, Atomic!Spec
=============================================================================
