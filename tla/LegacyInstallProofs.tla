------------------------ MODULE LegacyInstallProofs ------------------------
(***************************************************************************)
(* For any number of installers and saves: one elevated installer at a      *)
(* time, details that stand, and an uninstallation that leaves no more than *)
(* the executable it runs from.                                             *)
(***************************************************************************)
EXTENDS LegacyInstall, TLAPS

\* Each operation has its own steps; it counts as an uninstallation when it is done.
Steps ==
    /\ pc \in {"down", "unregister", "erase"} => op = "uninstall"
    /\ pc \in {"lock", "runas", "script", "entry"} => op = "install"
    /\ pc \in {"extract", "env", "write", "find"} => op \in {"install", "save"}
    /\ pc \in {"up", "recreate"} => op \in {"install", "save", "start"}
    /\ pc # "idle" => ~uninstalled
    /\ op = "save" /\ pc \in {"extract", "env", "write"} => typed < MaxSaves
    /\ op = "save" /\ pc \in {"find", "up", "recreate"} => typed \in Saved
    /\ pc = "recreate" => read \in Contents

\* An installer that has not outlived its lock has a fresh one.
Locks ==
    /\ InstallerExclusive
    /\ outlived \subseteq scripts
    /\ scripts # outlived => lock = "fresh"
    /\ pc = "runas" => lock = "fresh" /\ scripts = outlived
    /\ pc = "script" => scripts \ outlived \subseteq {mine}

\* What is written, read and brought up is as new as what was applied.
Details ==
    /\ DetailsStand
    /\ applied <= typed
    /\ pc = "write" /\ ~spoiled => env = Torn
    /\ pc = "write" /\ op = "install" /\ ~spoiled => applied = NoEnv
    /\ pc = "recreate" /\ ~spoiled /\ applied # NoEnv => read >= applied
    /\ op = "save" /\ pc \in {"find", "up", "recreate"}
          => env = typed \/ (env = NoEnv /\ spoiled)
    /\ op = "save" /\ pc = "recreate" => read = typed

\* An uninstallation that nothing disturbed has undone what it came past.
Undone ==
    /\ pc \in {"unregister", "erase"} /\ ~dirty => container = NoEnv
    /\ pc = "erase" /\ ~dirty => ~entry
    /\ uninstalled /\ ~dirty
          => /\ container = NoEnv /\ ~entry
             /\ remover \/ (~compose /\ env = NoEnv /\ (exe => kept))

InstallInv ==
    /\ TypeOK
    /\ Steps
    /\ Locks
    /\ Details
    /\ Undone

\* The types in two parts, for two provers.
Booleans ==
    /\ compose \in BOOLEAN /\ exe \in BOOLEAN /\ docker \in BOOLEAN /\ entry \in BOOLEAN
    /\ auto \in BOOLEAN /\ remover \in BOOLEAN
    /\ spoiled \in BOOLEAN
    /\ uninstalled \in BOOLEAN /\ kept \in BOOLEAN /\ dirty \in BOOLEAN

Values ==
    /\ env \in Contents \cup {NoEnv}
    /\ container \in Contents \cup {NoEnv}
    /\ late \in SUBSET Contents
    /\ lock \in {None, "fresh", "stale"}
    /\ scripts \in SUBSET Scripts
    /\ self \in {"download", "installed", "closed"}
    /\ op \in Ops \cup {None} /\ pc \in Labels
    /\ typed \in 0 .. MaxSaves
    /\ read \in Contents \cup {NoEnv}
    /\ mine \in Scripts \cup {None}
    /\ applied \in Saved \cup {NoEnv}
    /\ outlived \in SUBSET Scripts

LEMMA TypeParts == TypeOK <=> Booleans /\ Values
BY DEF TypeOK, Booleans, Values

LEMMA InstallInit == Init => InstallInv
<1> SUFFICES ASSUME Init PROVE InstallInv
  OBVIOUS
<1> USE InstallAssumption DEF Init, NoEnv, Torn, Template, Saved, Contents, None
<1>1. TypeOK
  <2>1. Booleans
    BY Zenon DEF Booleans
  <2>2. Values
    BY DEF Values, Ops, Labels
  <2> QED BY <2>1, <2>2, TypeParts
<1>2. Steps
  BY DEF Steps
<1>3. Locks
  BY DEF Locks, InstallerExclusive
<1>4. Details
  BY DEF Details, DetailsStand
<1>5. Undone
  BY DEF Undone
<1> QED BY <1>1, <1>2, <1>3, <1>4, <1>5 DEF InstallInv

\* Every step keeps the types.
LEMMA TypePartsNext == Booleans /\ Values /\ Steps /\ [Next]_vars => Booleans' /\ Values'
<1> SUFFICES ASSUME Booleans, Values, Steps, [Next]_vars PROVE Booleans' /\ Values'
  OBVIOUS
<1> USE InstallAssumption DEF Steps, Ops, Labels, NoEnv, Torn, Template, Saved,
         Contents, None
<1>1. CASE Extract
  <2>1. Booleans'
    BY <1>1, Zenon DEF Booleans, Extract, Goto, Finish, others, history, removal
  <2>2. Values'
    BY <1>1 DEF Values, Extract, Goto, Finish, others, history, removal
  <2> QED BY <2>1, <2>2
<1>2. CASE EnvOpen
  <2>1. Booleans'
    BY <1>2, Zenon DEF Booleans, EnvOpen, Goto, Finish, others, removal
  <2>2. Values'
    BY <1>2 DEF Values, EnvOpen, Goto, Finish, others
  <2> QED BY <2>1, <2>2
<1>3. CASE EnvWrite
  <2>1. Booleans'
    BY <1>3, Zenon DEF Booleans, EnvWrite, Finish, others, removal
  <2>2. Values'
    BY <1>3 DEF Values, EnvWrite, Finish, others
  <2> QED BY <2>1, <2>2
<1>4. CASE Find
  <2>1. Booleans'
    BY <1>4, Zenon DEF Booleans, Find, Goto, Finish, machine, others, history, removal
  <2>2. Values'
    BY <1>4 DEF Values, Find, Goto, Finish, machine, others, history, removal
  <2> QED BY <2>1, <2>2
<1>5. CASE Acquire
  <2>1. Booleans'
    BY <1>5, Zenon DEF Booleans, Acquire, Goto, Finish, machine, others, history, removal
  <2>2. Values'
    BY <1>5 DEF Values, Acquire, Goto, Finish, machine, others, history, removal
  <2> QED BY <2>1, <2>2
<1>6. CASE RunAs
  <2>1. Booleans'
    BY <1>6, Zenon DEF Booleans, RunAs, Finish, machine, history, removal
  <2>2. Values'
    BY <1>6 DEF Values, RunAs, Finish, machine, history, removal
  <2> QED BY <2>1, <2>2
<1>7. CASE ScriptDone
  <2>1. Booleans'
    BY <1>7, Zenon DEF Booleans, ScriptDone, Goto, Finish, machine, others, history, removal
  <2>2. Values'
    BY <1>7 DEF Values, ScriptDone, Goto, Finish, machine, others, history, removal
  <2> QED BY <2>1, <2>2
<1>8. CASE UpBegin
  <2>1. Booleans'
    BY <1>8, Zenon DEF Booleans, UpBegin, Finish, machine, others, history, removal
  <2>2. Values'
    BY <1>8 DEF Values, UpBegin, Finish, machine, others, history, removal
  <2> QED BY <2>1, <2>2
<1>9. CASE UpEnd
  <2>1. Booleans'
    BY <1>9, Zenon DEF Booleans, UpEnd, Goto, Finish, others, removal
  <2>2. Values'
    BY <1>9 DEF Values, UpEnd, Goto, Finish, others
  <2> QED BY <2>1, <2>2
<1>10. CASE AddEntry
  <2>1. Booleans'
    BY <1>10, Zenon DEF Booleans, AddEntry, Finish, others, history, removal
  <2>2. Values'
    BY <1>10 DEF Values, AddEntry, Finish, others, history, removal
  <2> QED BY <2>1, <2>2
<1>11. CASE Down
  <2>1. Booleans'
    BY <1>11, Zenon DEF Booleans, Down, Goto, others
  <2>2. Values'
    BY <1>11 DEF Values, Down, Goto, others
  <2> QED BY <2>1, <2>2
<1>12. CASE Unregister
  <2>1. Booleans'
    BY <1>12, Zenon DEF Booleans, Unregister, Goto, Finish, others
  <2>2. Values'
    BY <1>12 DEF Values, Unregister, Goto, Finish, others
  <2> QED BY <2>1, <2>2
<1>13. CASE Erase
  <2>1. Booleans'
    BY <1>13, Zenon DEF Booleans, Erase, Finish, RemoveFiles, ExeInUse, DeletionFails
  <2>2. Values'
    BY <1>13 DEF Values, Erase, Finish, RemoveFiles, ExeInUse, DeletionFails
  <2> QED BY <2>1, <2>2
<1>14. ASSUME NEW o \in Ops, Click(o) PROVE Booleans' /\ Values'
  <2>1. Booleans'
    BY <1>14, Zenon DEF Booleans, Click, machine, others
  <2>2. Values'
    BY <1>14 DEF Values, Click, machine, others
  <2> QED BY <2>1, <2>2
<1>15. ASSUME NEW s \in scripts, ScriptEnds(s) PROVE Booleans' /\ Values'
  <2>1. Booleans'
    BY <1>15, Zenon DEF Booleans, ScriptEnds, worker, removal
  <2>2. Values'
    BY <1>15 DEF Values, ScriptEnds, worker
  <2> QED BY <2>1, <2>2
<1>16. CASE LockAges
  <2>1. Booleans'
    BY <1>16, Zenon DEF Booleans, LockAges, machine, others, worker, removal
  <2>2. Values'
    BY <1>16 DEF Values, LockAges, machine, others, worker
  <2> QED BY <2>1, <2>2
<1>17. CASE AutoUp
  <2>1. Booleans'
    BY <1>17, Zenon DEF Booleans, AutoUp, machine, worker, history, removal
  <2>2. late' = late \/ (env # NoEnv /\ late' = late \cup {env})
    BY <1>17, Zenon DEF AutoUp
  <2>3. UNCHANGED <<machine, remover, scripts, lock, self, worker, history>>
    BY <1>17, Zenon DEF AutoUp
  <2> HIDE DEF Contents, Saved
  <2>4. late' \in SUBSET Contents
    BY <2>2, Zenon DEF Values
  <2>5. UNCHANGED <<env, container, lock, scripts, self, op, pc, typed, read, mine,
                    applied, outlived>>
    BY <2>3 DEF machine, worker, history, removal
  <2>6. Values'
    BY <2>4, <2>5 DEF Values
  <2> QED BY <2>1, <2>6
<1>18. CASE RemoverRuns
  <2>1. Booleans'
    BY <1>18, Zenon DEF Booleans, RemoverRuns, RemoveFiles, ExeInUse, DeletionFails, worker
  <2>2. Values'
    BY <1>18 DEF Values, RemoverRuns, RemoveFiles, ExeInUse, DeletionFails, worker
  <2> QED BY <2>1, <2>2
<1>19. ASSUME NEW details \in late, LateUp(details) PROVE Booleans' /\ Values'
  <2>1. Booleans'
    BY <1>19, Zenon DEF Booleans, LateUp, worker
  <2>2. Values'
    BY <1>19 DEF Values, LateUp, worker
  <2> QED BY <2>1, <2>2
<1>20. ASSUME NEW from \in {"installed", "download"}, Open(from) PROVE Booleans' /\ Values'
  <2>1. Booleans'
    BY <1>20, Zenon DEF Booleans, Open, machine, others, worker, history, removal
  <2>2. Values'
    BY <1>20 DEF Values, Open, machine, others, worker, history, removal
  <2> QED BY <2>1, <2>2
<1>21. CASE Close
  <2>1. Booleans'
    BY <1>21, Zenon DEF Booleans, Close, CutOff, Finish, machine
  <2>2. Values'
    BY <1>21 DEF Values, Close, CutOff, Finish, machine
  <2> QED BY <2>1, <2>2
<1>22. CASE SignIn
  <2>1. Booleans'
    BY <1>22, Zenon DEF Booleans, SignIn, CutOff, Finish, machine
  <2>2. Values'
    BY <1>22 DEF Values, SignIn, CutOff, Finish, machine
  <2> QED BY <2>1, <2>2
<1>23. CASE UNCHANGED vars
  BY <1>23 DEF vars, machine, others, worker, history, removal, Booleans, Values
<1> QED BY <1>1, <1>2, <1>3, <1>4, <1>5, <1>6, <1>7, <1>8, <1>9, <1>10, <1>11, <1>12, <1>13,
           <1>14, <1>15, <1>16, <1>17, <1>18, <1>19, <1>20, <1>21, <1>22, <1>23 DEF Next,
           WorkerStep

\* The steps of an operation follow each other.
LEMMA StepsNext == TypeOK /\ Steps /\ [Next]_vars => Steps'
<1> SUFFICES ASSUME TypeOK, Steps, [Next]_vars PROVE Steps'
  OBVIOUS
<1> USE InstallAssumption DEF TypeOK, Steps, Ops, Labels, NoEnv, Torn, Template, Saved,
         Contents, None
<1>1. CASE Extract
  BY <1>1 DEF Extract, Goto, Finish, others, history, removal
<1>2. CASE EnvOpen
  BY <1>2 DEF EnvOpen, Goto, Finish, others, removal
<1>3. CASE EnvWrite
  BY <1>3 DEF EnvWrite, Finish, others, removal
<1>4. CASE Find
  BY <1>4 DEF Find, Goto, Finish, machine, others, history, removal
<1>5. CASE Acquire
  BY <1>5 DEF Acquire, Goto, Finish, machine, others, history, removal
<1>6. CASE RunAs
  BY <1>6 DEF RunAs, Finish, machine, history, removal
<1>7. CASE ScriptDone
  BY <1>7 DEF ScriptDone, Goto, Finish, machine, others, history, removal
<1>8. CASE UpBegin
  BY <1>8 DEF UpBegin, Finish, machine, others, history, removal
<1>9. CASE UpEnd
  BY <1>9 DEF UpEnd, Goto, Finish, others, removal
<1>10. CASE AddEntry
  BY <1>10 DEF AddEntry, Finish, others, history, removal
<1>11. CASE Down
  BY <1>11 DEF Down, Goto, others
<1>12. CASE Unregister
  BY <1>12 DEF Unregister, Goto, Finish, others
<1>13. CASE Erase
  BY <1>13 DEF Erase, Finish, RemoveFiles, ExeInUse, DeletionFails
<1>14. ASSUME NEW o \in Ops, Click(o) PROVE Steps'
  BY <1>14 DEF Click, machine, others
<1>15. ASSUME NEW s \in scripts, ScriptEnds(s) PROVE Steps'
  BY <1>15 DEF ScriptEnds, worker, removal
<1>16. CASE LockAges
  BY <1>16 DEF LockAges, machine, others, worker, removal
<1>17. CASE AutoUp
  BY <1>17 DEF AutoUp, machine, worker, history, removal
<1>18. CASE RemoverRuns
  BY <1>18 DEF RemoverRuns, RemoveFiles, ExeInUse, DeletionFails, worker
<1>19. ASSUME NEW details \in late, LateUp(details) PROVE Steps'
  BY <1>19 DEF LateUp, worker
<1>20. ASSUME NEW from \in {"installed", "download"}, Open(from) PROVE Steps'
  BY <1>20 DEF Open, machine, others, worker, history, removal
<1>21. CASE Close
  BY <1>21 DEF Close, CutOff, Finish, machine
<1>22. CASE SignIn
  BY <1>22 DEF SignIn, CutOff, Finish, machine
<1>23. CASE UNCHANGED vars
  BY <1>23 DEF vars, machine, others, worker, history, removal
<1> QED BY <1>1, <1>2, <1>3, <1>4, <1>5, <1>6, <1>7, <1>8, <1>9, <1>10, <1>11, <1>12, <1>13,
           <1>14, <1>15, <1>16, <1>17, <1>18, <1>19, <1>20, <1>21, <1>22, <1>23 DEF Next,
           WorkerStep

\* A lock is taken when no installer has one, and released when its own is done.
LEMMA LocksNext == TypeOK /\ Steps /\ Locks /\ [Next]_vars => Locks'
<1> SUFFICES ASSUME TypeOK, Steps, Locks, [Next]_vars PROVE Locks'
  OBVIOUS
<1> USE InstallAssumption DEF TypeOK, Steps, Locks, InstallerExclusive, None
<1>1. CASE Extract
  BY <1>1 DEF Extract, Goto, Finish, others, history, removal
<1>2. CASE EnvOpen
  BY <1>2 DEF EnvOpen, Goto, Finish, others
<1>3. CASE EnvWrite
  BY <1>3 DEF EnvWrite, Finish, others
<1>4. CASE Find
  BY <1>4 DEF Find, Goto, Finish, machine, others, history, removal
<1>5. CASE Acquire
  BY <1>5 DEF Acquire, Goto, Finish, machine, others, history, removal
<1>6. CASE RunAs
  BY <1>6 DEF RunAs, Finish, machine, history, removal
<1>7. CASE ScriptDone
  BY <1>7 DEF ScriptDone, Goto, Finish, machine, others, history, removal
<1>8. CASE UpBegin
  BY <1>8 DEF UpBegin, Finish, machine, others, history, removal
<1>9. CASE UpEnd
  BY <1>9 DEF UpEnd, Goto, Finish, others
<1>10. CASE AddEntry
  BY <1>10 DEF AddEntry, Finish, others, history, removal
<1>11. CASE Down
  BY <1>11 DEF Down, Goto, others
<1>12. CASE Unregister
  BY <1>12 DEF Unregister, Goto, Finish, others
<1>13. CASE Erase
  BY <1>13 DEF Erase, Finish, RemoveFiles, ExeInUse, DeletionFails
<1>14. ASSUME NEW o \in Ops, Click(o) PROVE Locks'
  BY <1>14 DEF Click, machine, others
<1>15. ASSUME NEW s \in scripts, ScriptEnds(s) PROVE Locks'
  BY <1>15 DEF ScriptEnds, worker
<1>16. CASE LockAges
  BY <1>16 DEF LockAges, machine, others, worker
<1>17. CASE AutoUp
  BY <1>17 DEF AutoUp, machine, worker, history, removal
<1>18. CASE RemoverRuns
  BY <1>18 DEF RemoverRuns, RemoveFiles, ExeInUse, DeletionFails, worker
<1>19. ASSUME NEW details \in late, LateUp(details) PROVE Locks'
  BY <1>19 DEF LateUp, worker
<1>20. ASSUME NEW from \in {"installed", "download"}, Open(from) PROVE Locks'
  BY <1>20 DEF Open, machine, others, worker, history, removal
<1>21. CASE Close
  BY <1>21 DEF Close, CutOff, Finish, machine
<1>22. CASE SignIn
  BY <1>22 DEF SignIn, CutOff, Finish, machine
<1>23. CASE UNCHANGED vars
  BY <1>23 DEF vars, machine, others, worker, history, removal
<1> QED BY <1>1, <1>2, <1>3, <1>4, <1>5, <1>6, <1>7, <1>8, <1>9, <1>10, <1>11, <1>12, <1>13,
           <1>14, <1>15, <1>16, <1>17, <1>18, <1>19, <1>20, <1>21, <1>22, <1>23 DEF Next,
           WorkerStep

\* Details are replaced by newer ones, or the step is one that spoils them.
LEMMA DetailsNext == TypeOK /\ Steps /\ Details /\ [Next]_vars => Details'
<1> SUFFICES ASSUME TypeOK, Steps, Details, [Next]_vars PROVE Details'
  OBVIOUS
<1> USE InstallAssumption DEF TypeOK, Steps, Details, DetailsStand, Ops, NoEnv, Torn,
         Template, Saved, Contents, None
<1>1. CASE Extract
  BY <1>1 DEF Extract, Goto, Finish, others, history, removal
<1>2. CASE EnvOpen
  BY <1>2 DEF EnvOpen, Goto, Finish, others
<1>3. CASE EnvWrite
  <2>1. CASE op = "save" /\ pc' = "find"
    <3>1. /\ typed' = typed + 1 /\ env' = typed + 1
          /\ UNCHANGED <<op, spoiled, container, applied, read>>
      BY <1>3, <2>1, Zenon DEF EnvWrite, Finish
    <3>2. typed \in Int /\ applied \in Int /\ applied <= typed
      BY DEF Ops
    <3>3. DetailsStand'
      BY <3>1, <3>2
    <3>4. applied' <= typed' /\ env' = typed' /\ pc' # "write" /\ pc' # "recreate"
      BY <2>1, <3>1, <3>2
    <3> QED BY <3>3, <3>4, Zenon
  <2>2. CASE op = "install" /\ pc' = "find"
    BY <1>3, <2>2 DEF EnvWrite, Finish, others
  <2>3. CASE pc' = "idle"
    BY <1>3, <2>3 DEF EnvWrite, Finish, others
  <2> QED BY <1>3, <2>1, <2>2, <2>3 DEF EnvWrite, Finish
<1>4. CASE Find
  BY <1>4 DEF Find, Goto, Finish, machine, others, history, removal
<1>5. CASE Acquire
  BY <1>5 DEF Acquire, Goto, Finish, machine, others, history, removal
<1>6. CASE RunAs
  BY <1>6 DEF RunAs, Finish, machine, history, removal
<1>7. CASE ScriptDone
  BY <1>7 DEF ScriptDone, Goto, Finish, machine, others, history, removal
<1>8. CASE UpBegin
  BY <1>8 DEF UpBegin, Finish, machine, others, history, removal
<1>9. CASE UpEnd
  BY <1>9 DEF UpEnd, Goto, Finish, others
<1>10. CASE AddEntry
  BY <1>10 DEF AddEntry, Finish, others, history, removal
<1>11. CASE Down
  BY <1>11 DEF Down, Goto, others
<1>12. CASE Unregister
  BY <1>12 DEF Unregister, Goto, Finish, others
<1>13. CASE Erase
  BY <1>13 DEF Erase, Finish, RemoveFiles, ExeInUse, DeletionFails
<1>14. ASSUME NEW o \in Ops, Click(o) PROVE Details'
  BY <1>14 DEF Click, machine, others
<1>15. ASSUME NEW s \in scripts, ScriptEnds(s) PROVE Details'
  BY <1>15 DEF ScriptEnds, worker
<1>16. CASE LockAges
  BY <1>16 DEF LockAges, machine, others, worker
<1>17. CASE AutoUp
  BY <1>17 DEF AutoUp, machine, worker, history, removal
<1>18. CASE RemoverRuns
  BY <1>18 DEF RemoverRuns, RemoveFiles, ExeInUse, DeletionFails, worker
<1>19. ASSUME NEW details \in late, LateUp(details) PROVE Details'
  BY <1>19 DEF LateUp, worker
<1>20. ASSUME NEW from \in {"installed", "download"}, Open(from) PROVE Details'
  BY <1>20 DEF Open, machine, others, worker, history, removal
<1>21. CASE Close
  BY <1>21 DEF Close, CutOff, Finish, machine
<1>22. CASE SignIn
  BY <1>22 DEF SignIn, CutOff, Finish, machine
<1>23. CASE UNCHANGED vars
  BY <1>23 DEF vars, machine, others, worker, history, removal
<1> QED BY <1>1, <1>2, <1>3, <1>4, <1>5, <1>6, <1>7, <1>8, <1>9, <1>10, <1>11, <1>12, <1>13,
           <1>14, <1>15, <1>16, <1>17, <1>18, <1>19, <1>20, <1>21, <1>22, <1>23 DEF Next,
           WorkerStep

\* What was undone stays so, or the uninstallation was overtaken.
LEMMA UndoneNext == TypeOK /\ Steps /\ Undone /\ [Next]_vars => Undone'
<1> SUFFICES ASSUME TypeOK, Steps, Undone, [Next]_vars PROVE Undone'
  OBVIOUS
<1> USE InstallAssumption DEF TypeOK, Steps, Undone, Ops, None
<1>1. CASE Extract
  BY <1>1 DEF Extract, Goto, Finish, others, history, removal
<1>2. CASE EnvOpen
  BY <1>2 DEF EnvOpen, Goto, Finish, others, removal
<1>3. CASE EnvWrite
  BY <1>3 DEF EnvWrite, Finish, others, removal
<1>4. CASE Find
  BY <1>4 DEF Find, Goto, Finish, machine, others, history, removal
<1>5. CASE Acquire
  BY <1>5 DEF Acquire, Goto, Finish, machine, others, history, removal
<1>6. CASE RunAs
  BY <1>6 DEF RunAs, Finish, machine, history, removal
<1>7. CASE ScriptDone
  BY <1>7 DEF ScriptDone, Goto, Finish, machine, others, history, removal
<1>8. CASE UpBegin
  BY <1>8 DEF UpBegin, Finish, machine, others, history, removal
<1>9. CASE UpEnd
  BY <1>9 DEF UpEnd, Goto, Finish, others, removal
<1>10. CASE AddEntry
  BY <1>10 DEF AddEntry, Finish, others, history, removal
<1>11. CASE Down
  BY <1>11 DEF Down, Goto, others
<1>12. CASE Unregister
  BY <1>12 DEF Unregister, Goto, Finish, others
<1>13. CASE Erase
  BY <1>13 DEF Erase, Finish, RemoveFiles, ExeInUse, DeletionFails
<1>14. ASSUME NEW o \in Ops, Click(o) PROVE Undone'
  BY <1>14 DEF Click, machine, others
<1>15. ASSUME NEW s \in scripts, ScriptEnds(s) PROVE Undone'
  BY <1>15 DEF ScriptEnds, worker, removal
<1>16. CASE LockAges
  BY <1>16 DEF LockAges, machine, others, worker, removal
<1>17. CASE AutoUp
  BY <1>17 DEF AutoUp, machine, worker, history, removal
<1>18. CASE RemoverRuns
  BY <1>18 DEF RemoverRuns, RemoveFiles, ExeInUse, DeletionFails, worker
<1>19. ASSUME NEW details \in late, LateUp(details) PROVE Undone'
  BY <1>19 DEF LateUp, worker
<1>20. ASSUME NEW from \in {"installed", "download"}, Open(from) PROVE Undone'
  BY <1>20 DEF Open, machine, others, worker, history, removal
<1>21. CASE Close
  BY <1>21 DEF Close, CutOff, Finish, machine
<1>22. CASE SignIn
  BY <1>22 DEF SignIn, CutOff, Finish, machine
<1>23. CASE UNCHANGED vars
  BY <1>23 DEF vars, machine, others, worker, history, removal
<1> QED BY <1>1, <1>2, <1>3, <1>4, <1>5, <1>6, <1>7, <1>8, <1>9, <1>10, <1>11, <1>12, <1>13,
           <1>14, <1>15, <1>16, <1>17, <1>18, <1>19, <1>20, <1>21, <1>22, <1>23 DEF Next,
           WorkerStep

LEMMA TypeNext == TypeOK /\ Steps /\ [Next]_vars => TypeOK'
<1> SUFFICES ASSUME TypeOK, Steps, [Next]_vars PROVE TypeOK'
  OBVIOUS
<1>1. Booleans' /\ Values'
  BY TypeParts, TypePartsNext
<1> QED BY <1>1 DEF TypeOK, Booleans, Values

LEMMA InstallNext == InstallInv /\ [Next]_vars => InstallInv'
BY TypeNext, StepsNext, LocksNext, DetailsNext, UndoneNext DEF InstallInv

LEMMA InstallCorrect == Spec => []InstallInv
BY InstallInit, InstallNext, PTL DEF Spec

-----------------------------------------------------------------------------
\* Machine, worker and other processes keep their types.
THEOREM InstallTypes == Spec => []TypeOK
<1>1. InstallInv => TypeOK
  BY DEF InstallInv
<1> QED BY <1>1, InstallCorrect, PTL

\* No second elevated installer starts while the lock of the first one counts,
\* whichever managers were closed and opened.
THEOREM OneInstaller == Spec => []InstallerExclusive
<1>1. InstallInv => InstallerExclusive
  BY DEF InstallInv, Locks
<1> QED BY <1>1, InstallCorrect, PTL

\* Neither .env nor the container goes back behind the details of a Save that
\* reported success.
THEOREM DetailsStay == Spec => []DetailsStand
<1>1. InstallInv => DetailsStand
  BY DEF InstallInv, Details
<1> QED BY <1>1, InstallCorrect, PTL

\* An uninstallation that reports success, and whose calls did not fail, leaves
\* nothing but the executable of a manager that is open when the remover comes.
THEOREM NothingStays == Spec => []NothingLeft
<1>1. InstallInv => NothingLeft
  BY DEF InstallInv, Undone, NothingLeft
<1> QED BY <1>1, InstallCorrect, PTL
=============================================================================
