------------------------ MODULE AgentLifecycleProofs ------------------------
(***************************************************************************)
(* For any number of processes and attempts: one agent at a time, an        *)
(* upgrade and a restart that take effect, and an executable for every      *)
(* autostart entry.                                                        *)
(*                                                                         *)
(* The argument rests on what Windows guarantees: an executable that runs   *)
(* can neither be removed nor replaced, so every living agent runs the      *)
(* installed version (Versions).                                           *)
(***************************************************************************)
EXTENDS AgentLifecycle, TLAPS

\* Whatever lives runs the installed executable.
Versions ==
    /\ \A p \in Procs : Alive(p) => exe # None /\ ver[p] = exe
    /\ self = "installed" => exe # None

\* Where the entry is made or the directory removed, entry and executable fit.
Entry ==
    /\ ExecutableKept
    /\ pc = "register" /\ ~damaged => exe # None
    /\ pc = "erase" => ~autostart \/ damaged

\* A result is shown when the worker is done; a closed manager has none.  Only
\* an installation copies, and only an uninstallation erases.
Results ==
    /\ pc # "idle" => report = "none"
    /\ pc \in {"copy", "remove", "rename", "register"} => op = "install"
    /\ pc \in {"unregister", "erase"} => op = "uninstall"
    /\ self = "closed" => op = "stop" /\ pc = "idle"

\* An agent is told to close only by the operation that then waits for it.
Stopping ==
    /\ \A p \in served : stage[p] \in {"serving", "closing", "closed"}
    /\ pc \notin {"idle", "await"} /\ ~trouble => \A p \in Procs : stage[p] # "closing"
    /\ op \in {"restart", "save"} /\ pc \in {"start", "launch", "wait"} /\ ~trouble
          => \A p \in served : stage[p] = "closed"
    /\ op \in {"restart", "save"} /\ report = "ready" /\ ~trouble
          => \A p \in served : stage[p] = "closed"

\* Once the new executable is in place, no agent of before is left; it stays
\* unless the remover takes it, and no agent ends before the next operation.
Upgrading ==
    op = "install" /\ self = "download" =>
        /\ pc \in {"register", "start", "launch", "wait"} =>
              /\ exe \in {"new", None}
              /\ \A p \in Procs : stage[p] \notin {"closing", "closed"}
        /\ report = "ready" => exe = "new" /\ \E p \in Procs : stage[p] = "serving"

\* No agent follows another in one step: between the end of one and the next there
\* is a state without any.  The agent that is stopped and the one that is started in
\* AgentRun are never there together, nor is there a step from one to the other.
NoHandover == [][\A p \in Active, q \in Active' : p = q]_vars

LifecycleInv ==
    /\ TypeOK
    /\ SingleAgent
    /\ Versions
    /\ Entry
    /\ Results
    /\ Stopping
    /\ Upgrading

LEMMA LifecycleInit == Init => LifecycleInv
<1> SUFFICES ASSUME Init PROVE LifecycleInv
  OBVIOUS
<1> USE LifecycleAssumption DEF Init
<1>1. TypeOK
  <2>1. autostart \in BOOLEAN
    BY Zenon
  <2>2. /\ exe \in {None, "old", "new"} /\ remover \in BOOLEAN /\ self = "download"
        /\ op = "stop" /\ pc = "idle" /\ attempts = 0 /\ report = "none"
        /\ stage \in [Procs -> Stages] /\ ver \in [Procs -> {None, "old", "new"}]
        /\ served = {} /\ trouble \in BOOLEAN /\ damaged \in BOOLEAN
    BY DEF Stages
  <2> HIDE DEF Init
  <2> QED BY <2>1, <2>2 DEF TypeOK, Ops, Labels
<1>2. SingleAgent /\ Versions
  BY DEF SingleAgent, Active, Versions, Alive
<1>3. Entry
  BY DEF Entry, ExecutableKept
<1>4. Results /\ Stopping /\ Upgrading
  BY DEF Results, Stopping, Upgrading
<1> QED BY <1>1, <1>2, <1>3, <1>4 DEF LifecycleInv

\* Every step keeps the types.
LEMMA TypeNext == TypeOK /\ [Next]_vars => TypeOK'
<1> SUFFICES ASSUME TypeOK, [Next]_vars PROVE TypeOK'
  OBVIOUS
<1> USE LifecycleAssumption DEF TypeOK, Ops, Labels, Stages
<1>1. CASE Prepare
  BY <1>1 DEF Prepare, Goto, Finish, files, agents, history
<1>2. CASE StopProbe
  <2>1. /\ pc' \in Labels /\ report' \in {"none", "ready", "error"} /\ op' \in Ops
        /\ attempts' \in 0 .. MaxAttempts
    BY <1>2 DEF StopProbe, ProbeAnswered, ProbeFails, AfterStop, Goto, Finish, files, agents
  <2>2. trouble' \in BOOLEAN
    BY <1>2, Zenon DEF StopProbe, ProbeAnswered, ProbeFails, AfterStop, Goto, Finish, files, agents
  <2>3. UNCHANGED <<exe, autostart, remover, self, stage, ver, served, damaged>>
    BY <1>2 DEF StopProbe, ProbeAnswered, ProbeFails, AfterStop, Goto, Finish, files, agents
  <2> HIDE DEF Ops, Labels, Stages
  <2> QED BY <2>1, <2>2, <2>3
<1>3. CASE StopPost
  <2>1. /\ pc' \in Labels /\ report' \in {"none", "ready", "error"} /\ op' \in Ops
        /\ attempts' \in 0 .. MaxAttempts
        /\ stage' \in [Procs -> Stages]
    BY <1>3 DEF StopPost, AfterStop, Goto, Finish, files, Answering
  <2>2. trouble' \in BOOLEAN
    BY <1>3, Zenon DEF StopPost, AfterStop, Goto, Finish, files, Answering
  <2>3. UNCHANGED <<exe, autostart, remover, self, ver, served, damaged>>
    BY <1>3 DEF StopPost, AfterStop, Goto, Finish, files, Answering
  <2> HIDE DEF Ops, Labels, Stages
  <2> QED BY <2>1, <2>2, <2>3
<1>4. CASE StopPostFails
  <2>1. /\ pc' \in Labels /\ report' \in {"none", "ready", "error"} /\ op' \in Ops
        /\ attempts' \in 0 .. MaxAttempts
    BY <1>4 DEF StopPostFails, AfterStop, Goto, Finish, files, agents
  <2>2. trouble' \in BOOLEAN
    BY <1>4, Zenon DEF StopPostFails, AfterStop, Goto, Finish, files, agents
  <2>3. UNCHANGED <<exe, autostart, remover, self, stage, ver, served, damaged>>
    BY <1>4 DEF StopPostFails, AfterStop, Goto, Finish, files, agents
  <2> HIDE DEF Ops, Labels, Stages
  <2> QED BY <2>1, <2>2, <2>3
<1>5. CASE StopPoll
  <2>1. /\ pc' \in Labels /\ report' \in {"none", "ready", "error"} /\ op' \in Ops
        /\ attempts' \in 0 .. MaxAttempts
    BY <1>5 DEF StopPoll, ProbeFails, AfterStop, Goto, Finish, files, agents
  <2>2. trouble' \in BOOLEAN
    BY <1>5, Zenon DEF StopPoll, ProbeFails, AfterStop, Goto, Finish, files, agents
  <2>3. UNCHANGED <<exe, autostart, remover, self, stage, ver, served, damaged>>
    BY <1>5 DEF StopPoll, ProbeFails, AfterStop, Goto, Finish, files, agents
  <2> HIDE DEF Ops, Labels, Stages
  <2> QED BY <2>1, <2>2, <2>3
<1>6. CASE CopyNew
  BY <1>6 DEF CopyNew, Goto, Finish, files, agents, history
<1>7. CASE CopyRemove
  BY <1>7 DEF CopyRemove, Goto, agents, history
<1>8. CASE CopyRename
  <2>1. /\ pc' \in Labels /\ report' \in {"none", "ready", "error"} /\ op' \in Ops
        /\ attempts' \in 0 .. MaxAttempts /\ exe' = "new"
    BY <1>8 DEF CopyRename, agents
  <2>2. damaged' \in BOOLEAN
    BY <1>8, Zenon DEF CopyRename, agents
  <2>3. UNCHANGED <<autostart, remover, self, stage, ver, served, trouble>>
    BY <1>8 DEF CopyRename, agents
  <2> HIDE DEF Ops, Labels, Stages
  <2> QED BY <2>1, <2>2, <2>3
<1>9. CASE CopyRenameFails
  <2>1. /\ pc' \in Labels /\ report' \in {"none", "ready", "error"} /\ op' \in Ops
        /\ attempts' \in 0 .. MaxAttempts
    BY <1>9 DEF CopyRenameFails, files, agents
  <2>2. damaged' \in BOOLEAN
    BY <1>9, Zenon DEF CopyRenameFails, files, agents
  <2>3. UNCHANGED <<exe, autostart, remover, self, stage, ver, served, trouble>>
    BY <1>9 DEF CopyRenameFails, files, agents
  <2> HIDE DEF Ops, Labels, Stages
  <2> QED BY <2>1, <2>2, <2>3
<1>10. CASE Register
  <2>1. /\ pc' \in Labels /\ report' \in {"none", "ready", "error"} /\ op' \in Ops
        /\ attempts' \in 0 .. MaxAttempts
    BY <1>10 DEF Register, Goto, Finish, agents, history
  <2>2. autostart' \in BOOLEAN
    BY <1>10, Zenon DEF Register, Goto, Finish, agents, history
  <2>3. UNCHANGED <<exe, remover, self, stage, ver, served, trouble, damaged>>
    BY <1>10 DEF Register, Goto, Finish, agents, history
  <2> HIDE DEF Ops, Labels, Stages
  <2> QED BY <2>1, <2>2, <2>3
<1>11. CASE StartProbe
  <2>1. /\ pc' \in Labels /\ report' \in {"none", "ready", "error"} /\ op' \in Ops
        /\ attempts' \in 0 .. MaxAttempts
    BY <1>11 DEF StartProbe, ProbeAnswered, ProbeFails, Goto, Finish, files, agents
  <2>2. trouble' \in BOOLEAN
    BY <1>11, Zenon DEF StartProbe, ProbeAnswered, ProbeFails, Goto, Finish, files, agents
  <2>3. UNCHANGED <<exe, autostart, remover, self, stage, ver, served, damaged>>
    BY <1>11 DEF StartProbe, ProbeAnswered, ProbeFails, Goto, Finish, files, agents
  <2> HIDE DEF Ops, Labels, Stages
  <2> QED BY <2>1, <2>2, <2>3
<1>12. CASE StartLaunch
  BY <1>12 DEF StartLaunch, Started, Goto, Finish, files, agents, history
<1>13. CASE StartPoll
  <2>1. /\ pc' \in Labels /\ report' \in {"none", "ready", "error"} /\ op' \in Ops
        /\ attempts' \in 0 .. MaxAttempts
    BY <1>13 DEF StartPoll, ProbeAnswered, ProbeFails, Finish, files, agents
  <2>2. trouble' \in BOOLEAN
    BY <1>13, Zenon DEF StartPoll, ProbeAnswered, ProbeFails, Finish, files, agents
  <2>3. UNCHANGED <<exe, autostart, remover, self, stage, ver, served, damaged>>
    BY <1>13 DEF StartPoll, ProbeAnswered, ProbeFails, Finish, files, agents
  <2> HIDE DEF Ops, Labels, Stages
  <2> QED BY <2>1, <2>2, <2>3
<1>14. CASE Unregister
  <2>1. /\ pc' \in Labels /\ report' \in {"none", "ready", "error"} /\ op' \in Ops
        /\ attempts' \in 0 .. MaxAttempts
    BY <1>14 DEF Unregister, Goto, agents
  <2>2. autostart' \in BOOLEAN /\ damaged' \in BOOLEAN
    BY <1>14, Zenon DEF Unregister, Goto, agents
  <2>3. UNCHANGED <<exe, remover, self, stage, ver, served, trouble>>
    BY <1>14 DEF Unregister, Goto, agents
  <2> HIDE DEF Ops, Labels, Stages
  <2> QED BY <2>1, <2>2, <2>3
<1>15. CASE Erase
  <2>1. /\ pc' \in Labels /\ report' \in {"none", "ready", "error"} /\ op' \in Ops
        /\ attempts' \in 0 .. MaxAttempts /\ exe' \in {exe, None}
    BY <1>15 DEF Erase, Finish, agents, history
  <2>2. remover' \in BOOLEAN
    BY <1>15, Zenon DEF Erase, Finish, agents, history
  <2>3. UNCHANGED <<autostart, self, stage, ver, served, trouble, damaged>>
    BY <1>15 DEF Erase, Finish, agents, history
  <2> HIDE DEF Ops, Labels, Stages
  <2> QED BY <2>1, <2>2, <2>3
<1>16. ASSUME NEW p \in Procs, TakeMutex(p) PROVE TypeOK'
  BY <1>16 DEF TakeMutex, Enter, files, worker
<1>17. ASSUME NEW p \in Procs, Serve(p) PROVE TypeOK'
  BY <1>17 DEF Serve, Enter, files, worker
<1>18. ASSUME NEW p \in Procs, CloseServer(p) PROVE TypeOK'
  BY <1>18 DEF CloseServer, Enter, files, worker
<1>19. ASSUME NEW p \in Procs, Exit(p) PROVE TypeOK'
  BY <1>19 DEF Exit, Enter, files, worker
<1>20. ASSUME NEW o \in Ops, Click(o) PROVE TypeOK'
  BY <1>20 DEF Click, files, agents
<1>21. CASE RemoverRuns
  <2>1. remover' = FALSE /\ exe' \in {exe, None}
    BY <1>21 DEF RemoverRuns
  <2>2. damaged' \in BOOLEAN
    BY <1>21, Zenon DEF RemoverRuns
  <2>3. UNCHANGED <<autostart, self, worker, agents, served, trouble>>
    BY <1>21 DEF RemoverRuns
  <2> HIDE DEF Ops, Labels, Stages
  <2> QED BY <2>1, <2>2, <2>3 DEF worker, agents
<1>22. ASSUME NEW from \in {"installed", "download"}, Open(from) PROVE TypeOK'
  BY <1>22 DEF Open, files, worker, agents, history
<1>23. CASE Close
  <2>1. /\ pc' \in Labels /\ report' \in {"none", "ready", "error"} /\ op' \in Ops
        /\ attempts' \in 0 .. MaxAttempts /\ self' = "closed" /\ served' = {} /\ trouble' = FALSE
    BY <1>23 DEF Close, CutOff, files, agents
  <2>2. damaged' \in BOOLEAN
    BY <1>23, Zenon DEF Close, CutOff, files, agents
  <2>3. UNCHANGED <<exe, autostart, remover, stage, ver>>
    BY <1>23 DEF Close, CutOff, files, agents
  <2> HIDE DEF Ops, Labels, Stages
  <2> QED BY <2>1, <2>2, <2>3
<1>24. CASE SignIn
  <2>1. /\ pc' \in Labels /\ report' \in {"none", "ready", "error"} /\ op' \in Ops
        /\ attempts' \in 0 .. MaxAttempts /\ self' = "closed" /\ served' = {} /\ trouble' = FALSE
        /\ stage' \in [Procs -> Stages] /\ ver' \in [Procs -> {None, "old", "new"}]
        /\ remover' = FALSE
    BY <1>24 DEF SignIn, CutOff
  <2>2. damaged' \in BOOLEAN
    BY <1>24, Zenon DEF SignIn, CutOff
  <2>3. UNCHANGED <<exe, autostart>>
    BY <1>24 DEF SignIn, CutOff
  <2> HIDE DEF Ops, Labels, Stages
  <2> QED BY <2>1, <2>2, <2>3
<1>25. CASE UNCHANGED vars
  BY <1>25 DEF vars, files, worker, agents, history
<1> QED BY <1>1, <1>2, <1>3, <1>4, <1>5, <1>6, <1>7, <1>8, <1>9, <1>10, <1>11, <1>12, <1>13,
           <1>14, <1>15, <1>16, <1>17, <1>18, <1>19, <1>20, <1>21, <1>22, <1>23, <1>24,
           <1>25 DEF Next, ManagerStep, AgentStep

\* Only a process that found no handle of another gets past the mutex.
LEMMA SingleNext == TypeOK /\ SingleAgent /\ [Next]_vars => SingleAgent'
<1> SUFFICES ASSUME TypeOK, SingleAgent, [Next]_vars PROVE SingleAgent'
  OBVIOUS
<1> USE LifecycleAssumption DEF TypeOK, SingleAgent, Active
<1>1. CASE Prepare
  BY <1>1 DEF Prepare, Goto, Finish, files, agents, history
<1>2. CASE StopProbe
  BY <1>2 DEF StopProbe, ProbeAnswered, ProbeFails, AfterStop, Goto, Finish, files, agents
<1>3. CASE StopPost
  BY <1>3 DEF StopPost, AfterStop, Goto, Finish, files, Answering
<1>4. CASE StopPostFails
  BY <1>4 DEF StopPostFails, AfterStop, Goto, Finish, files, agents
<1>5. CASE StopPoll
  BY <1>5 DEF StopPoll, ProbeFails, AfterStop, Goto, Finish, files, agents
<1>6. CASE CopyNew
  BY <1>6 DEF CopyNew, Goto, Finish, files, agents, history
<1>7. CASE CopyRemove
  BY <1>7 DEF CopyRemove, Goto, agents, history
<1>8. CASE CopyRename
  BY <1>8 DEF CopyRename, agents
<1>9. CASE CopyRenameFails
  BY <1>9 DEF CopyRenameFails, files, agents
<1>10. CASE Register
  BY <1>10 DEF Register, Goto, Finish, agents, history
<1>11. CASE StartProbe
  BY <1>11 DEF StartProbe, ProbeAnswered, ProbeFails, Goto, Finish, files, agents
<1>12. CASE StartLaunch
  BY <1>12 DEF StartLaunch, Started, Goto, Finish, files, agents, history
<1>13. CASE StartPoll
  BY <1>13 DEF StartPoll, ProbeAnswered, ProbeFails, Finish, files, agents
<1>14. CASE Unregister
  BY <1>14 DEF Unregister, Goto, agents
<1>15. CASE Erase
  BY <1>15 DEF Erase, Finish, agents, history
<1>16. ASSUME NEW p \in Procs, TakeMutex(p) PROVE SingleAgent'
  BY <1>16 DEF TakeMutex, Enter, files, worker, MutexExists, Stages
<1>17. ASSUME NEW p \in Procs, Serve(p) PROVE SingleAgent'
  BY <1>17 DEF Serve, Enter, files, worker
<1>18. ASSUME NEW p \in Procs, CloseServer(p) PROVE SingleAgent'
  BY <1>18 DEF CloseServer, Enter, files, worker
<1>19. ASSUME NEW p \in Procs, Exit(p) PROVE SingleAgent'
  BY <1>19 DEF Exit, Enter, files, worker
<1>20. ASSUME NEW o \in Ops, Click(o) PROVE SingleAgent'
  BY <1>20 DEF Click, files, agents
<1>21. CASE RemoverRuns
  BY <1>21 DEF RemoverRuns, worker, agents
<1>22. ASSUME NEW from \in {"installed", "download"}, Open(from) PROVE SingleAgent'
  BY <1>22 DEF Open, files, worker, agents, history
<1>23. CASE Close
  BY <1>23 DEF Close, CutOff, files, agents
<1>24. CASE SignIn
  BY <1>24 DEF SignIn, CutOff
<1>25. CASE UNCHANGED vars
  BY <1>25 DEF vars, files, worker, agents, history
<1> QED BY <1>1, <1>2, <1>3, <1>4, <1>5, <1>6, <1>7, <1>8, <1>9, <1>10, <1>11, <1>12, <1>13,
           <1>14, <1>15, <1>16, <1>17, <1>18, <1>19, <1>20, <1>21, <1>22, <1>23, <1>24,
           <1>25 DEF Next, ManagerStep, AgentStep

\* The executable changes only when nothing runs it.
LEMMA VersionsNext == TypeOK /\ Versions /\ [Next]_vars => Versions'
<1> SUFFICES ASSUME TypeOK, Versions, [Next]_vars PROVE Versions'
  OBVIOUS
<1> USE LifecycleAssumption DEF TypeOK, Versions, Alive
<1>1. CASE Prepare
  BY <1>1 DEF Prepare, Goto, Finish, files, agents, history
<1>2. CASE StopProbe
  BY <1>2 DEF StopProbe, ProbeAnswered, ProbeFails, AfterStop, Goto, Finish, files, agents
<1>3. CASE StopPost
  BY <1>3 DEF StopPost, AfterStop, Goto, Finish, files, Answering
<1>4. CASE StopPostFails
  BY <1>4 DEF StopPostFails, AfterStop, Goto, Finish, files, agents
<1>5. CASE StopPoll
  BY <1>5 DEF StopPoll, ProbeFails, AfterStop, Goto, Finish, files, agents
<1>6. CASE CopyNew
  BY <1>6 DEF CopyNew, Goto, Finish, files, agents, history
<1>7. CASE CopyRemove
  BY <1>7 DEF CopyRemove, Goto, agents, history, InUse
<1>8. CASE CopyRename
  BY <1>8 DEF CopyRename, agents, InUse
<1>9. CASE CopyRenameFails
  BY <1>9 DEF CopyRenameFails, files, agents
<1>10. CASE Register
  BY <1>10 DEF Register, Goto, Finish, agents, history
<1>11. CASE StartProbe
  BY <1>11 DEF StartProbe, ProbeAnswered, ProbeFails, Goto, Finish, files, agents
<1>12. CASE StartLaunch
  BY <1>12 DEF StartLaunch, Started, Goto, Finish, files, agents, history
<1>13. CASE StartPoll
  BY <1>13 DEF StartPoll, ProbeAnswered, ProbeFails, Finish, files, agents
<1>14. CASE Unregister
  BY <1>14 DEF Unregister, Goto, agents
<1>15. CASE Erase
  BY <1>15 DEF Erase, Finish, agents, history, InUse
<1>16. ASSUME NEW p \in Procs, TakeMutex(p) PROVE Versions'
  BY <1>16 DEF TakeMutex, Enter, files, worker
<1>17. ASSUME NEW p \in Procs, Serve(p) PROVE Versions'
  BY <1>17 DEF Serve, Enter, files, worker
<1>18. ASSUME NEW p \in Procs, CloseServer(p) PROVE Versions'
  BY <1>18 DEF CloseServer, Enter, files, worker
<1>19. ASSUME NEW p \in Procs, Exit(p) PROVE Versions'
  BY <1>19 DEF Exit, Enter, files, worker
<1>20. ASSUME NEW o \in Ops, Click(o) PROVE Versions'
  BY <1>20 DEF Click, files, agents
<1>21. CASE RemoverRuns
  BY <1>21 DEF RemoverRuns, worker, agents, InUse
<1>22. ASSUME NEW from \in {"installed", "download"}, Open(from) PROVE Versions'
  BY <1>22 DEF Open, files, worker, agents, history
<1>23. CASE Close
  BY <1>23 DEF Close, CutOff, files, agents
<1>24. CASE SignIn
  BY <1>24 DEF SignIn, CutOff
<1>25. CASE UNCHANGED vars
  BY <1>25 DEF vars, files, worker, agents, history
<1> QED BY <1>1, <1>2, <1>3, <1>4, <1>5, <1>6, <1>7, <1>8, <1>9, <1>10, <1>11, <1>12, <1>13,
           <1>14, <1>15, <1>16, <1>17, <1>18, <1>19, <1>20, <1>21, <1>22, <1>23, <1>24,
           <1>25 DEF Next, ManagerStep, AgentStep

\* Entry and executable appear and go in an order that keeps them together.
LEMMA EntryNext == TypeOK /\ Versions /\ Entry /\ [Next]_vars => Entry'
<1> SUFFICES ASSUME TypeOK, Versions, Entry, [Next]_vars PROVE Entry'
  OBVIOUS
<1> USE LifecycleAssumption DEF TypeOK, Versions, Alive, Entry, ExecutableKept
<1>1. CASE Prepare
  BY <1>1 DEF Prepare, Goto, Finish, files, agents, history
<1>2. CASE StopProbe
  BY <1>2 DEF StopProbe, ProbeAnswered, ProbeFails, AfterStop, Goto, Finish, files, agents
<1>3. CASE StopPost
  BY <1>3 DEF StopPost, AfterStop, Goto, Finish, files, Answering
<1>4. CASE StopPostFails
  BY <1>4 DEF StopPostFails, AfterStop, Goto, Finish, files, agents
<1>5. CASE StopPoll
  BY <1>5 DEF StopPoll, ProbeFails, AfterStop, Goto, Finish, files, agents
<1>6. CASE CopyNew
  BY <1>6 DEF CopyNew, Goto, Finish, files, agents, history
<1>7. CASE CopyRemove
  BY <1>7 DEF CopyRemove, Goto, agents, history, InUse
<1>8. CASE CopyRename
  BY <1>8 DEF CopyRename, agents, InUse
<1>9. CASE CopyRenameFails
  BY <1>9 DEF CopyRenameFails, files, agents, InUse
<1>10. CASE Register
  BY <1>10 DEF Register, Goto, Finish, agents, history
<1>11. CASE StartProbe
  BY <1>11 DEF StartProbe, ProbeAnswered, ProbeFails, Goto, Finish, files, agents
<1>12. CASE StartLaunch
  BY <1>12 DEF StartLaunch, Started, Goto, Finish, files, agents, history
<1>13. CASE StartPoll
  BY <1>13 DEF StartPoll, ProbeAnswered, ProbeFails, Finish, files, agents
<1>14. CASE Unregister
  BY <1>14 DEF Unregister, Goto, agents
<1>15. CASE Erase
  BY <1>15 DEF Erase, Finish, agents, history, InUse
<1>16. ASSUME NEW p \in Procs, TakeMutex(p) PROVE Entry'
  BY <1>16 DEF TakeMutex, Enter, files, worker
<1>17. ASSUME NEW p \in Procs, Serve(p) PROVE Entry'
  BY <1>17 DEF Serve, Enter, files, worker
<1>18. ASSUME NEW p \in Procs, CloseServer(p) PROVE Entry'
  BY <1>18 DEF CloseServer, Enter, files, worker
<1>19. ASSUME NEW p \in Procs, Exit(p) PROVE Entry'
  BY <1>19 DEF Exit, Enter, files, worker
<1>20. ASSUME NEW o \in Ops, Click(o) PROVE Entry'
  BY <1>20 DEF Click, files, agents
<1>21. CASE RemoverRuns
  BY <1>21 DEF RemoverRuns, worker, agents, InUse
<1>22. ASSUME NEW from \in {"installed", "download"}, Open(from) PROVE Entry'
  BY <1>22 DEF Open, files, worker, agents, history
<1>23. CASE Close
  BY <1>23 DEF Close, CutOff, files, agents
<1>24. CASE SignIn
  BY <1>24 DEF SignIn, CutOff
<1>25. CASE UNCHANGED vars
  BY <1>25 DEF vars, files, worker, agents, history
<1> QED BY <1>1, <1>2, <1>3, <1>4, <1>5, <1>6, <1>7, <1>8, <1>9, <1>10, <1>11, <1>12, <1>13,
           <1>14, <1>15, <1>16, <1>17, <1>18, <1>19, <1>20, <1>21, <1>22, <1>23, <1>24,
           <1>25 DEF Next, ManagerStep, AgentStep

\* A result is set by the step that ends the operation.
LEMMA ResultsNext == TypeOK /\ Results /\ [Next]_vars => Results'
<1> SUFFICES ASSUME TypeOK, Results, [Next]_vars PROVE Results'
  OBVIOUS
<1> USE LifecycleAssumption DEF TypeOK, Results
<1>1. CASE Prepare
  BY <1>1 DEF Prepare, Goto, Finish, files, agents, history
<1>2. CASE StopProbe
  BY <1>2 DEF StopProbe, ProbeAnswered, ProbeFails, AfterStop, Goto, Finish, files, agents
<1>3. CASE StopPost
  BY <1>3 DEF StopPost, AfterStop, Goto, Finish, files, Answering
<1>4. CASE StopPostFails
  BY <1>4 DEF StopPostFails, AfterStop, Goto, Finish, files, agents
<1>5. CASE StopPoll
  BY <1>5 DEF StopPoll, ProbeFails, AfterStop, Goto, Finish, files, agents
<1>6. CASE CopyNew
  BY <1>6 DEF CopyNew, Goto, Finish, files, agents, history
<1>7. CASE CopyRemove
  BY <1>7 DEF CopyRemove, Goto, agents, history
<1>8. CASE CopyRename
  BY <1>8 DEF CopyRename, agents
<1>9. CASE CopyRenameFails
  BY <1>9 DEF CopyRenameFails, files, agents
<1>10. CASE Register
  BY <1>10 DEF Register, Goto, Finish, agents, history
<1>11. CASE StartProbe
  BY <1>11 DEF StartProbe, ProbeAnswered, ProbeFails, Goto, Finish, files, agents
<1>12. CASE StartLaunch
  BY <1>12 DEF StartLaunch, Started, Goto, Finish, files, agents, history
<1>13. CASE StartPoll
  BY <1>13 DEF StartPoll, ProbeAnswered, ProbeFails, Finish, files, agents
<1>14. CASE Unregister
  BY <1>14 DEF Unregister, Goto, agents
<1>15. CASE Erase
  BY <1>15 DEF Erase, Finish, agents, history
<1>16. ASSUME NEW p \in Procs, TakeMutex(p) PROVE Results'
  BY <1>16 DEF TakeMutex, Enter, files, worker
<1>17. ASSUME NEW p \in Procs, Serve(p) PROVE Results'
  BY <1>17 DEF Serve, Enter, files, worker
<1>18. ASSUME NEW p \in Procs, CloseServer(p) PROVE Results'
  BY <1>18 DEF CloseServer, Enter, files, worker
<1>19. ASSUME NEW p \in Procs, Exit(p) PROVE Results'
  BY <1>19 DEF Exit, Enter, files, worker
<1>20. ASSUME NEW o \in Ops, Click(o) PROVE Results'
  BY <1>20 DEF Click, files, agents
<1>21. CASE RemoverRuns
  BY <1>21 DEF RemoverRuns, worker, agents
<1>22. ASSUME NEW from \in {"installed", "download"}, Open(from) PROVE Results'
  BY <1>22 DEF Open, files, worker, agents, history
<1>23. CASE Close
  BY <1>23 DEF Close, CutOff, files, agents
<1>24. CASE SignIn
  BY <1>24 DEF SignIn, CutOff
<1>25. CASE UNCHANGED vars
  BY <1>25 DEF vars, files, worker, agents, history
<1> QED BY <1>1, <1>2, <1>3, <1>4, <1>5, <1>6, <1>7, <1>8, <1>9, <1>10, <1>11, <1>12, <1>13,
           <1>14, <1>15, <1>16, <1>17, <1>18, <1>19, <1>20, <1>21, <1>22, <1>23, <1>24,
           <1>25 DEF Next, ManagerStep, AgentStep

\* An operation that met no slow agent has waited for the agents it stopped.
LEMMA StoppingNext == TypeOK /\ Versions /\ Results /\ Stopping /\ [Next]_vars => Stopping'
<1> SUFFICES ASSUME TypeOK, Versions, Results, Stopping, [Next]_vars PROVE Stopping'
  OBVIOUS
<1> USE LifecycleAssumption DEF TypeOK, Versions, Alive, Results, Stopping
<1>1. CASE Prepare
  BY <1>1 DEF Prepare, Goto, Finish, files, agents, history
<1>2. CASE StopProbe
  BY <1>2 DEF StopProbe, ProbeAnswered, ProbeFails, AfterStop, Goto,
               Finish, files, agents, Answering
<1>3. CASE StopPost
  BY <1>3 DEF StopPost, AfterStop, Goto, Finish, files, Answering
<1>4. CASE StopPostFails
  BY <1>4 DEF StopPostFails, AfterStop, Goto, Finish, files, agents, Answering
<1>5. CASE StopPoll
  BY <1>5 DEF StopPoll, ProbeFails, AfterStop, Goto, Finish, files, agents, Answering
<1>6. CASE CopyNew
  BY <1>6 DEF CopyNew, Goto, Finish, files, agents, history
<1>7. CASE CopyRemove
  BY <1>7 DEF CopyRemove, Goto, agents, history
<1>8. CASE CopyRename
  BY <1>8 DEF CopyRename, agents
<1>9. CASE CopyRenameFails
  BY <1>9 DEF CopyRenameFails, files, agents
<1>10. CASE Register
  BY <1>10 DEF Register, Goto, Finish, agents, history
<1>11. CASE StartProbe
  BY <1>11 DEF StartProbe, ProbeAnswered, ProbeFails, Goto, Finish, files, agents, Answering
<1>12. CASE StartLaunch
  BY <1>12 DEF StartLaunch, Started, Goto, Finish, files, agents, history
<1>13. CASE StartPoll
  BY <1>13 DEF StartPoll, ProbeAnswered, ProbeFails, Finish, files, agents, Answering
<1>14. CASE Unregister
  BY <1>14 DEF Unregister, Goto, agents
<1>15. CASE Erase
  BY <1>15 DEF Erase, Finish, agents, history
<1>16. ASSUME NEW p \in Procs, TakeMutex(p) PROVE Stopping'
  BY <1>16 DEF TakeMutex, Enter, files, worker
<1>17. ASSUME NEW p \in Procs, Serve(p) PROVE Stopping'
  BY <1>17 DEF Serve, Enter, files, worker
<1>18. ASSUME NEW p \in Procs, CloseServer(p) PROVE Stopping'
  BY <1>18 DEF CloseServer, Enter, files, worker
<1>19. ASSUME NEW p \in Procs, Exit(p) PROVE Stopping'
  BY <1>19 DEF Exit, Enter, files, worker
<1>20. ASSUME NEW o \in Ops, Click(o) PROVE Stopping'
  BY <1>20 DEF Click, files, agents
<1>21. CASE RemoverRuns
  BY <1>21 DEF RemoverRuns, worker, agents
<1>22. ASSUME NEW from \in {"installed", "download"}, Open(from) PROVE Stopping'
  BY <1>22 DEF Open, files, worker, agents, history
<1>23. CASE Close
  BY <1>23 DEF Close, CutOff, files, agents
<1>24. CASE SignIn
  BY <1>24 DEF SignIn, CutOff
<1>25. CASE UNCHANGED vars
  BY <1>25 DEF vars, files, worker, agents, history
<1> QED BY <1>1, <1>2, <1>3, <1>4, <1>5, <1>6, <1>7, <1>8, <1>9, <1>10, <1>11, <1>12, <1>13,
           <1>14, <1>15, <1>16, <1>17, <1>18, <1>19, <1>20, <1>21, <1>22, <1>23, <1>24,
           <1>25 DEF Next, ManagerStep, AgentStep

\* The executable of an installation is replaced when the agents are gone.
LEMMA UpgradingNext == TypeOK /\ Versions /\ Results /\ Upgrading /\ [Next]_vars => Upgrading'
<1> SUFFICES ASSUME TypeOK, Versions, Results, Upgrading, [Next]_vars PROVE Upgrading'
  OBVIOUS
<1> USE LifecycleAssumption DEF TypeOK, Versions, Alive, Results, Upgrading
<1>1. CASE Prepare
  BY <1>1 DEF Prepare, Goto, Finish, files, agents, history
<1>2. CASE StopProbe
  BY <1>2 DEF StopProbe, ProbeAnswered, ProbeFails, AfterStop, Goto, Finish, files, agents
<1>3. CASE StopPost
  BY <1>3 DEF StopPost, AfterStop, Goto, Finish, files, Answering
<1>4. CASE StopPostFails
  BY <1>4 DEF StopPostFails, AfterStop, Goto, Finish, files, agents
<1>5. CASE StopPoll
  BY <1>5 DEF StopPoll, ProbeFails, AfterStop, Goto, Finish, files, agents
<1>6. CASE CopyNew
  BY <1>6 DEF CopyNew, Goto, Finish, files, agents, history
<1>7. CASE CopyRemove
  BY <1>7 DEF CopyRemove, Goto, agents, history, InUse
<1>8. CASE CopyRename
  BY <1>8 DEF CopyRename, agents, InUse
<1>9. CASE CopyRenameFails
  BY <1>9 DEF CopyRenameFails, files, agents
<1>10. CASE Register
  BY <1>10 DEF Register, Goto, Finish, agents, history
<1>11. CASE StartProbe
  BY <1>11 DEF StartProbe, ProbeAnswered, ProbeFails, Goto, Finish, files, agents, Answering
<1>12. CASE StartLaunch
  BY <1>12 DEF StartLaunch, Started, Goto, Finish, files, agents, history
<1>13. CASE StartPoll
  BY <1>13 DEF StartPoll, ProbeAnswered, ProbeFails, Finish, files, agents, Answering
<1>14. CASE Unregister
  BY <1>14 DEF Unregister, Goto, agents
<1>15. CASE Erase
  BY <1>15 DEF Erase, Finish, agents, history, InUse
<1>16. ASSUME NEW p \in Procs, TakeMutex(p) PROVE Upgrading'
  BY <1>16 DEF TakeMutex, Enter, files, worker
<1>17. ASSUME NEW p \in Procs, Serve(p) PROVE Upgrading'
  BY <1>17 DEF Serve, Enter, files, worker
<1>18. ASSUME NEW p \in Procs, CloseServer(p) PROVE Upgrading'
  BY <1>18 DEF CloseServer, Enter, files, worker
<1>19. ASSUME NEW p \in Procs, Exit(p) PROVE Upgrading'
  BY <1>19 DEF Exit, Enter, files, worker
<1>20. ASSUME NEW o \in Ops, Click(o) PROVE Upgrading'
  BY <1>20 DEF Click, files, agents
<1>21. CASE RemoverRuns
  BY <1>21 DEF RemoverRuns, worker, agents, InUse
<1>22. ASSUME NEW from \in {"installed", "download"}, Open(from) PROVE Upgrading'
  BY <1>22 DEF Open, files, worker, agents, history
<1>23. CASE Close
  BY <1>23 DEF Close, CutOff, files, agents
<1>24. CASE SignIn
  BY <1>24 DEF SignIn, CutOff
<1>25. CASE UNCHANGED vars
  BY <1>25 DEF vars, files, worker, agents, history
<1> QED BY <1>1, <1>2, <1>3, <1>4, <1>5, <1>6, <1>7, <1>8, <1>9, <1>10, <1>11, <1>12, <1>13,
           <1>14, <1>15, <1>16, <1>17, <1>18, <1>19, <1>20, <1>21, <1>22, <1>23, <1>24,
           <1>25 DEF Next, ManagerStep, AgentStep

LEMMA LifecycleNext == LifecycleInv /\ [Next]_vars => LifecycleInv'
BY TypeNext, SingleNext, VersionsNext, EntryNext, ResultsNext, StoppingNext, UpgradingNext
   DEF LifecycleInv

LEMMA LifecycleCorrect == Spec => []LifecycleInv
BY LifecycleInit, LifecycleNext, PTL DEF Spec

-----------------------------------------------------------------------------
\* Files, manager and processes keep their types.
THEOREM LifecycleTypes == Spec => []TypeOK
<1>1. LifecycleInv => TypeOK
  BY DEF LifecycleInv
<1> QED BY <1>1, LifecycleCorrect, PTL

\* However processes start, find the mutex, serve, close and end, at most one is
\* past it.
THEOREM OneAgent == Spec => []SingleAgent
<1>1. LifecycleInv => SingleAgent
  BY DEF LifecycleInv
<1> QED BY <1>1, LifecycleCorrect, PTL

\* A restart or a save that reports success has ended every agent of before.
THEOREM RestartsReplace == Spec => []RestartReplaces
<1>1. LifecycleInv => RestartReplaces
  BY DEF LifecycleInv, Stopping, RestartReplaces
<1> QED BY <1>1, LifecycleCorrect, PTL

\* After an installation that reports success the new version is in place and
\* every agent that answers runs it.
THEOREM UpgradesTakeEffect == Spec => []UpgradeTakesEffect
<1>1. LifecycleInv => UpgradeTakesEffect
  BY DEF LifecycleInv, Versions, Alive, Upgrading, UpgradeTakesEffect, Answering
<1> QED BY <1>1, LifecycleCorrect, PTL

\* The executable that is started at sign-in is there.
THEOREM ExecutableStays == Spec => []ExecutableKept
<1>1. LifecycleInv => ExecutableKept
  BY DEF LifecycleInv, Entry
<1> QED BY <1>1, LifecycleCorrect, PTL

\* "Ready" is reported by an agent that is not shutting down.
THEOREM ReadyIsRunning == Spec => ReadyMeansRunning
<1> DEFINE Step == report' = "ready" /\ ~trouble' /\ pc \in {"start", "wait"}
                      => \E p \in Procs : stage[p] = "serving"
<1>1. LifecycleInv /\ [Next]_vars => [Step]_vars
  <2> SUFFICES ASSUME LifecycleInv, [Next]_vars,
                      report' = "ready", ~trouble', pc \in {"start", "wait"}
               PROVE  \E p \in Procs : stage[p] = "serving"
    OBVIOUS
  <2>1. report = "none" /\ self # "closed"
    BY DEF LifecycleInv, Results
  <2>2. CASE StartProbe \/ StartPoll
    <3>1. Answering # {} /\ trouble' = trouble
      BY <2>1, <2>2, Zenon DEF StartProbe, StartPoll, ProbeAnswered, Goto, Finish
    <3>2. \A p \in Procs : stage[p] # "closing"
      BY <3>1 DEF LifecycleInv, Stopping
    <3> QED BY <3>1, <3>2 DEF Answering
  <2>3. CASE ManagerStep /\ ~StartProbe /\ ~StartPoll
    BY <2>3 DEF ManagerStep, Prepare, StopProbe, StopPost, StopPostFails, StopPoll, CopyNew,
                CopyRemove, CopyRename, CopyRenameFails, Register, StartLaunch, Unregister, Erase
  <2>4. ASSUME NEW p \in Procs, AgentStep(p) PROVE report' = "none"
    BY <2>1, <2>4 DEF AgentStep, TakeMutex, Serve, CloseServer, Exit, Enter, worker
  <2>5. CASE (\E o \in Ops : Click(o)) \/ RemoverRuns \/ Close \/ SignIn \/ UNCHANGED vars
             \/ \E from \in {"installed", "download"} : Open(from)
    BY <2>1, <2>5 DEF Click, RemoverRuns, Open, Close, SignIn, CutOff, vars, worker
  <2> QED BY <2>2, <2>3, <2>4, <2>5 DEF Next
<1>2. Spec => [][Step]_vars
  BY <1>1, LifecycleCorrect, PTL DEF Spec
<1> QED BY <1>2 DEF ReadyMeansRunning

\* The mutex of an agent is free only after its process has ended: a new one gets
\* past it when there is no other, and a sign-in starts one that has yet to take it.
THEOREM OneAfterAnother == Spec => NoHandover
<1> DEFINE Step == \A p \in Active, q \in Active' : p = q
<1>1. LifecycleInv /\ [Next]_vars => [Step]_vars
  <2> SUFFICES ASSUME LifecycleInv, [Next]_vars, NEW p \in Active, NEW q \in Active',
                      q \notin Active
               PROVE  FALSE
    BY DEF LifecycleInv, SingleAgent
  <2>1. /\ stage \in [Procs -> Stages] /\ q \in Procs
        /\ stage[q] \in {"none", "created", "duplicate"}
        /\ stage'[q] \notin {"none", "created", "duplicate"}
    BY DEF LifecycleInv, TypeOK, Active, Stages
  <2>2. MutexExists
    BY DEF Active, MutexExists
  <2>3. ~ManagerStep
    BY <2>1
       DEF ManagerStep, Prepare, StopProbe, StopPost, StopPostFails, StopPoll, CopyNew,
           CopyRemove, CopyRename, CopyRenameFails, Register, StartProbe, StartLaunch,
           StartPoll, Unregister, Erase, Started, agents
  <2>4. \A r \in Procs : ~AgentStep(r)
    BY <2>1, <2>2 DEF AgentStep, TakeMutex, Serve, CloseServer, Exit, Enter
  <2>5. ~SignIn
    BY <2>1 DEF SignIn
  <2>6. CASE (\E o \in Ops : Click(o)) \/ RemoverRuns \/ Close \/ UNCHANGED vars
             \/ \E from \in {"installed", "download"} : Open(from)
    BY <2>1, <2>6 DEF Click, RemoverRuns, Open, Close, agents, vars
  <2> QED BY <2>3, <2>4, <2>5, <2>6 DEF Next
<1>2. Spec => [][Step]_vars
  BY <1>1, LifecycleCorrect, PTL DEF Spec
<1> QED BY <1>2 DEF NoHandover
=============================================================================
