--------------------------- MODULE AgentLifecycle ---------------------------
(***************************************************************************)
(* The processes of version 3: the agent (manager/agent.go, runAgentMode)   *)
(* with its named mutex, and the manager's operations that install, start,  *)
(* stop, restart and remove it (manager/windows.go).                        *)
(*                                                                         *)
(* The manager learns of the agent only by asking its local server.  An     *)
(* agent that is told to shut down answers, serves a little longer, closes  *)
(* its server and ends: the operations, the sign-in and the shutdown of     *)
(* older processes overlap.  Windows lets nobody remove or replace an       *)
(* executable that is running.                                              *)
(*                                                                         *)
(* Of a time limit only that it may pass is kept.                           *)
(***************************************************************************)
EXTENDS Integers, FiniteSets

CONSTANTS
    Procs,         \* processes started with --agent, at one time
    MaxAttempts,   \* attempts of copySelfToInstall (15 in the code)
    None           \* no executable

ASSUME LifecycleAssumption ==
    /\ MaxAttempts \in Nat \ {0}
    /\ None \notin {"old", "new"}

VARIABLES
    exe,         \* the installed executable
    autostart,   \* Windows starts it at sign-in
    remover,     \* the script that removes the directory waits its 3 seconds
    self,        \* the executable the manager runs from, or "closed"
    op,          \* the operation of the manager's worker
    pc,          \* how far it is, "idle" when there is none
    attempts,    \* failed attempts to replace the executable
    report,      \* what the manager shows of the last operation
    stage,       \* stage[p]: how far process p is
    ver,         \* the executable it was started from
    \* History, read by no action:
    served,      \* agents that served when the operation began, and live
    trouble,     \* an agent was slow to answer, or to stop, during it
    damaged      \* something has happened that may leave autostart without exe

files == <<exe, autostart, remover>>
worker == <<op, pc, attempts, report>>
agents == <<stage, ver>>
history == <<served, trouble, damaged>>
vars == <<files, self, worker, agents, history>>

Ops == {"install", "start", "stop", "restart", "save", "uninstall"}

\* The manager has been downloaded, an older version may be installed.
Init ==
    /\ exe \in {None, "old"}
    /\ autostart = (exe # None)
    /\ remover = FALSE
    /\ self = "download"
    /\ op = "stop" /\ pc = "idle" /\ attempts = 0 /\ report = "none"
    /\ stage = [p \in Procs |-> "none"]
    /\ ver = [p \in Procs |-> None]
    /\ served = {} /\ trouble = FALSE /\ damaged = FALSE

-----------------------------------------------------------------------------
(* The agent.                                                               *)

Alive(p) == stage[p] # "none"

\* The server answers until it is closed.
Answering == {p \in Procs : stage[p] \in {"serving", "closing"}}

\* The mutex exists as long as some process has a handle to it, also one that
\* found it there.
MutexExists == \E p \in Procs : stage[p] \notin {"none", "created"}

\* The executable runs, as an agent or as the manager.
InUse == exe # None /\ (self = "installed" \/ \E p \in Procs : Alive(p))

Enter(p, from, to) ==
    /\ stage[p] = from
    /\ stage' = [stage EXCEPT ![p] = to]
    /\ UNCHANGED <<files, self, worker, trouble, damaged>>

\* Mutant: the result of createNamedMutex is not looked at.
TakeMutexUnchecked(p) == Enter(p, "created", "guarded") /\ UNCHANGED <<ver, served>>

TakeMutex(p) ==
    /\ Enter(p, "created", IF MutexExists THEN "duplicate" ELSE "guarded")
    /\ UNCHANGED <<ver, served>>

\* ensureInstalledRuntime, the process id, and the server.
Serve(p) == Enter(p, "guarded", "serving") /\ UNCHANGED <<ver, served>>

CloseServer(p) == Enter(p, "closing", "closed") /\ UNCHANGED <<ver, served>>

\* The process returns: as a duplicate, because the files cannot be made or the
\* port is taken, or after its server was closed.
Exit(p) ==
    /\ \E from \in {"duplicate", "guarded", "closed"} : Enter(p, from, "none")
    /\ ver' = [ver EXCEPT ![p] = None]
    /\ served' = served \ {p}

\* It is started and knows the executable of that moment.
Started(p) ==
    /\ stage[p] = "none"
    /\ stage' = [stage EXCEPT ![p] = "created"]
    /\ ver' = [ver EXCEPT ![p] = exe]

-----------------------------------------------------------------------------
(* The manager.                                                             *)

Goto(label) == pc' = label /\ UNCHANGED <<op, attempts, report>>

Finish(result) == pc' = "idle" /\ report' = result /\ UNCHANGED <<op, attempts>>

\* One worker at a time: the other buttons are disabled.
Click(o) ==
    /\ self # "closed"
    /\ pc = "idle"
    /\ op' = o
    /\ pc' = "prepare"
    /\ UNCHANGED attempts
    /\ report' = "none"
    /\ served' = {p \in Procs : stage[p] = "serving"}
    /\ trouble' = \E p \in Procs : stage[p] = "closing"
    /\ UNCHANGED <<files, self, agents, damaged>>

\* Mutant: after the configuration is saved, the agent is only started.
PrepareNoStop ==
    /\ pc = "prepare"
    /\ IF op = "save" /\ exe = None
       THEN Finish("ready")
       ELSE Goto(IF op \in {"save", "start"} THEN "start" ELSE "stop")
    /\ UNCHANGED <<files, self, agents, history>>

\* ensureInstalledRuntime, or the configuration is saved.
Prepare ==
    /\ pc = "prepare"
    /\ \/ /\ op \in {"install", "save"}
          /\ Finish("error")
       \/ /\ op = "save" /\ exe = None
          /\ Finish("ready")
       \/ /\ op = "save" => exe # None
          /\ Goto(IF op = "start" THEN "start" ELSE "stop")
    /\ UNCHANGED <<files, self, agents, history>>

\* What follows stopAgentGracefully; only Stop looks at its error.
AfterStop(error) ==
    \/ op = "stop" /\ Finish(IF error THEN "error" ELSE "ready")
    \/ op = "install" /\ Goto("copy")
    \/ op = "uninstall" /\ Goto("unregister")
    \/ op \notin {"stop", "install", "uninstall"} /\ Goto("start")

\* The probe is answered, or it is not: there is no server, or it takes longer
\* than two seconds.
ProbeAnswered == Answering # {} /\ UNCHANGED trouble
ProbeFails == trouble' = (trouble \/ Answering # {})

StopProbe ==
    /\ pc = "stop"
    /\ \/ ProbeAnswered /\ Goto("post")
       \/ ProbeFails /\ AfterStop(FALSE)
    /\ UNCHANGED <<files, self, agents, served, damaged>>

\* POST /api/shutdown: the agent begins to close, and answers in time or not.
StopPost ==
    /\ pc = "post"
    /\ Answering # {}
    /\ stage' = [p \in Procs |-> IF stage[p] = "serving" THEN "closing" ELSE stage[p]]
    /\ \/ Goto("await") /\ UNCHANGED trouble
       \/ AfterStop(TRUE) /\ trouble' = TRUE
    /\ UNCHANGED <<files, self, ver, served, damaged>>

\* No connection: the agent has ended meanwhile, or is too busy.
StopPostFails ==
    /\ pc = "post"
    /\ AfterStop(TRUE)
    /\ trouble' = (trouble \/ Answering # {})
    /\ UNCHANGED <<files, self, agents, served, damaged>>

\* Mutant: after the shutdown was accepted, the agent is not waited for.
StopNoPoll ==
    /\ pc = "await"
    /\ AfterStop(FALSE)
    /\ UNCHANGED <<files, self, agents, history>>

\* The agent does not answer any more, or eight seconds have passed.
StopPoll ==
    /\ pc = "await"
    /\ \/ ProbeFails /\ AfterStop(FALSE)
       \/ Answering # {} /\ AfterStop(TRUE) /\ trouble' = TRUE
    /\ UNCHANGED <<files, self, agents, served, damaged>>

\* Mutant: the old executable is removed before the new one is written.
CopyNewLate ==
    /\ pc = "copy"
    /\ \/ self = "installed" /\ Goto("register") /\ UNCHANGED exe
       \/ /\ self = "download"
          /\ Goto("remove") \/ Finish("error")
          /\ exe' = IF InUse THEN exe ELSE None
    /\ UNCHANGED <<autostart, remover, self, agents, history>>

\* copySelfToInstall: the manager may be the installed executable itself, and
\* the new file may not be written.
CopyNew ==
    /\ pc = "copy"
    /\ \/ self = "installed" /\ Goto("register")
       \/ self = "download" /\ (Goto("remove") \/ Finish("error"))
    /\ UNCHANGED <<files, self, agents, history>>

\* os.Remove(dst), its error ignored.
CopyRemove ==
    /\ pc = "remove"
    /\ exe' = IF InUse THEN exe ELSE None
    /\ Goto("rename")
    /\ UNCHANGED <<autostart, remover, self, agents, history>>

CopyRename ==
    /\ pc = "rename"
    /\ ~InUse
    /\ exe' = "new"
    /\ damaged' = FALSE
    /\ pc' = "register" /\ attempts' = 0 /\ UNCHANGED <<op, report>>
    /\ UNCHANGED <<autostart, remover, self, agents, served, trouble>>

\* Mutant: attempts are not limited.
CopyRenameForever ==
    /\ pc = "rename"
    /\ damaged' = (damaged \/ ~InUse)
    /\ attempts' = attempts + 1
    /\ pc' = "remove"
    /\ UNCHANGED <<files, self, op, report, agents, served, trouble>>

\* Mutant: after the last attempt the error is forgotten.
CopyRenameGivesUp ==
    /\ pc = "rename"
    /\ attempts' = attempts + 1
    /\ pc' = IF attempts' < MaxAttempts THEN "remove" ELSE "register"
    /\ damaged' = (damaged \/ ~InUse)
    /\ UNCHANGED <<files, self, op, report, agents, served, trouble>>

\* The executable is in use, or the new file is, or the disk fails.
CopyRenameFails ==
    /\ pc = "rename"
    /\ damaged' = (damaged \/ ~InUse)
    /\ IF attempts + 1 < MaxAttempts
       THEN attempts' = attempts + 1 /\ pc' = "remove" /\ UNCHANGED report
       ELSE attempts' = 0 /\ pc' = "idle" /\ report' = "error"
    /\ UNCHANGED <<files, self, op, agents, served, trouble>>

Register ==
    /\ pc = "register"
    /\ \/ autostart' = TRUE /\ Goto("start")
       \/ UNCHANGED autostart /\ Finish("error")
    /\ UNCHANGED <<exe, remover, self, agents, history>>

\* startAgentWithWait: an agent that answers need not be started.
StartProbe ==
    /\ pc = "start"
    /\ \/ ProbeAnswered /\ Finish("ready")
       \/ ProbeFails /\ Goto("launch")
    /\ UNCHANGED <<files, self, agents, served, damaged>>

StartLaunch ==
    /\ pc = "launch"
    /\ \/ /\ exe # None
          /\ \E p \in Procs : Started(p)
          /\ Goto("wait")
       \/ Finish("error") /\ UNCHANGED agents
    /\ UNCHANGED <<files, self, history>>

\* Mutant: there is no limit of twelve seconds.
StartPollForever ==
    /\ pc = "wait"
    /\ ProbeAnswered /\ Finish("ready")
    /\ UNCHANGED <<files, self, agents, served, damaged>>

\* An agent answers, whoever started it, or twelve seconds have passed.
StartPoll ==
    /\ pc = "wait"
    /\ \/ ProbeAnswered /\ Finish("ready")
       \/ ProbeFails /\ Finish("error")
    /\ UNCHANGED <<files, self, agents, served, damaged>>

\* removeAutostart, its error ignored.
Unregister ==
    /\ pc = "unregister"
    /\ \/ autostart' = FALSE /\ damaged' = FALSE
       \/ damaged' = TRUE /\ UNCHANGED autostart
    /\ Goto("erase")
    /\ UNCHANGED <<exe, remover, self, agents, served, trouble>>

\* removeInstalledFilesAfterExit
Erase ==
    /\ pc = "erase"
    /\ \/ self = "installed" /\ remover' = TRUE /\ Finish("ready") /\ UNCHANGED exe
       \/ self = "download" /\ ~InUse /\ exe' = None /\ Finish("ready") /\ UNCHANGED remover
       \/ Finish("error") /\ UNCHANGED <<exe, remover>>
    /\ UNCHANGED <<autostart, self, agents, history>>

\* It does not know of an installation in its three seconds.
RemoverRuns ==
    /\ remover
    /\ remover' = FALSE
    /\ exe' = IF InUse THEN exe ELSE None
    /\ damaged' = (damaged \/ autostart \/ pc = "register")
    /\ UNCHANGED <<autostart, self, worker, agents, served, trouble>>

-----------------------------------------------------------------------------
(* The user and Windows.                                                    *)

Open(from) ==
    /\ self = "closed"
    /\ from = "installed" => exe # None
    /\ self' = from
    /\ UNCHANGED <<files, worker, agents, history>>

\* The window is closed, the operation that is under way ends with it.
CutOff ==
    /\ self' = "closed"
    /\ pc' = "idle"
    /\ report' = "none"
    /\ op' = "stop" /\ attempts' = 0
    /\ served' = {} /\ trouble' = FALSE
    /\ damaged' = (damaged \/ pc = "rename")

Close ==
    /\ self # "closed"
    /\ CutOff
    /\ UNCHANGED <<files, agents>>

\* Everything ends, and the next sign-in starts the agent.
SignIn ==
    /\ CutOff
    /\ remover' = FALSE
    /\ LET p == CHOOSE q \in Procs : TRUE IN
       IF autostart /\ exe # None
       THEN /\ stage' = [q \in Procs |-> IF q = p THEN "created" ELSE "none"]
            /\ ver' = [q \in Procs |-> IF q = p THEN exe ELSE None]
       ELSE /\ stage' = [q \in Procs |-> "none"]
            /\ ver' = [q \in Procs |-> None]
    /\ UNCHANGED <<exe, autostart>>

ManagerStep ==
    \/ Prepare \/ StopProbe \/ StopPost \/ StopPostFails \/ StopPoll
    \/ CopyNew \/ CopyRemove \/ CopyRename \/ CopyRenameFails \/ Register
    \/ StartProbe \/ StartLaunch \/ StartPoll \/ Unregister \/ Erase

AgentStep(p) == TakeMutex(p) \/ Serve(p) \/ CloseServer(p) \/ Exit(p)

Next ==
    \/ ManagerStep
    \/ \E p \in Procs : AgentStep(p)
    \/ \E o \in Ops : Click(o)
    \/ RemoverRuns
    \/ \E from \in {"installed", "download"} : Open(from)
    \/ Close
    \/ SignIn

Spec == Init /\ [][Next]_vars

\* The manager's worker and the processes run on; users need do nothing.
Fairness ==
    /\ WF_vars(ManagerStep)
    /\ \A p \in Procs : WF_vars(AgentStep(p))

FairSpec == Spec /\ Fairness

-----------------------------------------------------------------------------
(* Properties.                                                              *)

Stages == {"none", "created", "duplicate", "guarded", "serving", "closing", "closed"}

Labels == {"idle", "prepare", "stop", "post", "await", "copy", "remove", "rename",
           "register", "start", "launch", "wait", "unregister", "erase"}

\* Files, manager and processes keep their types.
TypeOK ==
    /\ exe \in {None, "old", "new"}
    /\ autostart \in BOOLEAN
    /\ remover \in BOOLEAN
    /\ self \in {"download", "installed", "closed"}
    /\ op \in Ops
    /\ pc \in Labels
    /\ attempts \in 0 .. MaxAttempts
    /\ report \in {"none", "ready", "error"}
    /\ stage \in [Procs -> Stages]
    /\ ver \in [Procs -> {None, "old", "new"}]
    /\ served \in SUBSET Procs
    /\ trouble \in BOOLEAN
    /\ damaged \in BOOLEAN

\* docs/ARCHITECTURE.md, "named Windows mutexes to prevent duplicate [...] agent
\* instances": at most one process is past the mutex, while others start, find
\* it, or are still ending.
Active == {p \in Procs : stage[p] \in {"guarded", "serving", "closing", "closed"}}

SingleAgent == \A p, q \in Active : p = q

\* "Ready" comes from an agent that stays: never from one that is shutting
\* down, unless an agent was too slow to answer or to end.
ReadyMeansRunning ==
    [][report' = "ready" /\ ~trouble' /\ pc \in {"start", "wait"}
          => \E p \in Procs : stage[p] = "serving"]_vars

\* When Restart or Save reports success, every agent that served before has
\* ended, and with it a search run that hangs in a connection, unless an agent
\* was too slow to answer or to end.
RestartReplaces ==
    op \in {"restart", "save"} /\ report = "ready" /\ ~trouble
        => \A p \in served : stage[p] \notin {"serving", "closing"}

\* When an installation reports success, the agent that answers runs the
\* manager's own version, whatever ran, was started or failed meanwhile.
UpgradeTakesEffect ==
    op = "install" /\ report = "ready"
        => /\ self = "download" => exe = "new"
           /\ \A p \in Answering : ver[p] = exe

\* The executable that Windows starts at sign-in is there: an installation that
\* fails leaves the old one, unless the new file itself could not be renamed or
\* the manager was closed between the removal and the rename; an uninstallation
\* removes both, unless the entry could not be deleted, or the next installation
\* came before the remover.
ExecutableKept ==
    autostart /\ ~damaged => exe # None \/ pc = "rename"

\* Every operation comes to an end, and the buttons with it.
OperationEnds == pc # "idle" ~> pc = "idle"
=============================================================================
