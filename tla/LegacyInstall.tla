---------------------------- MODULE LegacyInstall ----------------------------
(***************************************************************************)
(* What the operations of the version 2 manager do to the machine           *)
(* (legacy/v2-docker/manager/main.go): files, private details in .env, the  *)
(* Docker installer that runs elevated, the agent's container.              *)
(*                                                                         *)
(* Closing the manager ends its goroutine, but neither the elevated script  *)
(* nor a compose command it waits for, and its deferred functions do not    *)
(* run.  At sign-in another process brings the container up.                *)
(*                                                                         *)
(* Details are numbered as Save writes them.  Whether the container runs is *)
(* left out, and with it Stop and Restart: both keep the details it was     *)
(* created with.                                                           *)
(***************************************************************************)
EXTENDS Integers, FiniteSets

CONSTANTS
    Scripts,   \* elevated installers at one time
    MaxSaves   \* details that Save writes

ASSUME InstallAssumption == MaxSaves \in Nat

NoEnv == -2      \* there is no .env, or no container
Torn == -1       \* .env was not written to its end
Template == 0    \* .env.example

Saved == 1 .. MaxSaves
Contents == {Torn, Template} \cup Saved
None == "none"

VARIABLES
    compose,     \* docker-compose.yml is installed
    env,         \* .env
    exe,         \* Haya_Job_Autopilot_Manager.exe is installed
    docker,      \* docker.exe can be found
    container,   \* the details the container was created with, or NoEnv
    entry,       \* Windows starts the manager with --autostart
    auto,        \* that process waits for Docker
    late,        \* details read by compose commands of such processes and of
                 \* managers that were closed
    remover,     \* the script that removes the directory waits its 3 seconds
    lock,        \* HayaJobAutopilot-DockerInstall.lock
    scripts,     \* elevated installers that run
    self,        \* where the manager runs from, or "closed"
    op, pc,      \* its operation, and how far it is
    typed,       \* details that were written to .env
    read,        \* details its compose command has read
    mine,        \* the elevated installer it waits for
    \* History, read by no action:
    applied,     \* details of the last Save that reported success with Docker
    outlived,    \* installers that have outlived their lock
    spoiled,     \* .env was left unfinished, an older one was brought up late, or
                 \* the remover met new details
    uninstalled, \* the last operation was an uninstallation that succeeded
    kept,        \* the remover has met the manager that runs from the directory
    dirty        \* a call of the last uninstallation failed, or was overtaken

machine == <<compose, env, exe, docker, container, entry>>
others == <<auto, late, remover, scripts>>
worker == <<op, pc, typed, read, mine>>
removal == <<uninstalled, kept, dirty>>
history == <<applied, outlived, spoiled, removal>>
vars == <<machine, others, lock, self, worker, history>>

Ops == {"install", "save", "start", "uninstall"}

Init ==
    /\ compose = FALSE /\ env = NoEnv /\ exe = FALSE
    /\ docker \in BOOLEAN
    /\ container = NoEnv
    /\ entry = FALSE /\ auto = FALSE /\ late = {} /\ remover = FALSE
    /\ lock = None /\ scripts = {}
    /\ self = "download"
    /\ op = None /\ pc = "idle"
    /\ typed = 0 /\ read = NoEnv /\ mine = None
    /\ applied = NoEnv /\ outlived = {} /\ spoiled = FALSE
    /\ uninstalled = FALSE /\ kept = FALSE /\ dirty = FALSE

-----------------------------------------------------------------------------
(* The worker of the manager.                                               *)

Goto(label) == pc' = label /\ UNCHANGED <<op, typed, read, mine>>

Finish ==
    /\ op' = None /\ pc' = "idle" /\ read' = NoEnv /\ mine' = None
    /\ UNCHANGED typed

\* The buttons are disabled while an operation runs.
Click(o) ==
    /\ self # "closed" /\ pc = "idle"
    /\ o = "save" => typed < MaxSaves
    /\ op' = o
    /\ \/ o \in {"install", "save"} /\ pc' = "extract"
       \/ o = "start" /\ pc' = "up"
       \/ o = "uninstall" /\ pc' = "down"
    /\ uninstalled' = FALSE /\ kept' = FALSE
    /\ dirty' = (o = "uninstall" /\ (auto \/ late # {}))
    /\ UNCHANGED <<machine, others, lock, self, typed, read, mine, applied, outlived, spoiled>>

\* extractPayload may fail after some files; then an installation copies the
\* manager, unless it runs from there.  A copy that is executed is not replaced.
Extract ==
    /\ pc = "extract"
    /\ compose' \in {compose, TRUE}
    /\ exe' \in IF op = "install" /\ compose' /\ ~auto THEN {exe, TRUE} ELSE {exe}
    /\ \/ /\ compose'
          /\ op = "install" => exe' /\ (self = "installed" \/ ~auto)
          /\ Goto("env")
       \/ Finish
    /\ UNCHANGED <<env, docker, container, entry, others, lock, self, history>>

\* os.WriteFile empties the file; ensureEnv leaves one that exists.
EnvOpen ==
    /\ pc = "env"
    /\ IF op = "install" /\ env # NoEnv
       THEN Goto("find") /\ UNCHANGED <<env, spoiled>>
       ELSE \/ Finish /\ UNCHANGED <<env, spoiled>>
            \/ Goto("write") /\ env' = Torn /\ UNCHANGED spoiled
    /\ UNCHANGED <<compose, exe, docker, container, entry, others, lock, self, applied, outlived,
                   removal>>

EnvWrite ==
    /\ pc = "write"
    /\ \/ /\ typed' = IF op = "save" THEN typed + 1 ELSE typed
          /\ env' = IF op = "save" THEN typed' ELSE Template
          /\ pc' = "find"
          /\ UNCHANGED <<op, read, mine, spoiled>>
       \/ /\ Finish
          /\ spoiled' = TRUE
          /\ UNCHANGED env
    /\ UNCHANGED <<compose, exe, docker, container, entry, others, lock, self, applied, outlived,
                   removal>>

\* findDocker: without Docker an installation installs it, and Save is done.
Find ==
    /\ pc = "find"
    /\ IF docker THEN Goto("up")
       ELSE IF op = "save" THEN Finish ELSE Goto("lock")
    /\ UNCHANGED <<machine, others, lock, self, history>>

\* Mutant: the age of the lock is not looked at.
AcquireAny ==
    /\ pc = "lock"
    /\ lock' = "fresh"
    /\ Goto("runas")
    /\ UNCHANGED <<machine, others, self, history>>

\* acquireDockerInstallLock: a lock of less than 30 minutes is respected.
Acquire ==
    /\ pc = "lock"
    /\ \/ lock = "fresh" /\ Finish /\ UNCHANGED lock
       \/ lock # "fresh" /\ lock' = "fresh" /\ Goto("runas")
       \/ lock' \in {lock, None} /\ lock # "fresh" /\ Finish
    /\ UNCHANGED <<machine, others, self, history>>

\* The administrator prompt is approved, or not.
RunAs ==
    /\ pc = "runas"
    /\ \/ \E s \in Scripts \ scripts :
             /\ scripts' = scripts \cup {s}
             /\ pc' = "script" /\ mine' = s
             /\ UNCHANGED <<op, typed, read, lock>>
       \/ lock' = None /\ Finish /\ UNCHANGED scripts
    /\ UNCHANGED <<machine, auto, late, remover, self, history>>

\* The script has ended, and the deferred release runs.
ScriptDone ==
    /\ pc = "script" /\ mine \notin scripts
    /\ lock' = None
    /\ (docker /\ Goto("up")) \/ Finish
    /\ UNCHANGED <<machine, others, self, history>>

\* waitDocker, and the compose command begins: it reads both files.
UpBegin ==
    /\ pc = "up"
    /\ \/ Finish
       \/ /\ docker /\ compose /\ env # NoEnv
          /\ pc' = "recreate" /\ read' = env
          /\ UNCHANGED <<op, typed, mine>>
    /\ UNCHANGED <<machine, others, lock, self, history>>

\* Mutant: Save only restarts the container, which keeps its details.
UpEndRestart ==
    /\ pc = "recreate"
    /\ container' = IF op = "save" /\ container # NoEnv THEN container ELSE read
    /\ IF op = "install" THEN Goto("entry") ELSE Finish
    /\ applied' = IF op = "save" THEN typed ELSE applied
    /\ spoiled' = (spoiled /\ ~(op = "save" /\ env = typed))
    /\ UNCHANGED <<compose, env, exe, docker, entry, others, lock, self, outlived, removal>>

\* The container is created anew when its details differ, or for Save anyway.  A
\* command that fails or runs out of time may have done so, or only half of it.
UpEnd ==
    /\ pc = "recreate"
    /\ \/ /\ container' = read
          /\ IF op = "install" THEN Goto("entry") ELSE Finish
          /\ applied' = IF op = "save" THEN typed ELSE applied
          /\ spoiled' = (spoiled /\ ~(op = "save" /\ env = typed))
       \/ /\ Finish
          /\ container' \in {container, NoEnv, read}
          /\ UNCHANGED <<applied, spoiled>>
    /\ UNCHANGED <<compose, env, exe, docker, entry, others, lock, self, outlived, removal>>

\* autostart
AddEntry ==
    /\ pc = "entry"
    /\ \/ entry' = TRUE /\ Finish
       \/ UNCHANGED entry /\ Finish
    /\ UNCHANGED <<compose, env, exe, docker, container, others, lock, self, history>>

\* Mutant: the container is stopped, not removed.
DownStop ==
    /\ pc = "down"
    /\ Goto("unregister")
    /\ UNCHANGED <<machine, others, lock, self, history>>

\* compose down, its error ignored.
Down ==
    /\ pc = "down"
    /\ \/ docker /\ compose /\ container' = NoEnv /\ UNCHANGED dirty
       \/ UNCHANGED container /\ dirty' = (dirty \/ container # NoEnv)
    /\ Goto("unregister")
    /\ UNCHANGED <<compose, env, exe, docker, entry, others, lock, self, applied, outlived, spoiled,
                   uninstalled, kept>>

\* The entry is deleted, the error ignored; then Docker is removed, if it is
\* ticked by now, by another elevated script.
Unregister ==
    /\ pc = "unregister"
    /\ \/ entry' = FALSE /\ UNCHANGED dirty
       \/ UNCHANGED entry /\ dirty' = (dirty \/ entry)
    /\ \/ Goto("erase") /\ UNCHANGED <<docker, container>>
       \/ Goto("erase") /\ docker' = FALSE /\ container' = NoEnv
       \/ Finish /\ UNCHANGED <<docker, container>>
    /\ UNCHANGED <<compose, env, exe, others, lock, self, applied, outlived, spoiled, uninstalled,
                   kept>>

\* Windows does not delete an executable that runs.
ExeInUse == self = "installed" \/ auto

\* What can be deleted of the directory; nobody looks at what could not.
RemoveFiles ==
    /\ compose' \in {FALSE, compose}
    /\ env' \in {NoEnv, env}
    /\ exe' \in IF ExeInUse THEN {exe} ELSE {FALSE, exe}

\* A file is not deleted, another one than the executable of this manager.
DeletionFails == compose' \/ env' # NoEnv \/ (exe' /\ self # "installed")

\* A manager from elsewhere removes the directory.  The installed one starts a
\* script that does so three seconds later; it does not wait for the manager,
\* which stays open.  That the script cannot be started is ignored.
Erase ==
    /\ pc = "erase"
    /\ Finish
    /\ uninstalled' = TRUE
    /\ \/ self = "download" /\ RemoveFiles /\ dirty' = (dirty \/ DeletionFails) /\ UNCHANGED remover
       \/ self = "installed" /\ remover' = TRUE /\ UNCHANGED <<compose, env, exe, dirty>>
       \/ self = "installed" /\ dirty' = TRUE /\ UNCHANGED <<compose, env, exe, remover>>
    /\ applied' = NoEnv
    /\ UNCHANGED <<docker, container, entry, auto, late, scripts, lock, self, outlived, spoiled,
                   kept>>

-----------------------------------------------------------------------------
(* Other processes, Windows and the user.                                   *)

\* An installer ends, with Docker or without.
ScriptEnds(s) ==
    /\ s \in scripts
    /\ scripts' = scripts \ {s}
    /\ outlived' = outlived \ {s}
    /\ docker' \in {docker, TRUE}
    /\ UNCHANGED <<compose, env, exe, container, entry, auto, late, remover, lock, self,
                   worker, applied, spoiled, removal>>

\* Thirty minutes have passed; the administrator prompt ends before.
LockAges ==
    /\ lock = "fresh" /\ pc # "runas"
    /\ lock' = "stale"
    /\ outlived' = outlived \cup scripts
    /\ UNCHANGED <<machine, others, self, worker, applied, spoiled, removal>>

\* Mutant: it is not looked whether the agent is installed.
AutoUpUnchecked ==
    /\ auto
    /\ auto' = FALSE
    /\ late' = late \cup {env}
    /\ UNCHANGED <<machine, remover, scripts, lock, self, worker, history>>

\* runAutostart: it gives up, or reads the files for its compose command.
AutoUp ==
    /\ auto
    /\ auto' = FALSE
    /\ \/ UNCHANGED late
       \/ docker /\ compose /\ env # NoEnv /\ late' = late \cup {env}
    /\ UNCHANGED <<machine, remover, scripts, lock, self, worker, history>>

\* A compose command nobody waits for comes to its end, with what it has read.
LateUp(details) ==
    /\ details \in late
    /\ late' = late \ {details}
    /\ container' \in IF docker THEN {container, details} ELSE {container}
    /\ spoiled' = (spoiled \/ (container' # container /\ details \notin {env} \ {Torn}))
    /\ dirty' = (dirty \/ (container' # container /\ (op = "uninstall" \/ uninstalled)))
    /\ UNCHANGED <<compose, env, exe, docker, entry, auto, remover, scripts, lock, self,
                   worker, applied, outlived, uninstalled, kept>>

\* It does not know of an installation in its three seconds.
RemoverRuns ==
    /\ remover
    /\ remover' = FALSE
    /\ RemoveFiles
    /\ kept' = (uninstalled /\ self = "installed")
    /\ dirty' = (dirty \/ (uninstalled /\ DeletionFails))
    /\ spoiled' = (spoiled \/ pc # "idle" \/ applied # NoEnv)
    /\ UNCHANGED <<docker, container, entry, auto, late, scripts, lock, self, worker,
                   applied, outlived, uninstalled>>

Open(from) ==
    /\ self = "closed"
    /\ from = "installed" => exe
    /\ self' = from
    /\ UNCHANGED <<machine, others, lock, worker, history>>

\* The operation ends without its deferred functions, an uninstallation too.
CutOff ==
    /\ self' = "closed"
    /\ Finish
    /\ spoiled' = (spoiled \/ pc = "write")

Close ==
    /\ self # "closed"
    /\ CutOff
    /\ late' = IF pc = "recreate" THEN late \cup {read} ELSE late
    /\ dirty' = (uninstalled /\ dirty)
    /\ UNCHANGED <<machine, auto, remover, scripts, lock, applied, outlived, uninstalled, kept>>

\* Everything that runs ends; the entry starts runAutostart.
SignIn ==
    /\ CutOff
    /\ late' = {} /\ remover' = FALSE /\ scripts' = {} /\ outlived' = {}
    /\ auto' = (entry /\ exe /\ compose)
    /\ dirty' = (uninstalled /\ (dirty \/ remover))
    /\ UNCHANGED <<machine, lock, applied, uninstalled, kept>>

WorkerStep ==
    \/ Extract \/ EnvOpen \/ EnvWrite \/ Find \/ Acquire \/ RunAs \/ ScriptDone
    \/ UpBegin \/ UpEnd \/ AddEntry \/ Down \/ Unregister \/ Erase

Next ==
    \/ WorkerStep
    \/ \E o \in Ops : Click(o)
    \/ \E s \in scripts : ScriptEnds(s)
    \/ LockAges \/ AutoUp \/ RemoverRuns
    \/ \E details \in late : LateUp(details)
    \/ \E from \in {"installed", "download"} : Open(from)
    \/ Close \/ SignIn

Spec == Init /\ [][Next]_vars

-----------------------------------------------------------------------------
(* Properties.                                                              *)

Labels == {"idle", "extract", "env", "write", "find", "lock", "runas", "script", "up",
           "recreate", "entry", "down", "unregister", "erase"}

\* Machine, worker and other processes keep their types.
TypeOK ==
    /\ compose \in BOOLEAN /\ exe \in BOOLEAN /\ docker \in BOOLEAN /\ entry \in BOOLEAN
    /\ env \in Contents \cup {NoEnv}
    /\ container \in Contents \cup {NoEnv}
    /\ auto \in BOOLEAN /\ late \in SUBSET Contents /\ remover \in BOOLEAN
    /\ lock \in {None, "fresh", "stale"}
    /\ scripts \in SUBSET Scripts
    /\ self \in {"download", "installed", "closed"}
    /\ op \in Ops \cup {None} /\ pc \in Labels
    /\ typed \in 0 .. MaxSaves
    /\ read \in Contents \cup {NoEnv}
    /\ mine \in Scripts \cup {None}
    /\ applied \in Saved \cup {NoEnv}
    /\ outlived \in SUBSET Scripts
    /\ spoiled \in BOOLEAN
    /\ uninstalled \in BOOLEAN /\ kept \in BOOLEAN /\ dirty \in BOOLEAN

\* docs/RELEASE_NOTES.md, "Docker-install lock to stop repeated popup/UAC loops":
\* however often the manager is closed, opened and asked to install, no second
\* elevated installer starts, unless one has run for more than the 30 minutes a
\* lock counts.
InstallerExclusive == \A a, b \in scripts \ outlived : a = b

\* Once Save has reported success, neither .env nor the container goes back to
\* older details or to the template, whatever fails or is cut off later, unless
\* .env itself was left unfinished, a compose command of another process was late,
\* or the details were saved in the three seconds before a remover ran.
DetailsStand ==
    applied # NoEnv /\ ~spoiled =>
        /\ env >= applied \/ pc = "write"
        /\ container \in Contents => container >= applied

\* When Uninstall has reported success and the remover has run, neither files nor
\* container nor entry are left, unless a call failed, another compose command was
\* under way or the session ended before the remover.  One file stays: the
\* executable of the installed manager, if it was open when the remover came.
NothingLeft ==
    uninstalled /\ ~dirty /\ ~remover =>
        /\ ~compose /\ env = NoEnv /\ container = NoEnv /\ ~entry
        /\ exe => kept
=============================================================================
