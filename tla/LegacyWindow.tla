---------------------------- MODULE LegacyWindow ----------------------------
(***************************************************************************)
(* The window of the version 2 manager (legacy/v2-docker/manager/main.go):  *)
(* its UI thread, the goroutines its buttons start, and the queue in which  *)
(* they post updates for it.  The main.go of version 3 has the same queue.  *)
(*                                                                         *)
(* The flag busy disables the buttons that start something.  Only the UI    *)
(* thread changes it: on a click, and when it drains an update that ends an *)
(* operation.  An update that gets lost may thus leave the window disabled. *)
(*                                                                         *)
(* What the operations do to the machine is in LegacyInstall.               *)
(***************************************************************************)
EXTENDS Integers, Sequences

CONSTANTS
    Tasks,       \* goroutines at one time
    UI,          \* the thread of the window
    QueueLimit   \* updates the queue holds (64 in the code)

ASSUME WindowAssumption ==
    /\ UI \notin Tasks
    /\ QueueLimit \in Nat \ {0}

Threads == Tasks \cup {UI}

VARIABLES
    busy,         \* the buttons are disabled
    installing,   \* an installation is under way
    queue,        \* updates the window has not drained
    posted,       \* a WM_UPDATE message waits for the window
    status,       \* the status line
    at,           \* where each thread is
    kind,         \* what each goroutine does; of UI, what it is about to start
    msg,          \* the update a thread posts
    \* History, read by no action:
    overflow,     \* an update met a full queue
    clash         \* Install was clicked before the last one had returned

window == <<busy, installing, status>>
channel == <<queue, posted>>
threads == <<at, kind, msg>>
history == <<overflow, clash>>
vars == <<window, channel, threads, history>>

\* The first probe has been started.
Opened == {[t \in Threads |-> IF t = first THEN "work" ELSE "idle"] : first \in Tasks}

Init ==
    /\ busy = FALSE /\ installing = FALSE
    /\ queue = <<>> /\ posted = FALSE
    /\ status = "Checking"
    /\ at \in Opened
    /\ kind = [t \in Threads |-> IF at[t] = "work" THEN "refresh" ELSE "none"]
    /\ msg = [t \in Threads |-> "none"]
    /\ overflow = FALSE /\ clash = FALSE

-----------------------------------------------------------------------------
(* post, called by goroutines and by the UI thread.                         *)

Goto(t, label) == at' = [at EXCEPT ![t] = label]

\* Mutant: select is replaced by a plain append.
PostSendUnbounded(t) ==
    /\ at[t] = "post"
    /\ queue' = Append(queue, msg[t])
    /\ Goto(t, "notify")
    /\ UNCHANGED <<window, posted, kind, msg, history>>

PostSend(t) ==
    /\ at[t] = "post" /\ Len(queue) < QueueLimit
    /\ queue' = Append(queue, msg[t])
    /\ Goto(t, "notify")
    /\ UNCHANGED <<window, posted, kind, msg, history>>

PostFull(t) ==
    /\ at[t] = "post" /\ Len(queue) >= QueueLimit
    /\ Goto(t, "full")
    /\ overflow' = TRUE
    /\ UNCHANGED <<window, channel, kind, msg, clash>>

\* The oldest update is dropped.  It blocks when the queue is empty by now.
PostDrop(t) ==
    /\ at[t] = "full" /\ queue # <<>>
    /\ queue' = Tail(queue)
    /\ Goto(t, "swap")
    /\ UNCHANGED <<window, posted, kind, msg, history>>

\* It blocks when another thread has filled the gap.
PostSwap(t) ==
    /\ at[t] = "swap" /\ Len(queue) < QueueLimit
    /\ queue' = Append(queue, msg[t])
    /\ Goto(t, "notify")
    /\ UNCHANGED <<window, posted, kind, msg, history>>

PostNotify(t) ==
    /\ at[t] = "notify"
    /\ posted' = TRUE
    /\ Goto(t, "after")
    /\ UNCHANGED <<window, queue, kind, msg, history>>

Post(t) == PostSend(t) \/ PostFull(t) \/ PostDrop(t) \/ PostSwap(t) \/ PostNotify(t)

-----------------------------------------------------------------------------
(* The UI thread.                                                           *)

Ends(update) == update \in {"Ready", "Error", "Install paused"}

LastShown(n) == queue[n] # "CV" /\ \A k \in DOMAIN queue : k > n => queue[k] = "CV"

\* drainUpdates: a replaced CV is shown elsewhere.
Drain ==
    /\ at[UI] = "idle" /\ posted
    /\ queue' = <<>> /\ posted' = FALSE
    /\ busy' = (busy /\ ~\E n \in DOMAIN queue : Ends(queue[n]))
    /\ \/ \E n \in DOMAIN queue : LastShown(n) /\ status' = queue[n]
       \/ (\A n \in DOMAIN queue : queue[n] = "CV") /\ UNCHANGED status
    /\ UNCHANGED <<installing, threads, history>>

Begin(t, k) ==
    /\ at[t] = "idle"
    /\ at' = [at EXCEPT ![t] = "work"]
    /\ kind' = [kind EXCEPT ![t] = k]

\* Check status, and Replace embedded CV: they do not make the window busy.
ClickTask(k) ==
    /\ at[UI] = "idle" /\ ~busy
    /\ \E t \in Tasks : Begin(t, k)
    /\ UNCHANGED <<window, channel, msg, history>>

\* "Working", then a goroutine for k, or for nothing.
PostWorking(k) ==
    /\ at' = [at EXCEPT ![UI] = "post"]
    /\ kind' = [kind EXCEPT ![UI] = k]
    /\ msg' = [msg EXCEPT ![UI] = "Working"]

\* Mutant: command does not look at busy.
ClickOperationAnyTime ==
    /\ at[UI] = "idle"
    /\ busy' = TRUE
    /\ PostWorking("operation")
    /\ UNCHANGED <<installing, status, channel, history>>

\* Mutant: the goroutine is started before "Working" is posted.
ClickOperationStartsFirst ==
    /\ at[UI] = "idle" /\ ~busy
    /\ busy' = TRUE
    /\ \E t \in Tasks :
          /\ at[t] = "idle"
          /\ at' = [at EXCEPT ![UI] = "post", ![t] = "work"]
          /\ kind' = [kind EXCEPT ![t] = "operation"]
    /\ msg' = [msg EXCEPT ![UI] = "Working"]
    /\ UNCHANGED <<installing, status, channel, history>>

\* Save, Start, Stop, Restart, Run, and Uninstall once it is confirmed.
ClickOperation ==
    /\ at[UI] = "idle" /\ ~busy
    /\ busy' = TRUE
    /\ PostWorking("operation")
    /\ UNCHANGED <<installing, status, channel, history>>

\* Mutant: the window is made busy before it is known that an installation starts.
ClickInstallBusyFirst ==
    /\ at[UI] = "idle" /\ ~busy
    /\ busy' = TRUE /\ installing' = TRUE
    /\ PostWorking(IF installing THEN "none" ELSE "install")
    /\ clash' = (clash \/ installing)
    /\ UNCHANGED <<status, channel, overflow>>

\* startInstall
ClickInstall ==
    /\ at[UI] = "idle" /\ ~busy
    /\ busy' = ~installing /\ installing' = TRUE
    /\ PostWorking(IF installing THEN "none" ELSE "install")
    /\ clash' = (clash \/ installing)
    /\ UNCHANGED <<status, channel, overflow>>

\* post has returned to startInstall or busy.
UiGo ==
    /\ at[UI] = "after"
    /\ \/ /\ kind[UI] = "none"
          /\ Goto(UI, "idle")
          /\ UNCHANGED kind
       \/ /\ kind[UI] # "none"
          /\ \E t \in Tasks :
                /\ at[t] = "idle"
                /\ at' = [at EXCEPT ![UI] = "idle", ![t] = "work"]
                /\ kind' = [kind EXCEPT ![UI] = "none", ![t] = kind[UI]]
    /\ UNCHANGED <<window, channel, msg, history>>

-----------------------------------------------------------------------------
(* The goroutines.                                                          *)

\* Mutant: a failed installation does not end the busy state.
ResultsNoEnd(k) ==
    CASE k = "operation" -> {"Ready", "Error"}
      [] k = "install" -> {"Ready", "Probed"}
      [] k = "refresh" -> {"Probed"}
      [] OTHER -> {"CV"}

\* What a goroutine posts in the end.
Results(k) ==
    CASE k = "operation" -> {"Ready", "Error"}
      [] k = "install" -> {"Ready", "Install paused"}
      [] k = "refresh" -> {"Probed"}
      [] OTHER -> {"CV"}

Work(t) ==
    /\ at[t] = "work"
    /\ \E result \in Results(kind[t]) : msg' = [msg EXCEPT ![t] = result]
    /\ Goto(t, "post")
    /\ UNCHANGED <<window, channel, kind, history>>

\* The file dialog was cancelled.
NoCV(t) ==
    /\ at[t] = "work" /\ kind[t] = "cv"
    /\ Goto(t, "return")
    /\ UNCHANGED <<window, channel, kind, msg, history>>

\* An operation that succeeded starts a probe of its own (left out when Tasks are
\* all taken, a bound of the model).
Posted(t) ==
    /\ at[t] = "after"
    /\ \/ /\ msg[t] # "Ready" \/ \A u \in Tasks : at[u] # "idle"
          /\ Goto(t, "return")
          /\ UNCHANGED kind
       \/ /\ msg[t] = "Ready"
          /\ \E u \in Tasks :
                /\ at[u] = "idle"
                /\ at' = [at EXCEPT ![t] = "return", ![u] = "work"]
                /\ kind' = [kind EXCEPT ![u] = "refresh"]
    /\ UNCHANGED <<window, channel, msg, history>>

\* Mutant: the flag is cleared after a success only.
ReturnOnSuccess(t) ==
    /\ at[t] = "return"
    /\ installing' = (installing /\ ~(kind[t] = "install" /\ msg[t] = "Ready"))
    /\ Goto(t, "idle")
    /\ kind' = [kind EXCEPT ![t] = "none"]
    /\ msg' = [msg EXCEPT ![t] = "none"]
    /\ UNCHANGED <<busy, status, channel, history>>

\* The goroutine returns; startInstall's clears its flag.
Return(t) ==
    /\ at[t] = "return"
    /\ installing' = (installing /\ kind[t] # "install")
    /\ Goto(t, "idle")
    /\ kind' = [kind EXCEPT ![t] = "none"]
    /\ msg' = [msg EXCEPT ![t] = "none"]
    /\ UNCHANGED <<busy, status, channel, history>>

\* The window is closed, although an operation may be running, or ended by the
\* user because it hangs, and opened again.
Close ==
    /\ busy' = FALSE /\ installing' = FALSE
    /\ queue' = <<>> /\ posted' = FALSE
    /\ status' = "Checking"
    /\ at' \in Opened
    /\ kind' = [t \in Threads |-> IF at'[t] = "work" THEN "refresh" ELSE "none"]
    /\ msg' = [t \in Threads |-> "none"]
    /\ overflow' = FALSE /\ clash' = FALSE

UiStep == Drain \/ UiGo \/ Post(UI)

\* What a goroutine waited for has ended; and what it does by itself.
CallEnds(t) == Work(t) \/ NoCV(t)
GoesOn(t) == Post(t) \/ Posted(t) \/ Return(t)

TaskStep(t) == CallEnds(t) \/ GoesOn(t)

Next ==
    \/ UiStep
    \/ \E t \in Tasks : TaskStep(t)
    \/ \E k \in {"refresh", "cv"} : ClickTask(k)
    \/ ClickOperation \/ ClickInstall
    \/ Close

Spec == Init /\ [][Next]_vars

\* The window handles its messages, and a goroutine goes on with what it does by
\* itself.  Nothing is assumed of the commands it waits for (CallEnds): runas waits
\* for the elevated script without limit, reg.exe has none, and a compose command
\* that is ended at its limit may leave a child behind that holds its output.
Fairness ==
    /\ WF_vars(UiStep)
    /\ \A t \in Tasks : WF_vars(GoesOn(t))

FairSpec == Spec /\ Fairness

-----------------------------------------------------------------------------
(* Properties.                                                              *)

Labels == {"idle", "work", "post", "full", "swap", "notify", "after", "return"}
Updates == {"Working", "Ready", "Error", "Install paused", "Probed", "CV"}
Kinds == {"none", "operation", "install", "refresh", "cv"}

\* Window, queue and threads keep their types.
TypeOK ==
    /\ busy \in BOOLEAN /\ installing \in BOOLEAN
    /\ queue \in Seq(Updates) /\ Len(queue) <= QueueLimit
    /\ posted \in BOOLEAN
    /\ status \in Updates \cup {"Checking"}
    /\ at \in [Threads -> Labels]
    /\ kind \in [Threads -> Kinds]
    /\ msg \in [Threads -> Updates \cup {"none"}]
    /\ overflow \in BOOLEAN /\ clash \in BOOLEAN

Operating(t) == kind[t] \in {"operation", "install"}

\* Docker and the files are worked on by one operation at a time, also after
\* updates were lost.
OneOperation ==
    \A t, u \in Threads :
        Operating(t) /\ Operating(u)
            /\ (t = UI \/ at[t] = "work") /\ (u = UI \/ at[u] = "work") => t = u

\* docs/RELEASE_NOTES.md, "Install single-flight": the flag is set exactly while
\* an installation is started, runs or returns.
InstallingMeansInstall ==
    installing <=> \E t \in Threads : kind[t] = "install"

\* A disabled window waits for something: an operation is about to start, works,
\* or its last update is in the queue and the window has a message, or will get
\* it from the thread that put an update there, as long as the queue was never full.
BusyMeansWork ==
    busy /\ ~overflow =>
        \/ \E t \in Threads : Operating(t) /\ (t = UI \/ at[t] \in {"work", "post"})
        \/ /\ \E n \in DOMAIN queue : Ends(queue[n])
           /\ posted \/ \E t \in Threads : at[t] = "notify"

\* A window that is not busy does not say "Working", whatever updates were lost,
\* unless Install was clicked in the moment before the last installation returned.
WorkingMeansBusy == status = "Working" => busy \/ clash

\* The buttons are given back after every operation, whatever it ends with, as long
\* as the queue was never full; unless a goroutine waits for its command for ever.
ButtonsComeBack ==
    (\A t \in Tasks : []<>(at[t] # "work")) => (busy ~> ~busy \/ overflow)
=============================================================================
