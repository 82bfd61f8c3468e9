# Haya: specifications, model checking and proofs

Haya is a Windows program that looks for jobs on behalf of one person: an agent
in the background reads job-alert mails, fetches the vacancies they link to,
scores them, prepares applications and, in one mode, sends them by mail. A
manager window configures and supervises the agent. Beside it the repository
holds a nurse-call page and the older, Docker-based version 2 of the agent and
manager. This directory models the parts with state that is shared, persisted
or timed.

## Inventory

| Component | State | Operations | Talks to |
|---|---|---|---|
| Search run (`manager/agent.go`) | `agentRunning`; copies of state and jobs during a run | `runAgentOnce`, from the startup timer, the ticker and `POST /api/run` | mailbox, vacancy sites, mail server, files |
| JSON storage (`manager/storage.go`) | `config.json`, `profile.json`, `jobs.json`, `state.json`, each with `.tmp` and `.bak`; `storageMu` | `load*`, `save*`, `writeJSONAtomicUnlocked`, `copyFile`, `appendLog` | agent process and manager process |
| Mailbox reader (`manager/mail.go`) | none that outlives a call | search, fetch, decode, extract links | IMAP server |
| Application sender (`manager/mail.go`) | none | `sendApplicationMail` | SMTP server |
| Agent process (`agent.go`, `windows.go`) | named mutex, process id in `state.json` | start, timers, shutdown | manager |
| Local dashboard server (`web.go`, in the source archive of `source-v3`) | none: loads and saves `jobs.json` per request | add a vacancy, set a status, run now, shut down | files, search run |
| Manager window (`main.go`, in the same archive) | busy flag, update queue | save configuration, install, start, stop, restart, uninstall | files, agent |
| Windows integration (`windows.go`) | registry, installed executable | DPAPI, autostart, copy of the executable | Windows |
| Nurse call page (`nurse-call-host/index.html`) | `activeCallId` (also in `sessionStorage`), button, socket, timers | call, acknowledge, give up, reconnect, reload | ntfy.sh |
| v2 manager (`legacy/v2-docker/manager/main.go`) | `busy`, `installing`, update queue; `.env`, lock file, container | install, save, start, stop, restart, uninstall, run at sign-in | Docker, elevated scripts, files |
| v2 agent (`legacy/v2-docker/agent/server.js`) | run flag, state and jobs | search cycle | mailbox, files |

What is hard in them:

- **Interleaving.** Runs are started from three places. Dashboard requests load,
  change and save `jobs.json` while a run works for minutes on its own copy.
  The nurse-call page gets replies, acknowledgements, timers and socket events
  in any order.
- **Stops.** The manager stops the agent on Stop, Restart, Save, Install and
  Uninstall, wherever its goroutines are; two files have to agree afterwards.
  Closing a manager ends an operation half-way, while the agent that is shutting
  down, an elevated installer, a compose command or the script that removes the
  directory goes on.
- **Partial failure.** Reads and writes that fail are often ignored (`_ =`).
- **Delivery.** The mail server may accept a mail whose reply is lost; ntfy.sh
  delivers acknowledgements again with every reconnection.
- **Limits.** The daily cap, 1200 message ids, 2500 jobs, 100 mails of a week, an
  update queue of 64, 15 attempts to replace an executable.
- **Names that change.** A mail without Message-ID is known by a sequence number,
  which the server gives to another mail.

What makes each correct: one run at a time and a flag that is never left behind
(search run); no mail lost, no vacancy tracked or applied to twice, the daily cap
held (search run and dashboard); a mail that is remembered only when a run has dealt
with it, and forgotten only where the file has no room (mailbox reader); one agent, the right version of it, and an answer that is
true (agent process, manager, Windows integration); loads that see a whole, current file and a
snapshot that survives (storage); a status the patient can rely on, one call at
a time, a button that comes back (nurse call page); one operation, one installer,
details that stand, an uninstallation that leaves nothing it could have removed (v2
manager). `PROJECT.json` lists the
hazards at their lines, with the properties that cover them.

## Modules

| Module | What it is |
|---|---|
| `AgentRun` | the search run, with the dashboard, the manager and the surroundings |
| `MCAgentRun` | its instances for TLC |
| `AgentRunProofs` | theorems about `AgentRun`: types, the run flag, the limits of the files, the daily cap |
| `AgentDedupProofs` | theorems about what `jobs.json` holds |
| `AtomicFile` | what a stored file promises: it is replaced in one step |
| `JsonStore` | how a save does it, system call by system call |
| `MCJsonStore`, `JsonStoreProofs` | its instances and theorems |
| `MailSource` | what a run relies on of its mails |
| `MailIntake`, `MailIntakeProofs` | how a run gets them, number by number, and theorems |
| `AgentLifecycle`, `AgentLifecycleProofs` | agent processes and the manager's operations on them, and theorems |
| `NurseCall`, `MCNurseCall`, `NurseCallProofs` | the nurse call page, its instances and theorems |
| `LegacyWindow`, `LegacyWindowProofs` | window, goroutines and update queue of the v2 manager, and theorems |
| `LegacyInstall`, `MCLegacyInstall`, `LegacyInstallProofs` | what the v2 manager does to the machine, and theorems |

`AgentRun` is the centre: it composes search run, files, dashboard and manager.
`MailIntake` opens up its step `RunMail`, `JsonStore` its reads and writes, and
`AgentLifecycle` its `Start` and `Stop`, each for the questions that are asked at
that level. What it takes from the last two is proved of them: `MailIntake` implements
`MailSource`, and no step of `AgentLifecycle` leads from one agent to another
(`OneAfterAnother`). `LegacyWindow` and `LegacyInstall` are the two halves of the v2
manager: the first takes an operation as a thing that ends with an update, the
second is about what the one operation that works does.

### AgentRun

A run goroutine `r` has a program counter and a record of local variables:

| `pc[r]` | in `runAgentOnce` |
|---|---|
| `idle` | not past the guard |
| `config` | loading configuration, password and profile (`RunConfig`, `RunConfigFails`, `RunNoPassword`) |
| `load` | loading `state.json` and `jobs.json` (`RunLoad`) |
| `fetch` | reading the mailbox (`RunMail`, `RunMailFails`) |
| `links` | the loop over links (`RunKnownLink`, `RunKnownPage`, `RunReview`, `RunQueue`, `RunApply`); at its end `RunSaveJobs` |
| `send` | inside `sendApplicationMail` (`RunSent`, `RunSendFails`, `RunSendReplyLost`) |
| `saveState` | between the two writes (`RunSaveState`) |

A step is a stretch of code in which only one read or write of shared state
happens. `RunLoad` is one step although it reads two files, because
`state.json` is written by the holder of the run flag alone. `RunBegin` passes
the guard; the deferred function is `RunEnd`, part of every return.

The dashboard's two writing requests are each a load (`AddVacancy`, `SetStatus`)
and a save (`DashboardSave`), because nothing is held in between. They, and
the manager's `ChangeConfig`, come from source that the repository holds as an archive, and
are modelled from how `storage.go` and `windows.go` serve them. `Stop` ends the process at any
point: memory is lost, files stay. `Start` rewrites `state.json`, as
`runAgentMode` does before it serves.

Abstractions:

- A vacancy is its URL. `Final[l]` is where the redirects of link `l` end; a page
  that cannot be fetched is analysed under the link itself (`PageURLs`).
- Score, risk and application address become the verdict they lead to, chosen
  freely, except that nothing is sent outside "Strict Auto Apply" (`MayApply`).
- A message id is a number, because `mapKeysSortedLimited` keeps the largest.
- The order of mails and links in a run is free: `todo` is a set.
- A failed write leaves the file as it was, or no file. That is what `JsonStore`
  shows a failed save may leave.
- While a file is removed and renamed again, another load finds no file. For
  `config.json` that is the subject of `JsonStore` and not repeated here.

`sentOn`, `sentFor`, `everSaved` and `mishaps` are history: no action reads
them. Several properties say what holds "as long as" some kinds of failure
have not occurred; `mishaps` records those that have.

### JsonStore and AtomicFile

`JsonStore` follows `writeJSONAtomicUnlocked`: write `.tmp`, copy the file to
`.bak`, rename; if the rename is refused, remove the file and rename again. A
content is its version number, `Torn` is a file not written to its end. A load
of the other process opens and closes the file; while it is open, Windows
refuses to replace or remove it. One save at a time is what `storageMu`
gives, and the saved file has one writing process. `Stop` may come
between any two calls and in the middle of writing `.tmp` or `.bak`.

`AtomicFile` is the promise: a value, a save that replaces it in one step and
then answers, or fails, or is stopped. The one exception it names is a save whose
replacement was refused: it may take the value away before it tries again.
`JsonStore!Atomic` maps the one to the other: the value is the file, a save is
pending while `pc` is not `idle`, was refused in `remove` and `retry`, and has
replaced the value in `done`.

### MailIntake

One IMAP session of a run: `Connect`, `Search`, one `Fetch` or `FetchFails` per
number, in ascending order, `Return`, and the end of the run (`SaveSeen`, or
`Abandon` when it is stopped or its files cannot be saved). `ConnectionLost` makes
every fetch that is left fail; what was fetched is returned all the same, as in
the code. `view` is the numbering the session works with: the server may announce
new mails before the search, but does not number anew during `SEARCH` and `FETCH`,
and the session sends nothing else. `Id(m, n)` is the Message-ID or, for a mail
without one, its number. `Arrive`, `Age` and `Expunge` are other mail programs and
the calendar, at any time.

What was dealt with is remembered in part. `SaveSeen` keeps `SeenLimit` ids
(`Kept`), those whose texts are last; as the texts are nobody's choice, any of them.
A run that cannot read `state.json` starts with no ids (`Connect`). The agent's start and
`updateRunState` load the file and save it without looking at the error of the load, so
an unreadable file becomes an empty one (`Forget`, and `Empty` in `Abandon`). `looked`,
`gone` and `unread` are history.

`MailSource` is the promise to the run: it is handed mails that have been delivered,
and one with an id of its own only when it does not know it. A run knows what is
remembered, or nothing. It looks at all it was handed or, when it is cut off, at none; its
end forgets none unless memory is full, and everything may be forgotten at once.
`MailIntake!Source` maps the one to the other: what is or was in the mailbox is
delivered, the mails of the leads are handed out, and the Message-IDs of `seen` and
`known` are remembered and known.

### AgentLifecycle

An agent process goes through `created` (started), `guarded` (has the mutex) or
`duplicate` (found it), `serving`, `closing` (told to shut down, still answering),
`closed` (server closed) and ends. A duplicate holds a handle of the mutex too
until it ends. The manager's worker has the program counter `pc`: `prepare`; `stop`,
`post`, `await` (`stopAgentGracefully`); `copy`, `remove`, `rename`
(`copySelfToInstall` with its attempts); `register`; `start`, `launch`, `wait`
(`startAgentWithWait`); `unregister`, `erase`. Which steps an operation `op` takes
and whose errors it looks at is in `Prepare`, `AfterStop` and the steps. The
manager knows of agents only what the local server answers: an agent that answers
may be one that is closing, and one that serves may be too slow to answer.
`Close` ends the worker anywhere, `SignIn` ends everything and starts the entry,
`RemoverRuns` is the script of `removeInstalledFilesAfterExit`. An executable that
runs (`InUse`) can be neither removed nor replaced. `served`, `trouble`
and `damaged` are history: which agents an operation found, whether one was slow,
and whether the executable was lost in a way that `ExecutableKept` names.

### NurseCall

One action per handler of the page: `Click`, the two outcomes of the awaited
POST (`CallSent`, `CallFails`), `Acknowledge` and `IgnoreAcknowledgement` for
`onmessage`, the two timers, `SocketOpens`, `SocketCloses`, `Reconnect`,
`Reload`. `SetIdle` and `ConnectSocket` are the functions of those names, and
part of the actions that call them. The two-minute timer exists in two forms, as
in the code: the one set by a click compares the call, the one set at page
load does not. `Publish` and `NurseAcknowledges` are the environment. The page
is configured, which hides the setup form for good.

### LegacyWindow

Three kinds of threads: the UI thread, which handles clicks and drains the queue,
and goroutines of operations, installations, probes and CV replacements. `post` is
taken apart into its channel operations, since other threads come between them:
`PostSend`, `PostFull` and `PostDrop` (the `select` of a full queue, which takes
the oldest update out), `PostSwap` (the send that follows, which waits if somebody
else has filled the gap) and `PostNotify`. The UI thread itself posts "Working"
before it starts the goroutine (`PostWorking`, `UiGo`). `Drain` handles everything
in the queue. `overflow` and `clash` are history.

### LegacyInstall

The worker's steps follow `install`, `save`, `start` and `uninstall` line by line;
`.env` holds numbered details, as `Save` writes them, `Template` from
`.env.example`, or `Torn` in between. What goes on without the manager has state of
its own: elevated installers (`scripts`) and the lock file with its 30 minutes,
compose commands of managers that were closed and of `--autostart` (`late`, with
the details they have read), the script that removes the directory (`remover`). Of
the directory the model has the compose file, `.env` and the manager's executable
(`exe`), which Windows does not delete or replace while it runs (`ExeInUse`). The
script waits three seconds and not for the manager, which stays open after an
uninstallation; so the installed manager's executable stays unless it is closed in
that time. `RemoveFiles` may fail for each file. `applied`, `outlived`, `spoiled`,
`uninstalled`, `kept` and `dirty` are history: the details of the last `Save` that
reported success, installers older than their lock, and what `DetailsStand` and
`NothingLeft` name.

## What the runs check

| Run | Properties | What it shows |
|---|---|---|
| `agent_run` | `TypeOK`, `RunExclusive`, `TrackedOnce`, `AppliedOnce`, `PackageForEveryJob` | two runs and a dashboard request in every interleaving, in all three automation modes, Monitor Only among them (finding 4) |
| `agent_faults` | `SeenImpliesSaved` | stops and every other kind of failure |
| `agent_fair` | `CapHeld`, `MailsTracked` | runs over two days, with a `jobs.json` at its limit |
| `agent_cap` | `DailyCapRespected`, violated | finding 1 |
| `agent_twice` | `NeverAppliedTwice`, violated | finding 2 |
| `store` | `NeverOlder`, `Recoverable`, `ReplacedInOneStep` | every failure and stop, two overlapping loads; the save implements `AtomicFile` throughout |
| `store_readers` | `AtomicForReaders`, violated | finding 3 |
| `nurse` | `TypeOK`, `HonestStatus`, `OwnTimer`, `SingleCall`, `NeverCutOff`, `AcknowledgedStands`, `Concluded`, `ButtonComesBack` | three calls, a reload, everything in any order: the patient reads what is true, and every call gets a verdict |
| `mail_intake` | `TypeOK`, `RemembersLooked`, `HandsOutUnknown`, `AlertsLooked` | numbers that shift, mails that fail, sessions that break off, ids that are dropped or cannot be read: only what was dealt with is remembered, sessions implement `MailSource`, and alerts in the window are dealt with |
| `lifecycle` | `TypeOK`, `SingleAgent`, `RestartReplaces`, `UpgradeTakesEffect`, `ExecutableKept`, `ReadyMeansRunning`, `OperationEnds` | operations, sign-ins and agents that are ending overlap; every call may fail or be slow |
| `legacy_window` | `TypeOK`, `OneOperation`, `InstallingMeansInstall`, `BusyMeansWork`, `WorkingMeansBusy`, `ButtonsComeBack` | a queue of two updates and two goroutines, every channel operation interleaved |
| `legacy_install` | `TypeOK`, `InstallerExclusive`, `DetailsStand`, `NothingLeft` | operations cut off anywhere, installers, compose commands and removers that go on |

Some properties hold only with an exception, which each property names. They are
facts about the code that a reader should know:

- `RemembersLooked` needs `OwnId`: after an expunge, a mail without Message-ID may be
  taken for another one and be skipped, or be looked at twice. It also excepts a
  file with 1200 ids and one that could not be read: a save drops the ids whose texts
  come first, not the oldest, and a mail of the last week is then handed out again,
  Message-ID or not. The vacancies it names are still known (`AppliedOnce`).
- `PackageForEveryJob` has no exception for Monitor Only (finding 4).
- `SingleCall` and `Concluded` except calls whose acknowledgement was handled twice:
  both set a timer, and the second fires into the next call. `Concluded` also
  excepts a reload in the middle of the POST.
- `ExecutableKept` excepts a new file that cannot be renamed, a manager closed
  between removal and rename, an entry that could not be deleted, and an installation
  in the three seconds before the remover.
- `RestartReplaces` and `ReadyMeansRunning` except agents too slow for the time
  limits of the probes.
- `BusyMeansWork` and `ButtonsComeBack` except a full queue: it drops the oldest
  update, and if that is the one that ends the operation the window stays disabled.
  `ButtonsComeBack` also excepts a command that never ends, since some have no limit.
- `WorkingMeansBusy` excepts a click on Install between the last update of an
  installation and the return of its goroutine.
- `DetailsStand` excepts a `.env` that was left unfinished, compose commands of other
  processes that come late, and the remover.
- `NothingLeft` excepts failed calls, other compose commands, a session that ends
  before the remover, and the executable of the installed manager (`kept`).

### Findings

1. **The daily cap does not survive a stop.** The count is raised in memory
   (`agent.go:190`) and saved at the end of the run (`agent.go:211`). A stop in
   between forgets the mails sent, and the next run sends up to the limit
   again. `README.md:37` makes the cap a condition of every application.
   `CapHeld` is what does hold: without stops, lost replies and failing reads or
   writes of `state.json` the cap is exceeded by at most one, sent across midnight.
2. **A dashboard request undoes deduplication.** A request that has loaded
   `jobs.json` before a run saves it writes the older list over the run's. The
   vacancy is unknown to later runs, and applied to again when another mail
   names it. `docs/ARCHITECTURE.md:37` lists deduplication. `AppliedOnce` is what
   does hold: as long as no job is dropped.
3. **A load of the other process may find no file.** A load keeps the rename
   from succeeding, the file is removed, and a second load comes before the second rename.
   `loadConfig` then takes the default configuration, without a password.
   `docs/DEBUGGING.md:27` calls the writes atomic.
4. **Monitor Only prepares applications.** `docs/ARCHITECTURE.md:48-52` has jobs found,
   scored and tracked in this mode, "Never prepare automatic submission", and gives
   application packages and the review queue to Prepare & Ask. The code writes a package for
   every new job (`agent.go:170`) and marks strong matches "Prepared - review
   required" (`agent.go:194`) in every mode; only the automatic mail looks at it. This
   finding comes from a property that holds: `agent_run` includes Monitor Only, and
   `PackageForEveryJob` holds there as in the other modes.

### Bounds

| Bound | Value | Why it is enough |
|---|---|---|
| `Runs`, `Dashboards` | 2 and 1 in `agent_run` | the guard needs a rival, a run an overtaking request; with failures one run suffices, as the rival never passes the guard (`Exclusive` is proved for any number) |
| `Mails`, `Links` | up to 2 and 3 | two mails with the same links, a redirect onto another link, a vacancy named again later |
| `SeenLimit` of `AgentRun` | 1 | below the number of mails, so that ids fall out |
| `MaxJobs`, `BatchLinks` | 4; 2 in `agent_fair` | with 2, three vacancies push one out. `BatchLinks <= MaxJobs` is the code's 100 mails of 20 links against 2500 jobs |
| `NumDays` | 1; 2 in `agent_fair` | a run across midnight |
| `SentCap` | 3 or 4 | the counters stop above what the properties compare with |
| `TwoKindsOfFailure` | 2 kinds per behaviour | state constraint of `agent_faults`; each of the two occurs any number of times |
| `MaxVersion` | 4 | number of saves: a save after a failed one after a good one, twice |
| `MaxCalls`, `MaxReloads` | 3 and 1 | a timer or acknowledgement of one call meeting the next, and the one after; a reload during any of them |
| `MaxIdleTimers` | 2 | two acknowledgements of one call |
| `Mails`, `WithId`, `Alerts`, `Window` | 3, 1, 2, 2 | an alert with and one without Message-ID, a number that passes to another mail, a mail pushed out of the window |
| `SeenLimit` of `MailIntake` | 2 | ids are added to one that is there, and one of three falls out |
| `Procs`, `MaxAttempts` | 3 and 2 | an agent that is ending, one that serves and one that is started; a failed attempt before the last |
| `Tasks`, `QueueLimit` | 2 and 2 | a goroutine and the UI thread post while the other goroutine fills the queue. An operation that succeeded starts a probe only while a goroutine is free |
| `Scripts`, `MaxSaves` | 2 and 2 | an installer that has outlived its lock beside a new one; older and newer details |
| `FewLate` | 1 late command | state constraint of `legacy_install`: a compose command nobody waits for, beside one that the manager runs; the theorems have no such bound |

Symmetry over the runs, the loads and the installers is used where no liveness is
checked: the properties of `store` are safety properties. Deadlock is not checked for `JsonStore` and `NurseCall`: saves and
calls are counted, so their models come to an end.

### Fairness

`AgentRun`: a goroutine that can take a step takes one (`WF` of `RunStep`),
the ticker starts runs again and again, and a stopped agent is started again at
sign-in (`WF` of `RunBegin` and `Start`). This assumes that IMAP and SMTP
connections end. The network and the disk are less regular: reading the
configuration, and reading a given mail that stays in the mailbox, succeed if tried
again and again (`SF`). Nothing is assumed of the dashboard, the manager or the mailbox.

`MailIntake`: runs are started again and again, and the steps of a run end (`WF`).
An alert that is fetched again and again is read at some time (`SF`); other mails
may fail forever. `AlertsLooked` itself assumes that runs are not cut off any more
from some moment on: a mailbox whose every session breaks off is never read.

`AgentLifecycle`: the worker goes on, as every probe, wait and loop of it has a
limit, and so do agent processes (`WF` of `ManagerStep` and of each process).
Users and sign-ins owe nothing.

`LegacyWindow`: the window handles its messages, and a goroutine goes on with what it
does itself (`WF` of `UiStep` and `GoesOn`). Nothing is assumed of the commands and dialogs it waits
for (`CallEnds`): `runas` waits for the elevated script without limit (`main.go:379`), the
`reg.exe` calls have none (`main.go:373`, `main.go:377`), and a compose command that is
ended at its limit may leave a child that holds its output. `ButtonsComeBack` itself
assumes that no command keeps its goroutine forever.

`NurseCall`: timers fire, and the browser ends a POST with a reply or an error
(`WF`). Nothing is assumed of the socket or of nurses, so a verdict may be
"no acknowledgement yet".

## What is proved

For every value of the constants that satisfies the assumptions named in the
modules:

| Theorem | Module | Argument |
|---|---|---|
| `TypeCorrect`: `[]TypeOK` | `AgentRunProofs` | `TypeOK` alone is not inductive: a run in `send` appends the vacancy `run[r].url`, which must be one. The invariant adds `Sending`, that it is |
| `Exclusive`: `[]RunExclusive` | `AgentRunProofs` | inductive as it stands: a step of a run that is not idle leaves the others where they are, and only `RunBegin`, which needs the flag clear, adds one |
| `Dedup`: `[]TrackedOnce` | `AgentDedupProofs` | `DedupInv` adds that the vacancy being sent is in neither of the run's lists. Lemmas on lists without duplicates: appending a new URL, a prefix, one in front. The order of `added` and `base` and the truncation to `MaxJobs` preserve it |
| `CapKept`: `[]CapHeld` | `AgentRunProofs` | `CountInv` says whose count is right: the file's while no run counts, a run's own from its load to its save; each is at most one behind what was sent, and a run that midnight overtook while it sends has nothing else uncharged. `DayInv`: nothing is charged to a day to come. `LimitInv`: every count stays within a limit that was configured, of which a run holds a copy. It rests on `Exclusive` |
| `FilesStayBounded`, `KeepLargestBound` | `AgentRunProofs` | every writer of `jobs.json` cuts the list or writes one as long as the one it loaded; `mapKeysSortedLimited` keeps at most its limit, by an injection of the kept ids into an interval, and only the largest |
| `Packages`: `[]PackageForEveryJob` | `AgentDedupProofs` | the application is written before its vacancy enters a list, so `PackageInv` asks one of every list in memory too: a run's, a request's, and the vacancy being sent |
| `SeenSaved`: `[]SeenImpliesSaved` | `AgentDedupProofs` | `SeenInv` follows a mail through its run: each of its links is saved, still to do, known to the run, or being sent (`NotForgotten`); what the run knows has been saved or fits into what it will save, because its new jobs and links left are no more than a batch (`Room`, with `BatchLinks <= MaxJobs`) |
| `AppliedAtMostOnce`: `[]AppliedOnce` | `AgentDedupProofs` | `AppliedInv`: what was applied to was applied to once and is `Tracked`, in `jobs.json` or in the new jobs of the run that will write it, and known to every run that may still send. It rests on `Exclusive`, and on `Room`: a list that is cut keeps the run's new jobs |
| `FileNeverOlder`: `[]NeverOlder`; `SaveRecoverable`: `[]Recoverable` | `JsonStoreProofs` | `StoreInv` says for every stage of a save what `.tmp` and `.bak` hold: `.tmp` is the new version from the copy on, and from the rename on `.bak` is as good as the file unless the copy failed |
| `OneStep`: the save implements `AtomicFile` | `JsonStoreProofs` | from `StoreInv`: `.tmp` is the version being saved from the copy on, so both renames put that version in place, and the removal comes only after a refusal |
| `IntakeTypes`, `ForgottenWhenFull`: `[]TypeOK`, `[]RemembersLooked` | `MailIntakeProofs` | `IntakeInv` keeps the two kinds of id apart and says of each what it tells of its mail. `MessageIds` holds whatever is expunged; `Numbers`, and `SameView` between session and mailbox, hold while nothing was, and need that numbers never seen are beyond the end. `Memory`: the file has at most its limit, and a run knows it or nothing. A save that drops an id leaves a full file, which is `Forgetful` |
| `ImplementsSource`: the sessions implement `MailSource`; `NoneHandedTwice`: a mail with an id of its own is handed out again only when `Forgetful` | `MailIntakeProofs` | `HandedInv`: the mails a session numbers have been in the mailbox, and the ids of its leads are not known; with `IntakeInv`, a lead that was dealt with has been forgotten, so the file is full or was not read. The end of a run keeps all of `known` and the leads unless that is more than the limit |
| `OneAfterAnother`: `[][\A p \in Active, q \in Active' : p = q]_vars` | `AgentLifecycleProofs` | from `SingleAgent`: an agent holds its mutex until it ends, and a sign-in starts a process that has yet to take it |
| `LifecycleTypes`, `OneAgent`, `RestartsReplace`, `UpgradesTakeEffect`, `ExecutableStays`, `ReadyIsRunning` | `AgentLifecycleProofs` | `LifecycleInv`. `Versions`: what runs runs the installed executable, since Windows lets nobody replace it. `Stopping`: only the operation that waits for it has told an agent to close. `Upgrading`: between the copy and the report nothing of before is left. `Entry`, `Results`: which step belongs to which operation, and where the executable may be missing |
| `NurseTypes`, `StatusHonest`, `GivenUpInTime`, `OneCall`, `StaysConnected`, `AckStands` | `NurseCallProofs` | `NurseInv`. `Handle`: a timer that would give up a call is the one `timeoutHandle` refers to, and the timer that does not compare calls waits for the active one with no POST under way; so clearing the handle is enough (`Still`). `Alone`: one call, and a timer that ends it only after its acknowledgement |
| `WindowTypes`, `OneAtATime`, `FlagMeansInstall`, `BusyIsWork`, `WorkingIsBusy` | `LegacyWindowProofs` | an operation is a token that passes from the UI thread to a goroutine to the update that ends it. `Token`: there is at most one, and only while the window is busy, whatever the queue drops. `Order`: "Working" is ahead of it. `Kept`: only a full queue loses it |
| `InstallTypes`, `OneInstaller`, `DetailsStay`, `NothingStays` | `LegacyInstallProofs` | `InstallInv`. `Locks`: an installer younger than its lock has a fresh one. `Details`: what is written, read and brought up is as new as what was applied. `Undone`: what an undisturbed uninstallation has passed is gone, and the executable stays only where the remover met its manager |

The order of each proof is the same: the invariant holds initially, every action
keeps it, part by part, and it implies the property.

TLAPS does not reach liveness, so `MailsTracked`, `AlertsLooked`, `OperationEnds`,
`Concluded`, `ButtonComesBack` and `ButtonsComeBack` are only model-checked. Every
invariant and every safety property of the passing runs is proved.

## What is not modelled

- A power cut that leaves a renamed file empty: the code does not sync it.
- The text of the IMAP and SMTP dialogues, MIME decoding, and connections that never
  end; that a restart gets rid of such a run is `RestartReplaces`.
- What a page scores: `scoreJob`, `riskScore`, `selectApplicationEmail` and the
  other pure functions, as algorithms. In `AgentRun` they are the verdict.
- DPAPI, paths and the registry beyond the one entry.
- The read-only requests of the dashboard, and `appendLog`.
- The lengths of the nurse call's timers, and its setup form.
- Of version 2: the agent (`server.js`), whose successor is `AgentRun`; in the
  manager layout, the replaced CV, Stop and Restart of a container, which keep its
  details, and the check over HTTP.
- Static pages, container definitions, templates and the build script have no state.

## Plan

1. Done: `AgentRun` with its surroundings, `JsonStore` implementing `AtomicFile`,
   `NurseCall`, and their first theorems.
2. Done: `AgentLifecycle`, `MailIntake`, `LegacyWindow`, `LegacyInstall`, their
   theorems, those of `NurseCall`, and `OneStep` without conditions.
3. Done: the proofs of `SeenImpliesSaved`, `AppliedOnce`, `PackageForEveryJob` and
   `CapHeld`; `MailIntake` as an implementation of `MailSource`, and what else
   `AgentRun` takes for granted of the modules beside it.
4. Abstract specifications of the v2 manager and of the nurse call page, and their
   refinements.
5. Pure algorithms against reference definitions: `corporateEmailForURL`,
   `selectApplicationEmail`, the clamping of scores.
