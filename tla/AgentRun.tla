------------------------------ MODULE AgentRun ------------------------------
(***************************************************************************)
(* The search cycle of the v3 background agent (manager/agent.go,          *)
(* runAgentOnce), the three JSON files it keeps, and what runs beside it:  *)
(* the dashboard's handlers that rewrite jobs.json, the manager that       *)
(* rewrites config.json and stops the process, the mailbox, the vacancy    *)
(* sites and the mail server.                                              *)
(*                                                                         *)
(* A run is a goroutine started by the startup timer, by the ticker or by  *)
(* POST /api/run.  It works on copies: it loads state.json and jobs.json,  *)
(* decides about every link of every new mail, and only at the end writes  *)
(* jobs.json and then state.json.  Everything between the load and the two *)
(* writes can be overtaken by a dashboard request or cut off by a stop.    *)
(*                                                                         *)
(* A vacancy is its URL.  The content of a page, the score, the risk and   *)
(* the application address are abstracted to the verdict they lead to,     *)
(* chosen freely for each analysed page.                                   *)
(***************************************************************************)
EXTENDS Integers, Sequences, FiniteSets

CONSTANTS
    Runs,            \* run goroutines that may be alive together
    Dashboards,      \* dashboard requests served together
    Mails,           \* message ids; their order is the lexicographic one
    Links,           \* URLs
    LinksOf,         \* LinksOf[m]: the links extracted from mail m
    Final,           \* Final[l]: the URL that fetching l ends at
    Configs,         \* the contents config.json may have
    ManualStatuses,  \* the statuses the dashboard may set
    MaxJobs,         \* jobs.json keeps this many jobs (2500)
    BatchLinks,      \* links of one batch of mails (100 mails, 20 links each)
    SeenLimit,       \* state.json keeps this many message ids (1200)
    NumDays,         \* days the model runs for
    SentCap,         \* the history counters below stop counting here
    NoURL,           \* no page is being decided about
    Mishaps          \* the kinds of failure that may happen

Days == 1 .. NumDays

RunStatuses ==
    {"Prepared - review required", "Filtered", "Queued - daily limit reached",
     "Needs Haya", "Applied automatically"}

Statuses == RunStatuses \cup ManualStatuses

Jobs == [url : Links, status : Statuses]

MishapKinds ==
    {"stop", "lost reply", "read state", "read jobs", "write state",
     "write jobs", "write package"}

ASSUME MailsAssumption == Mails \subseteq Nat /\ IsFiniteSet(Mails)

ASSUME LinksAssumption ==
    /\ IsFiniteSet(Links)
    /\ LinksOf \in [Mails -> SUBSET Links]
    /\ Final \in [Links -> Links]
    /\ NoURL \notin Links

ASSUME BoundsAssumption ==
    /\ NumDays \in Nat \ {0}
    /\ MaxJobs \in Nat
    /\ SeenLimit \in Nat
    /\ SentCap \in Nat
    /\ BatchLinks \in 0 .. MaxJobs

ASSUME ConfigsAssumption ==
    Configs \subseteq [mode : {"Monitor Only", "Prepare & Ask", "Strict Auto Apply"},
                       limit : Nat \ {0}, password : BOOLEAN]

ASSUME MishapsAssumption == Mishaps \subseteq MishapKinds

VARIABLES
    \* on disk
    config,        \* config.json
    jobsFile,      \* jobs.json, newest job first
    seenIds,       \* state.json, SeenMessageIDs
    appsByDay,     \* state.json, ApplicationsByDay
    packages,      \* URLs whose prepared application is in applications/
    \* the agent process
    up,            \* the process is running
    agentRunning,  \* the flag of the same name
    pc,            \* pc[r]: how far run r is
    run,           \* run[r]: its local variables
    dash,          \* dash[h]: the job list request h is about to save, or << >>
    \* around it
    inbox,         \* the mails a search of the last seven days returns
    today,
    \* history, read by the properties only
    sentOn,        \* sentOn[d]: application mails the server accepted on day d
    sentFor,       \* sentFor[u]: ... and for vacancy u
    everSaved,     \* URLs that have been in jobs.json
    mishaps        \* the kinds of failure that happened, and "dropped"

disk    == <<config, jobsFile, seenIds, appsByDay, packages>>
process == <<up, agentRunning, pc, run, dash>>
around  == <<inbox, today>>
history == <<sentOn, sentFor, everSaved, mishaps>>
vars    == <<config, jobsFile, seenIds, appsByDay, packages,
             up, agentRunning, pc, run, dash, inbox, today,
             sentOn, sentFor, everSaved, mishaps>>

-----------------------------------------------------------------------------
UrlsOf(jobs) == {jobs[i].url : i \in DOMAIN jobs}

\* The first n jobs of a list: jobs[:n].
Take(jobs, n) == IF Len(jobs) > n THEN SubSeq(jobs, 1, n) ELSE jobs

\* mapKeysSortedLimited: the n largest message ids.
KeepLargest(S, n) == {m \in S : Cardinality({k \in S : k > m}) < n}

NoApplications == [d \in Days |-> 0]

\* The local variables of a run before it has loaded anything.
NoRun == [strict |-> FALSE, limit |-> 0, seen |-> {}, counts |-> NoApplications,
          base |-> << >>, todo |-> {}, added |-> << >>, url |-> NoURL, day |-> 1]

\* Mutant: an added job is not entered in knownURLs.
KnownLoadedOnly(r) == UrlsOf(run[r].base)

\* knownURLs: the URLs of the loaded jobs and of those this run has added.
Known(r) == UrlsOf(run[r].base) \cup UrlsOf(run[r].added)

\* The URL a link's page is analysed under: where the redirects end, or the
\* link itself when the page cannot be fetched.
PageURLs(l) == {Final[l], l}

\* The links a batch of mails makes a run look at, each with its mail.
LinkTasks(M) == {t \in M \X Links : t[2] \in LinksOf[t[1]]}

Bump(n) == IF n < SentCap THEN n + 1 ELSE n

Init ==
    /\ config \in Configs
    /\ jobsFile = << >>
    /\ seenIds = {}
    /\ appsByDay = NoApplications
    /\ packages = {}
    /\ up = TRUE
    /\ agentRunning = FALSE
    /\ pc = [r \in Runs |-> "idle"]
    /\ run = [r \in Runs |-> NoRun]
    /\ dash = [h \in Dashboards |-> << >>]
    /\ inbox = {}
    /\ today = 1
    /\ sentOn = NoApplications
    /\ sentFor = [u \in Links |-> 0]
    /\ everSaved = {}
    /\ mishaps = {}

-----------------------------------------------------------------------------
(* Reading and writing the files.  "hit" is the set of failures that occur  *)
(* in the step.  A file that cannot be read counts as empty.  A write that  *)
(* fails leaves the file as it was, or leaves no file (JsonStore).          *)

Failures(kinds) == SUBSET (Mishaps \cap kinds)

LoadedJobs(hit) == IF "read jobs" \in hit THEN << >> ELSE jobsFile

SaveJobs(jobs) ==
    \E hit \in Failures({"write jobs"}) :
        IF hit = {}
        THEN /\ jobsFile' = Take(jobs, MaxJobs)
             /\ everSaved' = everSaved \cup UrlsOf(Take(jobs, MaxJobs))
             /\ mishaps' = mishaps \cup
                    IF UrlsOf(jobsFile) \subseteq UrlsOf(Take(jobs, MaxJobs))
                    THEN {} ELSE {"dropped"}
        ELSE /\ jobsFile' \in {jobsFile, << >>}
             /\ mishaps' = mishaps \cup hit
             /\ UNCHANGED everSaved

SaveState(ids, counts) ==
    \E hit \in Failures({"write state"}) :
        /\ mishaps' = mishaps \cup hit
        /\ \/ /\ hit = {}
              /\ seenIds' = ids
              /\ appsByDay' = counts
           \/ /\ hit # {}
              /\ UNCHANGED <<seenIds, appsByDay>>
           \/ /\ hit # {}
              /\ seenIds' = {}
              /\ appsByDay' = NoApplications

\* updateRunState, and the start of the agent: load state.json, change a field
\* that is not modelled here, save it again.
RewriteState ==
    \/ SaveState(seenIds, appsByDay)
    \/ /\ "read state" \in Mishaps
       /\ seenIds' = {}
       /\ appsByDay' = NoApplications
       /\ mishaps' = mishaps \cup {"read state"}

WritePackage(u) ==
    \E hit \in Failures({"write package"}) :
        /\ packages' = IF hit = {} THEN packages \cup {u} ELSE packages
        /\ mishaps' = mishaps \cup hit

\* The mail server accepts an application for vacancy u.
Deliver(u) ==
    /\ sentOn' = [sentOn EXCEPT ![today] = Bump(@)]
    /\ sentFor' = [sentFor EXCEPT ![u] = Bump(@)]

-----------------------------------------------------------------------------
(* One run of runAgentOnce.                                                 *)

\* The local variables of run r become x.
Becomes(r, x) == run' = [run EXCEPT ![r] = x]

\* Mutant: no guard.
RunBeginUnguarded(r) ==
    /\ up
    /\ pc[r] = "idle"
    /\ agentRunning' = TRUE
    /\ pc' = [pc EXCEPT ![r] = "config"]
    /\ UNCHANGED <<disk, around, history, up, run, dash>>

\* The timer, the ticker or a dashboard request passes the guard.  A caller
\* that finds the flag set returns at once and changes nothing.
RunBegin(r) ==
    /\ up
    /\ pc[r] = "idle"
    /\ ~agentRunning
    /\ agentRunning' = TRUE
    /\ pc' = [pc EXCEPT ![r] = "config"]
    /\ UNCHANGED <<disk, around, history, up, run, dash>>

\* The deferred function: whatever return is taken, the flag is reset.
RunEnd(r) ==
    /\ agentRunning' = FALSE
    /\ pc' = [pc EXCEPT ![r] = "idle"]
    /\ Becomes(r, NoRun)
    /\ UNCHANGED <<up, dash>>

\* config.json cannot be read or the password cannot be decrypted.
RunConfigFails(r) ==
    /\ pc[r] = "config"
    /\ RunEnd(r)
    /\ UNCHANGED <<disk, around, history>>

RunNoPassword(r) ==
    /\ pc[r] = "config"
    /\ ~config.password
    /\ RewriteState
    /\ RunEnd(r)
    /\ UNCHANGED <<config, jobsFile, packages, around, sentOn, sentFor, everSaved>>

RunConfig(r) ==
    /\ pc[r] = "config"
    /\ config.password
    /\ pc' = [pc EXCEPT ![r] = "load"]
    /\ Becomes(r, [run[r] EXCEPT !.strict = (config.mode = "Strict Auto Apply"),
                                  !.limit = config.limit])
    /\ UNCHANGED <<disk, around, history, up, agentRunning, dash>>

\* Mutant: the counts of earlier runs of the day are not loaded.
RunLoadForgetsCounts(r) ==
    /\ pc[r] = "load"
    /\ pc' = [pc EXCEPT ![r] = "fetch"]
    /\ Becomes(r, [run[r] EXCEPT !.seen = seenIds, !.base = jobsFile])
    /\ UNCHANGED <<disk, around, history, up, agentRunning, dash>>

\* state.json is written by the run holder alone, so that reading it and
\* reading jobs.json may be one step.
RunLoad(r) ==
    /\ pc[r] = "load"
    /\ pc' = [pc EXCEPT ![r] = "fetch"]
    /\ \E hit \in Failures({"read state", "read jobs"}) :
        /\ Becomes(r, [run[r] EXCEPT
               !.seen = IF "read state" \in hit THEN {} ELSE seenIds,
               !.counts = IF "read state" \in hit THEN NoApplications ELSE appsByDay,
               !.base = LoadedJobs(hit)])
        /\ mishaps' = mishaps \cup hit
    /\ UNCHANGED <<disk, around, sentOn, sentFor, everSaved, up, agentRunning, dash>>

\* Mutant: the flag is reset at the end of the run instead of by a defer.
RunMailFailsKeepsFlag(r) ==
    /\ pc[r] = "fetch"
    /\ RewriteState
    /\ pc' = [pc EXCEPT ![r] = "idle"]
    /\ Becomes(r, NoRun)
    /\ UNCHANGED <<config, jobsFile, packages, around, sentOn, sentFor,
                   everSaved, up, agentRunning, dash>>

\* The mailbox cannot be opened or searched.
RunMailFails(r) ==
    /\ pc[r] = "fetch"
    /\ RewriteState
    /\ RunEnd(r)
    /\ UNCHANGED <<config, jobsFile, packages, around, sentOn, sentFor, everSaved>>

\* Mutant: the seen mails are saved as soon as they are fetched.
RunMailSavesSeen(r) ==
    /\ pc[r] = "fetch"
    /\ \E M \in SUBSET (inbox \ run[r].seen) :
        /\ Cardinality(LinkTasks(M)) <= BatchLinks
        /\ Becomes(r, [run[r] EXCEPT !.seen = @ \cup M, !.todo = LinkTasks(M)])
        /\ seenIds' = KeepLargest(run[r].seen \cup M, SeenLimit)
    /\ pc' = [pc EXCEPT ![r] = "links"]
    /\ UNCHANGED <<config, jobsFile, appsByDay, packages, around, history,
                   up, agentRunning, dash>>

\* The new mails that could be fetched and parsed; the others wait for the
\* next run.  The loop marks each of them seen on the way, which nothing reads
\* before the loop is over.
RunMail(r) ==
    /\ pc[r] = "fetch"
    /\ \E M \in SUBSET (inbox \ run[r].seen) :
        /\ Cardinality(LinkTasks(M)) <= BatchLinks
        /\ Becomes(r, [run[r] EXCEPT !.seen = @ \cup M, !.todo = LinkTasks(M)])
    /\ pc' = [pc EXCEPT ![r] = "links"]
    /\ UNCHANGED <<disk, around, history, up, agentRunning, dash>>

\* A link that is tracked already is not fetched.
RunKnownLink(r) ==
    /\ pc[r] = "links"
    /\ \E t \in run[r].todo :
        /\ t[2] \in Known(r)
        /\ Becomes(r, [run[r] EXCEPT !.todo = @ \ {t}])
    /\ UNCHANGED <<disk, around, history, up, agentRunning, pc, dash>>

\* A new link whose page turns out to be tracked already.
RunKnownPage(r) ==
    /\ pc[r] = "links"
    /\ \E t \in run[r].todo :
        /\ t[2] \notin Known(r)
        /\ Final[t[2]] \in Known(r)
        /\ Becomes(r, [run[r] EXCEPT !.todo = @ \ {t}])
    /\ UNCHANGED <<disk, around, history, up, agentRunning, pc, dash>>

\* Mutant: the URL the redirects end at is not looked up.
NewPageUnchecked(r, t, u) ==
    /\ pc[r] = "links"
    /\ t \in run[r].todo
    /\ t[2] \notin Known(r)
    /\ u \in PageURLs(t[2])

\* Task t is about a page that is not tracked yet, analysed under URL u.
NewPage(r, t, u) ==
    /\ pc[r] = "links"
    /\ t \in run[r].todo
    /\ t[2] \notin Known(r)
    /\ u \in PageURLs(t[2])
    /\ u \notin Known(r)

\* Run r is done with task t and has added page u under a status.
AddJob(r, t, u, status) ==
    [run[r] EXCEPT !.todo = @ \ {t},
                   !.added = Append(@, [url |-> u, status |-> status])]

\* What score and risk of a page may lead to; both are abstracted.
Verdicts == {"Prepared - review required", "Filtered"}

\* Whether autoSubmissionBlocks may be empty for a page: which of the other
\* blocks a page has is abstracted.
MayApply(r) == run[r].strict

\* The page has a block.
RunReview(r) ==
    /\ \E t \in run[r].todo : \E u \in PageURLs(t[2]) :
        /\ NewPage(r, t, u)
        /\ WritePackage(u)
        /\ \E s \in Verdicts :
            Becomes(r, AddJob(r, t, u, s))
    /\ UNCHANGED <<config, jobsFile, seenIds, appsByDay, around,
                   sentOn, sentFor, everSaved, up, agentRunning, pc, dash>>

\* Strict mode, no blocks, but the count of the day is at the limit.
RunQueue(r) ==
    /\ MayApply(r)
    /\ run[r].counts[today] >= run[r].limit
    /\ \E t \in run[r].todo : \E u \in PageURLs(t[2]) :
        /\ NewPage(r, t, u)
        /\ WritePackage(u)
        /\ Becomes(r, AddJob(r, t, u, "Queued - daily limit reached"))
    /\ UNCHANGED <<config, jobsFile, seenIds, appsByDay, around,
                   sentOn, sentFor, everSaved, up, agentRunning, pc, dash>>

\* Mutant: the job to send is not the page just analysed.
RunApplyNoJob(r) ==
    /\ MayApply(r)
    /\ run[r].counts[today] < run[r].limit
    /\ \E t \in run[r].todo : \E u \in PageURLs(t[2]) :
        /\ NewPage(r, t, u)
        /\ WritePackage(u)
        /\ Becomes(r, [run[r] EXCEPT !.todo = @ \ {t}, !.day = today])
    /\ pc' = [pc EXCEPT ![r] = "send"]
    /\ UNCHANGED <<config, jobsFile, seenIds, appsByDay, around,
                   sentOn, sentFor, everSaved, up, agentRunning, dash>>

\* Strict mode, no blocks, below the limit: the day to charge is fixed here.
RunApply(r) ==
    /\ MayApply(r)
    /\ run[r].counts[today] < run[r].limit
    /\ \E t \in run[r].todo : \E u \in PageURLs(t[2]) :
        /\ NewPage(r, t, u)
        /\ WritePackage(u)
        /\ Becomes(r, [run[r] EXCEPT !.todo = @ \ {t}, !.url = u, !.day = today])
    /\ pc' = [pc EXCEPT ![r] = "send"]
    /\ UNCHANGED <<config, jobsFile, seenIds, appsByDay, around,
                   sentOn, sentFor, everSaved, up, agentRunning, dash>>

\* A sent application counts for the day it was decided on.
Charged(r, status) ==
    IF status = "Applied automatically"
    THEN [run[r].counts EXCEPT ![run[r].day] = @ + 1]
    ELSE run[r].counts

AddSent(r, status) ==
    [run[r] EXCEPT !.added = Append(@, [url |-> run[r].url, status |-> status]),
                   !.counts = Charged(r, status), !.url = NoURL, !.day = 1]

\* The run goes on to its next link with the vacancy added under status s.
AfterSend(r, s) ==
    /\ pc[r] = "send"
    /\ pc' = [pc EXCEPT ![r] = "links"]
    /\ Becomes(r, AddSent(r, s))
    /\ UNCHANGED <<disk, around, up, agentRunning, dash>>

RunSent(r) ==
    /\ AfterSend(r, "Applied automatically")
    /\ Deliver(run[r].url)
    /\ UNCHANGED <<everSaved, mishaps>>

RunSendFails(r) ==
    /\ AfterSend(r, "Needs Haya")
    /\ UNCHANGED history

\* The server takes the mail, but its reply to the end of DATA does not arrive.
RunSendReplyLost(r) ==
    /\ "lost reply" \in Mishaps
    /\ AfterSend(r, "Needs Haya")
    /\ Deliver(run[r].url)
    /\ mishaps' = mishaps \cup {"lost reply"}
    /\ UNCHANGED everSaved

\* The new jobs in front of the loaded ones; a failed write is not noticed.
RunSaveJobs(r) ==
    /\ pc[r] = "links"
    /\ run[r].todo = {}
    /\ SaveJobs(run[r].added \o run[r].base)
    /\ pc' = [pc EXCEPT ![r] = "saveState"]
    /\ UNCHANGED <<config, seenIds, appsByDay, packages, around,
                   sentOn, sentFor, up, agentRunning, run, dash>>

RunSaveState(r) ==
    /\ pc[r] = "saveState"
    /\ SaveState(KeepLargest(run[r].seen, SeenLimit), run[r].counts)
    /\ RunEnd(r)
    /\ UNCHANGED <<config, jobsFile, packages, around, sentOn, sentFor, everSaved>>

-----------------------------------------------------------------------------
(* The dashboard: a request loads jobs.json and saves the list it made of   *)
(* it later, with nothing held in between.                                  *)

AddedJob(l) == [url |-> Final[l], status |-> "Prepared - review required"]

\* Mutant: no prepared application for a vacancy added by hand.
AddVacancyNoPackage(h) ==
    /\ up
    /\ dash[h] = << >>
    /\ \E l \in Links :
        /\ Final[l] \notin UrlsOf(jobsFile)
        /\ dash' = [dash EXCEPT ![h] =
               <<AddedJob(l)>> \o jobsFile]
    /\ UNCHANGED <<disk, around, history, up, agentRunning, pc, run>>

\* POST /api/add; the page is fetched before the list is loaded.
AddVacancy(h) ==
    /\ up
    /\ dash[h] = << >>
    /\ \E l \in Links, hit \in Failures({"read jobs", "write package"}) :
        /\ Final[l] \notin UrlsOf(LoadedJobs(hit))
        /\ dash' = [dash EXCEPT ![h] = <<AddedJob(l)>> \o LoadedJobs(hit)]
        /\ packages' = IF "write package" \in hit THEN packages
                       ELSE packages \cup {Final[l]}
        /\ mishaps' = mishaps \cup hit
    /\ UNCHANGED <<config, jobsFile, seenIds, appsByDay, around,
                   sentOn, sentFor, everSaved, up, agentRunning, pc, run>>

\* POST /api/jobs/<id>/status for a job that is tracked.
SetStatus(h) ==
    /\ up
    /\ dash[h] = << >>
    /\ \E i \in DOMAIN jobsFile, s \in ManualStatuses :
        dash' = [dash EXCEPT ![h] = [jobsFile EXCEPT ![i].status = s]]
    /\ UNCHANGED <<disk, around, history, up, agentRunning, pc, run>>

DashboardSave(h) ==
    /\ dash[h] # << >>
    /\ SaveJobs(dash[h])
    /\ dash' = [dash EXCEPT ![h] = << >>]
    /\ UNCHANGED <<config, seenIds, appsByDay, packages, around,
                   sentOn, sentFor, up, agentRunning, pc, run>>

-----------------------------------------------------------------------------
(* The surroundings.                                                        *)

\* The manager's Save writes config.json.
ChangeConfig ==
    /\ config' \in Configs
    /\ UNCHANGED <<jobsFile, seenIds, appsByDay, packages, process, around, history>>

\* POST /api/shutdown, sent by the manager on Stop, Restart, Save, Install and
\* Uninstall, ends the process wherever its goroutines are; so does a power cut.
Stop ==
    /\ "stop" \in Mishaps
    /\ up
    /\ up' = FALSE
    /\ agentRunning' = FALSE
    /\ pc' = [r \in Runs |-> "idle"]
    /\ run' = [r \in Runs |-> NoRun]
    /\ dash' = [h \in Dashboards |-> << >>]
    /\ mishaps' = mishaps \cup IF agentRunning THEN {"stop"} ELSE {}
    /\ UNCHANGED <<disk, around, sentOn, sentFor, everSaved>>

\* runAgentMode records its process id in state.json before it serves.
Start ==
    /\ ~up
    /\ up' = TRUE
    /\ RewriteState
    /\ UNCHANGED <<config, jobsFile, packages, around, sentOn, sentFor,
                   everSaved, agentRunning, pc, run, dash>>

NewMail ==
    /\ \E m \in Mails \ inbox : inbox' = inbox \cup {m}
    /\ UNCHANGED <<disk, process, history, today>>

\* A mail leaves the window of the search: seven days, the last hundred.
OldMail ==
    /\ \E m \in inbox : inbox' = inbox \ {m}
    /\ UNCHANGED <<disk, process, history, today>>

NextDay ==
    /\ today < NumDays
    /\ today' = today + 1
    /\ UNCHANGED <<disk, process, history, inbox>>

RunStep(r) ==
    \/ RunConfigFails(r) \/ RunNoPassword(r) \/ RunConfig(r)
    \/ RunLoad(r) \/ RunMailFails(r) \/ RunMail(r)
    \/ RunKnownLink(r) \/ RunKnownPage(r)
    \/ RunReview(r) \/ RunQueue(r) \/ RunApply(r)
    \/ RunSent(r) \/ RunSendFails(r) \/ RunSendReplyLost(r)
    \/ RunSaveJobs(r) \/ RunSaveState(r)

DashboardStep(h) == AddVacancy(h) \/ SetStatus(h) \/ DashboardSave(h)

Surroundings == ChangeConfig \/ Stop \/ Start \/ NewMail \/ OldMail \/ NextDay

Next ==
    \/ \E r \in Runs : RunBegin(r) \/ RunStep(r)
    \/ \E h \in Dashboards : DashboardStep(h)
    \/ Surroundings

Spec == Init /\ [][Next]_vars

-----------------------------------------------------------------------------
(* Fairness.  A goroutine that can take a step takes one, the timers start  *)
(* runs again and again, and a stopped agent is started again (at sign-in). *)
(* The network is not that regular: what is tried again and again works in  *)
(* the end, for the configuration and for every mail that stays in the box. *)
RunMailWith(r, m) == RunMail(r) /\ m \in run'[r].seen

Fairness ==
    /\ WF_vars(Start)
    /\ WF_vars(\E r \in Runs : RunBegin(r))
    /\ \A r \in Runs :
        /\ WF_vars(RunStep(r))
        /\ SF_vars(RunConfig(r))
        /\ \A m \in Mails : SF_vars(RunMailWith(r, m))

FairSpec == Spec /\ Fairness

-----------------------------------------------------------------------------
(* Properties.                                                              *)

RunRecords ==
    [strict : BOOLEAN, limit : Nat, seen : SUBSET Mails, counts : [Days -> Nat],
     base : Seq(Jobs), todo : SUBSET (Mails \X Links), added : Seq(Jobs),
     url : Links \cup {NoURL}, day : Days]

\* Every variable keeps its type, in memory and on disk.
TypeOK ==
    /\ config \in Configs
    /\ jobsFile \in Seq(Jobs)
    /\ seenIds \in SUBSET Mails
    /\ appsByDay \in [Days -> Nat]
    /\ packages \in SUBSET Links
    /\ up \in BOOLEAN
    /\ agentRunning \in BOOLEAN
    /\ pc \in [Runs -> {"idle", "config", "load", "fetch", "links", "send", "saveState"}]
    /\ run \in [Runs -> RunRecords]
    /\ dash \in [Dashboards -> Seq(Jobs)]
    /\ inbox \in SUBSET Mails
    /\ today \in Days
    /\ sentOn \in [Days -> Nat]
    /\ sentFor \in [Links -> Nat]
    /\ everSaved \in SUBSET Links
    /\ mishaps \in SUBSET (MishapKinds \cup {"dropped"})

Active(r) == pc[r] # "idle"

\* At most one run is past the guard of runAgentOnce, and the flag the
\* dashboard shows is set exactly while one is: no return of the run, and no
\* stop of the process, leaves it behind.
RunExclusive ==
    /\ \A r, q \in Runs : Active(r) /\ Active(q) => r = q
    /\ agentRunning <=> \E r \in Runs : Active(r)
    /\ agentRunning => up

NoDuplicate(jobs) ==
    \A i, j \in DOMAIN jobs : jobs[i].url = jobs[j].url => i = j

\* Deduplication: no URL is ever twice in jobs.json, nor in a list that is
\* about to be written there, whatever redirects to what, whichever requests
\* and runs overlap and whatever fails in between.
TrackedOnce ==
    /\ NoDuplicate(jobsFile)
    /\ \A h \in Dashboards : NoDuplicate(dash[h])
    /\ \A r \in Runs : NoDuplicate(run[r].added \o run[r].base)

\* The link of a mail has been dealt with: its vacancy, under the link itself
\* or where it leads, has been in jobs.json.
Covered(l) == PageURLs(l) \cap everSaved # {}

\* A mail that state.json says was seen is never looked at again, so its
\* vacancies must have reached jobs.json before: the agent may be stopped
\* between the two writes, but it must not lose a mail by that.
SeenImpliesSaved ==
    "write jobs" \notin mishaps =>
        \A m \in seenIds : \A l \in LinksOf[m] : Covered(l)

\* As long as no run is cut off, no reply of the mail server is lost and
\* state.json is read and written, a day sees at most one application more
\* than the highest limit configured: the one sent across midnight, which is
\* charged to the day before.
CapHeld ==
    mishaps \cap {"stop", "lost reply", "read state", "write state"} = {} =>
        \A d \in Days : \E c \in Configs : sentOn[d] <= c.limit + 1

\* As long as no job has fallen out of jobs.json and no run has been cut off or
\* has missed a reply, no vacancy is applied to twice.
AppliedOnce ==
    mishaps \cap {"stop", "lost reply", "read jobs", "write jobs", "dropped"} = {} =>
        \A u \in Links : sentFor[u] <= 1

\* Whichever list jobs.json was last saved from, every tracked job has its prepared
\* application: in all three modes, Monitor Only too, where docs/ARCHITECTURE.md:48-52
\* has jobs found, scored and tracked only.
PackageForEveryJob ==
    "write package" \notin mishaps => UrlsOf(jobsFile) \subseteq packages

\* Every mail that stays in the mailbox gets its vacancies tracked, although
\* runs fail, are refused and see only part of the mailbox: a failed run
\* must not mark what it did not read, nor keep later runs out.
MailsTracked ==
    \A m \in Mails :
        m \in inbox ~> (m \notin inbox \/ \A l \in LinksOf[m] : Covered(l))

\* README.md, Safety model: an application is sent only if "the daily cap has
\* not been reached".
DailyCapRespected ==
    \A d \in Days : \E c \in Configs : sentOn[d] <= c.limit

\* docs/ARCHITECTURE.md, Agent: "deduplication".  No vacancy is applied to
\* again by a later run.
NeverAppliedTwice == \A u \in Links : sentFor[u] <= 1
=============================================================================
