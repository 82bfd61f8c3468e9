--------------------------- MODULE AgentRunProofs ---------------------------
(***************************************************************************)
(* Proofs about AgentRun, for every number of runs, requests, mails and    *)
(* links and for every choice of the limits: the types, the guard of a     *)
(* run, the sizes of the files and the daily cap.  What a step does to the *)
(* run that takes it is stated once, for these proofs and for the ones     *)
(* about jobs.json (AgentDedupProofs).                                     *)
(***************************************************************************)
EXTENDS AgentRun, FiniteSetTheorems, SequenceTheorems, TLAPS

\* A list cut to its first jobs is a list of jobs.
LEMMA TakeType ==
    ASSUME NEW s \in Seq(Jobs)
    PROVE  /\ Take(s, MaxJobs) \in Seq(Jobs)
           /\ Len(Take(s, MaxJobs)) <= Len(s)
           /\ \A i \in DOMAIN Take(s, MaxJobs) : i \in DOMAIN s /\ Take(s, MaxJobs)[i] = s[i]
BY BoundsAssumption DEF Take

LEMMA OneJob == ASSUME NEW S, NEW j \in S PROVE <<j>> \in Seq(S)
OBVIOUS

LEMMA NoRunType == NoRun \in RunRecords
BY BoundsAssumption DEF NoRun, RunRecords, NoApplications, Days

\* mapKeysSortedLimited returns some of the keys.
LEMMA KeepLargestSubset ==
    ASSUME NEW S, NEW n
    PROVE  KeepLargest(S, n) \subseteq S
BY DEF KeepLargest

LEMMA UrlsOfType ==
    ASSUME NEW s \in Seq(Jobs)
    PROVE  UrlsOf(s) \subseteq Links
<1>1. \A j \in Jobs : j.url \in Links
  BY DEF Jobs
<1>2. \A i \in DOMAIN s : s[i] \in Jobs
  OBVIOUS
<1> QED
  BY <1>1, <1>2 DEF UrlsOf

Happened == SUBSET (MishapKinds \cup {"dropped"})

LEMMA MishapsGrow ==
    ASSUME mishaps \in Happened
    PROVE  /\ \A K : \A hit \in Failures(K) : mishaps \cup hit \in Happened
           /\ \A k \in MishapKinds \cup {"dropped"} : mishaps \cup {k} \in Happened
           /\ mishaps \cup {} \in Happened
BY MishapsAssumption DEF Happened, Failures

LEMMA SaveJobsType ==
    ASSUME TypeOK, NEW s \in Seq(Jobs), SaveJobs(s)
    PROVE  /\ jobsFile' \in Seq(Jobs)
           /\ everSaved' \in SUBSET Links
           /\ mishaps' \in Happened
<1> DEFINE t == Take(s, MaxJobs)
<1>1. t \in Seq(Jobs) /\ UrlsOf(t) \subseteq Links
  BY TakeType, UrlsOfType
<1>2. PICK hit \in Failures({"write jobs"}) :
        IF hit = {}
        THEN /\ jobsFile' = t
             /\ everSaved' = everSaved \cup UrlsOf(t)
             /\ mishaps' = mishaps \cup
                    IF UrlsOf(jobsFile) \subseteq UrlsOf(t) THEN {} ELSE {"dropped"}
        ELSE /\ jobsFile' \in {jobsFile, << >>}
             /\ mishaps' = mishaps \cup hit
             /\ UNCHANGED everSaved
  BY DEF SaveJobs
<1>3. mishaps \in Happened /\ everSaved \in SUBSET Links /\ jobsFile \in Seq(Jobs)
  BY DEF TypeOK, Happened
<1>4. CASE hit = {}
  <2>1. mishaps' \in Happened
    BY <1>2, <1>3, <1>4, MishapsGrow
  <2> QED
    BY <1>1, <1>2, <1>3, <1>4, <2>1
<1>5. CASE hit # {}
  <2>1. mishaps' \in Happened
    BY <1>2, <1>3, <1>5, MishapsGrow
  <2>2. jobsFile' \in Seq(Jobs)
    <3>1. << >> \in Seq(Jobs)
      BY EmptySeq
    <3>2. jobsFile' = jobsFile \/ jobsFile' = << >>
      BY <1>2, <1>5
    <3> QED BY <1>3, <3>1, <3>2
  <2> QED
    BY <1>2, <1>3, <1>5, <2>1, <2>2
<1> QED
  BY <1>4, <1>5

LEMMA SaveStateType ==
    ASSUME TypeOK, NEW ids \in SUBSET Mails, NEW counts \in [Days -> Nat],
           SaveState(ids, counts)
    PROVE  /\ seenIds' \in SUBSET Mails
           /\ appsByDay' \in [Days -> Nat]
           /\ mishaps' \in Happened
<1>1. mishaps \in Happened /\ seenIds \in SUBSET Mails /\ appsByDay \in [Days -> Nat]
  BY DEF TypeOK, Happened
<1>2. NoApplications \in [Days -> Nat]
  BY DEF NoApplications
<1> QED
  BY <1>1, <1>2, MishapsGrow DEF SaveState

LEMMA RewriteStateType ==
    ASSUME TypeOK, RewriteState
    PROVE  /\ seenIds' \in SUBSET Mails
           /\ appsByDay' \in [Days -> Nat]
           /\ mishaps' \in Happened
<1>1. mishaps \in Happened /\ seenIds \in SUBSET Mails /\ appsByDay \in [Days -> Nat]
  BY DEF TypeOK, Happened
<1>2. NoApplications \in [Days -> Nat]
  BY DEF NoApplications
<1>3. "read state" \in MishapKinds
  BY DEF MishapKinds
<1> QED
  BY <1>1, <1>2, <1>3, MishapsGrow, SaveStateType DEF RewriteState

LEMMA WritePackageType ==
    ASSUME TypeOK, NEW u \in Links, WritePackage(u)
    PROVE  packages' \in SUBSET Links /\ mishaps' \in Happened
<1>1. mishaps \in Happened /\ packages \in SUBSET Links
  BY DEF TypeOK, Happened
<1> QED
  BY <1>1, MishapsGrow DEF WritePackage

LEMMA DeliverType ==
    ASSUME TypeOK, NEW u \in Links, Deliver(u)
    PROVE  sentOn' \in [Days -> Nat] /\ sentFor' \in [Links -> Nat]
<1>1. \A n \in Nat : Bump(n) \in Nat
  BY DEF Bump
<1> QED
  BY <1>1 DEF TypeOK, Deliver

PCs == {"idle", "config", "load", "fetch", "links", "send", "saveState"}

\* The other runs keep their local variables when run r changes its own.
LEMMA BecomesType ==
    ASSUME run \in [Runs -> RunRecords], NEW r \in Runs,
           NEW x \in RunRecords, Becomes(r, x)
    PROVE  /\ run' \in [Runs -> RunRecords]
           /\ run'[r] = x
           /\ \A q \in Runs \ {r} : run'[q] = run[q]
BY DEF Becomes

LEMMA RunEndType ==
    ASSUME TypeOK, NEW r \in Runs, RunEnd(r)
    PROVE  /\ agentRunning' \in BOOLEAN /\ up' \in BOOLEAN
           /\ pc' \in [Runs -> PCs]
           /\ run' \in [Runs -> RunRecords]
           /\ dash' \in [Dashboards -> Seq(Jobs)]
BY NoRunType, BecomesType DEF TypeOK, RunEnd, PCs

\* A page analysed by run r is a link, and adding it as a job keeps the types.
LEMMA NewPageType ==
    ASSUME TypeOK, NEW r \in Runs, NEW t \in run[r].todo, NEW u \in PageURLs(t[2])
    PROVE  /\ t \in Mails \X Links
           /\ u \in Links
           /\ \A status \in Statuses : AddJob(r, t, u, status) \in RunRecords
<1>1. run[r] \in RunRecords /\ t \in Mails \X Links
  BY DEF TypeOK, RunRecords
<1>2. u \in Links
  BY <1>1, LinksAssumption DEF PageURLs
<1>3. ASSUME NEW status \in Statuses
      PROVE  AddJob(r, t, u, status) \in RunRecords
  <2>1. [url |-> u, status |-> status] \in Jobs
    BY <1>2 DEF Jobs
  <2>2. Append(run[r].added, [url |-> u, status |-> status]) \in Seq(Jobs)
    BY <1>1, <2>1 DEF RunRecords
  <2> QED
    BY <1>1, <2>2 DEF AddJob, RunRecords
<1> QED
  BY <1>1, <1>2, <1>3

LEMMA TypeInit == Init => TypeOK
<1> SUFFICES ASSUME Init PROVE TypeOK
  OBVIOUS
<1>1. NoApplications \in [Days -> Nat] /\ 1 \in Days
  BY BoundsAssumption DEF NoApplications, Days
<1>2. jobsFile \in Seq(Jobs) /\ dash \in [Dashboards -> Seq(Jobs)]
  BY DEF Init
<1> QED
  BY <1>1, <1>2, NoRunType DEF Init, TypeOK

\* A run that sends has a page to send for.
Sending == \A r \in Runs : pc[r] = "send" => run[r].url \in Links

\* The run goes on after a send with one more job, typed like the others.
LEMMA AfterSendType ==
    ASSUME TypeOK, Sending, NEW r \in Runs, NEW s \in Statuses, AfterSend(r, s)
    PROVE  /\ run[r].url \in Links
           /\ run' \in [Runs -> RunRecords]
           /\ pc' \in [Runs -> PCs]
<1>t. run \in [Runs -> RunRecords] /\ run[r] \in RunRecords
  BY DEF TypeOK
<1>1. run[r].url \in Links
  BY DEF Sending, AfterSend
<1>2. Append(run[r].added, [url |-> run[r].url, status |-> s]) \in Seq(Jobs)
  <2>1. [url |-> run[r].url, status |-> s] \in Jobs
    BY <1>1 DEF Jobs
  <2> QED BY <1>t, <2>1 DEF RunRecords
<1>3. Charged(r, s) \in [Days -> Nat]
  <2>1. \A f \in [Days -> Nat], d \in Days : [f EXCEPT ![d] = @ + 1] \in [Days -> Nat]
    OBVIOUS
  <2>2. run[r].counts \in [Days -> Nat] /\ run[r].day \in Days
    BY <1>t DEF RunRecords
  <2> QED BY <2>1, <2>2 DEF Charged
<1>4. 1 \in Days
  BY BoundsAssumption DEF Days
<1>5. AddSent(r, s) \in RunRecords
  BY <1>t, <1>2, <1>3, <1>4 DEF RunRecords, AddSent
<1>6. run' \in [Runs -> RunRecords]
  BY <1>t, <1>5, BecomesType DEF AfterSend
<1> QED
  BY <1>1, <1>6 DEF AfterSend, TypeOK, PCs

\* Every step of a run keeps the types.
LEMMA TypeRunStep ==
    ASSUME TypeOK, Sending, NEW r \in Runs, RunBegin(r) \/ RunStep(r)
    PROVE  TypeOK'
<1> USE DEF disk, around, history
<1>t. /\ run \in [Runs -> RunRecords]
      /\ run[r] \in RunRecords
      /\ mishaps \in Happened
  BY DEF TypeOK, Happened
<1>1. CASE RunBegin(r)
  BY <1>1 DEF TypeOK, RunBegin
<1>2. CASE RunConfigFails(r)
  BY <1>2, RunEndType DEF TypeOK, RunConfigFails, PCs
<1>3. CASE RunNoPassword(r)
  BY <1>3, RunEndType, RewriteStateType DEF TypeOK, RunNoPassword, Happened, PCs
<1>4. CASE RunConfig(r)
  <2> DEFINE x == [run[r] EXCEPT !.strict = (config.mode = "Strict Auto Apply"),
                                 !.limit = config.limit]
  <2>1. config.limit \in Nat
    BY ConfigsAssumption DEF TypeOK
  <2>2. x \in RunRecords
    BY <1>t, <2>1 DEF RunRecords
  <2>3. run' \in [Runs -> RunRecords]
    BY <1>4, <1>t, <2>2, BecomesType DEF RunConfig
  <2> QED
    BY <1>4, <2>3 DEF TypeOK, RunConfig
<1>5. CASE RunLoad(r)
  <2>1. PICK hit \in Failures({"read state", "read jobs"}) :
        /\ Becomes(r, [run[r] EXCEPT
               !.seen = IF "read state" \in hit THEN {} ELSE seenIds,
               !.counts = IF "read state" \in hit THEN NoApplications ELSE appsByDay,
               !.base = LoadedJobs(hit)])
        /\ mishaps' = mishaps \cup hit
    BY <1>5 DEF RunLoad
  <2> DEFINE ids == IF "read state" \in hit THEN {} ELSE seenIds
             counts == IF "read state" \in hit THEN NoApplications ELSE appsByDay
             jobs == LoadedJobs(hit)
  <2>2. ids \in SUBSET Mails /\ counts \in [Days -> Nat] /\ jobs \in Seq(Jobs)
    <3>1. ids \in SUBSET Mails
      BY DEF TypeOK
    <3>2. counts \in [Days -> Nat]
      BY DEF TypeOK, NoApplications
    <3>3. << >> \in Seq(Jobs) /\ jobsFile \in Seq(Jobs)
      BY EmptySeq DEF TypeOK
    <3> QED BY <3>1, <3>2, <3>3 DEF LoadedJobs
  <2>3. [run[r] EXCEPT !.seen = ids, !.counts = counts, !.base = jobs] \in RunRecords
    <3> HIDE DEF ids, counts, jobs
    <3> QED BY <1>t, <2>2 DEF RunRecords
  <2>4. run' \in [Runs -> RunRecords]
    BY <1>t, <2>1, <2>3, BecomesType
  <2>5. mishaps' \in Happened
    BY <1>t, <2>1, MishapsGrow
  <2> QED
    BY <1>5, <2>4, <2>5 DEF TypeOK, RunLoad, Happened
<1>6. CASE RunMailFails(r)
  BY <1>6, RunEndType, RewriteStateType DEF TypeOK, RunMailFails, Happened, PCs
<1>7. CASE RunMail(r)
  <2>1. PICK M \in SUBSET (inbox \ run[r].seen) :
          Becomes(r, [run[r] EXCEPT !.seen = @ \cup M, !.todo = LinkTasks(M)])
    BY <1>7 DEF RunMail
  <2>2. [run[r] EXCEPT !.seen = @ \cup M, !.todo = LinkTasks(M)] \in RunRecords
    <3>1. M \subseteq Mails
      BY DEF TypeOK
    <3>2. LinkTasks(M) \in SUBSET (Mails \X Links)
      BY <3>1 DEF LinkTasks
    <3> QED BY <1>t, <3>1, <3>2 DEF RunRecords
  <2>3. run' \in [Runs -> RunRecords]
    BY <1>t, <2>1, <2>2, BecomesType
  <2> QED
    BY <1>7, <2>3 DEF TypeOK, RunMail
<1>8. ASSUME NEW t, Becomes(r, [run[r] EXCEPT !.todo = @ \ {t}])
      PROVE  run' \in [Runs -> RunRecords]
  <2>1. [run[r] EXCEPT !.todo = @ \ {t}] \in RunRecords
    BY <1>t DEF RunRecords
  <2> QED
    BY <1>t, <1>8, <2>1, BecomesType
<1>9. CASE RunKnownLink(r) \/ RunKnownPage(r)
  BY <1>8, <1>9 DEF TypeOK, RunKnownLink, RunKnownPage
<1>10. CASE RunReview(r)
  <2>0. PICK t \in run[r].todo : \E u \in PageURLs(t[2]) :
          /\ WritePackage(u)
          /\ \E s \in {"Prepared - review required", "Filtered"} :
               Becomes(r, AddJob(r, t, u, s))
    BY <1>10 DEF RunReview, Verdicts
  <2>1. PICK u \in PageURLs(t[2]), s \in {"Prepared - review required", "Filtered"} :
          WritePackage(u) /\ Becomes(r, AddJob(r, t, u, s))
    BY <2>0
  <2>2. s \in Statuses
    BY DEF Statuses, RunStatuses
  <2>3. u \in Links /\ run' \in [Runs -> RunRecords]
    BY <1>t, <2>1, <2>2, NewPageType, BecomesType
  <2> QED
    BY <1>10, <2>1, <2>3, WritePackageType DEF TypeOK, RunReview, Happened
<1>11. CASE RunQueue(r)
  <2>0. PICK t \in run[r].todo : \E u \in PageURLs(t[2]) :
          WritePackage(u) /\ Becomes(r, AddJob(r, t, u, "Queued - daily limit reached"))
    BY <1>11 DEF RunQueue
  <2>1. PICK u \in PageURLs(t[2]) :
          WritePackage(u) /\ Becomes(r, AddJob(r, t, u, "Queued - daily limit reached"))
    BY <2>0
  <2>2. "Queued - daily limit reached" \in Statuses
    BY DEF Statuses, RunStatuses
  <2>3. u \in Links /\ run' \in [Runs -> RunRecords]
    BY <1>t, <2>1, <2>2, NewPageType, BecomesType
  <2> QED
    BY <1>11, <2>1, <2>3, WritePackageType DEF TypeOK, RunQueue, Happened
<1>12. CASE RunApply(r)
  <2>0. PICK t \in run[r].todo : \E u \in PageURLs(t[2]) :
          /\ WritePackage(u)
          /\ Becomes(r, [run[r] EXCEPT !.todo = @ \ {t}, !.url = u, !.day = today])
    BY <1>12 DEF RunApply
  <2>1. PICK u \in PageURLs(t[2]) :
          /\ WritePackage(u)
          /\ Becomes(r, [run[r] EXCEPT !.todo = @ \ {t}, !.url = u, !.day = today])
    BY <2>0
  <2>2. u \in Links
    BY NewPageType
  <2>3. [run[r] EXCEPT !.todo = @ \ {t}, !.url = u, !.day = today] \in RunRecords
    BY <1>t, <2>2 DEF RunRecords, TypeOK
  <2>4. run' \in [Runs -> RunRecords]
    BY <1>t, <2>1, <2>3, BecomesType
  <2> QED
    BY <1>12, <2>1, <2>2, <2>4, WritePackageType DEF TypeOK, RunApply, Happened
<1>13. CASE RunSent(r)
  <2>1. "Applied automatically" \in Statuses
    BY DEF Statuses, RunStatuses
  <2> QED
    BY <1>13, <2>1, AfterSendType, DeliverType DEF TypeOK, RunSent, AfterSend, PCs
<1>14. CASE RunSendFails(r) \/ RunSendReplyLost(r)
  <2>1. "Needs Haya" \in Statuses /\ "lost reply" \in MishapKinds
    BY DEF Statuses, RunStatuses, MishapKinds
  <2> QED
    BY <1>14, <1>t, <2>1, AfterSendType, DeliverType, MishapsGrow
       DEF TypeOK, RunSendFails, RunSendReplyLost, AfterSend, PCs, Happened
<1>16. CASE RunSaveJobs(r)
  <2>1. run[r].added \o run[r].base \in Seq(Jobs)
    BY <1>t DEF RunRecords
  <2> QED
    BY <1>16, <2>1, SaveJobsType DEF TypeOK, RunSaveJobs, Happened
<1>17. CASE RunSaveState(r)
  <2>1. KeepLargest(run[r].seen, SeenLimit) \in SUBSET Mails
    BY <1>t, KeepLargestSubset DEF RunRecords
  <2>2. run[r].counts \in [Days -> Nat]
    BY <1>t DEF RunRecords
  <2> QED
    BY <1>17, <2>1, <2>2, RunEndType, SaveStateType DEF TypeOK, RunSaveState, Happened, PCs
<1> QED
  BY <1>1, <1>2, <1>3, <1>4, <1>5, <1>6, <1>7, <1>9, <1>10, <1>11, <1>12,
     <1>13, <1>14, <1>16, <1>17 DEF RunStep

\* A request of the dashboard and a step of the surroundings keep them too.
LEMMA TypeDashboardStep ==
    ASSUME TypeOK, NEW h \in Dashboards, DashboardStep(h)
    PROVE  TypeOK'
<1> USE DEF disk, around, history
<1>t. mishaps \in Happened /\ dash \in [Dashboards -> Seq(Jobs)] /\ jobsFile \in Seq(Jobs)
  BY DEF TypeOK, Happened
<1>1. CASE AddVacancy(h)
  <2>1. PICK l \in Links, hit \in Failures({"read jobs", "write package"}) :
          /\ dash' = [dash EXCEPT ![h] = <<AddedJob(l)>> \o LoadedJobs(hit)]
          /\ packages' = IF "write package" \in hit THEN packages
                         ELSE packages \cup {Final[l]}
          /\ mishaps' = mishaps \cup hit
    BY <1>1 DEF AddVacancy
  <2>2. Final[l] \in Links
    BY LinksAssumption
  <2>3. AddedJob(l) \in Jobs
    BY <2>2 DEF Jobs, Statuses, RunStatuses, AddedJob
  <2>4. LoadedJobs(hit) \in Seq(Jobs)
    BY <1>t, EmptySeq DEF LoadedJobs
  <2>5. <<AddedJob(l)>> \o LoadedJobs(hit) \in Seq(Jobs)
    <3>1. <<AddedJob(l)>> \in Seq(Jobs)
      BY <2>3, OneJob
    <3> QED BY <2>4, <3>1, ConcatProperties
  <2>6. dash' \in [Dashboards -> Seq(Jobs)]
    BY <1>t, <2>1, <2>5
  <2>7. mishaps' \in Happened
    BY <1>t, <2>1, MishapsGrow
  <2> QED
    BY <1>1, <2>1, <2>2, <2>6, <2>7 DEF TypeOK, AddVacancy, Happened
<1>2. CASE SetStatus(h)
  <2>1. PICK i \in DOMAIN jobsFile, s \in ManualStatuses :
          dash' = [dash EXCEPT ![h] = [jobsFile EXCEPT ![i].status = s]]
    BY <1>2 DEF SetStatus
  <2>2. [jobsFile EXCEPT ![i].status = s] \in Seq(Jobs)
    <3>1. jobsFile[i] \in Jobs
      BY <1>t
    <3>2. [jobsFile[i] EXCEPT !.status = s] \in Jobs
      BY <3>1 DEF Jobs, Statuses
    <3> QED BY <1>t, <3>2
  <2>3. dash' \in [Dashboards -> Seq(Jobs)]
    BY <1>t, <2>1, <2>2
  <2> QED
    BY <1>2, <2>3 DEF TypeOK, SetStatus
<1>3. CASE DashboardSave(h)
  <2>1. dash[h] \in Seq(Jobs) /\ dash' \in [Dashboards -> Seq(Jobs)]
    BY <1>t, <1>3, EmptySeq DEF DashboardSave
  <2> QED
    BY <1>3, <2>1, SaveJobsType DEF TypeOK, DashboardSave, Happened
<1> QED
  BY <1>1, <1>2, <1>3 DEF DashboardStep

LEMMA TypeSurroundings ==
    ASSUME TypeOK, Surroundings
    PROVE  TypeOK'
<1> USE DEF disk, process, around, history
<1>1. CASE ChangeConfig
  BY <1>1 DEF TypeOK, ChangeConfig
<1>2. CASE Stop
  <2>1. run' \in [Runs -> RunRecords] /\ dash' \in [Dashboards -> Seq(Jobs)]
    BY <1>2, NoRunType, EmptySeq DEF Stop
  <2>2. mishaps' \in Happened
    <3>1. mishaps \in Happened /\ "stop" \in MishapKinds
      BY DEF TypeOK, Happened, MishapKinds
    <3>2. mishaps' = mishaps \cup {"stop"} \/ mishaps' = mishaps \cup {}
      BY <1>2 DEF Stop
    <3> QED BY <3>1, <3>2, MishapsGrow
  <2> QED
    BY <1>2, <2>1, <2>2 DEF TypeOK, Stop, Happened
<1>3. CASE Start
  BY <1>3, RewriteStateType DEF TypeOK, Start, Happened
<1>4. CASE NewMail \/ OldMail
  BY <1>4 DEF TypeOK, NewMail, OldMail
<1>5. CASE NextDay
  <2>1. today' \in Days
    BY <1>5, BoundsAssumption DEF TypeOK, NextDay, Days
  <2>2. UNCHANGED <<disk, process, history, inbox>>
    BY <1>5 DEF NextDay
  <2> HIDE DEF disk, process, around, history
  <2>3. UNCHANGED <<config, jobsFile, seenIds, appsByDay, packages, up, agentRunning, pc, run,
                    dash, inbox, sentOn, sentFor, everSaved, mishaps>>
    BY <2>2 DEF disk, process, history
  <2> QED BY <2>1, <2>3 DEF TypeOK
<1> QED
  BY <1>1, <1>2, <1>3, <1>4, <1>5 DEF Surroundings

-----------------------------------------------------------------------------
\* Which steps of a run lead to "send": only the one that fixes the page.
LEMMA SendingStep ==
    ASSUME TypeOK, Sending, Next
    PROVE  Sending'
<1>1. ASSUME NEW r \in Runs, RunBegin(r) \/ RunStep(r)
      PROVE  Sending'
  <2>t. run \in [Runs -> RunRecords] /\ pc \in [Runs -> PCs]
    BY DEF TypeOK, PCs
  <2>1. CASE RunApply(r)
    <3>1. PICK t \in run[r].todo : \E u \in PageURLs(t[2]) :
            Becomes(r, [run[r] EXCEPT !.todo = @ \ {t}, !.url = u, !.day = today])
      BY <2>1 DEF RunApply
    <3>2. PICK u \in PageURLs(t[2]) :
            Becomes(r, [run[r] EXCEPT !.todo = @ \ {t}, !.url = u, !.day = today])
      BY <3>1
    <3>3. u \in Links /\ run[r] \in RunRecords
      BY <2>t, NewPageType
    <3>4. [run[r] EXCEPT !.todo = @ \ {t}, !.url = u, !.day = today].url = u
      BY <3>3 DEF RunRecords
    <3>5. run'[r].url = u /\ \A q \in Runs \ {r} : run'[q] = run[q]
      BY <2>t, <3>2, <3>4 DEF Becomes
    <3>6. \A q \in Runs \ {r} : pc'[q] = pc[q]
      BY <2>t, <2>1 DEF RunApply
    <3> QED
      BY <3>3, <3>5, <3>6 DEF Sending
  <2>2. CASE ~RunApply(r)
    <3>1. pc'[r] # "send" /\ \A q \in Runs \ {r} : pc'[q] = pc[q] /\ run'[q] = run[q]
      BY <1>1, <2>2, <2>t DEF RunStep, RunBegin, RunConfigFails, RunNoPassword,
         RunConfig, RunLoad, RunMailFails, RunMail, RunKnownLink, RunKnownPage,
         RunReview, RunQueue, NewPage, RunSent, RunSendFails, RunSendReplyLost,
         AfterSend, RunSaveJobs, RunSaveState, RunEnd, Becomes
    <3> QED
      BY <3>1 DEF Sending
  <2> QED
    BY <2>1, <2>2
<1>2. ASSUME NEW h \in Dashboards, DashboardStep(h)
      PROVE  Sending'
  BY <1>2 DEF Sending, DashboardStep, AddVacancy, SetStatus, DashboardSave
<1>3. CASE Surroundings
  BY <1>3 DEF Sending, Surroundings, ChangeConfig, Stop, Start, NewMail, OldMail,
     NextDay, process
<1> QED
  BY <1>1, <1>2, <1>3 DEF Next

\* The types hold in every reachable state.
THEOREM TypeCorrect == Spec => [](TypeOK /\ Sending)
<1>1. Init => TypeOK /\ Sending
  BY TypeInit DEF Init, Sending
<1>2. TypeOK /\ Sending /\ [Next]_vars => TypeOK' /\ Sending'
  <2> SUFFICES ASSUME TypeOK, Sending, [Next]_vars
               PROVE  TypeOK' /\ Sending'
    OBVIOUS
  <2>1. CASE Next
    BY <2>1, SendingStep, TypeRunStep, TypeDashboardStep, TypeSurroundings DEF Next
  <2>2. CASE UNCHANGED vars
    BY <2>2 DEF vars, TypeOK, Sending
  <2> QED
    BY <2>1, <2>2
<1> QED
  BY <1>1, <1>2, PTL DEF Spec

-----------------------------------------------------------------------------
(* Mutual exclusion of runs.                                               *)

LEMMA ExclusiveRunStep ==
    ASSUME TypeOK, RunExclusive, NEW r \in Runs, RunBegin(r) \/ RunStep(r)
    PROVE  RunExclusive'
<1>t. pc \in [Runs -> PCs]
  BY DEF TypeOK, PCs
\* A run passes the guard only while no run is active.
<1>1. CASE RunBegin(r)
  BY <1>t, <1>1 DEF RunExclusive, RunBegin, Active
<1>2. ASSUME Active(r), RunEnd(r)
      PROVE  RunExclusive'
  BY <1>t, <1>2 DEF RunExclusive, RunEnd, Active
\* The other steps leave the same runs active.
<1>3. ASSUME Active(r), Active(r)', UNCHANGED <<up, agentRunning>>,
             \A q \in Runs \ {r} : pc'[q] = pc[q]
      PROVE  RunExclusive'
  BY <1>3 DEF RunExclusive, Active
<1>4. CASE RunConfigFails(r) \/ RunNoPassword(r) \/ RunMailFails(r) \/ RunSaveState(r)
  BY <1>2, <1>4 DEF RunConfigFails, RunNoPassword, RunMailFails, RunSaveState, Active
<1>5. CASE RunConfig(r) \/ RunLoad(r) \/ RunMail(r) \/ RunKnownLink(r) \/ RunKnownPage(r)
           \/ RunReview(r) \/ RunQueue(r) \/ RunApply(r) \/ RunSent(r)
           \/ RunSendFails(r) \/ RunSendReplyLost(r) \/ RunSaveJobs(r)
  BY <1>t, <1>3, <1>5 DEF RunConfig, RunLoad, RunMail, RunKnownLink, RunKnownPage,
     RunReview, RunQueue, RunApply, NewPage, RunSent, RunSendFails,
     RunSendReplyLost, AfterSend, RunSaveJobs, Active
<1> QED
  BY <1>1, <1>4, <1>5 DEF RunStep

\* At most one run is past the guard, and the flag says whether one is.
THEOREM Exclusive == Spec => []RunExclusive
<1>1. Init => RunExclusive
  BY DEF Init, RunExclusive, Active
<1>2. TypeOK /\ RunExclusive /\ [Next]_vars => RunExclusive'
  <2> SUFFICES ASSUME TypeOK, RunExclusive, [Next]_vars
               PROVE  RunExclusive'
    OBVIOUS
  <2>1. ASSUME NEW h \in Dashboards, DashboardStep(h)
        PROVE  RunExclusive'
    <3>1. UNCHANGED <<up, agentRunning, pc>>
      BY <2>1 DEF DashboardStep, AddVacancy, SetStatus, DashboardSave
    <3> QED
      BY <3>1 DEF RunExclusive, Active
  <2>2. CASE Surroundings
    <3>1. CASE Stop
      <4>1. agentRunning' = FALSE /\ \A r \in Runs : pc'[r] = "idle"
        BY <3>1 DEF Stop
      <4> QED
        BY <4>1 DEF RunExclusive, Active
    <3>2. CASE Start
      BY <3>2 DEF Start, RunExclusive, Active
    <3>3. CASE ChangeConfig \/ NewMail \/ OldMail \/ NextDay
      BY <3>3 DEF RunExclusive, Active, ChangeConfig, NewMail, OldMail, NextDay, process
    <3> QED
      BY <2>2, <3>1, <3>2, <3>3 DEF Surroundings
  <2>3. CASE UNCHANGED vars
    BY <2>3 DEF vars, RunExclusive, Active
  <2> QED
    BY <2>1, <2>2, <2>3, ExclusiveRunStep DEF Next
<1> QED
  BY <1>1, <1>2, TypeCorrect, PTL DEF Spec

-----------------------------------------------------------------------------
(* Lists of jobs and their URLs.                                           *)

\* The URLs of a list: of none, of two lists, of a list with a job more, of one
\* cut to its first jobs, of one with another status.
LEMMA UrlsOfEmpty == UrlsOf(<< >>) = {}
BY DEF UrlsOf

LEMMA UrlsOfOne ==
    ASSUME NEW x \in Jobs
    PROVE  <<x>> \in Seq(Jobs) /\ UrlsOf(<<x>>) = {x.url}
<1>1. DOMAIN <<x>> = {1} /\ <<x>>[1] = x
  OBVIOUS
<1> QED
  BY <1>1, OneJob DEF UrlsOf

LEMMA UrlsOfConcat ==
    ASSUME NEW a \in Seq(Jobs), NEW b \in Seq(Jobs)
    PROVE  UrlsOf(a \o b) = UrlsOf(a) \cup UrlsOf(b)
<1> DEFINE s == a \o b
           m == Len(a)
           k == Len(b)
<1>1. m \in Nat /\ k \in Nat /\ DOMAIN a = 1 .. m /\ DOMAIN b = 1 .. k
  OBVIOUS
<1>2. /\ DOMAIN s = 1 .. m + k
      /\ \A i \in 1 .. m + k : s[i] = IF i <= m THEN a[i] ELSE b[i - m]
  BY ConcatProperties
<1> HIDE DEF s, m, k
<1>3. \A i \in DOMAIN a : i \in DOMAIN s /\ s[i] = a[i]
  BY <1>1, <1>2
<1>4. \A i \in DOMAIN b : i + m \in DOMAIN s /\ s[i + m] = b[i]
  <2> SUFFICES ASSUME NEW i \in DOMAIN b
               PROVE  i + m \in DOMAIN s /\ s[i + m] = b[i]
    OBVIOUS
  <2>1. i + m \in 1 .. m + k /\ ~(i + m <= m) /\ (i + m) - m = i
    BY <1>1
  <2> QED BY <1>2, <2>1
<1>5. \A i \in DOMAIN s : \/ i \in DOMAIN a /\ s[i] = a[i]
                          \/ i - m \in DOMAIN b /\ s[i] = b[i - m]
  BY <1>1, <1>2
<1>6. UrlsOf(s) = UrlsOf(a) \cup UrlsOf(b)
  BY <1>3, <1>4, <1>5 DEF UrlsOf
<1> QED
  BY <1>6 DEF s

LEMMA UrlsOfAppend ==
    ASSUME NEW a \in Seq(Jobs), NEW x \in Jobs
    PROVE  UrlsOf(Append(a, x)) = UrlsOf(a) \cup {x.url}
<1> DEFINE n == Append(a, x)
           m == Len(a)
<1>1. m \in Nat /\ DOMAIN a = 1 .. m
  OBVIOUS
<1>2. /\ DOMAIN n = 1 .. m + 1
      /\ \A i \in 1 .. m + 1 : n[i] = IF i <= m THEN a[i] ELSE x
  BY AppendProperties
<1> HIDE DEF n, m
<1>3. \A i \in DOMAIN a : i \in DOMAIN n /\ n[i] = a[i]
  BY <1>1, <1>2
<1>4. m + 1 \in DOMAIN n /\ n[m + 1] = x
  BY <1>1, <1>2
<1>5. \A i \in DOMAIN n : \/ i \in DOMAIN a /\ n[i] = a[i]
                          \/ n[i] = x
  BY <1>1, <1>2
<1>6. UrlsOf(n) = UrlsOf(a) \cup {x.url}
  BY <1>3, <1>4, <1>5 DEF UrlsOf
<1> QED
  BY <1>6 DEF n

LEMMA UrlsOfTake ==
    ASSUME NEW s \in Seq(Jobs)
    PROVE  UrlsOf(Take(s, MaxJobs)) \subseteq UrlsOf(s)
BY TakeType DEF UrlsOf

LEMMA UrlsOfStatus ==
    ASSUME NEW s \in Seq(Jobs), NEW i \in DOMAIN s, NEW v
    PROVE  UrlsOf([s EXCEPT ![i].status = v]) = UrlsOf(s)
<1> DEFINE t == [s EXCEPT ![i].status = v]
<1>1. DOMAIN t = DOMAIN s
  OBVIOUS
<1>2. \A j \in DOMAIN s : s[j] \in Jobs
  OBVIOUS
<1>3. \A j \in DOMAIN s : t[j].url = s[j].url
  BY <1>2 DEF Jobs
<1> QED
  BY <1>1, <1>3 DEF UrlsOf

\* A job has the URL it was made for.
LEMMA JobType ==
    ASSUME NEW u \in Links, NEW s \in Statuses
    PROVE  [url |-> u, status |-> s] \in Jobs /\ [url |-> u, status |-> s].url = u
BY DEF Jobs

\* A run's list of new jobs has one more, for page u.
Adds(r, u) ==
    /\ UrlsOf(run'[r].added) = UrlsOf(run[r].added) \cup {u}
    /\ Len(run'[r].added) = Len(run[r].added) + 1

LEMMA AppendAdds ==
    ASSUME NEW r \in Runs, run[r].added \in Seq(Jobs), NEW u \in Links, NEW s \in Statuses,
           run'[r].added = Append(run[r].added, [url |-> u, status |-> s])
    PROVE  Adds(r, u)
<1> DEFINE x == [url |-> u, status |-> s]
<1>1. x \in Jobs /\ x.url = u
  BY JobType
<1> HIDE DEF x
<1>2. UrlsOf(Append(run[r].added, x)) = UrlsOf(run[r].added) \cup {u}
  BY <1>1, UrlsOfAppend
<1>3. Len(Append(run[r].added, x)) = Len(run[r].added) + 1
  BY <1>1, AppendProperties
<1>4. run'[r].added = Append(run[r].added, x)
  BY DEF x
<1> QED
  BY <1>2, <1>3, <1>4 DEF Adds

\* The cut takes jobs from the end: what is in front of a list and not longer
\* than the limit stays.
LEMMA FrontStays ==
    ASSUME NEW a \in Seq(Jobs), NEW b \in Seq(Jobs), Len(a) <= MaxJobs
    PROVE  UrlsOf(a) \subseteq UrlsOf(Take(a \o b, MaxJobs))
<1> DEFINE s == a \o b
           m == Len(a)
           k == Len(b)
<1>1. m \in Nat /\ k \in Nat /\ DOMAIN a = 1 .. m
  OBVIOUS
<1>2. /\ s \in Seq(Jobs) /\ Len(s) = m + k
      /\ \A i \in 1 .. m + k : s[i] = IF i <= m THEN a[i] ELSE b[i - m]
  BY ConcatProperties
<1>3. MaxJobs \in Nat
  BY BoundsAssumption
<1> HIDE DEF s, k
<1>4. \A i \in DOMAIN a : i \in DOMAIN Take(s, MaxJobs) /\ Take(s, MaxJobs)[i] = s[i]
  BY <1>1, <1>2, <1>3 DEF Take
<1>5. \A i \in DOMAIN a : s[i] = a[i]
  BY <1>1, <1>2
<1>6. UrlsOf(a) \subseteq UrlsOf(Take(s, MaxJobs))
  BY <1>4, <1>5 DEF UrlsOf
<1> QED
  BY <1>6 DEF s

-----------------------------------------------------------------------------
(* What a step does to the run that takes it.                              *)

\* A run is in no step of another run or of a request.
LEMMA OtherRuns ==
    ASSUME TypeOK, NEW r \in Runs, RunBegin(r) \/ RunStep(r)
    PROVE  /\ \A q \in Runs \ {r} : pc'[q] = pc[q] /\ run'[q] = run[q]
           /\ dash' = dash
BY DEF TypeOK, RunStep, RunBegin, RunConfigFails, RunNoPassword,
   RunConfig, RunLoad, RunMailFails, RunMail, RunKnownLink, RunKnownPage,
   RunReview, RunQueue, RunApply, RunSent, RunSendFails, RunSendReplyLost,
   AfterSend, RunSaveJobs, RunSaveState, RunEnd, Becomes

\* The fields of a run that holds nothing.
LEMMA NoRunFields ==
    /\ NoRun.seen = {} /\ NoRun.todo = {} /\ NoRun.counts = NoApplications
    /\ NoRun.base = << >> /\ NoRun.added = << >> /\ NoRun.url = NoURL /\ NoRun.day = 1
BY DEF NoRun

\* A run that returns forgets all of it.
LEMMA EndEffect ==
    ASSUME TypeOK, NEW r \in Runs,
           RunConfigFails(r) \/ RunNoPassword(r) \/ RunMailFails(r) \/ RunSaveState(r)
    PROVE  run'[r] = NoRun /\ pc'[r] = "idle"
BY DEF TypeOK, RunConfigFails, RunNoPassword, RunMailFails, RunSaveState, RunEnd, Becomes

LEMMA BeginEffect ==
    ASSUME TypeOK, NEW r \in Runs, RunBegin(r)
    PROVE  run'[r] = run[r] /\ pc[r] = "idle" /\ pc'[r] = "config"
BY DEF TypeOK, RunBegin

LEMMA ConfigEffect ==
    ASSUME TypeOK, NEW r \in Runs, RunConfig(r)
    PROVE  /\ pc[r] = "config" /\ pc'[r] = "load"
           /\ run'[r].limit = config.limit
           /\ run'[r].seen = run[r].seen /\ run'[r].counts = run[r].counts
           /\ run'[r].base = run[r].base /\ run'[r].todo = run[r].todo
           /\ run'[r].added = run[r].added /\ run'[r].url = run[r].url
           /\ run'[r].day = run[r].day
BY DEF TypeOK, RunConfig, Becomes, RunRecords

\* Loading takes the files as they are, or as empty.
LEMMA LoadEffect ==
    ASSUME TypeOK, NEW r \in Runs, RunLoad(r)
    PROVE  \E hit \in Failures({"read state", "read jobs"}) :
           /\ mishaps' = mishaps \cup hit
           /\ pc[r] = "load" /\ pc'[r] = "fetch"
           /\ run'[r].seen = IF "read state" \in hit THEN {} ELSE seenIds
           /\ run'[r].counts = IF "read state" \in hit THEN NoApplications ELSE appsByDay
           /\ run'[r].base = LoadedJobs(hit)
           /\ run'[r].todo = run[r].todo /\ run'[r].added = run[r].added
           /\ run'[r].url = run[r].url /\ run'[r].day = run[r].day
           /\ run'[r].limit = run[r].limit
<1>t. run \in [Runs -> RunRecords] /\ run[r] \in RunRecords /\ pc \in [Runs -> PCs]
  BY DEF TypeOK, PCs
<1>1. PICK hit \in Failures({"read state", "read jobs"}) :
        /\ mishaps' = mishaps \cup hit
        /\ Becomes(r, [run[r] EXCEPT
               !.seen = IF "read state" \in hit THEN {} ELSE seenIds,
               !.counts = IF "read state" \in hit THEN NoApplications ELSE appsByDay,
               !.base = LoadedJobs(hit)])
  BY DEF RunLoad
<1> DEFINE ids == IF "read state" \in hit THEN {} ELSE seenIds
           counts == IF "read state" \in hit THEN NoApplications ELSE appsByDay
           jobs == LoadedJobs(hit)
<1>2. run'[r] = [run[r] EXCEPT !.seen = ids, !.counts = counts, !.base = jobs]
  BY <1>t, <1>1 DEF Becomes
<1>3. /\ run'[r].seen = ids /\ run'[r].counts = counts /\ run'[r].base = jobs
      /\ run'[r].todo = run[r].todo /\ run'[r].added = run[r].added
      /\ run'[r].url = run[r].url /\ run'[r].day = run[r].day
      /\ run'[r].limit = run[r].limit
  <2> HIDE DEF ids, counts, jobs
  <2> QED BY <1>t, <1>2 DEF RunRecords
<1>4. pc[r] = "load" /\ pc'[r] = "fetch"
  BY <1>t DEF RunLoad
<1> QED
  BY <1>1, <1>3, <1>4

\* A batch of mails is marked seen, and its links are to be looked at.
LEMMA MailEffect ==
    ASSUME TypeOK, NEW r \in Runs, RunMail(r)
    PROVE  \E M \in SUBSET (inbox \ run[r].seen) :
           /\ Cardinality(LinkTasks(M)) <= BatchLinks
           /\ pc[r] = "fetch" /\ pc'[r] = "links"
           /\ run'[r].seen = run[r].seen \cup M
           /\ run'[r].todo = LinkTasks(M)
           /\ run'[r].counts = run[r].counts /\ run'[r].base = run[r].base
           /\ run'[r].added = run[r].added /\ run'[r].url = run[r].url
           /\ run'[r].day = run[r].day /\ run'[r].limit = run[r].limit
<1>t. run \in [Runs -> RunRecords] /\ run[r] \in RunRecords /\ pc \in [Runs -> PCs]
  BY DEF TypeOK, PCs
<1>1. PICK M \in SUBSET (inbox \ run[r].seen) :
        /\ Cardinality(LinkTasks(M)) <= BatchLinks
        /\ Becomes(r, [run[r] EXCEPT !.seen = @ \cup M, !.todo = LinkTasks(M)])
  BY DEF RunMail
<1>2. run'[r] = [run[r] EXCEPT !.seen = @ \cup M, !.todo = LinkTasks(M)]
  BY <1>t, <1>1 DEF Becomes
<1>3. pc[r] = "fetch" /\ pc'[r] = "links"
  BY <1>t DEF RunMail
<1> QED
  BY <1>t, <1>1, <1>2, <1>3 DEF RunRecords

\* What a run keeps while it goes through its links.
SameBatch(r) ==
    /\ run'[r].seen = run[r].seen
    /\ run'[r].base = run[r].base
    /\ run'[r].limit = run[r].limit

\* A link is skipped because its page is tracked, under one of its URLs.
LEMMA SkipEffect ==
    ASSUME TypeOK, NEW r \in Runs, RunKnownLink(r) \/ RunKnownPage(r)
    PROVE  \E t \in run[r].todo :
           /\ PageURLs(t[2]) \cap Known(r) # {}
           /\ pc[r] = "links" /\ pc'[r] = "links"
           /\ run'[r].todo = run[r].todo \ {t}
           /\ SameBatch(r)
           /\ run'[r].counts = run[r].counts /\ run'[r].added = run[r].added
           /\ run'[r].url = run[r].url /\ run'[r].day = run[r].day
<1>t. run \in [Runs -> RunRecords] /\ run[r] \in RunRecords
  BY DEF TypeOK
<1>1. PICK t \in run[r].todo :
        /\ t[2] \in Known(r) \/ Final[t[2]] \in Known(r)
        /\ Becomes(r, [run[r] EXCEPT !.todo = @ \ {t}])
  BY DEF RunKnownLink, RunKnownPage
<1>2. run'[r] = [run[r] EXCEPT !.todo = @ \ {t}]
  BY <1>t, <1>1 DEF Becomes
<1>3. pc[r] = "links" /\ pc'[r] = "links"
  BY DEF RunKnownLink, RunKnownPage
<1>4. PageURLs(t[2]) \cap Known(r) # {}
  BY <1>1 DEF PageURLs
<1> QED
  BY <1>t, <1>2, <1>3, <1>4 DEF RunRecords, SameBatch

\* A new page is added as a job, with its application prepared.
LEMMA AddEffect ==
    ASSUME TypeOK, NEW r \in Runs, RunReview(r) \/ RunQueue(r)
    PROVE  \E t \in run[r].todo : \E u \in PageURLs(t[2]) :
           /\ WritePackage(u)
           /\ u \in Links /\ u \notin Known(r)
           /\ pc[r] = "links" /\ pc'[r] = "links"
           /\ run'[r].todo = run[r].todo \ {t}
           /\ Adds(r, u)
           /\ SameBatch(r)
           /\ run'[r].counts = run[r].counts
           /\ run'[r].url = run[r].url /\ run'[r].day = run[r].day
<1>t. run \in [Runs -> RunRecords] /\ run[r] \in RunRecords
  BY DEF TypeOK
<1>1. PICK t \in run[r].todo : \E u \in PageURLs(t[2]), s \in Statuses :
        /\ NewPage(r, t, u) /\ WritePackage(u) /\ Becomes(r, AddJob(r, t, u, s))
  BY DEF RunReview, RunQueue, Verdicts, Statuses, RunStatuses
<1>2. PICK u \in PageURLs(t[2]), s \in Statuses :
        /\ NewPage(r, t, u) /\ WritePackage(u) /\ Becomes(r, AddJob(r, t, u, s))
  BY <1>1
<1>3. u \in Links
  BY NewPageType
<1>4. run'[r] = AddJob(r, t, u, s)
  BY <1>t, <1>2 DEF Becomes
<1>5. pc[r] = "links" /\ pc'[r] = "links" /\ u \notin Known(r)
  BY <1>2 DEF RunReview, RunQueue, NewPage
<1>6. /\ run'[r].todo = run[r].todo \ {t}
      /\ run'[r].added = Append(run[r].added, [url |-> u, status |-> s])
      /\ SameBatch(r)
      /\ run'[r].counts = run[r].counts
      /\ run'[r].url = run[r].url /\ run'[r].day = run[r].day
  BY <1>t, <1>4 DEF AddJob, RunRecords, SameBatch
<1>7. Adds(r, u)
  BY <1>t, <1>3, <1>6, AppendAdds DEF RunRecords
<1> QED
  BY <1>2, <1>3, <1>5, <1>6, <1>7

\* A new page is chosen for sending, on a day whose count is below the limit.
LEMMA ApplyEffect ==
    ASSUME TypeOK, NEW r \in Runs, RunApply(r)
    PROVE  \E t \in run[r].todo :
           /\ run'[r].url \in PageURLs(t[2])
           /\ WritePackage(run'[r].url)
           /\ run'[r].url \in Links /\ run'[r].url \notin Known(r)
           /\ run[r].counts[today] < run[r].limit
           /\ pc[r] = "links" /\ pc'[r] = "send"
           /\ run'[r].todo = run[r].todo \ {t}
           /\ run'[r].day = today
           /\ SameBatch(r)
           /\ run'[r].counts = run[r].counts /\ run'[r].added = run[r].added
<1>t. run \in [Runs -> RunRecords] /\ run[r] \in RunRecords /\ pc \in [Runs -> PCs]
  BY DEF TypeOK, PCs
<1>1. PICK t \in run[r].todo : \E u \in PageURLs(t[2]) :
        /\ NewPage(r, t, u) /\ WritePackage(u)
        /\ Becomes(r, [run[r] EXCEPT !.todo = @ \ {t}, !.url = u, !.day = today])
  BY DEF RunApply
<1>2. PICK u \in PageURLs(t[2]) :
        /\ NewPage(r, t, u) /\ WritePackage(u)
        /\ Becomes(r, [run[r] EXCEPT !.todo = @ \ {t}, !.url = u, !.day = today])
  BY <1>1
<1>3. u \in Links
  BY NewPageType
<1>4. run'[r] = [run[r] EXCEPT !.todo = @ \ {t}, !.url = u, !.day = today]
  BY <1>t, <1>2 DEF Becomes
<1>5. /\ pc[r] = "links" /\ pc'[r] = "send" /\ u \notin Known(r)
      /\ run[r].counts[today] < run[r].limit
  BY <1>t, <1>2 DEF RunApply, NewPage
<1>6. /\ run'[r].todo = run[r].todo \ {t}
      /\ run'[r].url = u /\ run'[r].day = today
      /\ SameBatch(r)
      /\ run'[r].counts = run[r].counts /\ run'[r].added = run[r].added
  BY <1>t, <1>4 DEF RunRecords, SameBatch
<1> QED
  BY <1>2, <1>3, <1>5, <1>6

\* After the send the page is a job; only a sent application is charged.
LEMMA SendEffect ==
    ASSUME TypeOK, Sending, NEW r \in Runs,
           RunSent(r) \/ RunSendFails(r) \/ RunSendReplyLost(r)
    PROVE  /\ pc[r] = "send" /\ pc'[r] = "links"
           /\ run[r].url \in Links
           /\ Adds(r, run[r].url)
           /\ run'[r].url = NoURL /\ run'[r].day = 1
           /\ SameBatch(r)
           /\ run'[r].todo = run[r].todo
           /\ run'[r].counts = IF RunSent(r) THEN [run[r].counts EXCEPT ![run[r].day] = @ + 1]
                               ELSE run[r].counts
<1>t. run \in [Runs -> RunRecords] /\ run[r] \in RunRecords /\ pc \in [Runs -> PCs]
  BY DEF TypeOK, PCs
<1>0. ASSUME NEW s \in Statuses, AfterSend(r, s)
      PROVE  /\ pc[r] = "send" /\ pc'[r] = "links"
             /\ run[r].url \in Links
             /\ Adds(r, run[r].url)
             /\ run'[r].url = NoURL /\ run'[r].day = 1
             /\ SameBatch(r)
             /\ run'[r].todo = run[r].todo
             /\ run'[r].counts = Charged(r, s)
  <2>1. run'[r] = AddSent(r, s) /\ pc[r] = "send" /\ pc'[r] = "links"
    BY <1>t, <1>0 DEF AfterSend, Becomes
  <2>2. run[r].url \in Links
    BY <2>1 DEF Sending
  <2>3. /\ run'[r].added = Append(run[r].added, [url |-> run[r].url, status |-> s])
        /\ run'[r].url = NoURL /\ run'[r].day = 1
        /\ SameBatch(r)
        /\ run'[r].todo = run[r].todo
        /\ run'[r].counts = Charged(r, s)
    BY <1>t, <2>1, <2>2 DEF AddSent, RunRecords, SameBatch
  <2>4. Adds(r, run[r].url)
    BY <1>t, <2>2, <2>3, AppendAdds DEF RunRecords
  <2> QED BY <2>1, <2>2, <2>3, <2>4
<1>1. "Applied automatically" \in Statuses /\ "Needs Haya" \in Statuses
  BY DEF Statuses, RunStatuses
<1>2. CASE RunSent(r)
  <2>1. AfterSend(r, "Applied automatically")
    BY <1>2 DEF RunSent
  <2> QED BY <1>0, <1>1, <1>2, <2>1 DEF Charged
<1>3. CASE ~RunSent(r)
  <2>1. AfterSend(r, "Needs Haya")
    BY <1>3 DEF RunSendFails, RunSendReplyLost
  <2> QED BY <1>0, <1>1, <1>3, <2>1 DEF Charged
<1> QED
  BY <1>2, <1>3

LEMMA SaveJobsEffect ==
    ASSUME TypeOK, NEW r \in Runs, RunSaveJobs(r)
    PROVE  /\ pc[r] = "links" /\ pc'[r] = "saveState"
           /\ run[r].todo = {} /\ run'[r] = run[r]
           /\ SaveJobs(run[r].added \o run[r].base)
           /\ run[r].added \o run[r].base \in Seq(Jobs)
BY ConcatProperties DEF TypeOK, RunSaveJobs, RunRecords

-----------------------------------------------------------------------------
(* Saving a list.                                                          *)

\* What is in the file after a save was in the list or in the file before, and
\* a save that takes place cuts the list and records what it wrote.
LEMMA SaveJobsResult ==
    ASSUME NEW s \in Seq(Jobs), SaveJobs(s)
    PROVE  /\ UrlsOf(jobsFile') \subseteq UrlsOf(s) \cup UrlsOf(jobsFile)
           /\ everSaved \subseteq everSaved'
           /\ mishaps \subseteq mishaps'
           /\ UrlsOf(jobsFile) \subseteq everSaved => UrlsOf(jobsFile') \subseteq everSaved'
           /\ "write jobs" \notin mishaps' =>
                 /\ jobsFile' = Take(s, MaxJobs)
                 /\ UrlsOf(Take(s, MaxJobs)) \subseteq everSaved'
           /\ {"write jobs", "dropped"} \cap mishaps' = {} =>
                 UrlsOf(jobsFile) \subseteq UrlsOf(jobsFile')
<1> DEFINE t == Take(s, MaxJobs)
<1>1. PICK hit \in Failures({"write jobs"}) :
        IF hit = {}
        THEN /\ jobsFile' = t
             /\ everSaved' = everSaved \cup UrlsOf(t)
             /\ mishaps' = mishaps \cup
                    IF UrlsOf(jobsFile) \subseteq UrlsOf(t) THEN {} ELSE {"dropped"}
        ELSE /\ jobsFile' \in {jobsFile, << >>}
             /\ mishaps' = mishaps \cup hit
             /\ UNCHANGED everSaved
  BY DEF SaveJobs
<1>2. UrlsOf(t) \subseteq UrlsOf(s)
  BY UrlsOfTake
<1> HIDE DEF t
<1>3. CASE hit = {}
  <2>1. /\ jobsFile' = t
        /\ everSaved' = everSaved \cup UrlsOf(t)
        /\ mishaps' = mishaps \cup
               IF UrlsOf(jobsFile) \subseteq UrlsOf(t) THEN {} ELSE {"dropped"}
    BY <1>1, <1>3
  <2>2. UrlsOf(jobsFile)' = UrlsOf(t)
    BY <2>1
  <2>3. "dropped" \notin mishaps' => UrlsOf(jobsFile) \subseteq UrlsOf(t)
    BY <2>1
  <2> QED BY <1>2, <2>1, <2>2, <2>3 DEF t
<1>4. CASE hit # {}
  <2>1. hit = {"write jobs"}
    BY <1>4 DEF Failures
  <2>2. (jobsFile' = jobsFile \/ jobsFile' = << >>) /\ everSaved' = everSaved
        /\ mishaps' = mishaps \cup {"write jobs"}
    BY <1>1, <1>4, <2>1
  <2>3. UrlsOf(jobsFile') \subseteq UrlsOf(jobsFile)
    BY <2>2, UrlsOfEmpty
  <2> QED BY <2>2, <2>3
<1> QED
  BY <1>3, <1>4

\* Nothing that went wrong is forgotten.
LEMMA MishapsMonotone ==
    ASSUME TypeOK, Next
    PROVE  mishaps \subseteq mishaps'
<1>1. ASSUME NEW ids, NEW counts, SaveState(ids, counts) PROVE mishaps \subseteq mishaps'
  BY <1>1 DEF SaveState
<1>2. RewriteState => mishaps \subseteq mishaps'
  BY <1>1 DEF RewriteState
<1>3. ASSUME NEW u, WritePackage(u) PROVE mishaps \subseteq mishaps'
  BY <1>3 DEF WritePackage
<1>4. ASSUME NEW r \in Runs, RunBegin(r) \/ RunStep(r)
      PROVE  mishaps \subseteq mishaps'
  <2>1. CASE RunNoPassword(r) \/ RunMailFails(r) \/ RunSaveState(r)
    BY <1>1, <1>2, <2>1 DEF RunNoPassword, RunMailFails, RunSaveState
  <2>2. CASE RunReview(r) \/ RunQueue(r) \/ RunApply(r)
    BY <1>3, <2>2 DEF RunReview, RunQueue, RunApply
  <2>3. CASE RunSaveJobs(r)
    BY <2>3, SaveJobsEffect, SaveJobsResult
  <2>4. CASE RunLoad(r)
    BY <2>4 DEF RunLoad
  <2> QED
    BY <1>4, <2>1, <2>2, <2>3, <2>4 DEF RunStep, RunBegin, RunConfigFails, RunConfig,
       RunMail, RunKnownLink, RunKnownPage, RunSent, RunSendFails, RunSendReplyLost,
       AfterSend, history
<1>5. ASSUME NEW h \in Dashboards, DashboardStep(h)
      PROVE  mishaps \subseteq mishaps'
  <2>1. CASE DashboardSave(h)
    <3>1. dash[h] \in Seq(Jobs) /\ SaveJobs(dash[h])
      BY <2>1 DEF DashboardSave, TypeOK
    <3> QED BY <3>1, SaveJobsResult
  <2> QED
    BY <1>5, <2>1 DEF DashboardStep, AddVacancy, SetStatus, history
<1>6. CASE Surroundings
  BY <1>2, <1>6 DEF Surroundings, ChangeConfig, Stop, Start, NewMail, OldMail, NextDay, history
<1> QED
  BY <1>4, <1>5, <1>6 DEF Next

\* A step of the dashboard or of the surroundings leaves the runs alone or ends
\* them all.
LEMMA OtherSteps ==
    ASSUME TypeOK, Next, \A r \in Runs : ~(RunBegin(r) \/ RunStep(r))
    PROVE  \/ UNCHANGED <<pc, run>>
           \/ Stop /\ \A r \in Runs : pc'[r] = "idle" /\ run'[r] = NoRun
<1>1. ASSUME NEW h \in Dashboards, DashboardStep(h) PROVE UNCHANGED <<pc, run>>
  BY <1>1 DEF DashboardStep, AddVacancy, SetStatus, DashboardSave
<1>2. CASE Stop
  BY <1>2 DEF Stop
<1>3. CASE Surroundings /\ ~Stop
  BY <1>3 DEF Surroundings, ChangeConfig, Start, NewMail, OldMail, NextDay, process
<1> QED
  BY <1>1, <1>2, <1>3 DEF Next

-----------------------------------------------------------------------------
(* The sizes of the files.                                                 *)

\* mapKeysSortedLimited keeps at most n of the ids, and none that it keeps is
\* older than one that it drops.
LEMMA KeepLargestBound ==
    ASSUME NEW S \in SUBSET Nat, IsFiniteSet(S), NEW n \in Nat
    PROVE  /\ IsFiniteSet(KeepLargest(S, n))
           /\ Cardinality(KeepLargest(S, n)) <= n
           /\ \A m \in KeepLargest(S, n), d \in S \ KeepLargest(S, n) : m > d
<1> DEFINE K == KeepLargest(S, n)
           Above(x) == {k \in S : k > x}
           f == [x \in K |-> Cardinality(Above(x))]
<1>1. K = {x \in S : Cardinality(Above(x)) < n}
  BY DEF KeepLargest
<1>2. \A x : IsFiniteSet(Above(x)) /\ Cardinality(Above(x)) \in Nat
  BY FS_Subset, FS_CardinalityType
<1>3. ASSUME NEW x \in S, NEW y \in S, x < y
      PROVE  Cardinality(Above(y)) < Cardinality(Above(x))
  <2>1. Above(y) \subseteq Above(x)
    <3>1. x \in Nat /\ y \in Nat /\ \A k \in S : k \in Nat /\ (k > y => k > x)
      BY <1>3
    <3> QED BY <3>1
  <2>2. Above(y) # Above(x)
    <3>1. y \in Above(x) /\ y \notin Above(y)
      BY <1>3
    <3> QED BY <3>1
  <2> HIDE DEF Above
  <2>3. Above(y) \in SUBSET Above(x)
    BY <2>1
  <2>4. Cardinality(Above(y)) <= Cardinality(Above(x))
        /\ Cardinality(Above(y)) # Cardinality(Above(x))
    BY <1>2, <2>2, <2>3, FS_Subset
  <2> QED BY <1>2, <2>4
\* The number of larger ids is different for every id that is kept.
<1>4. f \in Injection(K, 0 .. n - 1)
  <2> HIDE DEF K, Above
  <2>1. f \in [K -> 0 .. n - 1]
    BY <1>1, <1>2
  <2>2. ASSUME NEW x \in K, NEW y \in K, f[x] = f[y] PROVE x = y
    <3>1. x \in S /\ y \in S /\ x \in Nat /\ y \in Nat
      BY <1>1
    <3>2. /\ Cardinality(Above(x)) = Cardinality(Above(y))
          /\ Cardinality(Above(x)) \in Nat
      BY <1>2, <2>2
    <3>3. ~(x < y) /\ ~(y < x)
      BY <1>3, <3>1, <3>2
    <3> QED BY <3>1, <3>3
  <2> QED BY <2>1, <2>2 DEF Injection, IsInjective
<1>5. IsFiniteSet(0 .. n - 1) /\ Cardinality(0 .. n - 1) = n
  <2>1. n - 1 \in Int
    OBVIOUS
  <2>2. /\ IsFiniteSet(0 .. n - 1)
        /\ Cardinality(0 .. n - 1) = IF 0 > n - 1 THEN 0 ELSE (n - 1) - 0 + 1
    BY <2>1, FS_Interval
  <2> QED BY <2>2
<1>6. IsFiniteSet(K) /\ Cardinality(K) <= n
  BY <1>4, <1>5, FS_Injection
<1>7. ASSUME NEW m \in K, NEW d \in S \ K PROVE m > d
  <2> HIDE DEF Above, K
  <2>1. m \in S /\ m \in Nat /\ d \in Nat /\ Cardinality(Above(m)) < n
    BY <1>1
  <2>2. ~(Cardinality(Above(d)) < n)
    BY <1>1
  <2>3. m # d
    BY <2>1, <2>2
  <2>4. ~(m < d)
    <3>1. m < d => Cardinality(Above(d)) < Cardinality(Above(m))
      BY <1>3, <2>1
    <3> QED BY <1>2, <2>1, <2>2, <3>1
  <2> QED BY <2>1, <2>3, <2>4
<1> QED
  BY <1>6, <1>7

\* The limits of the two files (2500 jobs, 1200 message ids).
FilesBounded ==
    /\ Len(jobsFile) <= MaxJobs
    /\ Cardinality(seenIds) <= SeenLimit

LEMMA TakeBound ==
    ASSUME NEW s \in Seq(Jobs)
    PROVE  Len(Take(s, MaxJobs)) <= MaxJobs
BY BoundsAssumption DEF Take

LEMMA EmptyFilesBounded == Len(<< >>) <= MaxJobs /\ Cardinality({}) <= SeenLimit
BY FS_EmptySet, BoundsAssumption

LEMMA BoundedStep ==
    ASSUME TypeOK, FilesBounded, Next
    PROVE  FilesBounded'
<1>i. Len(jobsFile) <= MaxJobs /\ Cardinality(seenIds) <= SeenLimit
  BY DEF FilesBounded
<1>1. ASSUME NEW s \in Seq(Jobs), SaveJobs(s) PROVE Len(jobsFile') <= MaxJobs
  <2>1. jobsFile' = Take(s, MaxJobs) \/ jobsFile' = jobsFile \/ jobsFile' = << >>
    BY <1>1 DEF SaveJobs
  <2> QED BY <1>i, <2>1, TakeBound, EmptyFilesBounded
<1>2. RewriteState => seenIds' \in {seenIds, {}}
  BY DEF RewriteState, SaveState
<1>3. ASSUME NEW r \in Runs, RunBegin(r) \/ RunStep(r)
      PROVE  FilesBounded'
  <2>1. CASE RunSaveJobs(r)
    <3>1. Len(jobsFile') <= MaxJobs /\ seenIds' = seenIds
      BY <1>1, <2>1, SaveJobsEffect DEF RunSaveJobs
    <3> QED BY <1>i, <3>1 DEF FilesBounded
  <2>2. CASE RunSaveState(r)
    <3>1. /\ seenIds' \in {KeepLargest(run[r].seen, SeenLimit), seenIds, {}}
          /\ jobsFile' = jobsFile
      BY <2>2 DEF RunSaveState, SaveState
    <3>2. Cardinality(KeepLargest(run[r].seen, SeenLimit)) <= SeenLimit
      <4>1. run[r].seen \in SUBSET Nat /\ IsFiniteSet(run[r].seen)
        <5>1. run[r].seen \in SUBSET Mails
          BY DEF TypeOK, RunRecords
        <5> QED BY <5>1, MailsAssumption, FS_Subset
      <4> QED BY <4>1, KeepLargestBound, BoundsAssumption
    <3> QED BY <1>i, <3>1, <3>2, EmptyFilesBounded DEF FilesBounded
  <2>3. CASE ~RunSaveJobs(r) /\ ~RunSaveState(r)
    <3>1. jobsFile' = jobsFile /\ seenIds' \in {seenIds, {}}
      BY <1>2, <1>3, <2>3 DEF RunStep, RunBegin, RunConfigFails, RunNoPassword, RunConfig,
         RunLoad, RunMailFails, RunMail, RunKnownLink, RunKnownPage, RunReview,
         RunQueue, RunApply, RunSent, RunSendFails, RunSendReplyLost, AfterSend, disk
    <3> QED BY <1>i, <3>1, EmptyFilesBounded DEF FilesBounded
  <2> QED BY <2>1, <2>2, <2>3
<1>4. ASSUME NEW h \in Dashboards, DashboardStep(h)
      PROVE  FilesBounded'
  <2>1. CASE DashboardSave(h)
    <3>1. dash[h] \in Seq(Jobs) /\ SaveJobs(dash[h]) /\ seenIds' = seenIds
      BY <2>1 DEF DashboardSave, TypeOK
    <3> QED BY <1>i, <1>1, <3>1 DEF FilesBounded
  <2>2. CASE ~DashboardSave(h)
    <3>1. jobsFile' = jobsFile /\ seenIds' = seenIds
      BY <1>4, <2>2 DEF DashboardStep, AddVacancy, SetStatus, disk
    <3> QED BY <1>i, <3>1 DEF FilesBounded
  <2> QED BY <2>1, <2>2
<1>5. CASE Surroundings
  <2>1. jobsFile' = jobsFile /\ seenIds' \in {seenIds, {}}
    BY <1>2, <1>5 DEF Surroundings, ChangeConfig, Stop, Start, NewMail, OldMail, NextDay, disk
  <2> QED BY <1>i, <2>1, EmptyFilesBounded DEF FilesBounded
<1> QED
  BY <1>3, <1>4, <1>5 DEF Next

\* jobs.json and state.json never grow beyond their limits, whoever writes them.
THEOREM FilesStayBounded == Spec => []FilesBounded
<1>1. Init => FilesBounded
  BY EmptyFilesBounded DEF Init, FilesBounded
<1>2. TypeOK /\ FilesBounded /\ [Next]_vars => FilesBounded'
  BY BoundedStep DEF vars, FilesBounded
<1> QED
  BY <1>1, <1>2, TypeCorrect, PTL DEF Spec

-----------------------------------------------------------------------------
(* The daily cap.                                                          *)

\* No more than the highest limit.
Within(n) == \E c \in Configs : n <= c.limit

\* A run counts to a limit that was configured, and sends only below it.
Limited(r) ==
    /\ \A d \in Days : Within(run[r].counts[d])
    /\ pc[r] \notin {"idle", "config"} => \E c \in Configs : run[r].limit = c.limit
    /\ pc[r] = "send" => run[r].counts[run[r].day] < run[r].limit

LimitInv ==
    /\ \A d \in Days : Within(appsByDay[d])
    /\ \A r \in Runs : Limited(r)

\* Nothing is sent, or charged, for a day to come.
DayInv ==
    /\ \A d \in Days : d > today => sentOn[d] = 0
    /\ \A r \in Runs : pc[r] = "send" => run[r].day <= today

\* No run was cut off, no reply lost, and state.json was read and written.
Regular == mishaps \cap {"stop", "lost reply", "read state", "write state"} = {}

\* One application of a day may be charged to the day before, no more.
Counted(counts) == \A d \in Days : sentOn[d] <= counts[d] + 1

Counting(r) == pc[r] \in {"links", "send", "saveState"}

\* The counts in state.json are right as long as no run sends, those of a run
\* from when it has loaded them; and a run that was overtaken by midnight while
\* it sends has nothing else uncharged.
CountInv ==
    Regular =>
        /\ (\A r \in Runs : ~Counting(r)) => Counted(appsByDay)
        /\ \A r \in Runs : Counting(r) \/ pc[r] = "fetch" => Counted(run[r].counts)
        /\ \A r \in Runs : pc[r] = "send" /\ run[r].day < today
                => sentOn[today] <= run[r].counts[today]

\* What is left in state.json when it is written.
LEMMA SaveStateCounts ==
    /\ \A ids, counts : SaveState(ids, counts) =>
          /\ appsByDay' \in {counts, appsByDay, NoApplications}
          /\ Regular' => appsByDay' = counts
    /\ RewriteState =>
          /\ appsByDay' \in {appsByDay, NoApplications}
          /\ Regular' => appsByDay' = appsByDay
<1>1. ASSUME NEW ids, NEW counts, SaveState(ids, counts)
      PROVE  /\ appsByDay' \in {counts, appsByDay, NoApplications}
             /\ Regular' => appsByDay' = counts
  BY <1>1 DEF SaveState, Failures, Regular
<1>2. ASSUME RewriteState
      PROVE  /\ appsByDay' \in {appsByDay, NoApplications}
             /\ Regular' => appsByDay' = appsByDay
  <2>1. CASE SaveState(seenIds, appsByDay)
    BY <1>1, <2>1
  <2>2. CASE ~SaveState(seenIds, appsByDay)
    BY <1>2, <2>2 DEF RewriteState, Regular
  <2> QED BY <2>1, <2>2
<1> QED
  BY <1>1, <1>2

LEMMA NothingWithin ==
    ASSUME TypeOK
    PROVE  \A d \in Days : Within(NoApplications[d])
<1>1. config \in Configs /\ config.limit \in Nat
  BY ConfigsAssumption DEF TypeOK
<1> QED
  BY <1>1 DEF Within, NoApplications

\* What a step of a run does to its own counts.
LEMMA LimitedStep ==
    ASSUME TypeOK, Sending, LimitInv, NEW r \in Runs, RunBegin(r) \/ RunStep(r)
    PROVE  Limited(r)'
<1>t. /\ run[r].counts \in [Days -> Nat] /\ run[r].day \in Days /\ run[r].limit \in Nat
      /\ config \in Configs
  BY DEF TypeOK, RunRecords
<1>i. /\ \A d \in Days : Within(appsByDay[d])
      /\ \A d \in Days : Within(run[r].counts[d])
      /\ pc[r] \notin {"idle", "config"} => \E c \in Configs : run[r].limit = c.limit
      /\ pc[r] = "send" => run[r].counts[run[r].day] < run[r].limit
  BY DEF LimitInv, Limited
<1>2. ASSUME run'[r].counts = run[r].counts, run'[r].limit = run[r].limit,
             pc'[r] # "send", pc[r] \in {"idle", "config"} => pc'[r] \in {"idle", "config"}
      PROVE  Limited(r)'
  BY <1>i, <1>2 DEF Limited
<1>3. CASE RunBegin(r) \/ RunMail(r) \/ RunKnownLink(r) \/ RunKnownPage(r)
           \/ RunReview(r) \/ RunQueue(r) \/ RunSaveJobs(r)
  BY <1>2, <1>3, BeginEffect, MailEffect, SkipEffect, AddEffect, SaveJobsEffect DEF SameBatch
<1>4. CASE RunConfigFails(r) \/ RunNoPassword(r) \/ RunMailFails(r) \/ RunSaveState(r)
  <2>1. run'[r].counts = NoApplications /\ pc'[r] = "idle"
    BY <1>4, EndEffect, NoRunFields
  <2> QED BY <2>1, NothingWithin DEF Limited
<1>5. CASE RunConfig(r)
  <2>1. run'[r].counts = run[r].counts /\ run'[r].limit = config.limit /\ pc'[r] = "load"
    BY <1>5, ConfigEffect
  <2> QED BY <1>t, <1>i, <2>1 DEF Limited
<1>6. CASE RunLoad(r)
  <2>1. /\ run'[r].counts \in {appsByDay, NoApplications}
        /\ run'[r].limit = run[r].limit /\ pc[r] = "load" /\ pc'[r] = "fetch"
    BY <1>6, LoadEffect
  <2>2. \A d \in Days : Within(run'[r].counts[d])
    BY <1>i, <2>1, NothingWithin
  <2> QED BY <1>i, <2>1, <2>2 DEF Limited
<1>7. CASE RunApply(r)
  <2>1. /\ run'[r].counts = run[r].counts /\ run'[r].limit = run[r].limit
        /\ run'[r].day = today /\ run[r].counts[today] < run[r].limit
        /\ pc[r] = "links" /\ pc'[r] = "send"
    BY <1>7, ApplyEffect DEF SameBatch
  <2> QED BY <1>i, <2>1 DEF Limited
\* A charge stays within the limit the run counts to.
<1>8. CASE RunSent(r) \/ RunSendFails(r) \/ RunSendReplyLost(r)
  <2>1. /\ run'[r].limit = run[r].limit /\ pc[r] = "send" /\ pc'[r] = "links"
        /\ run'[r].counts = IF RunSent(r) THEN [run[r].counts EXCEPT ![run[r].day] = @ + 1]
                            ELSE run[r].counts
    BY <1>8, SendEffect DEF SameBatch
  <2>2. ASSUME NEW d \in Days PROVE Within(run'[r].counts[d])
    <3>1. CASE RunSent(r) /\ d = run[r].day
      <4>1. run'[r].counts[d] = run[r].counts[d] + 1
        BY <1>t, <2>1, <3>1
      <4>2. run[r].counts[d] < run[r].limit
        BY <1>i, <2>1, <3>1
      <4>3. PICK c \in Configs : run[r].limit = c.limit
        BY <1>i, <2>1
      <4>4. run'[r].counts[d] <= c.limit
        BY <1>t, <4>1, <4>2, <4>3
      <4> QED BY <4>4 DEF Within
    <3>2. CASE ~(RunSent(r) /\ d = run[r].day)
      <4>1. run'[r].counts[d] = run[r].counts[d]
        BY <1>t, <2>1, <3>2
      <4> QED BY <1>i, <4>1
    <3> QED BY <3>1, <3>2
  <2> QED BY <1>i, <2>1, <2>2 DEF Limited
<1> QED
  BY <1>3, <1>4, <1>5, <1>6, <1>7, <1>8 DEF RunStep

LEMMA LimitRunStep ==
    ASSUME TypeOK, Sending, LimitInv, NEW r \in Runs, RunBegin(r) \/ RunStep(r)
    PROVE  LimitInv'
<1>i. \A d \in Days : Within(appsByDay[d]) /\ Within(run[r].counts[d])
  BY DEF LimitInv, Limited
<1>o. \A q \in Runs \ {r} : Limited(q)'
  BY OtherRuns DEF LimitInv, Limited
\* state.json holds counts of runs.
<1>1. \A d \in Days : Within(appsByDay'[d])
  <2>1. appsByDay' \in {run[r].counts, appsByDay, NoApplications}
    BY SaveStateCounts DEF RunStep, RunBegin, RunConfigFails, RunNoPassword, RunConfig,
       RunLoad, RunMailFails, RunMail, RunKnownLink, RunKnownPage, RunReview,
       RunQueue, RunApply, RunSent, RunSendFails, RunSendReplyLost, AfterSend,
       RunSaveJobs, RunSaveState, disk
  <2> QED BY <1>i, <2>1, NothingWithin
<1> QED
  BY <1>1, <1>o, LimitedStep DEF LimitInv

LEMMA LimitOtherStep ==
    ASSUME TypeOK, LimitInv, Next, \A r \in Runs : ~(RunBegin(r) \/ RunStep(r))
    PROVE  LimitInv'
<1>1. ASSUME NEW h \in Dashboards, DashboardStep(h)
      PROVE  UNCHANGED <<appsByDay, pc, run>>
  BY <1>1 DEF DashboardStep, AddVacancy, SetStatus, DashboardSave, disk
<1>2. CASE Stop
  <2>1. appsByDay' = appsByDay /\ \A r \in Runs : pc'[r] = "idle" /\ run'[r] = NoRun
    BY <1>2 DEF Stop, disk
  <2> QED BY <2>1, NoRunFields, NothingWithin DEF LimitInv, Limited
<1>3. CASE Surroundings /\ ~Stop
  <2>1. UNCHANGED <<pc, run>> /\ appsByDay' \in {appsByDay, NoApplications}
    BY <1>3, SaveStateCounts DEF Surroundings, ChangeConfig, Start, NewMail, OldMail,
       NextDay, disk, process
  <2>2. \A d \in Days : Within(appsByDay'[d])
    BY <2>1, NothingWithin DEF LimitInv
  <2> QED BY <2>1, <2>2 DEF LimitInv, Limited
<1> QED
  BY <1>1, <1>2, <1>3 DEF Next, LimitInv, Limited

\* Only a send that the server accepts counts, and it counts for today.
LEMMA SentOnStep ==
    ASSUME TypeOK, Next
    PROVE  /\ sentOn' = sentOn \/ sentOn' = [sentOn EXCEPT ![today] = Bump(@)]
           /\ (\A r \in Runs : ~(RunSent(r) \/ RunSendReplyLost(r))) => sentOn' = sentOn
           /\ sentOn' # sentOn => today' = today
<1>1. ASSUME NEW r \in Runs, RunSent(r) \/ RunSendReplyLost(r)
      PROVE  sentOn' = [sentOn EXCEPT ![today] = Bump(@)] /\ today' = today
  BY <1>1 DEF RunSent, RunSendReplyLost, Deliver, AfterSend, around
<1>2. ASSUME NEW r \in Runs, RunBegin(r) \/ RunStep(r), ~(RunSent(r) \/ RunSendReplyLost(r))
      PROVE  sentOn' = sentOn
  BY <1>2 DEF RunStep, RunBegin, RunConfigFails, RunNoPassword, RunConfig, RunLoad,
     RunMailFails, RunMail, RunKnownLink, RunKnownPage, RunReview, RunQueue, RunApply,
     RunSendFails, RunSaveJobs, RunSaveState, history
<1>3. ASSUME NEW h \in Dashboards, DashboardStep(h)
      PROVE  sentOn' = sentOn
  BY <1>3 DEF DashboardStep, AddVacancy, SetStatus, DashboardSave, history
<1>4. Surroundings => sentOn' = sentOn
  BY DEF Surroundings, ChangeConfig, Stop, Start, NewMail, OldMail, NextDay, history
<1>5. CASE \E r \in Runs : RunSent(r) \/ RunSendReplyLost(r)
  BY <1>1, <1>5
<1>6. CASE \A r \in Runs : ~(RunSent(r) \/ RunSendReplyLost(r))
  BY <1>2, <1>3, <1>4, <1>6 DEF Next
<1> QED
  BY <1>5, <1>6

\* Days go forward.
LEMMA TodayGrows ==
    ASSUME TypeOK, Next
    PROVE  /\ today \in Nat /\ today' \in Nat /\ today <= today'
           /\ \A r \in Runs : RunBegin(r) \/ RunStep(r) => today' = today
           /\ today' = today \/ (NextDay /\ today' = today + 1)
<1>t. today \in Nat
  BY DEF TypeOK, Days
<1>1. ASSUME NEW r \in Runs, RunBegin(r) \/ RunStep(r) PROVE today' = today
  BY <1>1 DEF RunStep, RunBegin, RunConfigFails, RunNoPassword, RunConfig, RunLoad,
     RunMailFails, RunMail, RunKnownLink, RunKnownPage, RunReview, RunQueue, RunApply,
     RunSent, RunSendFails, RunSendReplyLost, AfterSend, RunSaveJobs, RunSaveState, around
<1>2. ASSUME NEW h \in Dashboards, DashboardStep(h) PROVE today' = today
  BY <1>2 DEF DashboardStep, AddVacancy, SetStatus, DashboardSave, around
<1>3. Surroundings => today' = today \/ (NextDay /\ today' = today + 1)
  BY DEF Surroundings, ChangeConfig, Stop, Start, NewMail, OldMail, NextDay, around
<1>4. today' = today \/ (NextDay /\ today' = today + 1)
  BY <1>1, <1>2, <1>3 DEF Next
<1>5. today' \in Nat /\ today <= today'
  BY <1>t, <1>4
<1>6. \A r \in Runs : RunBegin(r) \/ RunStep(r) => today' = today
  BY <1>1
<1> QED
  BY <1>t, <1>4, <1>5, <1>6

LEMMA DayStep ==
    ASSUME TypeOK, Sending, DayInv, Next
    PROVE  DayInv'
<1>t. /\ today \in Nat /\ today' \in Nat /\ today <= today' /\ Days \subseteq Nat
      /\ sentOn \in [Days -> Nat] /\ today \in Days
  BY TodayGrows DEF Days, TypeOK
<1>1. ASSUME NEW d \in Days, d > today' PROVE sentOn'[d] = 0
  <2>1. d > today /\ d # today /\ sentOn[d] = 0
    BY <1>t, <1>1 DEF DayInv
  <2> QED BY <1>t, <2>1, SentOnStep
<1>2. ASSUME NEW r \in Runs, pc'[r] = "send" PROVE run'[r].day <= today'
  <2>1. CASE \E q \in Runs : RunBegin(q) \/ RunStep(q)
    <3>1. PICK q \in Runs : RunBegin(q) \/ RunStep(q)
      BY <2>1
    <3>2. CASE q # r
      <4>1. run[r].day \in Nat /\ pc[r] = "send" /\ run'[r] = run[r]
        BY <1>t, <1>2, <3>1, <3>2, OtherRuns DEF TypeOK, RunRecords
      <4> QED BY <1>t, <4>1 DEF DayInv
    <3>3. CASE q = r
      <4>1. RunApply(r)
        BY <1>2, <3>1, <3>3, BeginEffect, EndEffect, ConfigEffect, LoadEffect, MailEffect,
           SkipEffect, AddEffect, SaveJobsEffect, SendEffect DEF RunStep
      <4> QED BY <1>t, <4>1, ApplyEffect
    <3> QED BY <3>2, <3>3
  <2>2. CASE ~ \E q \in Runs : RunBegin(q) \/ RunStep(q)
    <3>1. pc[r] = "send" /\ run'[r] = run[r]
      BY <1>2, <2>2, OtherSteps
    <3>2. run[r].day \in Nat
      BY <1>t DEF TypeOK, RunRecords
    <3> QED BY <1>t, <3>1, <3>2 DEF DayInv
  <2> QED BY <2>1, <2>2
<1> QED
  BY <1>1, <1>2 DEF DayInv

\* Run r takes its step alone, and on this day.
LEMMA AloneToday ==
    ASSUME TypeOK, RunExclusive, NEW r \in Runs, RunBegin(r) \/ RunStep(r)
    PROVE  /\ today' = today
           /\ \A q \in Runs \ {r} : pc[q] = "idle" /\ pc'[q] = "idle"
<1>1. today' = today
  BY TodayGrows DEF Next
<1>2. ASSUME NEW q \in Runs \ {r} PROVE pc[q] = "idle"
  <2>1. CASE RunBegin(r)
    BY <2>1 DEF RunBegin, RunExclusive, Active
  <2>2. CASE RunStep(r)
    <3>1. pc[r] # "idle"
      BY <2>2 DEF RunStep, RunConfigFails, RunNoPassword, RunConfig, RunLoad, RunMailFails,
         RunMail, RunKnownLink, RunKnownPage, RunReview, RunQueue, RunApply, NewPage,
         RunSent, RunSendFails, RunSendReplyLost, AfterSend, RunSaveJobs, RunSaveState
    <3> QED BY <3>1 DEF RunExclusive, Active
  <2> QED BY <2>1, <2>2
<1> QED
  BY <1>1, <1>2, OtherRuns

\* What becomes of the counts of run r, which alone may be sending.
LEMMA CountRunStep ==
    ASSUME TypeOK, Sending, RunExclusive, DayInv, CountInv, Regular, Regular',
           NEW r \in Runs, RunBegin(r) \/ RunStep(r)
    PROVE  /\ ~Counting(r)' => Counted(appsByDay)'
           /\ Counting(r)' \/ pc'[r] = "fetch" => Counted(run[r].counts)'
           /\ pc'[r] = "send" /\ run'[r].day < today' => sentOn'[today'] <= run'[r].counts[today']
<1>n. Next
  BY DEF Next
<1>t. /\ sentOn \in [Days -> Nat]
      /\ run[r].counts \in [Days -> Nat] /\ run[r].day \in Days
      /\ today \in Days /\ Days \subseteq Nat
  BY DEF TypeOK, RunRecords, Days
<1>d. /\ today' = today
      /\ \A q \in Runs \ {r} : pc[q] = "idle" /\ pc'[q] = "idle"
  BY AloneToday
<1>i. /\ ~Counting(r) => \A d \in Days : sentOn[d] <= appsByDay[d] + 1
      /\ Counting(r) \/ pc[r] = "fetch" => \A d \in Days : sentOn[d] <= run[r].counts[d] + 1
      /\ pc[r] = "send" /\ run[r].day < today => sentOn[today] <= run[r].counts[today]
  BY <1>d DEF CountInv, Counting, Counted
\* Nothing is sent and no count changes.
<1>1. ASSUME sentOn' = sentOn, pc'[r] # "send",
             ~Counting(r)' => ~Counting(r) /\ appsByDay' = appsByDay,
             Counting(r)' \/ pc'[r] = "fetch"
               => (Counting(r) \/ pc[r] = "fetch") /\ run'[r].counts = run[r].counts
      PROVE  /\ ~Counting(r)' => Counted(appsByDay)'
             /\ Counting(r)' \/ pc'[r] = "fetch" => Counted(run[r].counts)'
             /\ pc'[r] = "send" /\ run'[r].day < today'
                  => sentOn'[today'] <= run'[r].counts[today']
  BY <1>1, <1>i DEF Counted
<1>s. CASE ~(RunSent(r) \/ RunSendReplyLost(r))
  <2>s. sentOn' = sentOn
    BY <1>n, <1>s, <1>d, SentOnStep DEF RunSent, RunSendReplyLost, AfterSend
  <2>1. CASE RunBegin(r) \/ RunConfig(r)
    <3>1. pc[r] \in {"idle", "config"} /\ pc'[r] \in {"config", "load"} /\ appsByDay' = appsByDay
      BY <2>1, BeginEffect, ConfigEffect DEF RunBegin, RunConfig, disk
    <3> QED BY <1>1, <2>s, <3>1 DEF Counting
  <2>2. CASE RunConfigFails(r) \/ RunNoPassword(r) \/ RunMailFails(r)
    <3>1. pc[r] \in {"config", "fetch"} /\ pc'[r] = "idle" /\ appsByDay' = appsByDay
      BY <2>2, EndEffect, SaveStateCounts DEF RunConfigFails, RunNoPassword, RunMailFails, disk
    <3> QED BY <1>1, <2>s, <3>1 DEF Counting
  <2>3. CASE RunLoad(r)
    <3>1. /\ pc[r] = "load" /\ pc'[r] = "fetch" /\ appsByDay' = appsByDay
          /\ run'[r].counts = appsByDay
      BY <2>3, LoadEffect DEF RunLoad, disk, Regular
    <3> QED BY <1>i, <2>s, <3>1 DEF Counting, Counted
  <2>4. CASE RunMail(r) \/ RunKnownLink(r) \/ RunKnownPage(r) \/ RunReview(r) \/ RunQueue(r)
             \/ RunSaveJobs(r)
    <3>1. /\ pc[r] \in {"fetch", "links"} /\ pc'[r] \in {"links", "saveState"}
          /\ run'[r].counts = run[r].counts
      BY <2>4, MailEffect, SkipEffect, AddEffect, SaveJobsEffect
    <3> QED BY <1>1, <2>s, <3>1 DEF Counting
  <2>5. CASE RunApply(r)
    <3>1. /\ pc[r] = "links" /\ pc'[r] = "send" /\ run'[r].day = today
          /\ run'[r].counts = run[r].counts
      BY <2>5, ApplyEffect
    <3> QED BY <1>t, <1>d, <1>i, <2>s, <3>1 DEF Counting, Counted
  <2>6. CASE RunSendFails(r)
    <3>1. /\ pc[r] = "send" /\ pc'[r] = "links"
          /\ run'[r].counts = run[r].counts
      BY <1>s, <2>6, SendEffect
    <3> QED BY <1>1, <2>s, <3>1 DEF Counting
  <2>7. CASE RunSaveState(r)
    <3>1. pc[r] = "saveState" /\ pc'[r] = "idle" /\ appsByDay' = run[r].counts
      BY <2>7, EndEffect, SaveStateCounts DEF RunSaveState
    <3> QED BY <1>i, <2>s, <3>1 DEF Counting, Counted
  <2> QED BY <1>s, <2>1, <2>2, <2>3, <2>4, <2>5, <2>6, <2>7 DEF RunStep
\* The one that is sent is charged to the day it was decided on: that is today,
\* or today has nothing uncharged yet.
<1>c. CASE RunSent(r)
  <2>1. /\ pc[r] = "send" /\ pc'[r] = "links"
        /\ run'[r].counts = [run[r].counts EXCEPT ![run[r].day] = @ + 1]
        /\ sentOn' = [sentOn EXCEPT ![today] = Bump(@)]
    BY <1>c, SendEffect DEF RunSent, Deliver
  <2>2. run[r].day <= today
    BY <2>1 DEF DayInv
  <2>3. \A n \in Nat : Bump(n) \in Nat /\ Bump(n) <= n + 1
    BY BoundsAssumption DEF Bump
  <2>4. ASSUME NEW d \in Days PROVE sentOn'[d] <= run'[r].counts[d] + 1
    <3>t. sentOn[d] \in Nat /\ run[r].counts[d] \in Nat /\ run[r].day \in Nat /\ today \in Nat
      BY <1>t
    <3>i. sentOn[d] <= run[r].counts[d] + 1
      BY <1>i, <2>1 DEF Counting
    <3>1. CASE d # today
      <4>1. sentOn'[d] = sentOn[d]
        BY <1>t, <2>1, <3>1
      <4>2. run'[r].counts[d] = run[r].counts[d] \/ run'[r].counts[d] = run[r].counts[d] + 1
        BY <1>t, <2>1
      <4> QED BY <3>t, <3>i, <4>1, <4>2
    <3>2. CASE d = today
      <4>1. sentOn'[d] \in Nat /\ sentOn'[d] <= sentOn[d] + 1
        BY <1>t, <2>1, <2>3, <3>2
      <4>2. CASE run[r].day = today
        <5>1. run'[r].counts[d] = run[r].counts[d] + 1
          BY <1>t, <2>1, <3>2, <4>2
        <5> QED BY <3>t, <3>i, <4>1, <5>1
      <4>3. CASE run[r].day # today
        <5>1. run'[r].counts[d] = run[r].counts[d]
          BY <1>t, <2>1, <3>2, <4>3
        <5>2. sentOn[d] <= run[r].counts[d]
          BY <1>i, <2>1, <2>2, <3>t, <3>2, <4>3
        <5> QED BY <3>t, <4>1, <5>1, <5>2
      <4> QED BY <4>2, <4>3
    <3> QED BY <3>1, <3>2
  <2> QED BY <2>1, <2>4 DEF Counting, Counted
<1>l. CASE RunSendReplyLost(r)
  BY <1>l DEF RunSendReplyLost, Regular
<1> QED
  BY <1>s, <1>c, <1>l

LEMMA CountStep ==
    ASSUME TypeOK, Sending, RunExclusive, DayInv, CountInv, Next
    PROVE  CountInv'
<1> SUFFICES ASSUME Regular'
             PROVE  /\ (\A q \in Runs : ~Counting(q)') => Counted(appsByDay)'
                    /\ \A q \in Runs : Counting(q)' \/ pc'[q] = "fetch"
                            => Counted(run[q].counts)'
                    /\ \A q \in Runs : pc'[q] = "send" /\ run'[q].day < today'
                            => sentOn'[today'] <= run'[q].counts[today']
  BY DEF CountInv
<1>r. Regular
  BY MishapsMonotone DEF Regular
<1>i. /\ (\A q \in Runs : ~Counting(q)) => Counted(appsByDay)
      /\ \A q \in Runs : Counting(q) \/ pc[q] = "fetch" => Counted(run[q].counts)
      /\ \A q \in Runs : pc[q] = "send" /\ run[q].day < today
              => sentOn[today] <= run[q].counts[today]
  BY <1>r DEF CountInv
<1>1. CASE \E r \in Runs : RunBegin(r) \/ RunStep(r)
  <2>1. PICK r \in Runs : RunBegin(r) \/ RunStep(r)
    BY <1>1
  <2>2. /\ ~Counting(r)' => Counted(appsByDay)'
        /\ Counting(r)' \/ pc'[r] = "fetch" => Counted(run[r].counts)'
        /\ pc'[r] = "send" /\ run'[r].day < today' => sentOn'[today'] <= run'[r].counts[today']
    BY <1>r, <2>1, CountRunStep
  <2>3. \A q \in Runs \ {r} : pc'[q] = "idle" /\ ~Counting(q)'
    BY <2>1, AloneToday DEF Counting
  <2> QED BY <2>2, <2>3
<1>2. CASE \A r \in Runs : ~(RunBegin(r) \/ RunStep(r))
  <2>1. sentOn' = sentOn
    BY <1>2, SentOnStep DEF RunStep
  <2>2. appsByDay' = appsByDay
    <3>1. ASSUME NEW h \in Dashboards, DashboardStep(h) PROVE appsByDay' = appsByDay
      BY <3>1 DEF DashboardStep, AddVacancy, SetStatus, DashboardSave, disk
    <3>2. Surroundings => appsByDay' = appsByDay
      BY SaveStateCounts DEF Surroundings, ChangeConfig, Stop, Start, NewMail, OldMail,
         NextDay, disk
    <3> QED BY <1>2, <3>1, <3>2 DEF Next
  \* A stop that leaves no mishap finds no run active.
  <2>3. CASE Stop /\ \A r \in Runs : pc'[r] = "idle" /\ run'[r] = NoRun
    <3>1. ~agentRunning
      BY <2>3 DEF Stop, Regular
    <3>2. \A r \in Runs : ~Counting(r)
      BY <3>1 DEF RunExclusive, Active, Counting
    <3>3. Counted(appsByDay)'
      BY <1>i, <2>1, <2>2, <3>2 DEF Counted
    <3> QED BY <2>3, <3>3 DEF Counting
  <2>4. CASE UNCHANGED <<pc, run>>
    <3>1. (\A q \in Runs : ~Counting(q)') => Counted(appsByDay)'
      BY <1>i, <2>1, <2>2, <2>4 DEF Counted, Counting
    <3>2. \A q \in Runs : Counting(q)' \/ pc'[q] = "fetch" => Counted(run[q].counts)'
      BY <1>i, <2>1, <2>4 DEF Counted, Counting
    <3>3. ASSUME NEW q \in Runs, pc'[q] = "send", run'[q].day < today'
          PROVE  sentOn'[today'] <= run'[q].counts[today']
      <4>t. /\ today \in Nat /\ today' \in Nat /\ today' \in Days
            /\ run[q].counts \in [Days -> Nat]
        <5>1. today \in Days /\ run[q].counts \in [Days -> Nat]
          BY DEF TypeOK, RunRecords
        <5>2. today' = today \/ (today < NumDays /\ today' = today + 1)
          BY TodayGrows DEF NextDay
        <5> QED BY <5>1, <5>2, BoundsAssumption DEF Days
      <4>1. CASE today' = today
        BY <1>i, <2>1, <2>4, <3>3, <4>1
      <4>2. CASE today' # today
        <5>1. today' > today
          BY <4>t, <4>2, TodayGrows
        <5>2. sentOn'[today'] = 0
          BY <2>1, <4>t, <5>1 DEF DayInv
        <5>3. run'[q].counts[today'] \in Nat
          BY <2>4, <4>t
        <5> QED BY <5>2, <5>3
      <4> QED BY <4>1, <4>2
    <3> QED BY <3>1, <3>2, <3>3
  <2> QED BY <1>2, <2>3, <2>4, OtherSteps
<1> QED
  BY <1>1, <1>2

\* Without stops, lost replies and failures of state.json no day sees more than
\* one application above the highest limit, however runs, requests, midnight
\* and changes of the limit fall together.
THEOREM CapKept == Spec => []CapHeld
<1>1. Init => LimitInv /\ DayInv /\ CountInv
  <2> SUFFICES ASSUME Init PROVE LimitInv /\ DayInv /\ CountInv
    OBVIOUS
  <2>1. LimitInv
    BY TypeInit, NothingWithin, NoRunFields DEF Init, LimitInv, Limited
  <2>2. DayInv
    BY DEF Init, DayInv, NoApplications
  <2>3. CountInv
    BY DEF Init, CountInv, Counting, Counted, NoApplications
  <2> QED BY <2>1, <2>2, <2>3
<1>2. TypeOK /\ Sending /\ RunExclusive /\ LimitInv /\ DayInv /\ CountInv /\ [Next]_vars
        => LimitInv' /\ DayInv' /\ CountInv'
  <2> SUFFICES ASSUME TypeOK, Sending, RunExclusive, LimitInv, DayInv, CountInv, [Next]_vars
               PROVE  LimitInv' /\ DayInv' /\ CountInv'
    OBVIOUS
  <2>1. CASE Next
    BY <2>1, LimitRunStep, LimitOtherStep, DayStep, CountStep
  <2>2. CASE UNCHANGED vars
    <3>1. LimitInv'
      BY <2>2 DEF vars, LimitInv, Limited
    <3>2. DayInv'
      BY <2>2 DEF vars, DayInv
    <3>3. CountInv'
      BY <2>2 DEF vars, CountInv, Regular, Counting, Counted
    <3> QED BY <3>1, <3>2, <3>3
  <2> QED BY <2>1, <2>2
<1>3. TypeOK /\ LimitInv /\ CountInv => CapHeld
  <2> SUFFICES ASSUME TypeOK, LimitInv, CountInv, Regular, NEW d \in Days
               PROVE  \E c \in Configs : sentOn[d] <= c.limit + 1
    BY DEF CapHeld, Regular
  <2>t. /\ sentOn[d] \in Nat /\ appsByDay[d] \in Nat
        /\ \A r \in Runs : run[r].counts[d] \in Nat
        /\ \A c \in Configs : c.limit \in Nat
    BY ConfigsAssumption DEF TypeOK, RunRecords
  <2>1. PICK n \in Nat : Within(n) /\ sentOn[d] <= n + 1
    <3>1. CASE \E r \in Runs : Counting(r)
      BY <2>t, <3>1 DEF LimitInv, Limited, CountInv, Counted
    <3>2. CASE \A r \in Runs : ~Counting(r)
      BY <2>t, <3>2 DEF LimitInv, CountInv, Counted
    <3> QED BY <3>1, <3>2
  <2>2. PICK c \in Configs : n <= c.limit
    BY <2>1 DEF Within
  <2> QED BY <2>t, <2>1, <2>2
<1> QED
  BY <1>1, <1>2, <1>3, TypeCorrect, Exclusive, PTL DEF Spec
=============================================================================
