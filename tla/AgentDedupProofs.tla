-------------------------- MODULE AgentDedupProofs --------------------------
(***************************************************************************)
(* What jobs.json holds.  No URL is ever twice in it; every vacancy in it  *)
(* has a prepared application; the vacancies of a mail that counts as seen *)
(* have been in it; and nobody who may send forgets one applied to.        *)
(*                                                                         *)
(* Each argument is about lists first, then about the list of one run,     *)
(* then about the file and the requests that overwrite it.                 *)
(***************************************************************************)
EXTENDS AgentRunProofs

-----------------------------------------------------------------------------
(* Lists without duplicate URLs.                                           *)

\* A list without jobs.
LEMMA EmptyUnique == NoDuplicate(<< >>)
BY DEF NoDuplicate

\* Cutting a list of jobs, giving a job another status and putting a job with
\* a new URL into it keep the URLs unique.
LEMMA TakeUnique ==
    ASSUME NEW s \in Seq(Jobs), NoDuplicate(s)
    PROVE  NoDuplicate(Take(s, MaxJobs))
BY TakeType DEF NoDuplicate

\* Another status, as POST /api/jobs/<id>/status sets it.
LEMMA StatusUnique ==
    ASSUME NEW s \in Seq(Jobs), NoDuplicate(s), NEW i \in DOMAIN s, NEW v
    PROVE  NoDuplicate([s EXCEPT ![i].status = v])
<1> DEFINE t == [s EXCEPT ![i].status = v]
<1>1. DOMAIN t = DOMAIN s
  OBVIOUS
<1>2. \A j \in DOMAIN s : t[j].url = s[j].url
  <2>1. \A j \in DOMAIN s : s[j] \in Jobs
    OBVIOUS
  <2> QED BY <2>1 DEF Jobs
<1> QED
  BY <1>1, <1>2 DEF NoDuplicate

\* A run adds the job at the end of its new jobs, before the loaded ones.
LEMMA InsertUnique ==
    ASSUME NEW a \in Seq(Jobs), NEW b \in Seq(Jobs), NEW x \in Jobs,
           NoDuplicate(a \o b), x.url \notin UrlsOf(a), x.url \notin UrlsOf(b)
    PROVE  NoDuplicate(Append(a, x) \o b)
<1> DEFINE s == a \o b
           n == Append(a, x)
           t == n \o b
           m == Len(a)
           k == Len(b)
<1>1. /\ m \in Nat /\ k \in Nat
      /\ DOMAIN a = 1 .. m /\ DOMAIN b = 1 .. k
  OBVIOUS
<1>2. /\ DOMAIN s = 1 .. m + k
      /\ \A i \in 1 .. m + k : s[i] = IF i <= m THEN a[i] ELSE b[i - m]
  BY ConcatProperties
<1>3. /\ n \in Seq(Jobs) /\ Len(n) = m + 1
      /\ \A i \in 1 .. m + 1 : n[i] = IF i <= m THEN a[i] ELSE x
  BY AppendProperties
<1>4. /\ DOMAIN t = 1 .. m + 1 + k
      /\ \A i \in 1 .. m + 1 + k :
            t[i] = IF i <= m + 1 THEN n[i] ELSE b[i - (m + 1)]
  BY <1>3, ConcatProperties
<1>5. /\ \A i \in 1 .. m : a[i].url # x.url
      /\ \A i \in 1 .. k : b[i].url # x.url
  BY <1>1 DEF UrlsOf
<1>6. \A i, j \in DOMAIN s : s[i].url = s[j].url => i = j
  BY DEF NoDuplicate
<1> HIDE DEF s, n, t, m, k
<1>7. \A i \in DOMAIN t : i <= m => i \in DOMAIN s /\ t[i] = s[i]
  BY <1>1, <1>2, <1>3, <1>4
<1>8. \A i \in DOMAIN t : i > m + 1 => i - 1 \in DOMAIN s /\ t[i] = s[i - 1]
  <2> SUFFICES ASSUME NEW i \in DOMAIN t, i > m + 1
               PROVE  i - 1 \in DOMAIN s /\ t[i] = s[i - 1]
    OBVIOUS
  <2>1. i \in 1 .. m + 1 + k /\ i - 1 \in 1 .. m + k /\ ~(i - 1 <= m) /\ ~(i <= m + 1)
    BY <1>1, <1>4
  <2>2. i - (m + 1) = (i - 1) - m
    BY <1>1, <2>1
  <2> QED BY <1>2, <1>4, <2>1, <2>2
<1>9. t[m + 1] = x /\ \A i \in DOMAIN t : i \in Int
  BY <1>1, <1>3, <1>4
<1>10. \A i \in DOMAIN s : s[i].url # x.url
  BY <1>1, <1>2, <1>5
<1>11. ASSUME NEW i \in DOMAIN t, NEW j \in DOMAIN t, t[i].url = t[j].url, i < j
       PROVE  FALSE
  <2>1. CASE j <= m
    BY <1>1, <1>6, <1>7, <1>9, <1>11, <2>1
  <2>2. CASE j = m + 1
    BY <1>1, <1>7, <1>9, <1>10, <1>11, <2>2
  <2>3. CASE j > m + 1
    <3>1. j - 1 \in DOMAIN s /\ t[j] = s[j - 1]
      BY <1>8, <2>3
    <3>2. CASE i <= m
      BY <1>1, <1>6, <1>7, <1>9, <1>11, <2>3, <3>1, <3>2
    <3>3. CASE i = m + 1
      BY <1>9, <1>10, <1>11, <3>1, <3>3
    <3>4. CASE i > m + 1
      <4>1. i - 1 \in DOMAIN s /\ t[i] = s[i - 1]
        BY <1>8, <3>4
      <4>2. i - 1 = j - 1
        BY <1>6, <1>11, <3>1, <4>1
      <4> QED BY <1>9, <1>11, <4>2
    <3> QED BY <1>1, <1>9, <3>2, <3>3, <3>4
  <2> QED BY <1>1, <1>9, <2>1, <2>2, <2>3
<1>12. \A i, j \in DOMAIN t : t[i].url = t[j].url => i = j
  BY <1>9, <1>11
<1> QED
  BY <1>12 DEF NoDuplicate, t, n

\* A dashboard request puts it in front of all.
LEMMA InFrontUnique ==
    ASSUME NEW b \in Seq(Jobs), NEW x \in Jobs, NoDuplicate(b), x.url \notin UrlsOf(b)
    PROVE  NoDuplicate(<<x>> \o b)
<1>1. << >> \in Seq(Jobs) /\ << >> \o b = b /\ Append(<< >>, x) = <<x>>
  BY EmptySeq, ConcatEmptySeq
<1>2. UrlsOf(<< >>) = {}
  BY DEF UrlsOf
<1> QED
  BY <1>1, <1>2, InsertUnique

-----------------------------------------------------------------------------
(* The inductive invariant.                                                *)

\* What a run keeps of its own list: no URL twice, the page it sends for is not
\* in the list yet, and nothing is added before the links are looked at.
OwnUnique(r) ==
    /\ NoDuplicate(run[r].added \o run[r].base)
    /\ pc[r] = "send" => run[r].url \notin Known(r)
    /\ pc[r] \in {"idle", "config", "load", "fetch"} => run[r].added = << >>

\* The strengthening of TrackedOnce that every step keeps.
DedupInv ==
    /\ NoDuplicate(jobsFile)
    /\ \A h \in Dashboards : NoDuplicate(dash[h])
    /\ \A r \in Runs : OwnUnique(r)

\* The file keeps its URLs unique when a list is saved that has them unique.
LEMMA SaveJobsUnique ==
    ASSUME NoDuplicate(jobsFile), NEW s \in Seq(Jobs), NoDuplicate(s), SaveJobs(s)
    PROVE  NoDuplicate(jobsFile')
<1>1. jobsFile' = Take(s, MaxJobs) \/ jobsFile' = jobsFile \/ jobsFile' = << >>
  BY DEF SaveJobs
<1> QED
  BY <1>1, TakeUnique, EmptyUnique

\* The list of a run that has added nothing is the list it has loaded.
LEMMA EmptyInFront ==
    ASSUME NEW b \in Seq(Jobs)
    PROVE  << >> \o b = b
BY ConcatEmptySeq

\* Adding a page that is not tracked keeps the list of the run unique.
LEMMA AddUnique ==
    ASSUME TypeOK, NEW r \in Runs, OwnUnique(r), NEW x \in Jobs,
           x.url \notin Known(r), run' \in [Runs -> RunRecords],
           run'[r].added = Append(run[r].added, x), run'[r].base = run[r].base,
           pc'[r] = "links"
    PROVE  OwnUnique(r)'
<1>1. run[r].added \in Seq(Jobs) /\ run[r].base \in Seq(Jobs)
  BY DEF TypeOK, RunRecords
<1>2. x.url \notin UrlsOf(run[r].added) /\ x.url \notin UrlsOf(run[r].base)
  BY DEF Known
<1>3. NoDuplicate(run[r].added \o run[r].base)
  BY DEF OwnUnique
<1>4. NoDuplicate(Append(run[r].added, x) \o run[r].base)
  BY <1>1, <1>2, <1>3, InsertUnique
<1> QED
  BY <1>4 DEF OwnUnique

\* A run that ends forgets its list.
LEMMA EndUnique ==
    ASSUME TypeOK, NEW r \in Runs, RunEnd(r)
    PROVE  OwnUnique(r)'
<1>1. run'[r] = NoRun /\ pc'[r] = "idle"
  BY DEF TypeOK, RunEnd, Becomes
<1>2. NoRun.added = << >> /\ NoRun.base = << >>
  BY DEF NoRun
<1>3. << >> \o << >> = << >>
  OBVIOUS
<1> QED
  BY <1>1, <1>2, <1>3, EmptyUnique DEF OwnUnique

\* What a step of a run does to its own list.
LEMMA OwnUniqueStep ==
    ASSUME TypeOK, Sending, DedupInv, NEW r \in Runs, RunBegin(r) \/ RunStep(r)
    PROVE  OwnUnique(r)'
<1>t. /\ run \in [Runs -> RunRecords] /\ run[r] \in RunRecords
      /\ pc \in [Runs -> PCs]
      /\ OwnUnique(r)
  BY DEF TypeOK, PCs, DedupInv
\* Most steps leave the list as it is.
<1>1. ASSUME run'[r].added = run[r].added, run'[r].base = run[r].base,
             pc'[r] # "send",
             pc'[r] \in {"idle", "config", "load", "fetch"}
               => pc[r] \in {"idle", "config", "load", "fetch"}
      PROVE  OwnUnique(r)'
  BY <1>t, <1>1 DEF OwnUnique
<1>2. CASE RunBegin(r)
  BY <1>t, <1>1, <1>2 DEF RunBegin
<1>3. CASE RunConfigFails(r) \/ RunNoPassword(r) \/ RunMailFails(r) \/ RunSaveState(r)
  BY <1>3, EndUnique DEF RunConfigFails, RunNoPassword, RunMailFails, RunSaveState
<1>4. CASE RunConfig(r)
  <2>1. run'[r].added = run[r].added /\ run'[r].base = run[r].base
    BY <1>t, <1>4 DEF RunConfig, Becomes, RunRecords
  <2> QED BY <1>t, <1>1, <1>4, <2>1 DEF RunConfig
<1>5. CASE RunLoad(r)
  <2>0. PICK hit \in Failures({"read state", "read jobs"}) :
          Becomes(r, [run[r] EXCEPT
              !.seen = IF "read state" \in hit THEN {} ELSE seenIds,
              !.counts = IF "read state" \in hit THEN NoApplications ELSE appsByDay,
              !.base = LoadedJobs(hit)])
    BY <1>5 DEF RunLoad
  <2> DEFINE ids == IF "read state" \in hit THEN {} ELSE seenIds
             counts == IF "read state" \in hit THEN NoApplications ELSE appsByDay
  <2>1. run'[r].base = LoadedJobs(hit) /\ run'[r].added = run[r].added
    <3>1. run'[r] = [run[r] EXCEPT !.seen = ids, !.counts = counts,
                                   !.base = LoadedJobs(hit)]
      BY <1>t, <2>0 DEF Becomes
    <3> HIDE DEF ids, counts
    <3> QED BY <1>t, <3>1 DEF RunRecords
  <2>2. run[r].added = << >>
    BY <1>t, <1>5 DEF OwnUnique, RunLoad
  <2>3. LoadedJobs(hit) \in Seq(Jobs) /\ NoDuplicate(LoadedJobs(hit))
    BY EmptySeq, EmptyUnique DEF LoadedJobs, TypeOK, DedupInv
  <2>4. NoDuplicate(run'[r].added \o run'[r].base)
    BY <2>1, <2>2, <2>3, EmptyInFront
  <2>5. pc'[r] = "fetch"
    BY <1>t, <1>5 DEF RunLoad
  <2> QED BY <2>1, <2>2, <2>4, <2>5 DEF OwnUnique
<1>6. CASE RunMail(r)
  <2>1. run'[r].added = run[r].added /\ run'[r].base = run[r].base
    BY <1>t, <1>6 DEF RunMail, Becomes, RunRecords
  <2> QED BY <1>t, <1>1, <1>6, <2>1 DEF RunMail
<1>7. CASE RunKnownLink(r) \/ RunKnownPage(r)
  <2>1. run'[r].added = run[r].added /\ run'[r].base = run[r].base
    BY <1>t, <1>7 DEF RunKnownLink, RunKnownPage, Becomes, RunRecords
  <2> QED BY <1>t, <1>1, <1>7, <2>1 DEF RunKnownLink, RunKnownPage
<1>8. CASE RunReview(r) \/ RunQueue(r)
  <2>1. PICK t \in run[r].todo : \E u \in PageURLs(t[2]), s \in Statuses :
          NewPage(r, t, u) /\ Becomes(r, AddJob(r, t, u, s))
    BY <1>8 DEF RunReview, RunQueue, Verdicts, Statuses, RunStatuses
  <2>2. PICK u \in PageURLs(t[2]), s \in Statuses :
          NewPage(r, t, u) /\ Becomes(r, AddJob(r, t, u, s))
    BY <2>1
  <2>3. u \in Links /\ AddJob(r, t, u, s) \in RunRecords
    BY <2>2, NewPageType
  <2> DEFINE x == [url |-> u, status |-> s]
  <2>4. x \in Jobs /\ x.url = u
    BY <2>3 DEF Jobs
  <2>5. run'[r] = AddJob(r, t, u, s) /\ run' \in [Runs -> RunRecords]
    BY <1>t, <2>2, <2>3, BecomesType
  <2>6. run'[r].added = Append(run[r].added, x) /\ run'[r].base = run[r].base
    BY <1>t, <2>5 DEF AddJob, RunRecords
  <2>7. u \notin Known(r) /\ pc'[r] = "links"
    BY <1>8, <2>2 DEF NewPage, RunReview, RunQueue
  <2> HIDE DEF x
  <2> QED BY <1>t, <2>4, <2>5, <2>6, <2>7, AddUnique
<1>9. CASE RunApply(r)
  <2>1. PICK t \in run[r].todo : \E u \in PageURLs(t[2]) :
          /\ NewPage(r, t, u)
          /\ Becomes(r, [run[r] EXCEPT !.todo = @ \ {t}, !.url = u, !.day = today])
    BY <1>9 DEF RunApply
  <2>2. PICK u \in PageURLs(t[2]) :
          /\ NewPage(r, t, u)
          /\ Becomes(r, [run[r] EXCEPT !.todo = @ \ {t}, !.url = u, !.day = today])
    BY <2>1
  <2>3. /\ run'[r].added = run[r].added /\ run'[r].base = run[r].base
        /\ run'[r].url = u
    BY <1>t, <2>2 DEF Becomes, RunRecords
  <2>4. u \notin Known(r) /\ pc'[r] = "send"
    BY <1>t, <1>9, <2>2 DEF NewPage, RunApply
  <2>5. u \notin Known(r)'
    BY <2>3, <2>4 DEF Known
  <2> QED BY <1>t, <2>3, <2>4, <2>5 DEF OwnUnique
<1>10. CASE RunSent(r) \/ RunSendFails(r) \/ RunSendReplyLost(r)
  <2>1. PICK s \in Statuses : AfterSend(r, s)
    BY <1>10 DEF RunSent, RunSendFails, RunSendReplyLost, Statuses, RunStatuses
  <2> DEFINE x == [url |-> run[r].url, status |-> s]
  <2>2. run[r].url \in Links /\ run' \in [Runs -> RunRecords]
    BY <2>1, AfterSendType
  <2>3. x \in Jobs /\ x.url = run[r].url
    BY <2>2 DEF Jobs
  <2>4. run'[r] = AddSent(r, s) /\ pc[r] = "send" /\ pc'[r] = "links"
    BY <1>t, <2>1 DEF AfterSend, Becomes
  <2>5. run'[r].added = Append(run[r].added, x) /\ run'[r].base = run[r].base
    BY <1>t, <2>4 DEF AddSent, RunRecords
  <2>6. run[r].url \notin Known(r)
    BY <1>t, <2>4 DEF OwnUnique
  <2> HIDE DEF x
  <2> QED BY <1>t, <2>2, <2>3, <2>4, <2>5, <2>6, AddUnique
<1>11. CASE RunSaveJobs(r)
  BY <1>t, <1>1, <1>11 DEF RunSaveJobs
<1> QED
  BY <1>2, <1>3, <1>4, <1>5, <1>6, <1>7, <1>8, <1>9, <1>10, <1>11 DEF RunStep

\* The file, the requests and every run, after a step of run r.
LEMMA DedupRunStep ==
    ASSUME TypeOK, Sending, DedupInv, NEW r \in Runs, RunBegin(r) \/ RunStep(r)
    PROVE  DedupInv'
<1>1. \A q \in Runs : OwnUnique(q)'
  BY OtherRuns, OwnUniqueStep DEF DedupInv, OwnUnique, Known
<1>2. NoDuplicate(jobsFile')
  <2>1. CASE RunSaveJobs(r)
    <3>1. run[r].added \o run[r].base \in Seq(Jobs)
      BY ConcatProperties DEF TypeOK, RunRecords
    <3> QED BY <2>1, <3>1, SaveJobsUnique DEF RunSaveJobs, DedupInv, OwnUnique
  <2>2. CASE ~RunSaveJobs(r)
    <3>1. jobsFile' = jobsFile
      BY <2>2 DEF RunStep, RunBegin, RunConfigFails, RunNoPassword, RunConfig,
         RunLoad, RunMailFails, RunMail, RunKnownLink, RunKnownPage, RunReview,
         RunQueue, RunApply, RunSent, RunSendFails, RunSendReplyLost, AfterSend,
         RunSaveState, disk
    <3> QED BY <3>1 DEF DedupInv
  <2> QED BY <2>1, <2>2
<1>3. \A h \in Dashboards : NoDuplicate(dash'[h])
  BY OtherRuns DEF DedupInv
<1> QED
  BY <1>1, <1>2, <1>3 DEF DedupInv

\* ... after a step of request h ...
LEMMA DedupDashboardStep ==
    ASSUME TypeOK, DedupInv, NEW h \in Dashboards, DashboardStep(h)
    PROVE  DedupInv'
<1>t. dash \in [Dashboards -> Seq(Jobs)] /\ jobsFile \in Seq(Jobs)
  BY DEF TypeOK
<1>1. \A r \in Runs : OwnUnique(r)'
  <2>1. UNCHANGED <<pc, run>>
    BY DEF DashboardStep, AddVacancy, SetStatus, DashboardSave
  <2> QED BY <2>1 DEF DedupInv, OwnUnique, Known
<1>2. CASE AddVacancy(h)
  <2>1. PICK l \in Links, hit \in Failures({"read jobs", "write package"}) :
          /\ Final[l] \notin UrlsOf(LoadedJobs(hit))
          /\ dash' = [dash EXCEPT ![h] = <<AddedJob(l)>> \o LoadedJobs(hit)]
    BY <1>2 DEF AddVacancy
  <2>2. AddedJob(l) \in Jobs /\ AddedJob(l).url = Final[l]
    BY LinksAssumption DEF Jobs, Statuses, RunStatuses, AddedJob
  <2>3. LoadedJobs(hit) \in Seq(Jobs) /\ NoDuplicate(LoadedJobs(hit))
    BY <1>t, EmptySeq, EmptyUnique DEF LoadedJobs, DedupInv
  <2>4. NoDuplicate(<<AddedJob(l)>> \o LoadedJobs(hit))
    BY <2>1, <2>2, <2>3, InFrontUnique
  <2>5. \A g \in Dashboards : NoDuplicate(dash'[g])
    BY <1>t, <2>1, <2>4 DEF DedupInv
  <2>6. jobsFile' = jobsFile
    BY <1>2 DEF AddVacancy
  <2> QED BY <1>1, <2>5, <2>6 DEF DedupInv
<1>3. CASE SetStatus(h)
  <2>1. PICK i \in DOMAIN jobsFile, s \in ManualStatuses :
          dash' = [dash EXCEPT ![h] = [jobsFile EXCEPT ![i].status = s]]
    BY <1>3 DEF SetStatus
  <2>2. NoDuplicate([jobsFile EXCEPT ![i].status = s])
    BY <1>t, StatusUnique DEF DedupInv
  <2>3. \A g \in Dashboards : NoDuplicate(dash'[g])
    BY <1>t, <2>1, <2>2 DEF DedupInv
  <2>4. jobsFile' = jobsFile
    BY <1>3 DEF SetStatus, disk
  <2> QED BY <1>1, <2>3, <2>4 DEF DedupInv
<1>4. CASE DashboardSave(h)
  <2>1. dash[h] \in Seq(Jobs) /\ NoDuplicate(dash[h]) /\ NoDuplicate(jobsFile)
    BY <1>t DEF DedupInv
  <2>2. NoDuplicate(jobsFile')
    BY <1>4, <2>1, SaveJobsUnique DEF DashboardSave
  <2>3. \A g \in Dashboards : NoDuplicate(dash'[g])
    BY <1>t, <1>4, EmptyUnique DEF DashboardSave, DedupInv
  <2> QED BY <1>1, <2>2, <2>3 DEF DedupInv
<1> QED
  BY <1>2, <1>3, <1>4 DEF DashboardStep

\* ... and after a step of the surroundings.
LEMMA DedupSurroundings ==
    ASSUME TypeOK, DedupInv, Surroundings
    PROVE  DedupInv'
<1>1. CASE Stop
  <2>1. /\ jobsFile' = jobsFile
        /\ \A h \in Dashboards : dash'[h] = << >>
        /\ \A r \in Runs : pc'[r] = "idle" /\ run'[r] = NoRun
    BY <1>1 DEF Stop, disk
  <2>2. NoRun.added = << >> /\ NoRun.base = << >> /\ << >> \o << >> = << >>
    BY DEF NoRun
  <2>3. \A r \in Runs : OwnUnique(r)'
    BY <2>1, <2>2, EmptyUnique DEF OwnUnique
  <2> QED BY <2>1, <2>3, EmptyUnique DEF DedupInv
<1>2. CASE ~Stop
  <2>1. UNCHANGED <<jobsFile, dash, pc, run>>
    BY <1>2 DEF Surroundings, ChangeConfig, Start, NewMail, OldMail, NextDay,
       disk, process
  <2> QED BY <2>1 DEF DedupInv, OwnUnique, Known
<1> QED
  BY <1>1, <1>2

\* Every state has it.
LEMMA DedupHolds == Spec => []DedupInv
<1>1. Init => DedupInv
  <2> SUFFICES ASSUME Init PROVE DedupInv
    OBVIOUS
  <2>1. NoRun.added = << >> /\ NoRun.base = << >> /\ << >> \o << >> = << >>
    BY DEF NoRun
  <2>2. \A r \in Runs : OwnUnique(r)
    BY <2>1, EmptyUnique DEF Init, OwnUnique
  <2> QED BY <2>2, EmptyUnique DEF Init, DedupInv
<1>2. TypeOK /\ Sending /\ DedupInv /\ [Next]_vars => DedupInv'
  <2> SUFFICES ASSUME TypeOK, Sending, DedupInv, [Next]_vars
               PROVE  DedupInv'
    OBVIOUS
  <2>1. CASE Next
    BY <2>1, DedupRunStep, DedupDashboardStep, DedupSurroundings DEF Next
  <2>2. CASE UNCHANGED vars
    BY <2>2 DEF vars, DedupInv, OwnUnique, Known
  <2> QED BY <2>1, <2>2
<1> QED
  BY <1>1, <1>2, TypeCorrect, PTL DEF Spec

\* No URL is ever twice in jobs.json nor in a list about to be saved there.
THEOREM Dedup == Spec => []TrackedOnce
<1>1. DedupInv => TrackedOnce
  BY DEF DedupInv, OwnUnique, TrackedOnce
<1> QED
  BY <1>1, DedupHolds, PTL

-----------------------------------------------------------------------------
(* The prepared application of a tracked vacancy.                          *)

\* The page is tracked, known to a request or a run, or about to be sent, only
\* after its application was prepared.
PackageInv ==
    "write package" \notin mishaps =>
        /\ UrlsOf(jobsFile) \subseteq packages
        /\ \A h \in Dashboards : UrlsOf(dash[h]) \subseteq packages
        /\ \A r \in Runs : Known(r) \subseteq packages
        /\ \A r \in Runs : pc[r] = "send" => run[r].url \in packages

LEMMA WritePackageEffect ==
    ASSUME NEW u, WritePackage(u), "write package" \notin mishaps'
    PROVE  packages' = packages \cup {u}
BY DEF WritePackage, Failures

\* A step of run r that adds no job of its own.
LEMMA PackageRunStep ==
    ASSUME TypeOK, Sending, PackageInv, NEW r \in Runs, RunBegin(r) \/ RunStep(r)
    PROVE  PackageInv'
<1> SUFFICES ASSUME "write package" \notin mishaps'
             PROVE  /\ UrlsOf(jobsFile') \subseteq packages'
                    /\ \A h \in Dashboards : UrlsOf(dash'[h]) \subseteq packages'
                    /\ \A q \in Runs : Known(q)' \subseteq packages'
                    /\ \A q \in Runs : pc'[q] = "send" => run'[q].url \in packages'
  BY DEF PackageInv
<1>t. /\ run[r].base \in Seq(Jobs) /\ run[r].added \in Seq(Jobs)
      /\ jobsFile \in Seq(Jobs)
  BY DEF TypeOK, RunRecords
<1>i. /\ UrlsOf(jobsFile) \subseteq packages
      /\ \A h \in Dashboards : UrlsOf(dash[h]) \subseteq packages
      /\ \A q \in Runs : Known(q) \subseteq packages
      /\ \A q \in Runs : pc[q] = "send" => run[q].url \in packages
  BY MishapsMonotone DEF PackageInv, Next
<1>o. dash' = dash /\ \A q \in Runs \ {r} : pc'[q] = pc[q] /\ run'[q] = run[q]
  BY OtherRuns
\* It is enough to look at the file and at run r.
<1>1. ASSUME packages \subseteq packages', UrlsOf(jobsFile') \subseteq packages',
             UrlsOf(run'[r].base) \cup UrlsOf(run'[r].added) \subseteq packages',
             pc'[r] = "send" => run'[r].url \in packages'
      PROVE  /\ UrlsOf(jobsFile') \subseteq packages'
             /\ \A h \in Dashboards : UrlsOf(dash'[h]) \subseteq packages'
             /\ \A q \in Runs : Known(q)' \subseteq packages'
             /\ \A q \in Runs : pc'[q] = "send" => run'[q].url \in packages'
  <2>1. ASSUME NEW q \in Runs
        PROVE  Known(q)' \subseteq packages' /\ (pc'[q] = "send" => run'[q].url \in packages')
    <3>1. CASE q = r
      BY <1>1, <3>1 DEF Known
    <3>2. CASE q # r
      BY <1>1, <1>i, <1>o, <3>2 DEF Known
    <3> QED BY <3>1, <3>2
  <2> QED BY <1>1, <1>i, <1>o, <2>1
<1>k. UrlsOf(run[r].base) \cup UrlsOf(run[r].added) \subseteq packages
  BY <1>i DEF Known
<1>2. CASE RunBegin(r) \/ RunConfig(r) \/ RunMail(r) \/ RunKnownLink(r) \/ RunKnownPage(r)
  <2>1. jobsFile' = jobsFile /\ packages' = packages
    BY <1>2 DEF RunBegin, RunConfig, RunMail, RunKnownLink, RunKnownPage, disk
  <2>2. run'[r].base = run[r].base /\ run'[r].added = run[r].added /\ pc'[r] # "send"
    BY <1>2, BeginEffect, ConfigEffect, MailEffect, SkipEffect DEF SameBatch
  <2> QED BY <1>1, <1>i, <1>k, <2>1, <2>2
<1>3. CASE RunConfigFails(r) \/ RunNoPassword(r) \/ RunMailFails(r) \/ RunSaveState(r)
  <2>1. jobsFile' = jobsFile /\ packages' = packages
    BY <1>3 DEF RunConfigFails, RunNoPassword, RunMailFails, RunSaveState, disk
  <2>2. run'[r].base = << >> /\ run'[r].added = << >> /\ pc'[r] # "send"
    BY <1>3, EndEffect, NoRunFields
  <2> QED BY <1>1, <1>i, <2>1, <2>2, UrlsOfEmpty
<1>4. CASE RunLoad(r)
  <2>1. jobsFile' = jobsFile /\ packages' = packages
    BY <1>4 DEF RunLoad, disk
  <2>2. run'[r].base \in {jobsFile, << >>} /\ run'[r].added = run[r].added /\ pc'[r] # "send"
    BY <1>4, LoadEffect DEF LoadedJobs
  <2>3. UrlsOf(run'[r].base) \subseteq packages
    BY <1>i, <2>2, UrlsOfEmpty
  <2> QED BY <1>1, <1>i, <1>k, <2>1, <2>2, <2>3
<1>5. CASE RunReview(r) \/ RunQueue(r)
  <2>1. PICK t \in run[r].todo : \E u \in PageURLs(t[2]) :
          /\ WritePackage(u) /\ pc'[r] = "links" /\ Adds(r, u)
          /\ run'[r].base = run[r].base
    BY <1>5, AddEffect DEF SameBatch
  <2>2. PICK u \in PageURLs(t[2]) :
          /\ WritePackage(u) /\ pc'[r] = "links" /\ Adds(r, u)
          /\ run'[r].base = run[r].base
    BY <2>1
  <2>3. packages' = packages \cup {u} /\ jobsFile' = jobsFile
    BY <1>5, <2>2, WritePackageEffect DEF RunReview, RunQueue
  <2> QED BY <1>1, <1>i, <1>k, <2>2, <2>3 DEF Adds
<1>6. CASE RunApply(r)
  <2>1. /\ WritePackage(run'[r].url)
        /\ run'[r].added = run[r].added /\ run'[r].base = run[r].base
    BY <1>6, ApplyEffect DEF SameBatch
  <2>2. packages' = packages \cup {run'[r].url} /\ jobsFile' = jobsFile
    BY <1>6, <2>1, WritePackageEffect DEF RunApply
  <2> QED BY <1>1, <1>i, <1>k, <2>1, <2>2
<1>7. CASE RunSent(r) \/ RunSendFails(r) \/ RunSendReplyLost(r)
  <2>1. /\ Adds(r, run[r].url) /\ pc[r] = "send" /\ pc'[r] = "links"
        /\ run'[r].base = run[r].base
    BY <1>7, SendEffect DEF SameBatch
  <2>2. packages' = packages /\ jobsFile' = jobsFile
    BY <1>7 DEF RunSent, RunSendFails, RunSendReplyLost, AfterSend, disk
  <2> QED BY <1>1, <1>i, <1>k, <2>1, <2>2 DEF Adds
<1>8. CASE RunSaveJobs(r)
  <2>1. /\ pc'[r] = "saveState" /\ run'[r] = run[r]
        /\ SaveJobs(run[r].added \o run[r].base)
        /\ run[r].added \o run[r].base \in Seq(Jobs)
    BY <1>8, SaveJobsEffect
  <2>2. UrlsOf(jobsFile') \subseteq UrlsOf(run[r].added \o run[r].base) \cup UrlsOf(jobsFile)
    BY <2>1, SaveJobsResult
  <2>4. UrlsOf(run[r].added \o run[r].base) \subseteq packages
    BY <1>t, <1>k, UrlsOfConcat
  <2>3. packages' = packages /\ UrlsOf(jobsFile') \subseteq packages
    BY <1>8, <1>i, <2>2, <2>4 DEF RunSaveJobs
  <2> QED BY <1>1, <1>k, <2>1, <2>3
<1> QED
  BY <1>2, <1>3, <1>4, <1>5, <1>6, <1>7, <1>8 DEF RunStep

LEMMA PackageDashboardStep ==
    ASSUME TypeOK, PackageInv, NEW h \in Dashboards, DashboardStep(h)
    PROVE  PackageInv'
<1> SUFFICES ASSUME "write package" \notin mishaps'
             PROVE  /\ UrlsOf(jobsFile') \subseteq packages'
                    /\ \A g \in Dashboards : UrlsOf(dash'[g]) \subseteq packages'
                    /\ \A q \in Runs : Known(q)' \subseteq packages'
                    /\ \A q \in Runs : pc'[q] = "send" => run'[q].url \in packages'
  BY DEF PackageInv
<1>t. dash \in [Dashboards -> Seq(Jobs)] /\ jobsFile \in Seq(Jobs)
  BY DEF TypeOK
<1>i. /\ UrlsOf(jobsFile) \subseteq packages
      /\ \A g \in Dashboards : UrlsOf(dash[g]) \subseteq packages
      /\ \A q \in Runs : Known(q) \subseteq packages
      /\ \A q \in Runs : pc[q] = "send" => run[q].url \in packages
  BY MishapsMonotone DEF PackageInv, Next
<1>1. UNCHANGED <<pc, run>>
  BY DEF DashboardStep, AddVacancy, SetStatus, DashboardSave
<1>2. ASSUME packages \subseteq packages'
      PROVE  /\ \A q \in Runs : Known(q)' \subseteq packages'
             /\ \A q \in Runs : pc'[q] = "send" => run'[q].url \in packages'
  BY <1>1, <1>2, <1>i DEF Known
<1>3. CASE AddVacancy(h)
  <2>1. PICK l \in Links, hit \in Failures({"read jobs", "write package"}) :
          /\ dash' = [dash EXCEPT ![h] = <<AddedJob(l)>> \o LoadedJobs(hit)]
          /\ packages' = IF "write package" \in hit THEN packages
                         ELSE packages \cup {Final[l]}
          /\ mishaps' = mishaps \cup hit
    BY <1>3 DEF AddVacancy
  <2>2. packages' = packages \cup {Final[l]} /\ jobsFile' = jobsFile
    BY <1>3, <2>1 DEF AddVacancy
  <2>3. AddedJob(l) \in Jobs /\ AddedJob(l).url = Final[l]
    BY LinksAssumption DEF Jobs, Statuses, RunStatuses, AddedJob
  <2>4. LoadedJobs(hit) \in Seq(Jobs) /\ UrlsOf(LoadedJobs(hit)) \subseteq packages
    BY <1>t, <1>i, EmptySeq, UrlsOfEmpty DEF LoadedJobs
  <2>5. UrlsOf(<<AddedJob(l)>> \o LoadedJobs(hit)) \subseteq packages'
    <3>1. <<AddedJob(l)>> \in Seq(Jobs) /\ UrlsOf(<<AddedJob(l)>>) = {Final[l]}
      BY <2>3, UrlsOfOne
    <3> QED BY <2>2, <2>4, <3>1, UrlsOfConcat
  <2>6. \A g \in Dashboards : UrlsOf(dash'[g]) \subseteq packages'
    BY <1>t, <1>i, <2>1, <2>2, <2>5
  <2> QED BY <1>2, <1>i, <2>2, <2>6
<1>4. CASE SetStatus(h)
  <2>1. PICK i \in DOMAIN jobsFile, s \in ManualStatuses :
          dash' = [dash EXCEPT ![h] = [jobsFile EXCEPT ![i].status = s]]
    BY <1>4 DEF SetStatus
  <2>2. UrlsOf([jobsFile EXCEPT ![i].status = s]) = UrlsOf(jobsFile)
    BY <1>t, UrlsOfStatus
  <2>3. packages' = packages /\ jobsFile' = jobsFile
    BY <1>4 DEF SetStatus, disk
  <2>4. \A g \in Dashboards : UrlsOf(dash'[g]) \subseteq packages
    BY <1>t, <1>i, <2>1, <2>2
  <2> QED BY <1>2, <1>i, <2>3, <2>4
<1>5. CASE DashboardSave(h)
  <2>1. dash[h] \in Seq(Jobs) /\ SaveJobs(dash[h]) /\ packages' = packages
        /\ dash' = [dash EXCEPT ![h] = << >>]
    BY <1>5, <1>t DEF DashboardSave
  <2>2. UrlsOf(jobsFile') \subseteq packages
    BY <1>i, <2>1, SaveJobsResult
  <2>3. \A g \in Dashboards : UrlsOf(dash'[g]) \subseteq packages
    BY <1>t, <1>i, <2>1, UrlsOfEmpty
  <2> QED BY <1>2, <2>1, <2>2, <2>3
<1> QED
  BY <1>3, <1>4, <1>5 DEF DashboardStep

LEMMA PackageSurroundings ==
    ASSUME TypeOK, PackageInv, Surroundings
    PROVE  PackageInv'
<1>0. mishaps \subseteq mishaps'
  BY MishapsMonotone DEF Next
<1>1. CASE Stop
  <2>1. /\ UNCHANGED <<jobsFile, packages>>
        /\ \A h \in Dashboards : dash'[h] = << >>
        /\ \A r \in Runs : pc'[r] = "idle" /\ run'[r] = NoRun
    BY <1>1 DEF Stop, disk
  <2> QED BY <1>0, <2>1, NoRunFields, UrlsOfEmpty DEF PackageInv, Known
<1>2. CASE ~Stop
  <2>1. UNCHANGED <<jobsFile, packages, dash, pc, run>>
    BY <1>2 DEF Surroundings, ChangeConfig, Start, NewMail, OldMail, NextDay,
       disk, process
  <2> QED BY <1>0, <2>1 DEF PackageInv, Known
<1> QED
  BY <1>1, <1>2

\* As long as no prepared application failed to be written, the dashboard has
\* one for every tracked job, whoever wrote jobs.json last and in whichever mode.
THEOREM Packages == Spec => []PackageForEveryJob
<1>1. Init => PackageInv
  BY NoRunFields, UrlsOfEmpty DEF Init, PackageInv, Known
<1>2. TypeOK /\ Sending /\ PackageInv /\ [Next]_vars => PackageInv'
  <2> SUFFICES ASSUME TypeOK, Sending, PackageInv, [Next]_vars
               PROVE  PackageInv'
    OBVIOUS
  <2>1. CASE Next
    BY <2>1, PackageRunStep, PackageDashboardStep, PackageSurroundings DEF Next
  <2>2. CASE UNCHANGED vars
    BY <2>2 DEF vars, PackageInv, Known
  <2> QED BY <2>1, <2>2
<1>3. PackageInv => PackageForEveryJob
  BY DEF PackageInv, PackageForEveryJob
<1> QED
  BY <1>1, <1>2, <1>3, TypeCorrect, PTL DEF Spec

-----------------------------------------------------------------------------
(* A mail marked seen.                                                     *)

\* jobs.json, and what a run loaded from it, was recorded when it was written.
SavedSoFar ==
    /\ UrlsOf(jobsFile) \subseteq everSaved
    /\ \A r \in Runs : UrlsOf(run[r].base) \subseteq everSaved

\* The new jobs of a run and the links it has yet to look at are no more than
\* a batch: the new jobs alone fit into jobs.json.
Left(v) == Cardinality(v.todo) + Len(v.added)

Room(r) ==
    /\ Left(run[r]) <= BatchLinks
    /\ pc[r] = "send" => Left(run[r]) < BatchLinks

LEMMA NoRunLeft == Left(NoRun) <= BatchLinks
<1>1. Cardinality({}) = 0 /\ Len(<< >>) = 0 /\ BatchLinks \in Nat
  BY FS_EmptySet, BoundsAssumption
<1> QED
  BY <1>1, NoRunFields DEF Left

\* Run r has link l of mail m still before it, has it tracked, or is sending
\* an application for its page.
Dealt(r, m, l) ==
    \/ <<m, l>> \in run[r].todo
    \/ PageURLs(l) \cap Known(r) # {}
    \/ pc[r] = "send" /\ run[r].url \in PageURLs(l)

AllCovered(S) == \A m \in S : \A l \in LinksOf[m] : Covered(l)

\* No link of a mail that run r counts as seen is forgotten: it is in the file,
\* or the run, which has yet to write the file, has it in hand.
NotForgotten(r) ==
    \A m \in run[r].seen : \A l \in LinksOf[m] :
        Covered(l) \/ (pc[r] \in {"links", "send"} /\ Dealt(r, m, l))

JobsWritten == "write jobs" \notin mishaps

SeenInv ==
    /\ SavedSoFar
    /\ \A r \in Runs : Room(r)
    /\ JobsWritten =>
        AllCovered(seenIds) /\ \A r \in Runs : NotForgotten(r)

\* The links a run may have to look at are finitely many.
LEMMA TodoFinite ==
    ASSUME TypeOK, NEW r \in Runs
    PROVE  /\ IsFiniteSet(run[r].todo)
           /\ Cardinality(run[r].todo) \in Nat
           /\ \A t \in run[r].todo : Cardinality(run[r].todo \ {t}) = Cardinality(run[r].todo) - 1
<1>1. IsFiniteSet(Mails \X Links)
  BY MailsAssumption, LinksAssumption, FS_Product
<1>2. run[r].todo \subseteq Mails \X Links
  BY DEF TypeOK, RunRecords
<1>3. IsFiniteSet(run[r].todo)
  BY <1>1, <1>2, FS_Subset
<1> QED
  BY <1>3, FS_CardinalityType, FS_RemoveElement

LEMMA RoomStep ==
    ASSUME TypeOK, Sending, DedupInv, NEW r \in Runs, Room(r), RunBegin(r) \/ RunStep(r)
    PROVE  Room(r)'
<1> DEFINE n == Cardinality(run[r].todo)
           k == Len(run[r].added)
<1>t. /\ n \in Nat /\ k \in Nat /\ BatchLinks \in Nat
      /\ run[r].added \in Seq(Jobs)
  <2>1. run[r].added \in Seq(Jobs)
    BY DEF TypeOK, RunRecords
  <2>2. BatchLinks \in Nat
    BY BoundsAssumption
  <2> QED BY <2>1, <2>2, TodoFinite
<1>i. n + k <= BatchLinks /\ (pc[r] = "send" => n + k < BatchLinks)
  BY DEF Room, Left
\* Most steps change neither.
<1>1. ASSUME run'[r].todo = run[r].todo, run'[r].added = run[r].added, pc'[r] # "send"
      PROVE  Room(r)'
  BY <1>1, <1>i DEF Room, Left
<1>2. CASE RunBegin(r) \/ RunConfig(r) \/ RunLoad(r) \/ RunSaveJobs(r)
  BY <1>1, <1>2, BeginEffect, ConfigEffect, LoadEffect, SaveJobsEffect
<1>3. CASE RunConfigFails(r) \/ RunNoPassword(r) \/ RunMailFails(r) \/ RunSaveState(r)
  <2>1. run'[r] = NoRun /\ pc'[r] = "idle"
    BY <1>3, EndEffect
  <2> QED BY <2>1, NoRunLeft DEF Room
<1>4. CASE RunMail(r)
  <2>1. PICK M \in SUBSET (inbox \ run[r].seen) :
          /\ Cardinality(LinkTasks(M)) <= BatchLinks
          /\ pc[r] = "fetch" /\ pc'[r] = "links"
          /\ run'[r].todo = LinkTasks(M) /\ run'[r].added = run[r].added
    BY <1>4, MailEffect
  <2>2. run[r].added = << >>
    BY <2>1 DEF DedupInv, OwnUnique
  <2>3. Cardinality(LinkTasks(M)) \in Nat
    <3>1. LinkTasks(M) \subseteq Mails \X Links
      BY DEF LinkTasks, TypeOK
    <3> QED BY <3>1, MailsAssumption, LinksAssumption, FS_Product, FS_Subset, FS_CardinalityType
  <2>4. Len(<< >>) = 0
    OBVIOUS
  <2> QED BY <2>1, <2>2, <2>3, <2>4 DEF Room, Left
<1>5. CASE RunKnownLink(r) \/ RunKnownPage(r)
  <2>1. PICK t \in run[r].todo :
          pc'[r] = "links" /\ run'[r].todo = run[r].todo \ {t} /\ run'[r].added = run[r].added
    BY <1>5, SkipEffect
  <2>2. Cardinality(run'[r].todo) = n - 1
    BY <2>1, TodoFinite
  <2> QED BY <1>t, <1>i, <2>1, <2>2 DEF Room, Left
<1>6. CASE RunReview(r) \/ RunQueue(r)
  <2>1. PICK t \in run[r].todo :
          pc'[r] = "links" /\ run'[r].todo = run[r].todo \ {t} /\ \E u : Adds(r, u)
    BY <1>6, AddEffect
  <2>2. Cardinality(run'[r].todo) = n - 1 /\ Len(run'[r].added) = k + 1
    BY <2>1, TodoFinite DEF Adds
  <2> QED BY <1>t, <1>i, <2>1, <2>2 DEF Room, Left
<1>7. CASE RunApply(r)
  <2>1. PICK t \in run[r].todo :
          run'[r].todo = run[r].todo \ {t} /\ run'[r].added = run[r].added
    BY <1>7, ApplyEffect
  <2>2. Cardinality(run'[r].todo) = n - 1 /\ Len(run'[r].added) = k
    BY <2>1, TodoFinite
  <2> QED BY <1>t, <1>i, <2>2 DEF Room, Left
<1>8. CASE RunSent(r) \/ RunSendFails(r) \/ RunSendReplyLost(r)
  <2>1. /\ pc[r] = "send" /\ pc'[r] = "links"
        /\ run'[r].todo = run[r].todo /\ Len(run'[r].added) = k + 1
    BY <1>8, SendEffect DEF Adds
  <2> QED BY <1>t, <1>i, <2>1 DEF Room, Left
<1> QED
  BY <1>2, <1>3, <1>4, <1>5, <1>6, <1>7, <1>8 DEF RunStep

\* What has been in the file is not forgotten.
LEMMA EverSavedGrows ==
    ASSUME TypeOK, Next
    PROVE  everSaved \subseteq everSaved' /\ \A l : Covered(l) => Covered(l)'
<1>2. ASSUME NEW r \in Runs, RunSaveJobs(r) PROVE everSaved \subseteq everSaved'
  BY <1>2, SaveJobsEffect, SaveJobsResult
<1>3. ASSUME NEW h \in Dashboards, DashboardSave(h) PROVE everSaved \subseteq everSaved'
  <2>1. dash[h] \in Seq(Jobs) /\ SaveJobs(dash[h])
    BY <1>3 DEF DashboardSave, TypeOK
  <2> QED BY <2>1, SaveJobsResult
<1>4. ASSUME NEW r \in Runs, RunBegin(r) \/ RunStep(r), ~RunSaveJobs(r)
      PROVE  everSaved' = everSaved
  BY <1>4 DEF RunStep, RunBegin, RunConfigFails, RunNoPassword, RunConfig, RunLoad,
     RunMailFails, RunMail, RunKnownLink, RunKnownPage, RunReview, RunQueue, RunApply,
     RunSent, RunSendFails, RunSendReplyLost, RunSaveState, history
<1>8. ASSUME NEW h \in Dashboards, DashboardStep(h), ~DashboardSave(h)
      PROVE  everSaved' = everSaved
  BY <1>8 DEF DashboardStep, AddVacancy, SetStatus, history
<1>9. Surroundings => everSaved' = everSaved
  BY DEF Surroundings, ChangeConfig, Stop, Start, NewMail, OldMail, NextDay, history
<1>5. everSaved \subseteq everSaved'
  BY <1>2, <1>3, <1>4, <1>8, <1>9 DEF Next
<1>6. ASSUME NEW l, PageURLs(l) \cap everSaved # {} PROVE PageURLs(l) \cap everSaved' # {}
  BY <1>5, <1>6
<1>7. \A l : Covered(l) => Covered(l)'
  BY <1>6 DEF Covered
<1> QED
  BY <1>5, <1>7

\* What is in the file, or was loaded from it, has been recorded.
LEMMA SavedSoFarStep ==
    ASSUME TypeOK, Sending, SavedSoFar, Next
    PROVE  SavedSoFar'
<1>g. everSaved \subseteq everSaved'
  BY EverSavedGrows
<1>i. /\ UrlsOf(jobsFile) \subseteq everSaved
      /\ \A q \in Runs : UrlsOf(run[q].base) \subseteq everSaved
  BY DEF SavedSoFar
<1>0. ASSUME NEW s \in Seq(Jobs), SaveJobs(s) PROVE UrlsOf(jobsFile') \subseteq everSaved'
  BY <1>0, <1>i, SaveJobsResult
<1>1. ASSUME NEW r \in Runs, RunBegin(r) \/ RunStep(r)
      PROVE  SavedSoFar'
  <2>1. UrlsOf(run'[r].base) \subseteq everSaved
    <3>1. CASE RunLoad(r)
      <4>1. run'[r].base \in {jobsFile, << >>}
        BY <3>1, LoadEffect DEF LoadedJobs
      <4> QED BY <1>i, <4>1, UrlsOfEmpty
    <3>2. CASE RunConfigFails(r) \/ RunNoPassword(r) \/ RunMailFails(r) \/ RunSaveState(r)
      BY <3>2, EndEffect, NoRunFields, UrlsOfEmpty
    <3>3. CASE RunBegin(r) \/ RunConfig(r) \/ RunMail(r) \/ RunSaveJobs(r)
      BY <1>i, <3>3, BeginEffect, ConfigEffect, MailEffect, SaveJobsEffect
    <3>4. CASE RunKnownLink(r) \/ RunKnownPage(r) \/ RunReview(r) \/ RunQueue(r)
               \/ RunApply(r) \/ RunSent(r) \/ RunSendFails(r) \/ RunSendReplyLost(r)
      <4>1. SameBatch(r)
        BY <3>4, SkipEffect, AddEffect, ApplyEffect, SendEffect
      <4> QED BY <1>i, <4>1 DEF SameBatch
    <3> QED BY <1>1, <3>1, <3>2, <3>3, <3>4 DEF RunStep
  <2>2. UrlsOf(jobsFile') \subseteq everSaved'
    <3>1. CASE RunSaveJobs(r)
      BY <1>0, <3>1, SaveJobsEffect
    <3>2. CASE ~RunSaveJobs(r)
      <4>1. jobsFile' = jobsFile
        BY <1>1, <3>2 DEF RunStep, RunBegin, RunConfigFails, RunNoPassword, RunConfig,
           RunLoad, RunMailFails, RunMail, RunKnownLink, RunKnownPage, RunReview,
           RunQueue, RunApply, RunSent, RunSendFails, RunSendReplyLost, AfterSend,
           RunSaveState, disk
      <4> QED BY <1>g, <1>i, <4>1
    <3> QED BY <3>1, <3>2
  <2>3. \A q \in Runs \ {r} : run'[q] = run[q]
    BY <1>1, OtherRuns
  <2> QED BY <1>g, <1>i, <2>1, <2>2, <2>3 DEF SavedSoFar
<1>2. ASSUME NEW h \in Dashboards, DashboardStep(h)
      PROVE  SavedSoFar'
  <2>1. run' = run
    BY <1>2 DEF DashboardStep, AddVacancy, SetStatus, DashboardSave
  <2>2. UrlsOf(jobsFile') \subseteq everSaved'
    <3>1. CASE DashboardSave(h)
      <4>1. dash[h] \in Seq(Jobs) /\ SaveJobs(dash[h])
        BY <3>1 DEF DashboardSave, TypeOK
      <4> QED BY <1>0, <4>1
    <3>2. CASE ~DashboardSave(h)
      <4>1. jobsFile' = jobsFile
        BY <1>2, <3>2 DEF DashboardStep, AddVacancy, SetStatus, disk
      <4> QED BY <1>g, <1>i, <4>1
    <3> QED BY <3>1, <3>2
  <2> QED BY <1>g, <1>i, <2>1, <2>2 DEF SavedSoFar
<1>3. CASE Surroundings
  <2>1. jobsFile' = jobsFile /\ (run' = run \/ \A q \in Runs : run'[q] = NoRun)
    BY <1>3 DEF Surroundings, ChangeConfig, Stop, Start, NewMail, OldMail, NextDay,
       disk, process
  <2> QED BY <1>g, <1>i, <2>1, NoRunFields, UrlsOfEmpty DEF SavedSoFar
<1> QED
  BY <1>1, <1>2, <1>3 DEF Next

\* What SaveState leaves of the seen mails.
LEMMA SeenStays ==
    /\ RewriteState => seenIds' \subseteq seenIds
    /\ \A ids, counts : SaveState(ids, counts) => seenIds' \subseteq seenIds \cup ids
BY DEF RewriteState, SaveState

\* When a run has looked at all of its links, its new jobs fit into jobs.json.
LEMMA NewJobsFit ==
    ASSUME TypeOK, NEW r \in Runs, Room(r), run[r].todo = {}
    PROVE  Len(run[r].added) <= MaxJobs
<1>1. Cardinality(run[r].todo) + Len(run[r].added) <= BatchLinks
  BY DEF Room, Left
<1>2. Cardinality(run[r].todo) = 0
  BY FS_EmptySet
<1>3. run[r].added \in Seq(Jobs)
  BY DEF TypeOK, RunRecords
<1>4. BatchLinks <= MaxJobs /\ BatchLinks \in Nat /\ MaxJobs \in Nat
  BY BoundsAssumption
<1>5. Len(run[r].added) \in Nat
  BY <1>3
<1> QED
  BY <1>1, <1>2, <1>4, <1>5

\* A run that is done with task t has the link of t in hand in another way.
LEMMA TaskDone ==
    ASSUME NEW r \in Runs, NEW t, pc[r] = "links",
           run'[r].todo = run[r].todo \ {t}, Known(r) \subseteq Known(r)',
           \/ PageURLs(t[2]) \cap Known(r)' # {}
           \/ pc'[r] = "send" /\ run'[r].url \in PageURLs(t[2])
    PROVE  \A m, l : Dealt(r, m, l) => Dealt(r, m, l)'
<1> SUFFICES ASSUME NEW m, NEW l, Dealt(r, m, l) PROVE Dealt(r, m, l)'
  OBVIOUS
<1>1. CASE <<m, l>> = t
  <2>1. t[2] = l
    BY <1>1
  <2> QED BY <2>1 DEF Dealt
<1>2. CASE <<m, l>> # t /\ <<m, l>> \in run[r].todo
  <2>1. <<m, l>> \in run'[r].todo
    BY <1>2
  <2> QED BY <2>1 DEF Dealt
<1>3. CASE PageURLs(l) \cap Known(r) # {}
  <2>1. PageURLs(l) \cap Known(r)' # {}
    BY <1>3
  <2> QED BY <2>1 DEF Dealt
<1> QED
  BY <1>1, <1>2, <1>3 DEF Dealt

\* No step of run r forgets a link of a mail it counts as seen.
LEMMA NotForgottenStep ==
    ASSUME TypeOK, Sending, SavedSoFar, AllCovered(seenIds),
           NEW r \in Runs, Room(r), NotForgotten(r), RunBegin(r) \/ RunStep(r),
           JobsWritten'
    PROVE  NotForgotten(r)'
<1>t. run[r].todo \subseteq Mails \X Links
  BY DEF TypeOK, RunRecords
<1>c. \A l : Covered(l) => Covered(l)'
  BY EverSavedGrows DEF Next
\* Before the mailbox is read and after jobs.json is written the run has no
\* link in hand, and none is needed.
<1>1. ASSUME AllCovered(run'[r].seen)
      PROVE  NotForgotten(r)'
  BY <1>c, <1>1 DEF AllCovered, NotForgotten
\* Between them each link in hand has to stay in hand.
<1>2. ASSUME SameBatch(r), pc[r] \in {"links", "send"}, pc'[r] \in {"links", "send"},
             \A m, l : Dealt(r, m, l) => Dealt(r, m, l)'
      PROVE  NotForgotten(r)'
  BY <1>c, <1>2 DEF NotForgotten, SameBatch
<1>3. CASE RunBegin(r) \/ RunConfig(r)
  <2>1. run'[r].seen = run[r].seen /\ pc[r] \notin {"links", "send"}
    BY <1>3, BeginEffect, ConfigEffect
  <2>2. AllCovered(run'[r].seen)
    BY <2>1 DEF NotForgotten, AllCovered
  <2> QED BY <1>1, <2>2
<1>4. CASE RunConfigFails(r) \/ RunNoPassword(r) \/ RunMailFails(r) \/ RunSaveState(r)
  <2>1. run'[r].seen = {}
    BY <1>4, EndEffect, NoRunFields
  <2> QED BY <1>1, <2>1 DEF AllCovered
<1>5. CASE RunLoad(r)
  <2>1. run'[r].seen \subseteq seenIds
    BY <1>5, LoadEffect
  <2> QED BY <1>1, <2>1 DEF AllCovered
<1>6. CASE RunMail(r)
  <2>1. PICK M \in SUBSET (inbox \ run[r].seen) :
          /\ pc[r] = "fetch" /\ pc'[r] = "links"
          /\ run'[r].seen = run[r].seen \cup M
          /\ run'[r].todo = LinkTasks(M)
    BY <1>6, MailEffect
  <2>2. \A m \in M : \A l \in LinksOf[m] : <<m, l>> \in LinkTasks(M)
    BY LinksAssumption DEF LinkTasks, TypeOK
  <2>3. \A m \in run[r].seen : \A l \in LinksOf[m] : Covered(l)
    BY <2>1 DEF NotForgotten
  <2> QED BY <1>c, <2>1, <2>2, <2>3 DEF NotForgotten, Dealt
<1>7. CASE RunKnownLink(r) \/ RunKnownPage(r)
  <2>1. PICK t \in run[r].todo :
          /\ PageURLs(t[2]) \cap Known(r) # {}
          /\ pc[r] = "links" /\ pc'[r] = "links" /\ SameBatch(r)
          /\ run'[r].todo = run[r].todo \ {t}
          /\ run'[r].added = run[r].added
    BY <1>7, SkipEffect
  <2>2. Known(r)' = Known(r)
    BY <2>1 DEF Known, SameBatch
  <2> QED BY <1>2, <2>1, <2>2, TaskDone
<1>8. CASE RunReview(r) \/ RunQueue(r)
  <2>1. PICK t \in run[r].todo : \E u \in PageURLs(t[2]) :
          /\ pc[r] = "links" /\ pc'[r] = "links" /\ SameBatch(r)
          /\ run'[r].todo = run[r].todo \ {t}
          /\ Adds(r, u)
    BY <1>8, AddEffect
  <2>2. PICK u \in PageURLs(t[2]) : Adds(r, u)
    BY <2>1
  <2>3. Known(r)' = Known(r) \cup {u}
    BY <2>1, <2>2 DEF Known, SameBatch, Adds
  <2>4. PageURLs(t[2]) \cap Known(r)' # {}
    BY <2>2, <2>3
  <2> QED BY <1>2, <2>1, <2>3, <2>4, TaskDone
<1>9. CASE RunApply(r)
  <2>1. PICK t \in run[r].todo :
          /\ run'[r].url \in PageURLs(t[2])
          /\ pc[r] = "links" /\ pc'[r] = "send" /\ SameBatch(r)
          /\ run'[r].todo = run[r].todo \ {t}
          /\ run'[r].added = run[r].added
    BY <1>9, ApplyEffect
  <2>2. Known(r)' = Known(r)
    BY <2>1 DEF Known, SameBatch
  <2> QED BY <1>2, <2>1, <2>2, TaskDone
<1>10. CASE RunSent(r) \/ RunSendFails(r) \/ RunSendReplyLost(r)
  <2>1. /\ pc[r] = "send" /\ pc'[r] = "links" /\ SameBatch(r)
        /\ run'[r].todo = run[r].todo /\ Adds(r, run[r].url)
    BY <1>10, SendEffect
  <2>2. Known(r)' = Known(r) \cup {run[r].url}
    BY <2>1 DEF Known, SameBatch, Adds
  <2>3. ASSUME NEW m, NEW l, Dealt(r, m, l) PROVE Dealt(r, m, l)'
    BY <2>1, <2>2, <2>3 DEF Dealt
  <2> QED BY <1>2, <2>1, <2>3
\* The new jobs fit into the file, and what was loaded has been there.
<1>11. CASE RunSaveJobs(r)
  <2>1. /\ pc[r] = "links" /\ run[r].todo = {} /\ run'[r] = run[r]
        /\ SaveJobs(run[r].added \o run[r].base)
        /\ run[r].added \o run[r].base \in Seq(Jobs)
    BY <1>11, SaveJobsEffect
  <2>2. Len(run[r].added) <= MaxJobs
    BY <2>1, NewJobsFit
  <2>3. UrlsOf(run[r].added) \subseteq everSaved'
    <3>1. run[r].added \in Seq(Jobs) /\ run[r].base \in Seq(Jobs)
      BY DEF TypeOK, RunRecords
    <3>2. UrlsOf(run[r].added) \subseteq UrlsOf(Take(run[r].added \o run[r].base, MaxJobs))
      BY <2>2, <3>1, FrontStays
    <3> QED BY <2>1, <3>2, SaveJobsResult DEF JobsWritten
  <2>4. UrlsOf(run[r].base) \subseteq everSaved'
    BY EverSavedGrows DEF SavedSoFar, Next
  <2>5. Known(r) \subseteq everSaved'
    BY <2>3, <2>4 DEF Known
  <2>6. \A m, l : Dealt(r, m, l) => Covered(l)'
    BY <2>1, <2>5 DEF Dealt, Covered
  <2> QED BY <1>c, <2>1, <2>6 DEF NotForgotten
<1> QED
  BY <1>3, <1>4, <1>5, <1>6, <1>7, <1>8, <1>9, <1>10, <1>11 DEF RunStep

LEMMA SeenRunStep ==
    ASSUME TypeOK, Sending, DedupInv, SeenInv, NEW r \in Runs, RunBegin(r) \/ RunStep(r)
    PROVE  SeenInv'
<1>0. Next /\ mishaps \subseteq mishaps' /\ \A l : Covered(l) => Covered(l)'
  BY MishapsMonotone, EverSavedGrows DEF Next
<1>o. \A q \in Runs \ {r} : pc'[q] = pc[q] /\ run'[q] = run[q]
  BY OtherRuns
<1>1. SavedSoFar'
  BY <1>0, SavedSoFarStep DEF SeenInv
<1>2. \A q \in Runs : Room(q)'
  <2>1. Room(r)'
    BY RoomStep DEF SeenInv
  <2>2. \A q \in Runs \ {r} : Room(q) => Room(q)'
    BY <1>o DEF Room
  <2> QED BY <2>1, <2>2 DEF SeenInv
<1>3. ASSUME JobsWritten'
      PROVE  AllCovered(seenIds)' /\ \A q \in Runs : NotForgotten(q)'
  <2>1. AllCovered(seenIds) /\ \A q \in Runs : NotForgotten(q) /\ Room(q)
    BY <1>0, <1>3 DEF SeenInv, JobsWritten
  <2>2. NotForgotten(r)'
    BY <1>3, <2>1, NotForgottenStep DEF SeenInv
  <2>3. ASSUME NEW q \in Runs \ {r} PROVE NotForgotten(q)'
    <3>1. \A m, l : Dealt(q, m, l)' <=> Dealt(q, m, l)
      BY <1>o DEF Dealt, Known
    <3> QED BY <1>0, <1>o, <2>1, <3>1 DEF NotForgotten
  <2>4. AllCovered(seenIds)'
    <3>1. CASE RunSaveState(r)
      <4>1. /\ seenIds' \subseteq seenIds \cup KeepLargest(run[r].seen, SeenLimit)
            /\ pc[r] = "saveState"
        BY <3>1, SeenStays DEF RunSaveState
      <4>2. seenIds' \subseteq seenIds \cup run[r].seen
        BY <4>1, KeepLargestSubset
      <4>3. AllCovered(run[r].seen)
        BY <2>1, <4>1 DEF NotForgotten, AllCovered
      <4> QED BY <1>0, <2>1, <4>2, <4>3 DEF AllCovered
    <3>2. CASE ~RunSaveState(r)
      <4>1. seenIds' \subseteq seenIds
        BY <3>2, SeenStays DEF RunStep, RunBegin, RunConfigFails, RunNoPassword, RunConfig,
           RunLoad, RunMailFails, RunMail, RunKnownLink, RunKnownPage, RunReview,
           RunQueue, RunApply, RunSent, RunSendFails, RunSendReplyLost, AfterSend,
           RunSaveJobs, disk
      <4> QED BY <1>0, <2>1, <4>1 DEF AllCovered
    <3> QED BY <3>1, <3>2
  <2> QED BY <2>2, <2>3, <2>4
<1> QED
  BY <1>1, <1>2, <1>3 DEF SeenInv

\* Nobody but a run changes what is seen, except that the start of the agent and
\* a stop may lose it.
LEMMA SeenOtherStep ==
    ASSUME TypeOK, Sending, SeenInv, Next, \A r \in Runs : ~(RunBegin(r) \/ RunStep(r))
    PROVE  SeenInv'
<1>0. mishaps \subseteq mishaps' /\ \A l : Covered(l) => Covered(l)'
  BY MishapsMonotone, EverSavedGrows
<1>1. SavedSoFar'
  BY SavedSoFarStep DEF SeenInv
<1>2. /\ seenIds' \subseteq seenIds
      /\ \/ UNCHANGED <<pc, run>>
         \/ \A r \in Runs : pc'[r] = "idle" /\ run'[r] = NoRun
  <2>1. ASSUME NEW h \in Dashboards, DashboardStep(h)
        PROVE  seenIds' = seenIds /\ UNCHANGED <<pc, run>>
    BY <2>1 DEF DashboardStep, AddVacancy, SetStatus, DashboardSave, disk
  <2>2. CASE Surroundings
    BY <2>2, SeenStays DEF Surroundings, ChangeConfig, Stop, Start, NewMail, OldMail,
       NextDay, disk, process
  <2> QED BY <2>1, <2>2 DEF Next
<1>3. \A r \in Runs : Room(r)'
  <2>1. CASE UNCHANGED <<pc, run>>
    BY <2>1 DEF SeenInv, Room
  <2>2. CASE \A r \in Runs : pc'[r] = "idle" /\ run'[r] = NoRun
    BY <2>2, NoRunLeft DEF Room
  <2> QED BY <1>2, <2>1, <2>2
<1>4. ASSUME JobsWritten'
      PROVE  AllCovered(seenIds)' /\ \A r \in Runs : NotForgotten(r)'
  <2>1. AllCovered(seenIds) /\ \A r \in Runs : NotForgotten(r)
    BY <1>0, <1>4 DEF SeenInv, JobsWritten
  <2>2. AllCovered(seenIds)'
    BY <1>0, <1>2, <2>1 DEF AllCovered
  <2>3. CASE UNCHANGED <<pc, run>>
    <3>1. \A r, m, l : Dealt(r, m, l)' <=> Dealt(r, m, l)
      BY <2>3 DEF Dealt, Known
    <3> QED BY <1>0, <2>1, <2>2, <2>3, <3>1 DEF NotForgotten
  <2>4. CASE \A r \in Runs : pc'[r] = "idle" /\ run'[r] = NoRun
    BY <2>2, <2>4, NoRunFields DEF NotForgotten
  <2> QED BY <1>2, <2>2, <2>3, <2>4
<1> QED
  BY <1>1, <1>3, <1>4 DEF SeenInv

\* Every state satisfies the invariant behind SeenImpliesSaved.
LEMMA SeenHolds == Spec => []SeenInv
<1>1. Init => SeenInv
  <2> SUFFICES ASSUME Init PROVE SeenInv
    OBVIOUS
  <2>1. SavedSoFar
    BY NoRunFields, UrlsOfEmpty DEF Init, SavedSoFar
  <2>2. \A r \in Runs : Room(r)
    BY NoRunLeft DEF Init, Room
  <2>3. AllCovered(seenIds) /\ \A r \in Runs : NotForgotten(r)
    BY NoRunFields DEF Init, AllCovered, NotForgotten
  <2> QED BY <2>1, <2>2, <2>3 DEF SeenInv
<1>2. TypeOK /\ Sending /\ DedupInv /\ SeenInv /\ [Next]_vars => SeenInv'
  <2> SUFFICES ASSUME TypeOK, Sending, DedupInv, SeenInv, [Next]_vars
               PROVE  SeenInv'
    OBVIOUS
  <2>1. CASE Next
    BY <2>1, SeenRunStep, SeenOtherStep
  <2>2. CASE UNCHANGED vars
    <3>1. \A r, m, l : Dealt(r, m, l)' <=> Dealt(r, m, l)
      BY <2>2 DEF vars, Dealt, Known
    <3>2. \A l : Covered(l)' <=> Covered(l)
      BY <2>2 DEF vars, Covered
    <3>3. \A r \in Runs : Room(r)' <=> Room(r)
      BY <2>2 DEF vars, Room
    <3> QED
      BY <2>2, <3>1, <3>2, <3>3
      DEF vars, SeenInv, JobsWritten, SavedSoFar, AllCovered, NotForgotten
  <2> QED BY <2>1, <2>2
<1> QED
  BY <1>1, <1>2, TypeCorrect, DedupHolds, PTL DEF Spec

\* A mail that state.json counts as seen has had its vacancies in jobs.json,
\* wherever a run was cut off: a batch fits into jobs.json, jobs.json is written
\* before state.json, and only a failed write of jobs.json breaks the order.
THEOREM SeenSaved == Spec => []SeenImpliesSaved
<1>1. SeenInv => SeenImpliesSaved
  BY DEF SeenInv, JobsWritten, SeenImpliesSaved, AllCovered
<1> QED
  BY <1>1, SeenHolds, PTL

-----------------------------------------------------------------------------
(* A vacancy applied to.                                                   *)

\* No run was cut off, no reply lost, and jobs.json was read, written and never
\* shortened: what AppliedOnce asks for.
Undisturbed ==
    mishaps \cap {"stop", "lost reply", "read jobs", "write jobs", "dropped"} = {}

\* Vacancy u is in jobs.json or in the hands of the run that will write it, and
\* a run that has loaded jobs.json and not yet written it knows of u.
Tracked(u) ==
    /\ \/ u \in UrlsOf(jobsFile)
       \/ \E r \in Runs : pc[r] \in {"links", "send"} /\ u \in UrlsOf(run[r].added)
    /\ \A r \in Runs : pc[r] \in {"fetch", "links", "send"} => u \in Known(r)

AppliedInv ==
    Undisturbed =>
        \A u \in Links : sentFor[u] > 0 => sentFor[u] = 1 /\ Tracked(u)

LEMMA UndisturbedBefore ==
    ASSUME TypeOK, Next, Undisturbed'
    PROVE  Undisturbed
BY MishapsMonotone DEF Undisturbed

\* A saved list takes nothing out of an undisturbed file.
LEMMA NothingDropped ==
    ASSUME NEW s \in Seq(Jobs), SaveJobs(s), Undisturbed'
    PROVE  UrlsOf(jobsFile) \subseteq UrlsOf(jobsFile') /\ jobsFile' = Take(s, MaxJobs)
BY SaveJobsResult DEF Undisturbed

LEMMA TrackedRunStep ==
    ASSUME TypeOK, Sending, RunExclusive, NEW r \in Runs, Room(r),
           RunBegin(r) \/ RunStep(r), Undisturbed', NEW u, Tracked(u)
    PROVE  Tracked(u)'
<1>t. /\ run[r].added \in Seq(Jobs) /\ run[r].base \in Seq(Jobs)
  BY DEF TypeOK, RunRecords
<1>o. \A q \in Runs \ {r} : pc'[q] = pc[q] /\ run'[q] = run[q]
  BY OtherRuns
<1>i. /\ \/ u \in UrlsOf(jobsFile)
         \/ \E q \in Runs : pc[q] \in {"links", "send"} /\ u \in UrlsOf(run[q].added)
      /\ \A q \in Runs : pc[q] \in {"fetch", "links", "send"}
            => u \in UrlsOf(run[q].base) \cup UrlsOf(run[q].added)
  BY DEF Tracked, Known
\* It is enough to look at the file and at run r.
<1>1. ASSUME u \in UrlsOf(jobsFile) => u \in UrlsOf(jobsFile'),
             pc[r] \in {"links", "send"} /\ u \in UrlsOf(run[r].added)
               => \/ u \in UrlsOf(jobsFile')
                  \/ pc'[r] \in {"links", "send"} /\ u \in UrlsOf(run'[r].added),
             pc'[r] \in {"fetch", "links", "send"}
               => u \in UrlsOf(run'[r].base) \cup UrlsOf(run'[r].added)
      PROVE  Tracked(u)'
  <2>1. \/ u \in UrlsOf(jobsFile')
        \/ \E q \in Runs : pc'[q] \in {"links", "send"} /\ u \in UrlsOf(run'[q].added)
    BY <1>1, <1>i, <1>o
  <2>2. \A q \in Runs : pc'[q] \in {"fetch", "links", "send"}
            => u \in UrlsOf(run'[q].base) \cup UrlsOf(run'[q].added)
    BY <1>1, <1>i, <1>o
  <2> QED BY <2>1, <2>2 DEF Tracked, Known
<1>f. CASE ~RunSaveJobs(r)
  <2>1. jobsFile' = jobsFile
    BY <1>f DEF RunStep, RunBegin, RunConfigFails, RunNoPassword, RunConfig,
       RunLoad, RunMailFails, RunMail, RunKnownLink, RunKnownPage, RunReview,
       RunQueue, RunApply, RunSent, RunSendFails, RunSendReplyLost, AfterSend,
       RunSaveState, disk
  <2>2. CASE RunBegin(r) \/ RunConfig(r)
    BY <1>1, <2>1, <2>2, BeginEffect, ConfigEffect
  <2>3. CASE RunConfigFails(r) \/ RunNoPassword(r) \/ RunMailFails(r) \/ RunSaveState(r)
    <3>1. pc[r] \notin {"links", "send"} /\ pc'[r] = "idle"
      BY <2>3, EndEffect DEF RunConfigFails, RunNoPassword, RunMailFails, RunSaveState
    <3> QED BY <1>1, <2>1, <3>1
  <2>4. CASE RunLoad(r)
    <3>1. pc[r] = "load" /\ run'[r].base = jobsFile
      BY <2>4, LoadEffect DEF LoadedJobs, Undisturbed
    <3>2. u \in UrlsOf(jobsFile)
      <4>1. \A q \in Runs : pc[q] # "idle" => q = r
        BY <3>1 DEF RunExclusive, Active
      <4> QED BY <1>i, <3>1, <4>1
    <3> QED BY <1>1, <2>1, <3>1, <3>2
  <2>5. CASE RunMail(r)
    <3>1. /\ pc[r] = "fetch" /\ pc'[r] = "links"
          /\ run'[r].base = run[r].base /\ run'[r].added = run[r].added
      BY <2>5, MailEffect
    <3> QED BY <1>1, <1>i, <2>1, <3>1
  <2>6. CASE RunKnownLink(r) \/ RunKnownPage(r) \/ RunReview(r) \/ RunQueue(r)
             \/ RunApply(r) \/ RunSent(r) \/ RunSendFails(r) \/ RunSendReplyLost(r)
    <3>1. /\ pc[r] \in {"links", "send"} /\ pc'[r] \in {"links", "send"}
          /\ run'[r].base = run[r].base
      BY <2>6, SkipEffect, AddEffect, ApplyEffect, SendEffect DEF SameBatch
    <3>2. UrlsOf(run[r].added) \subseteq UrlsOf(run'[r].added)
      BY <2>6, SkipEffect, AddEffect, ApplyEffect, SendEffect DEF Adds
    <3> QED BY <1>1, <1>i, <2>1, <3>1, <3>2
  <2> QED BY <1>f, <2>2, <2>3, <2>4, <2>5, <2>6 DEF RunStep
<1>s. CASE RunSaveJobs(r)
  <2>1. /\ pc[r] = "links" /\ pc'[r] = "saveState" /\ run[r].todo = {}
        /\ SaveJobs(run[r].added \o run[r].base)
        /\ run[r].added \o run[r].base \in Seq(Jobs)
    BY <1>s, SaveJobsEffect
  <2>2. /\ UrlsOf(jobsFile) \subseteq UrlsOf(jobsFile')
        /\ jobsFile' = Take(run[r].added \o run[r].base, MaxJobs)
    BY <2>1, NothingDropped
  <2>3. UrlsOf(run[r].added) \subseteq UrlsOf(jobsFile')
    <3>1. Len(run[r].added) <= MaxJobs
      BY <2>1, NewJobsFit
    <3> QED BY <1>t, <2>2, <3>1, FrontStays
  <2> QED BY <1>1, <2>1, <2>2, <2>3
<1> QED
  BY <1>f, <1>s

LEMMA AppliedRunStep ==
    ASSUME TypeOK, Sending, RunExclusive, DedupInv, AppliedInv,
           NEW r \in Runs, Room(r), RunBegin(r) \/ RunStep(r)
    PROVE  AppliedInv'
<1> SUFFICES ASSUME Undisturbed', NEW u \in Links, sentFor'[u] > 0
             PROVE  sentFor'[u] = 1 /\ Tracked(u)'
  BY DEF AppliedInv
<1>1. \A v \in Links : sentFor[v] > 0 => sentFor[v] = 1 /\ Tracked(v)
  BY UndisturbedBefore DEF AppliedInv, Next
<1>2. ASSUME sentFor'[u] = sentFor[u]
      PROVE  sentFor'[u] = 1 /\ Tracked(u)'
  BY <1>1, <1>2, TrackedRunStep
\* A page is sent for while the run does not know it, hence was never sent for.
<1>3. CASE RunSent(r)
  <2>1. /\ pc[r] = "send" /\ pc'[r] = "links"
        /\ run[r].url \in Links /\ Adds(r, run[r].url)
    BY <1>3, SendEffect
  <2>2. sentFor \in [Links -> Nat] /\ sentFor' = [sentFor EXCEPT ![run[r].url] = Bump(@)]
    BY <1>3 DEF RunSent, Deliver, TypeOK
  <2>3. CASE u = run[r].url
    <3>1. u \notin Known(r)
      BY <2>1, <2>3 DEF DedupInv, OwnUnique
    <3>2. sentFor[u] = 0
      <4>1. ~(sentFor[u] > 0)
        BY <1>1, <2>1, <3>1 DEF Tracked
      <4> QED BY <2>2, <4>1
    <3>3. sentFor'[u] = 1
      BY <2>2, <2>3, <3>2 DEF Bump
    <3>4. Tracked(u)'
      <4>1. u \in UrlsOf(run'[r].added)
        BY <2>1, <2>3 DEF Adds
      <4>2. \A q \in Runs : pc'[q] # "idle" => q = r
        BY <2>1, OtherRuns DEF RunExclusive, Active
      <4> QED BY <2>1, <4>1, <4>2 DEF Tracked, Known
    <3> QED BY <3>3, <3>4
  <2>4. CASE u # run[r].url
    BY <1>2, <2>2, <2>4
  <2> QED BY <2>3, <2>4
<1>4. CASE ~RunSent(r)
  <2>1. ~RunSendReplyLost(r)
    BY DEF RunSendReplyLost, Undisturbed
  <2>2. sentFor' = sentFor
    BY <1>4, <2>1 DEF RunStep, RunBegin, RunConfigFails, RunNoPassword, RunConfig,
       RunLoad, RunMailFails, RunMail, RunKnownLink, RunKnownPage, RunReview,
       RunQueue, RunApply, RunSendFails, RunSaveJobs, RunSaveState, history
  <2> QED BY <1>2, <2>2
<1> QED
  BY <1>3, <1>4

LEMMA AppliedOtherStep ==
    ASSUME TypeOK, RunExclusive, AppliedInv, Next,
           \A r \in Runs : ~(RunBegin(r) \/ RunStep(r))
    PROVE  AppliedInv'
<1> SUFFICES ASSUME Undisturbed', NEW u \in Links, sentFor'[u] > 0
             PROVE  sentFor'[u] = 1 /\ Tracked(u)'
  BY DEF AppliedInv
<1>0. sentFor' = sentFor
  <2>1. ASSUME NEW h \in Dashboards, DashboardStep(h)
        PROVE  sentFor' = sentFor
    BY <2>1 DEF DashboardStep, AddVacancy, SetStatus, DashboardSave, history
  <2>2. CASE Surroundings
    BY <2>2 DEF Surroundings, ChangeConfig, Stop, Start, NewMail, OldMail, NextDay, history
  <2> QED BY <2>1, <2>2 DEF Next
<1>1. sentFor[u] = 1 /\ Tracked(u)
  BY <1>0, UndisturbedBefore DEF AppliedInv
<1>2. ASSUME UrlsOf(jobsFile) \subseteq UrlsOf(jobsFile'), UNCHANGED <<pc, run>>
      PROVE  Tracked(u)'
  BY <1>1, <1>2 DEF Tracked, Known
<1>3. ASSUME NEW h \in Dashboards, DashboardStep(h)
      PROVE  Tracked(u)'
  <2>1. UNCHANGED <<pc, run>>
    BY <1>3 DEF DashboardStep, AddVacancy, SetStatus, DashboardSave
  <2>2. CASE DashboardSave(h)
    <3>1. dash[h] \in Seq(Jobs) /\ SaveJobs(dash[h])
      BY <2>2 DEF DashboardSave, TypeOK
    <3> QED BY <1>2, <2>1, <3>1, NothingDropped
  <2>3. CASE ~DashboardSave(h)
    <3>1. jobsFile' = jobsFile
      BY <1>3, <2>3 DEF DashboardStep, AddVacancy, SetStatus, disk
    <3> QED BY <1>2, <2>1, <3>1
  <2> QED BY <2>2, <2>3
<1>4. ASSUME Stop PROVE Tracked(u)'
  <2>1. /\ jobsFile' = jobsFile
        /\ \A r \in Runs : pc'[r] = "idle"
        /\ ~agentRunning
    BY <1>4 DEF Stop, disk, Undisturbed
  <2>2. \A r \in Runs : pc[r] = "idle"
    BY <2>1 DEF RunExclusive, Active
  <2>3. u \in UrlsOf(jobsFile)
    BY <1>1, <2>2 DEF Tracked
  <2>4. u \in UrlsOf(jobsFile')
    BY <2>1, <2>3
  <2> QED BY <2>1, <2>4 DEF Tracked
<1>5. ASSUME Surroundings, ~Stop PROVE Tracked(u)'
  <2>1. jobsFile' = jobsFile /\ UNCHANGED <<pc, run>>
    BY <1>5 DEF Surroundings, ChangeConfig, Start, NewMail, OldMail, NextDay, disk, process
  <2> QED BY <1>2, <2>1
<1>6. Tracked(u)'
  BY <1>3, <1>4, <1>5 DEF Next
<1> QED
  BY <1>0, <1>1, <1>6

\* As long as no job has fallen out of jobs.json, no run has been cut off and no
\* reply was lost, no vacancy is applied to twice: what was sent stays known to
\* whoever may send next.
THEOREM AppliedAtMostOnce == Spec => []AppliedOnce
<1>1. Init => AppliedInv
  BY DEF Init, AppliedInv
<1>2. TypeOK /\ Sending /\ RunExclusive /\ DedupInv /\ SeenInv /\ AppliedInv /\ [Next]_vars
        => AppliedInv'
  <2> SUFFICES ASSUME TypeOK, Sending, RunExclusive, DedupInv, SeenInv, AppliedInv, [Next]_vars
               PROVE  AppliedInv'
    OBVIOUS
  <2>1. CASE Next
    <3>1. ASSUME NEW r \in Runs, RunBegin(r) \/ RunStep(r) PROVE AppliedInv'
      BY <3>1, AppliedRunStep DEF SeenInv
    <3> QED BY <2>1, <3>1, AppliedOtherStep
  <2>2. CASE UNCHANGED vars
    <3>1. \A u : Tracked(u)' <=> Tracked(u)
      BY <2>2 DEF vars, Tracked, Known
    <3> QED BY <2>2, <3>1 DEF vars, AppliedInv, Undisturbed
  <2> QED BY <2>1, <2>2
<1>3. TypeOK /\ AppliedInv => AppliedOnce
  <2> SUFFICES ASSUME TypeOK, AppliedInv, Undisturbed, NEW u \in Links
               PROVE  sentFor[u] <= 1
    BY DEF AppliedOnce, Undisturbed
  <2>1. sentFor[u] > 0 => sentFor[u] = 1
    BY DEF AppliedInv
  <2>2. sentFor[u] \in Nat
    BY DEF TypeOK
  <2> QED BY <2>1, <2>2
<1> QED
  BY <1>1, <1>2, <1>3, TypeCorrect, Exclusive, DedupHolds, SeenHolds, PTL DEF Spec
=============================================================================
