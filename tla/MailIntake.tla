----------------------------- MODULE MailIntake -----------------------------
(***************************************************************************)
(* How a search run gets its mails (manager/mail.go,                        *)
(* fetchRecentJobAlertMails): one IMAP connection per run, a search of the  *)
(* last days, and one fetch per sequence number.  AgentRun takes the        *)
(* outcome in one step (RunMail); this module is about which mail a number  *)
(* stands for.                                                             *)
(*                                                                         *)
(* A mail is known by its Message-ID or, when it has none, by its sequence  *)
(* number, and the server numbers anew when a mail is expunged.  It does    *)
(* not do so in the middle of a SEARCH or FETCH, and the session sends      *)
(* nothing else, so a session works on the numbering it found (view).       *)
(*                                                                         *)
(* What runs have dealt with is remembered in state.json only in part: a   *)
(* save keeps a limited number of ids, and a file that cannot be read      *)
(* counts as empty, and is saved so.                                       *)
(***************************************************************************)
EXTENDS Integers, Sequences, FiniteSets, SequencesExt

CONSTANTS
    Mails,
    WithId,    \* those with a Message-ID
    Alerts,    \* those that look like a job alert
    Window,    \* a search keeps the last 100 numbers
    SeenLimit  \* state.json keeps 1200 ids

ASSUME IntakeAssumption ==
    /\ WithId \subseteq Mails
    /\ Alerts \subseteq Mails
    /\ Window \in Nat \ {0}
    /\ SeenLimit \in Nat \ {0}

VARIABLES
    mailbox,   \* the inbox, in the order of its sequence numbers
    recent,    \* mails of the last seven days
    seen,      \* ids in state.json
    known,     \* ids the run has loaded
    pc,        \* "closed", "search", "fetch", "leads"
    view,      \* the numbering of the session
    ids,       \* numbers still to be fetched
    leads,     \* mails returned to the run
    \* History, read by no action:
    gone,      \* mails that were expunged
    looked,    \* mails whose links a run has dealt with, and saved that in state.json
    unread     \* state.json could not be read, or was lost, at some time

session == <<known, pc, view, ids, leads>>
inbox == <<mailbox, recent, gone>>
memory == <<seen, unread>>
vars == <<inbox, memory, session, looked>>

Init ==
    /\ mailbox = <<>>
    /\ recent = {}
    /\ seen = {}
    /\ known = {}
    /\ pc = "closed"
    /\ view = <<>>
    /\ ids = {}
    /\ leads = {}
    /\ gone = {}
    /\ looked = {}
    /\ unread = FALSE

-----------------------------------------------------------------------------
\* The id of mail m under number n.
Id(m, n) == IF m \in WithId THEN <<"id", m>> ELSE <<"seq", n>>

\* Mutant: the oldest are kept.
Oldest(numbers) ==
    {n \in numbers : Cardinality({k \in numbers : k < n}) < Window}

\* The last numbers of a search.
Latest(numbers) ==
    {n \in numbers : Cardinality({k \in numbers : k > n}) < Window}

RecentNumbers(box) == {n \in 1 .. Len(box) : box[n] \in recent}

\* The number the loop has come to.
Current(n) == n \in ids /\ \A k \in ids : n <= k

\* A run loads the ids, none when the file cannot be read.  TLS, greeting, LOGIN
\* and SELECT succeed; when they fail, the run ends (Forget).
Connect ==
    /\ pc = "closed"
    /\ pc' = "search"
    /\ \/ known' = seen /\ unread' = unread
       \/ known' = {} /\ unread' = TRUE
    /\ view' = mailbox
    /\ ids' = {} /\ leads' = {}
    /\ UNCHANGED <<inbox, seen, looked>>

\* The server may have announced the mails that arrived since SELECT, or not.
Search ==
    /\ pc = "search"
    /\ pc' = "fetch"
    /\ \E old \in 0 .. Len(mailbox) :
          /\ \A n \in 1 .. Len(mailbox) : mailbox[n] \in Range(view) <=> n <= old
          /\ view' \in {view, view \o SubSeq(mailbox, old + 1, Len(mailbox))}
    /\ ids' = Latest(RecentNumbers(view'))
    /\ UNCHANGED <<inbox, memory, known, leads, looked>>

\* Mutant: numbers start with 0.
FetchFromZero(n) ==
    /\ pc = "fetch"
    /\ Current(n)
    /\ ids' = ids \ {n}
    /\ leads' = leads \cup
          {l \in {[mail |-> view[n], id |-> Id(view[n], n - 1)]} :
              l.id \notin known /\ l.mail \in Alerts}
    /\ UNCHANGED <<inbox, memory, known, pc, view, looked>>

\* Mutant: the id is not compared with those of state.json.
FetchAgain(n) ==
    /\ pc = "fetch"
    /\ Current(n)
    /\ ids' = ids \ {n}
    /\ leads' = leads \cup
          {l \in {[mail |-> view[n], id |-> Id(view[n], n)]} : l.mail \in Alerts}
    /\ UNCHANGED <<inbox, memory, known, pc, view, looked>>

\* The reply is the whole mail.  It becomes a lead unless its id is known or it
\* does not look like a job alert.
Fetch(n) ==
    /\ pc = "fetch"
    /\ Current(n)
    /\ ids' = ids \ {n}
    /\ leads' = leads \cup
          {l \in {[mail |-> view[n], id |-> Id(view[n], n)]} :
              l.id \notin known /\ l.mail \in Alerts}
    /\ UNCHANGED <<inbox, memory, known, pc, view, looked>>

\* The server refuses, the reply is empty or cannot be decoded.
FetchFails(n) ==
    /\ pc = "fetch"
    /\ Current(n)
    /\ ids' = ids \ {n}
    /\ UNCHANGED <<inbox, memory, known, pc, view, leads, looked>>

\* From here on every fetch fails; what was fetched is returned all the same.
ConnectionLost ==
    /\ pc = "fetch"
    /\ ids' = {}
    /\ UNCHANGED <<inbox, memory, known, pc, view, leads, looked>>

\* Mutant: everything the session looked for counts as seen.
ReturnAll ==
    /\ pc = "fetch"
    /\ ids = {}
    /\ pc' = "leads"
    /\ seen' = seen \cup {Id(view[n], n) : n \in Latest(RecentNumbers(view))}
    /\ UNCHANGED <<inbox, unread, known, view, ids, leads, looked>>

Return ==
    /\ pc = "fetch"
    /\ ids = {}
    /\ pc' = "leads"
    /\ UNCHANGED <<inbox, memory, known, view, ids, leads, looked>>

\* Mutant: one id fewer is kept.
KeptButOne(all) ==
    IF Cardinality(all) < SeenLimit THEN {all} ELSE kSubset(SeenLimit - 1, all)

\* What a save may keep of the ids: the last SeenLimit of their texts.  The order
\* of the texts is nobody's choice, so it is any SeenLimit of them.
Kept(all) ==
    IF Cardinality(all) <= SeenLimit THEN {all} ELSE kSubset(SeenLimit, all)

\* The run has followed the links of every lead and saves the ids.
SaveSeen ==
    /\ pc = "leads"
    /\ pc' = "closed"
    /\ seen' \in Kept(known \cup {l.id : l \in leads})
    /\ looked' = looked \cup {l.mail : l \in leads}
    /\ known' = {} /\ view' = <<>> /\ leads' = {}
    /\ UNCHANGED <<inbox, unread, ids>>

\* A file that cannot be read is loaded as empty and saved again (agent start,
\* updateRunState), or it is lost by a save that fails.
Empty == seen' = {} /\ unread' = TRUE

\* Search fails, the agent is stopped, or state.json cannot be saved.
Abandon ==
    /\ pc # "closed"
    /\ pc' = "closed"
    /\ UNCHANGED memory \/ Empty
    /\ known' = {} /\ view' = <<>> /\ ids' = {} /\ leads' = {}
    /\ UNCHANGED <<inbox, looked>>

\* The agent starts, or a run fails before it has a session.
Forget ==
    /\ pc = "closed"
    /\ Empty
    /\ UNCHANGED <<inbox, session, looked>>

-----------------------------------------------------------------------------
(* The mailbox: other mail programs use it as well.                         *)

Arrive(m) ==
    /\ m \notin Range(mailbox) \cup gone
    /\ mailbox' = Append(mailbox, m)
    /\ recent' = recent \cup {m}
    /\ UNCHANGED <<gone, memory, session, looked>>

Expunge(n) ==
    /\ mailbox' = RemoveAt(mailbox, n)
    /\ gone' = gone \cup {mailbox[n]}
    /\ UNCHANGED <<recent, memory, session, looked>>

\* Seven days have passed.
Age(m) ==
    /\ m \in recent
    /\ recent' = recent \ {m}
    /\ UNCHANGED <<mailbox, gone, memory, session, looked>>

Next ==
    \/ Connect \/ Search \/ Return \/ SaveSeen
    \/ \E n \in ids : Fetch(n) \/ FetchFails(n)
    \/ ConnectionLost \/ Abandon \/ Forget
    \/ \E m \in Mails : Arrive(m) \/ Age(m)
    \/ \E n \in 1 .. Len(mailbox) : Expunge(n)

Spec == Init /\ [][Next]_vars

\* The mail is fetched, under whatever number.
Fetched(m) == \E n \in ids : view[n] = m /\ Fetch(n)

\* Runs are started again and again and their steps end; a mail that is fetched
\* again and again is read at some time.
Fairness ==
    /\ WF_vars(Connect)
    /\ WF_vars(Search \/ Return \/ SaveSeen)
    /\ WF_vars(\E n \in ids : Fetch(n) \/ FetchFails(n))
    /\ \A m \in Alerts : SF_vars(Fetched(m))

FairSpec == Spec /\ Fairness

-----------------------------------------------------------------------------
(* Properties.                                                              *)

\* Mailbox, session and ids keep their types, and the file its limit.
TypeOK ==
    /\ mailbox \in Seq(Mails)
    /\ recent \in SUBSET Mails
    /\ Cardinality(seen) <= SeenLimit
    /\ known \in {{}, seen}
    /\ pc \in {"closed", "search", "fetch", "leads"}
    /\ view \in Seq(Mails)
    /\ ids \subseteq DOMAIN view
    /\ \A l \in leads : \E n \in DOMAIN view : l = [mail |-> view[n], id |-> Id(view[n], n)]
    /\ gone \in SUBSET Mails
    /\ looked \in SUBSET Mails
    /\ unread \in BOOLEAN

\* What a mail is known by is its own: it has a Message-ID, or nothing was
\* expunged that could have shifted the numbers.
OwnId(m) == m \in WithId \/ gone = {}

\* An id may be missing: the file is full, or it could not be read at some time.
Forgetful == Cardinality(seen) = SeenLimit \/ unread

\* Whatever a session skipped, lost or returned in part, a mail of the mailbox is
\* remembered only when a run has dealt with it; and one that a run has dealt
\* with is forgotten only by a file that is full or was not read.
RemembersLooked ==
    \A n \in DOMAIN mailbox : OwnId(mailbox[n]) =>
        /\ Id(mailbox[n], n) \in seen => mailbox[n] \in looked
        /\ mailbox[n] \in looked => Id(mailbox[n], n) \in seen \/ Forgetful

\* The mails whose Message-ID is one of the ids.
Named(all) == {m \in WithId : <<"id", m>> \in all}

Source == INSTANCE MailSource WITH
    Own <- WithId,
    delivered <- Range(mailbox) \cup gone,
    handed <- {l.mail : l \in leads},
    known <- Named(known),
    remembered <- Named(seen),
    full <- Cardinality(seen) = SeenLimit

\* Whatever is skipped, fetched again, lost, expunged or numbered anew, the
\* sessions hand out mails as MailSource promises, which AgentRun (RunMail)
\* relies on: none with a Message-ID that the run has loaded, and a run that ends
\* forgets none unless the file is full.
HandsOutUnknown == Source!Spec

\* Mail m is recent, and fewer than Window recent mails have come after it.
InWindow(m) ==
    \E n \in RecentNumbers(mailbox) :
        /\ mailbox[n] = m
        /\ Cardinality({k \in RecentNumbers(mailbox) : k > n}) < Window

\* The run is cut off, or its connection, and it shows.
CutOff ==
    \/ Abandon /\ ~SaveSeen
    \/ ConnectionLost /\ Cardinality(ids) > 1

\* A job alert that stays in the window is dealt with once runs are not cut off
\* any more, although single mails cannot be read and newer ones arrive.
AlertsLooked ==
    \A m \in Alerts :
        (<>[][~CutOff]_vars /\ <>[]InWindow(m) /\ []OwnId(m)) => <>(m \in looked)
=============================================================================
