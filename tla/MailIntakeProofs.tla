-------------------------- MODULE MailIntakeProofs --------------------------
(***************************************************************************)
(* For any mailbox, any window, any limit of state.json and any number of  *)
(* sessions that fail in any way, a mail counts as seen only when a run    *)
(* has dealt with it, and only a file that is full or was not read forgets *)
(* one.  So what runs are handed is what MailSource promises, which        *)
(* AgentRun relies on.                                                     *)
(***************************************************************************)
EXTENDS MailIntake, SequenceTheorems, FiniteSetTheorems, TLAPS

\* The run knows what was saved, unless the file was not read.
Memory ==
    /\ IsFiniteSet(seen) /\ IsFiniteSet(leads)
    /\ pc = "closed" => known = {}
    /\ pc # "closed" /\ ~unread => known = seen

\* An id stands for mail m.
Tells(id, m) ==
    /\ id \in seen => m \in looked
    /\ m \in looked => id \in seen \/ Forgetful

\* A Message-ID tells whether its mail was dealt with.
MessageIds == \A m \in WithId : Tells(<<"id", m>>, m)

\* The same of sequence numbers, as long as nothing was expunged; no number is
\* seen that the mailbox does not have yet.
Numbers ==
    /\ \A n \in 1 .. Len(mailbox) :
          mailbox[n] \notin WithId => Tells(<<"seq", n>>, mailbox[n])
    /\ \A n \in Nat : <<"seq", n>> \in seen => n \in 1 .. Len(mailbox)
    /\ \A m \in looked : \E n \in 1 .. Len(mailbox) : mailbox[n] = m
    /\ \A i, j \in 1 .. Len(mailbox) : mailbox[i] = mailbox[j] => i = j

\* The session numbers mails as the mailbox does.
SameView ==
    /\ Len(view) <= Len(mailbox)
    /\ \A n \in 1 .. Len(view) : view[n] = mailbox[n]

IntakeInv ==
    /\ TypeOK
    /\ pc \in {"closed", "search"} => leads = {}
    /\ pc # "fetch" => ids = {}
    /\ Memory
    /\ MessageIds
    /\ gone = {} => Numbers /\ SameView

\* What makes a mail known by its own id.
LEMMA KnownFollows == IntakeInv => RemembersLooked
BY DEF IntakeInv, RemembersLooked, OwnId, Id, MessageIds, Numbers, Tells, TypeOK

LEMMA IntakeInit == Init => IntakeInv
<1> SUFFICES ASSUME Init PROVE IntakeInv
  OBVIOUS
<1>1. IsFiniteSet({}) /\ Cardinality({}) = 0 /\ 0 <= SeenLimit
  BY FS_EmptySet, IntakeAssumption
<1>2. TypeOK
  <2>1. <<>> \in Seq(Mails)
    OBVIOUS
  <2>2. Cardinality(seen) <= SeenLimit
    BY <1>1 DEF Init
  <2> QED BY <2>1, <2>2 DEF Init, TypeOK
<1>3. Memory
  BY <1>1 DEF Init, Memory
<1>4. MessageIds /\ Numbers /\ SameView
  BY DEF Init, Tells, MessageIds, Numbers, SameView
<1> QED BY <1>2, <1>3, <1>4 DEF Init, IntakeInv

\* An id is a Message-ID or a number, never both.
LEMMA IdIsMessageId == \A m, k, n : Id(k, n) = <<"id", m>> <=> k \in WithId /\ k = m
BY DEF Id

LEMMA IdIsNumber == \A k : \A i, n \in Nat : Id(k, n) = <<"seq", i>> <=> k \notin WithId /\ n = i
BY DEF Id

\* The part of a longer sequence that a shorter one with the same beginning lacks
\* completes it.
LEMMA Completed ==
    ASSUME NEW S, NEW short \in Seq(S), NEW long \in Seq(S), Len(short) <= Len(long),
           \A n \in 1 .. Len(short) : short[n] = long[n]
    PROVE  LET all == short \o SubSeq(long, Len(short) + 1, Len(long))
           IN  /\ all \in Seq(S)
               /\ Len(all) = Len(long)
               /\ \A n \in 1 .. Len(long) : all[n] = long[n]
<1> DEFINE from == Len(short) + 1
           rest == SubSeq(long, from, Len(long))
           all == short \o rest
<1>1. Len(short) \in Nat /\ Len(long) \in Nat
  OBVIOUS
<1>2. rest \in Seq(S) /\ Len(rest) = Len(long) - Len(short)
  BY <1>1, SubSeqProperties
<1>3. \A n \in 1 .. Len(rest) : rest[n] = long[from + n - 1]
  BY <1>1, SubSeqProperties
<1> HIDE DEF rest
<1>4. all \in Seq(S) /\ Len(all) = Len(short) + Len(rest)
  BY <1>2, ConcatProperties
<1>5. ASSUME NEW n \in 1 .. Len(long) PROVE all[n] = long[n]
  <2>3. n \in Int
    BY <1>1
  <2>1. CASE n <= Len(short)
    BY <1>1, <1>2, <2>1, ConcatProperties
  <2>2. CASE n > Len(short)
    <3> DEFINE i == n - Len(short)
    <3>1. i \in 1 .. Len(rest)
      BY <1>1, <1>2, <2>2
    <3>2. all[n] = rest[i]
      BY <1>1, <1>2, <2>2, ConcatProperties
    <3>3. rest[i] = long[from + i - 1]
      BY <1>3, <3>1
    <3>4. from + i - 1 = n
      <4>1. ASSUME NEW a \in Int, NEW b \in Int PROVE (a + 1) + (b - a) - 1 = b
        OBVIOUS
      <4> QED BY <1>1, <2>3, <4>1
    <3> HIDE DEF from, i
    <3> QED BY <3>2, <3>3, <3>4
  <2>4. n <= Len(short) \/ n > Len(short)
    BY <1>1, <2>3
  <2> QED BY <2>1, <2>2, <2>4
<1> QED BY <1>1, <1>2, <1>4, <1>5 DEF rest

\* What the server has announced is what the session already numbers.
LEMMA KnownIsView ==
    ASSUME mailbox \in Seq(Mails), view \in Seq(Mails), Numbers, SameView,
           NEW old \in 0 .. Len(mailbox),
           \A n \in 1 .. Len(mailbox) : mailbox[n] \in Range(view) <=> n <= old
    PROVE  old = Len(view)
<1>1. Len(view) \in Nat /\ Len(mailbox) \in Nat /\ Len(view) <= Len(mailbox)
  BY DEF SameView
<1>2. ASSUME NEW n \in 1 .. Len(view) PROVE mailbox[n] \in Range(view)
  BY <1>1 DEF SameView, Range
<1>3. ASSUME NEW n \in 1 .. Len(mailbox), n > Len(view) PROVE mailbox[n] \notin Range(view)
  <2> SUFFICES ASSUME NEW k \in 1 .. Len(view), view[k] = mailbox[n] PROVE FALSE
    BY DEF Range
  <2>1. mailbox[k] = mailbox[n]
    BY DEF SameView
  <2> QED BY <1>1, <1>3, <2>1 DEF Numbers
<1>4. CASE old < Len(view)
  <2>1. old + 1 \in 1 .. Len(view) /\ old + 1 \in 1 .. Len(mailbox)
    BY <1>1, <1>4
  <2> QED BY <1>2, <2>1
<1>5. CASE old > Len(view)
  <2>1. old \in 1 .. Len(mailbox)
    BY <1>1, <1>5
  <2> QED BY <1>3, <1>5, <2>1
<1> QED BY <1>1, <1>4, <1>5

\* A search works on the numbering of the session or on one that goes on as the
\* mailbox does.
LEMMA SearchKeeps == IntakeInv /\ Search => IntakeInv'
<1> SUFFICES ASSUME IntakeInv, Search PROVE IntakeInv'
  OBVIOUS
<1>1. PICK old \in 0 .. Len(mailbox) :
         /\ \A n \in 1 .. Len(mailbox) : mailbox[n] \in Range(view) <=> n <= old
         /\ view' \in {view, view \o SubSeq(mailbox, old + 1, Len(mailbox))}
  BY DEF Search
<1>2. /\ UNCHANGED <<mailbox, recent, gone, seen, unread, known, looked>>
      /\ leads' = {} /\ leads' = leads /\ pc = "search" /\ pc' = "fetch"
      /\ mailbox \in Seq(Mails) /\ view \in Seq(Mails)
  BY DEF Search, inbox, memory, IntakeInv, TypeOK
<1>3. view' \in Seq(Mails)
  <2>1. old + 1 \in Int /\ Len(mailbox) \in Int
    BY <1>2
  <2>2. SubSeq(mailbox, old + 1, Len(mailbox)) \in Seq(Mails)
    <3>1. \A i \in old + 1 .. Len(mailbox) : mailbox[i] \in Mails
      BY <1>2
    <3> QED BY <1>2, <2>1, <3>1
  <2>3. view \o SubSeq(mailbox, old + 1, Len(mailbox)) \in Seq(Mails)
    BY <1>2, <2>2, ConcatProperties
  <2> QED BY <1>1, <1>2, <2>3
<1>4. TypeOK'
  <2>1. ids' \subseteq 1 .. Len(view')
    BY DEF Search, Latest, RecentNumbers
  <2> QED BY <1>2, <1>3, <2>1 DEF IntakeInv, TypeOK
<1>5. ASSUME gone = {} PROVE Numbers' /\ SameView'
  <2>1. Numbers /\ SameView
    BY <1>5 DEF IntakeInv
  <2>2. old = Len(view)
    BY <1>1, <1>2, <2>1, KnownIsView
  <2>3. CASE view' = view
    BY <1>2, <2>1, <2>3 DEF Numbers, Tells, Forgetful, SameView
  <2>4. CASE view' = view \o SubSeq(mailbox, Len(view) + 1, Len(mailbox))
    <3>1. Len(view') = Len(mailbox) /\ \A n \in 1 .. Len(mailbox) : view'[n] = mailbox[n]
      BY <1>2, <2>1, <2>4, Completed DEF SameView
    <3> QED BY <1>2, <2>1, <3>1 DEF Numbers, Tells, Forgetful, SameView
  <2> QED BY <1>1, <2>2, <2>3, <2>4
<1>6. Memory' /\ MessageIds'
  BY <1>2 DEF IntakeInv, Memory, MessageIds, Tells, Forgetful
<1> QED BY <1>2, <1>4, <1>5, <1>6 DEF IntakeInv

\* A session that fetches, skips or loses mails changes no id that is saved.
LEMMA SessionKeeps ==
    ASSUME IntakeInv,
           Connect \/ Return \/ ConnectionLost \/ \E n \in ids : Fetch(n) \/ FetchFails(n)
    PROVE  IntakeInv'
<1> USE IntakeAssumption DEF IntakeInv, TypeOK
<1>1. CASE Connect
  <2>1. UNCHANGED <<mailbox, recent, gone, seen, looked>> /\ leads' = {} /\ ids' = {}
    BY <1>1 DEF Connect, inbox
  <2>2. view' = mailbox /\ pc' = "search" /\ pc = "closed"
    BY <1>1 DEF Connect
  <2>3. (known' = seen /\ unread' = unread) \/ (known' = {} /\ unread' = TRUE)
    BY <1>1 DEF Connect
  <2>4. TypeOK' /\ Memory'
    BY <2>1, <2>2, <2>3, FS_EmptySet DEF Memory
  <2>5. Forgetful => Forgetful'
    BY <2>1, <2>3 DEF Forgetful
  <2>6. MessageIds' /\ (gone' = {} => Numbers' /\ SameView')
    BY <2>1, <2>2, <2>5 DEF MessageIds, Numbers, Tells, SameView
  <2> QED BY <2>1, <2>2, <2>4, <2>6
<1> DEFINE Same == UNCHANGED <<mailbox, gone, memory, known, looked, view>>
<1>2. ASSUME Same, IsFiniteSet(leads'), pc' # "closed", pc # "closed"
      PROVE  Memory' /\ MessageIds' /\ (gone' = {} => Numbers' /\ SameView')
  BY <1>2 DEF memory, Memory, MessageIds, Numbers, Tells, Forgetful, SameView
<1>3. CASE Return
  <2>1. TypeOK' /\ leads' = leads /\ ids' = {} /\ pc' = "leads" /\ pc # "closed" /\ Same
    BY <1>3 DEF Return, inbox, memory
  <2>2. Memory' /\ MessageIds' /\ (gone' = {} => Numbers' /\ SameView')
    BY <1>2, <2>1 DEF Memory
  <2> QED BY <2>1, <2>2
<1>4. CASE ConnectionLost
  <2>1. TypeOK' /\ leads' = leads /\ ids' = {} /\ pc' = pc /\ pc = "fetch" /\ Same
    BY <1>4 DEF ConnectionLost, inbox, memory
  <2>2. Memory' /\ MessageIds' /\ (gone' = {} => Numbers' /\ SameView')
    BY <1>2, <2>1 DEF Memory
  <2> QED BY <2>1, <2>2
<1>5. ASSUME NEW n \in ids, Fetch(n) PROVE IntakeInv'
  <2>1. TypeOK' /\ pc' = pc /\ pc = "fetch" /\ Same
    BY <1>5 DEF Fetch, Current, inbox, memory
  <2>2. IsFiniteSet(leads')
    <3>1. PICK l : l = [mail |-> view[n], id |-> Id(view[n], n)]
      OBVIOUS
    <3>2. leads' = leads \/ leads' = leads \cup {l}
      BY <1>5, <3>1 DEF Fetch
    <3>3. IsFiniteSet(leads)
      BY DEF Memory
    <3>4. IsFiniteSet(leads \cup {l})
      BY <3>3, FS_AddElement
    <3> QED BY <3>2, <3>3, <3>4
  <2>3. Memory' /\ MessageIds' /\ (gone' = {} => Numbers' /\ SameView')
    BY <1>2, <2>1, <2>2
  <2> QED BY <2>1, <2>3
<1>6. ASSUME NEW n \in ids, FetchFails(n) PROVE IntakeInv'
  <2>1. TypeOK' /\ leads' = leads /\ pc' = pc /\ pc = "fetch" /\ Same
    BY <1>6 DEF FetchFails, Current, inbox, memory
  <2>2. Memory' /\ MessageIds' /\ (gone' = {} => Numbers' /\ SameView')
    BY <1>2, <2>1 DEF Memory
  <2> QED BY <2>1, <2>2
<1> QED BY <1>1, <1>3, <1>4, <1>5, <1>6

\* The sessions that end without a save, and a file that is emptied, whether a run
\* is under way or not.
LEMMA ForgetKeeps == IntakeInv /\ (Abandon \/ Forget) => IntakeInv'
<1> SUFFICES ASSUME IntakeInv, Abandon \/ Forget PROVE IntakeInv'
  OBVIOUS
<1> USE IntakeAssumption DEF IntakeInv, TypeOK
<1>1. /\ UNCHANGED <<mailbox, recent, gone, looked>>
      /\ pc' = "closed" /\ leads' = {} /\ ids' = {} /\ known' = {}
      /\ view' = <<>> \/ view' = view
  BY DEF Abandon, Forget, Memory, inbox, session
<1>2. UNCHANGED <<seen, unread>> \/ (seen' = {} /\ unread' = TRUE)
  BY DEF Abandon, Forget, Empty, memory
<1>3. TypeOK' /\ Memory'
  <2>3. IsFiniteSet({}) /\ Cardinality({}) = 0 /\ 0 <= SeenLimit
    BY FS_EmptySet
  <2>1. IsFiniteSet(seen') /\ IsFiniteSet(leads') /\ Cardinality(seen') <= SeenLimit
    BY <1>1, <1>2, <2>3 DEF Memory
  <2>4. <<>> \in Seq(Mails)
    OBVIOUS
  <2>2. unread' \in BOOLEAN /\ mailbox' \in Seq(Mails) /\ view' \in Seq(Mails)
    BY <1>1, <1>2, <2>4
  <2> QED BY <1>1, <2>1, <2>2 DEF Memory
<1>4. MessageIds' /\ (gone' = {} => Numbers' /\ SameView')
  <2>1. CASE UNCHANGED <<seen, unread>>
    BY <1>1, <2>1 DEF MessageIds, Numbers, Tells, Forgetful, SameView
  <2>2. CASE seen' = {} /\ unread' = TRUE
    BY <1>1, <2>2 DEF MessageIds, Numbers, Tells, Forgetful, SameView
  <2> QED BY <1>2, <2>1, <2>2
<1> QED BY <1>1, <1>3, <1>4

\* A save keeps every id, or as many as the file takes.
LEMMA KeptAll ==
    ASSUME NEW all, IsFiniteSet(all), NEW some \in Kept(all)
    PROVE  /\ IsFiniteSet(some) /\ some \subseteq all
           /\ Cardinality(some) <= SeenLimit
           /\ some = all \/ Cardinality(some) = SeenLimit
<1>1. Cardinality(all) \in Nat
  BY FS_CardinalityType
<1>2. CASE Cardinality(all) <= SeenLimit
  BY <1>2 DEF Kept
<1>3. CASE ~(Cardinality(all) <= SeenLimit)
  <2>1. some \in SUBSET all /\ Cardinality(some) = SeenLimit
    BY <1>3 DEF Kept, kSubset
  <2>2. IsFiniteSet(some)
    BY <2>1, FS_Subset
  <2> QED BY <2>1, <2>2, IntakeAssumption
<1> QED BY <1>2, <1>3

\* A file that was full stays full.
LEMMA FullStays ==
    ASSUME NEW all, IsFiniteSet(all), NEW old \in SUBSET all, Cardinality(old) = SeenLimit,
           NEW some \in Kept(all)
    PROVE  Cardinality(some) = SeenLimit
<1>1. Cardinality(old) <= Cardinality(all) /\ Cardinality(all) \in Nat
  BY FS_Subset, FS_CardinalityType
<1> QED BY <1>1, KeptAll, IntakeAssumption

\* The ids of the leads.
Ids(list) == {l.id : l \in list}

\* What a run that ends adds to the file, and what it does not forget.
LEMMA Saved ==
    ASSUME IntakeInv, SaveSeen
    PROVE  LET all == known \cup Ids(leads) IN
           /\ seen' \subseteq all /\ known \subseteq seen
           /\ IsFiniteSet(seen') /\ Cardinality(seen') <= SeenLimit
           /\ seen' = all \/ Cardinality(seen') = SeenLimit
           /\ unread \/ known = seen
           /\ Forgetful => Forgetful'
<1> DEFINE all == known \cup Ids(leads)
<1>1. known \subseteq seen /\ (unread \/ known = seen) /\ IsFiniteSet(seen) /\ IsFiniteSet(leads)
  BY DEF SaveSeen, IntakeInv, TypeOK, Memory
<1>2. IsFiniteSet(Ids(leads))
  <2> DEFINE f == [l \in leads |-> l.id]
  <2>1. f \in Surjection(leads, Ids(leads))
    BY DEF Surjection, Ids
  <2> QED BY <1>1, <2>1, FS_Surjection
<1>3. IsFiniteSet(all)
  <2>1. IsFiniteSet(known)
    BY <1>1, FS_Subset
  <2> QED BY <1>2, <2>1, FS_Union
<1>4. seen' \in Kept(all) /\ unread' = unread
  BY DEF SaveSeen, Ids
<1> HIDE DEF all
<1>5. /\ seen' \subseteq all /\ IsFiniteSet(seen') /\ Cardinality(seen') <= SeenLimit
      /\ seen' = all \/ Cardinality(seen') = SeenLimit
  BY <1>3, <1>4, KeptAll
<1>6. ASSUME Forgetful, ~unread PROVE Cardinality(seen') = SeenLimit
  <2>1. seen \in SUBSET all /\ Cardinality(seen) = SeenLimit
    BY <1>1, <1>6 DEF Forgetful, all
  <2> QED BY <1>3, <1>4, <2>1, FullStays
<1>7. Forgetful => Forgetful'
  BY <1>4, <1>6 DEF Forgetful
<1> QED BY <1>1, <1>5, <1>7 DEF all

\* An id of which a lead tells, and no other mail, is saved with its mail.
LEMMA TellsSaved ==
    ASSUME IntakeInv, SaveSeen, NEW id, NEW m, Tells(id, m),
           \A l \in leads : l.id = id <=> l.mail = m
    PROVE  Tells(id, m)'
<1>1. looked' = looked \cup {l.mail : l \in leads} /\ unread' = unread
  BY DEF SaveSeen
<1>2. ASSUME id \in seen' PROVE m \in looked'
  <2>1. id \in known \/ \E l \in leads : l.id = id
    BY <1>2, Saved DEF Ids
  <2>2. CASE id \in known
    BY <1>1, <2>2, Saved DEF Tells
  <2> QED BY <1>1, <2>1, <2>2
<1>3. ASSUME m \in looked', ~Forgetful' PROVE id \in seen'
  <2>1. seen' = known \cup Ids(leads) /\ known = seen /\ ~Forgetful
    BY <1>1, <1>3, Saved DEF Forgetful
  <2>2. CASE m \in looked
    BY <2>1, <2>2 DEF Tells
  <2>3. CASE \E l \in leads : l.mail = m
    BY <2>1, <2>3 DEF Ids
  <2> QED BY <1>1, <1>3, <2>2, <2>3
<1> QED BY <1>2, <1>3 DEF Tells

\* The ids of the leads and their mails become known together.
LEMMA SaveKeeps == IntakeInv /\ SaveSeen => IntakeInv'
<1> SUFFICES ASSUME IntakeInv, SaveSeen PROVE IntakeInv'
  OBVIOUS
<1>1. \A l \in leads : \E n \in 1 .. Len(view) : l.mail = view[n] /\ l.id = Id(view[n], n)
  BY DEF IntakeInv, TypeOK
<1>2. looked' = looked \cup {l.mail : l \in leads}
  BY DEF SaveSeen
<1>3. TypeOK' /\ Memory' /\ leads' = {} /\ ids' = {} /\ pc' = "closed"
  <2>1. {l.mail : l \in leads} \subseteq Mails
    BY <1>1 DEF IntakeInv, TypeOK
  <2>2. /\ looked' \in SUBSET Mails /\ leads' = {} /\ pc' = "closed" /\ view' = <<>>
        /\ ids = {} /\ known' = {}
    BY <1>2, <2>1 DEF SaveSeen, IntakeInv, TypeOK
  <2>3. UNCHANGED <<mailbox, recent, gone, ids, unread>>
    BY DEF SaveSeen, inbox
  <2>4. IsFiniteSet(seen') /\ Cardinality(seen') <= SeenLimit /\ IsFiniteSet(leads')
    BY <2>2, Saved, FS_EmptySet
  <2> QED BY <2>2, <2>3, <2>4 DEF IntakeInv, TypeOK, Memory
<1>4. MessageIds /\ (gone = {} => Numbers /\ SameView)
  BY DEF IntakeInv
<1>5. MessageIds'
  <2>1. ASSUME NEW m \in WithId PROVE \A l \in leads : l.id = <<"id", m>> <=> l.mail = m
    <3>1. TAKE l \in leads
    <3>2. PICK n \in 1 .. Len(view) : l.mail = view[n] /\ l.id = Id(view[n], n)
      BY <1>1
    <3>3. l.id = <<"id", m>> <=> view[n] \in WithId /\ view[n] = m
      BY <3>2, IdIsMessageId
    <3> QED BY <3>2, <3>3
  <2>2. ASSUME NEW m \in WithId PROVE Tells(<<"id", m>>, m)'
    <3>1. PICK id : id = <<"id", m>>
      OBVIOUS
    <3>2. Tells(id, m) /\ \A l \in leads : l.id = id <=> l.mail = m
      BY <1>4, <2>1, <3>1 DEF MessageIds
    <3>3. Tells(id, m)'
      BY <3>2, TellsSaved
    <3> QED BY <3>1, <3>3
  <2> QED BY <2>2 DEF MessageIds
<1>6. ASSUME gone = {} PROVE Numbers' /\ SameView'
  <2>1. \A l \in leads :
           \E n \in 1 .. Len(mailbox) : l.mail = mailbox[n] /\ l.id = Id(mailbox[n], n)
    <3>1. \A n \in 1 .. Len(view) : n \in 1 .. Len(mailbox) /\ view[n] = mailbox[n]
      BY <1>4, <1>6 DEF SameView, IntakeInv, TypeOK
    <3> QED BY <1>1, <3>1
  <2>2. mailbox' = mailbox /\ view' = <<>> /\ Len(mailbox) \in Nat
    BY DEF SaveSeen, inbox, IntakeInv, TypeOK
  <2>3. ASSUME NEW n \in 1 .. Len(mailbox), mailbox[n] \notin WithId
        PROVE  \A l \in leads : l.id = <<"seq", n>> <=> l.mail = mailbox[n]
    <3>1. TAKE l \in leads
    <3>2. PICK k \in 1 .. Len(mailbox) : l.mail = mailbox[k] /\ l.id = Id(mailbox[k], k)
      BY <2>1
    <3>3. mailbox[k] = mailbox[n] <=> k = n
      BY <1>4, <1>6 DEF Numbers
    <3>4. k \in Nat /\ n \in Nat
      BY <2>2
    <3>5. Id(mailbox[k], k) = <<"seq", n>> <=> mailbox[k] \notin WithId /\ k = n
      BY <3>4, IdIsNumber, Zenon
    <3>6. l.id = <<"seq", n>> <=> Id(mailbox[k], k) = <<"seq", n>>
      BY <3>2, Zenon
    <3> QED BY <2>3, <3>2, <3>3, <3>5, <3>6, Zenon
  <2>4. ASSUME NEW n \in Nat, <<"seq", n>> \in seen' PROVE n \in 1 .. Len(mailbox)
    <3>1. CASE <<"seq", n>> \in seen
      BY <1>4, <1>6, <3>1 DEF Numbers
    <3>2. CASE \E l \in leads : l.id = <<"seq", n>>
      <4>1. PICK l \in leads, k \in 1 .. Len(mailbox) :
               l.id = <<"seq", n>> /\ l.id = Id(mailbox[k], k)
        BY <2>1, <3>2
      <4>2. k \in Nat
        BY <2>2
      <4>3. Id(mailbox[k], k) = <<"seq", n>> => k = n
        BY <4>2, IdIsNumber, Zenon
      <4>4. Id(mailbox[k], k) = <<"seq", n>>
        BY <4>1, Zenon
      <4> QED BY <4>3, <4>4
    <3>3. PICK id : id = <<"seq", n>>
      OBVIOUS
    <3>4. id \in seen \/ \E l \in leads : l.id = id
      BY <2>4, <3>3, Saved DEF Ids
    <3> QED BY <3>1, <3>2, <3>3, <3>4
  <2>5. \A m \in looked' : \E n \in 1 .. Len(mailbox) : mailbox[n] = m
    BY <1>2, <1>4, <1>6, <2>1 DEF Numbers
  <2>6. ASSUME NEW n \in 1 .. Len(mailbox), mailbox[n] \notin WithId
        PROVE  Tells(<<"seq", n>>, mailbox[n])'
    <3>1. PICK id, m : id = <<"seq", n>> /\ m = mailbox[n]
      OBVIOUS
    <3>2. Tells(id, m) /\ \A l \in leads : l.id = id <=> l.mail = m
      BY <1>4, <1>6, <2>3, <2>6, <3>1 DEF Numbers
    <3>3. Tells(id, m)'
      BY <3>2, TellsSaved
    <3> QED BY <2>2, <3>1, <3>3 DEF Tells
  <2>7. Numbers'
    <3>1. \A i, j \in 1 .. Len(mailbox) : mailbox[i] = mailbox[j] => i = j
      BY <1>4, <1>6 DEF Numbers
    <3>2. \A n \in 1 .. Len(mailbox) : mailbox[n] \notin WithId => Tells(<<"seq", n>>, mailbox[n])'
      BY <2>6, Zenon
    <3>3. \A n \in Nat : <<"seq", n>> \in seen' => n \in 1 .. Len(mailbox)
      BY <2>4, Zenon
    <3> QED BY <2>2, <2>5, <3>1, <3>2, <3>3, Zenon DEF Numbers, Tells
  <2> QED BY <2>2, <2>7 DEF SameView
<1>7. gone' = gone
  BY DEF SaveSeen, inbox
<1> QED BY <1>3, <1>5, <1>6, <1>7 DEF IntakeInv

\* A new mail gets a number nothing was seen under.
LEMMA ArriveKeeps == ASSUME IntakeInv, NEW m \in Mails, Arrive(m) PROVE IntakeInv'
<1> USE IntakeAssumption DEF IntakeInv, TypeOK
<1>1. m \notin Range(mailbox) /\ mailbox' = Append(mailbox, m)
  BY DEF Arrive
<1>2. TypeOK' /\ Memory' /\ MessageIds'
  BY DEF Arrive, session, memory, Memory, MessageIds, Tells, Forgetful
<1>3. Len(mailbox') = Len(mailbox) + 1 /\ mailbox'[Len(mailbox) + 1] = m
      /\ \A n \in 1 .. Len(mailbox) : mailbox'[n] = mailbox[n]
  BY <1>1
<1>4. \A n \in 1 .. Len(mailbox) : mailbox[n] # m
  BY <1>1 DEF Range
<1>5. ASSUME gone = {} PROVE Numbers' /\ SameView'
  <2> DEFINE l == Len(mailbox)
  <2>1. m \notin looked /\ <<"seq", l + 1>> \notin seen
    BY <1>4, <1>5 DEF Numbers
  <2>2. /\ seen' = seen /\ unread' = unread /\ looked' = looked /\ view' = view
        /\ l \in Nat
    BY DEF Arrive, session, memory
  <2>3. \A n \in 1 .. Len(mailbox') :
          mailbox'[n] \notin WithId => Tells(<<"seq", n>>, mailbox[n])'
    <3>1. TAKE n \in 1 .. Len(mailbox')
    <3>2. CASE n = l + 1
      BY <1>3, <2>1, <2>2, <3>2 DEF Tells
    <3>3. CASE n \in 1 .. l
      BY <1>3, <1>5, <2>2, <3>3 DEF Numbers, Tells, Forgetful
    <3> QED BY <1>3, <2>2, <3>2, <3>3
  <2>4. \A n \in Nat : <<"seq", n>> \in seen' => n \in 1 .. Len(mailbox')
    BY <1>3, <1>5, <2>2 DEF Numbers
  <2>5. \A k \in looked' : \E n \in 1 .. Len(mailbox') : mailbox'[n] = k
    <3>1. TAKE k \in looked'
    <3>2. PICK n \in 1 .. l : mailbox[n] = k
      BY <1>5, <2>2 DEF Numbers
    <3> QED BY <1>3, <2>2, <3>2
  <2>6. \A i, j \in 1 .. Len(mailbox') : mailbox'[i] = mailbox'[j] => i = j
    <3>1. \A i, j \in 1 .. l : mailbox[i] = mailbox[j] => i = j
      BY <1>5 DEF Numbers
    <3>2. \A i \in 1 .. Len(mailbox') : i \in 1 .. l \/ i = l + 1
      BY <1>3, <2>2
    <3> HIDE DEF IntakeInv, TypeOK, l
    <3>3. /\ \A i \in 1 .. l : mailbox'[i] = mailbox[i] /\ mailbox[i] # m
          /\ mailbox'[l + 1] = m
      BY <1>3, <1>4 DEF l
    <3> QED BY <3>1, <3>2, <3>3
  <2>7. Numbers'
    BY <2>3, <2>4, <2>5, <2>6 DEF Numbers
  <2>8. SameView'
    BY <1>3, <1>5, <2>2 DEF SameView
  <2> QED BY <2>7, <2>8
<1> QED BY <1>2, <1>5 DEF Arrive, session

\* After an expunge only Message-IDs count.
LEMMA ExpungeKeeps == ASSUME IntakeInv, NEW n \in 1 .. Len(mailbox), Expunge(n) PROVE IntakeInv'
<1> USE IntakeAssumption DEF IntakeInv, TypeOK
<1>1. mailbox' \in Seq(Mails)
  BY DEF Expunge, RemoveAt
<1>2. mailbox[n] \in Mails /\ gone' = gone \cup {mailbox[n]}
  BY DEF Expunge
<1>3. UNCHANGED <<recent, seen, unread, known, pc, view, ids, leads, looked>>
  BY DEF Expunge, session, memory
<1>4. TypeOK'
  BY <1>1, <1>2, <1>3
<1> QED BY <1>2, <1>3, <1>4 DEF Memory, MessageIds, Tells, Forgetful

LEMMA IntakeNext == IntakeInv /\ [Next]_vars => IntakeInv'
<1> SUFFICES ASSUME IntakeInv, [Next]_vars PROVE IntakeInv'
  OBVIOUS
<1>1. CASE Search
  BY <1>1, SearchKeeps
<1>2. CASE Connect \/ Return \/ ConnectionLost \/ \E n \in ids : Fetch(n) \/ FetchFails(n)
  BY <1>2, SessionKeeps
<1>8. CASE Abandon \/ Forget
  BY <1>8, ForgetKeeps
<1>3. CASE SaveSeen
  BY <1>3, SaveKeeps
<1>4. ASSUME NEW m \in Mails, Arrive(m) PROVE IntakeInv'
  BY <1>4, ArriveKeeps
<1>5. ASSUME NEW m \in Mails, Age(m) PROVE IntakeInv'
  BY <1>5 DEF Age, session, memory, IntakeInv, TypeOK, Memory, MessageIds, Numbers,
              Tells, Forgetful, SameView
<1>6. ASSUME NEW n \in 1 .. Len(mailbox), Expunge(n) PROVE IntakeInv'
  BY <1>6, ExpungeKeeps
<1>7. CASE UNCHANGED vars
  BY <1>7 DEF vars, inbox, session, memory, IntakeInv, TypeOK, Memory, MessageIds, Numbers,
              Tells, Forgetful, SameView
<1> QED BY <1>1, <1>2, <1>3, <1>4, <1>5, <1>6, <1>7, <1>8 DEF Next

LEMMA IntakeCorrect == Spec => []IntakeInv
BY IntakeInit, IntakeNext, PTL DEF Spec

\* Mailbox, session and ids keep their types.
THEOREM IntakeTypes == Spec => []TypeOK
<1>1. IntakeInv => TypeOK
  BY DEF IntakeInv
<1> QED BY <1>1, IntakeCorrect, PTL

\* Whatever a session skipped, lost or returned in part, a mail of the mailbox is
\* remembered only when a run has dealt with it; and one that a run has dealt
\* with is forgotten only by a file that is full or was not read.
THEOREM ForgottenWhenFull == Spec => []RemembersLooked
BY KnownFollows, IntakeCorrect, PTL

-----------------------------------------------------------------------------
(* What a run may rely on: AgentRun takes a session as one step, which     *)
(* hands out mails that do not count as seen.                              *)

\* A run is handed mails that have been in the mailbox; and a mail that has an id
\* of its own a second time only when the file is full or was not read.
HandedOnce ==
    \A l \in leads : /\ l.mail \in Range(mailbox) \cup gone
                     /\ OwnId(l.mail) /\ l.mail \in looked => Forgetful

\* The session numbers mails that have been there, and does not know its leads.
HandedInv ==
    /\ Range(view) \subseteq Range(mailbox) \cup gone
    /\ \A l \in leads : l.id \notin known

\* An expunge takes one mail out of the mailbox, and keeps the others.
LEMMA ExpungeRemembers ==
    ASSUME IntakeInv, NEW n \in 1 .. Len(mailbox), Expunge(n)
    PROVE  Range(mailbox') \cup gone' = Range(mailbox) \cup gone
<1> DEFINE k == Len(mailbox)
           front == SubSeq(mailbox, 1, n - 1)
           rest == SubSeq(mailbox, n + 1, k)
<1>1. mailbox \in Seq(Mails) /\ k \in Nat /\ n \in 1 .. k
  BY DEF IntakeInv, TypeOK
<1>2. /\ front \in Seq(Mails) /\ Len(front) = n - 1
      /\ \A i \in 1 .. n - 1 : front[i] = mailbox[i]
  <2>1. 1 \in 1 .. k + 1 /\ n - 1 \in 0 .. k
    BY <1>1
  <2> QED BY <1>1, <2>1, SubSeqProperties
<1>3. /\ rest \in Seq(Mails) /\ Len(rest) = k - n
      /\ \A i \in 1 .. k - n : rest[i] = mailbox[n + i]
  <2>1. n + 1 \in 1 .. k + 1 /\ k \in n .. k
    BY <1>1
  <2> QED BY <1>1, <2>1, SubSeqProperties
<1>4. mailbox' = front \o rest /\ gone' = gone \cup {mailbox[n]}
  BY DEF Expunge, RemoveAt
<1> HIDE DEF front, rest, k
<1>5. /\ DOMAIN (front \o rest) = 1 .. k - 1
      /\ \A i \in 1 .. n - 1 : (front \o rest)[i] = front[i]
      /\ \A i \in 1 .. k - n : (front \o rest)[n - 1 + i] = rest[i]
  <2>1. DOMAIN (front \o rest) = 1 .. (n - 1) + (k - n)
    <3>1. front \in Seq(Mails) /\ rest \in Seq(Mails)
      BY <1>2, <1>3
    <3>2. front \o rest \in Seq(Mails) /\ Len(front \o rest) = Len(front) + Len(rest)
      BY <3>1, ConcatProperties
    <3>3. DOMAIN (front \o rest) = 1 .. Len(front \o rest)
      BY <3>2
    <3> QED BY <1>2, <1>3, <3>2, <3>3
  <2>2. \A i \in 1 .. (n - 1) + (k - n) :
           (front \o rest)[i] = IF i <= n - 1 THEN front[i] ELSE rest[i - (n - 1)]
    BY <1>2, <1>3, ConcatProperties
  <2>3. (n - 1) + (k - n) = k - 1
    BY <1>1
  <2>4. \A i \in 1 .. n - 1 : i \in 1 .. k - 1 /\ i <= n - 1
    BY <1>1
  <2>5. \A i \in 1 .. k - n : /\ n - 1 + i \in 1 .. k - 1 /\ ~(n - 1 + i <= n - 1)
                             /\ (n - 1 + i) - (n - 1) = i
    BY <1>1
  <2> QED BY <2>1, <2>2, <2>3, <2>4, <2>5
<1>6. ASSUME NEW i \in 1 .. k, i # n PROVE mailbox[i] \in Range(mailbox')
  <2>1. CASE i < n
    <3>1. i \in 1 .. n - 1 /\ i \in 1 .. k - 1
      BY <1>1, <2>1
    <3> QED BY <1>2, <1>4, <1>5, <3>1 DEF Range
  <2>2. CASE i > n
    <3>1. i - n \in 1 .. k - n /\ n + (i - n) = i /\ n - 1 + (i - n) \in 1 .. k - 1
      BY <1>1, <2>2
    <3>2. mailbox[i] = rest[i - n] /\ rest[i - n] = (front \o rest)[n - 1 + (i - n)]
      BY <1>3, <1>5, <3>1
    <3> QED BY <1>4, <1>5, <3>1, <3>2 DEF Range
  <2> QED BY <1>1, <1>6, <2>1, <2>2
<1>i. \A i \in 1 .. k : mailbox[i] \in Range(mailbox)
  BY <1>1 DEF Range, k
<1>7. \A i \in 1 .. k - 1 : (front \o rest)[i] \in Range(mailbox)
  <2> SUFFICES ASSUME NEW i \in 1 .. k - 1 PROVE (front \o rest)[i] \in Range(mailbox)
    OBVIOUS
  <2>1. CASE i <= n - 1
    <3>1. i \in 1 .. n - 1 /\ i \in 1 .. k
      BY <1>1, <2>1
    <3>2. (front \o rest)[i] = mailbox[i]
      BY <1>2, <1>5, <3>1
    <3> QED BY <1>i, <3>1, <3>2
  <2>2. CASE i > n - 1
    <3>1. i - (n - 1) \in 1 .. k - n /\ n + (i - (n - 1)) \in 1 .. k /\ n - 1 + (i - (n - 1)) = i
      BY <1>1, <2>2
    <3>2. (front \o rest)[i] = mailbox[n + (i - (n - 1))]
      BY <1>3, <1>5, <3>1
    <3> QED BY <1>i, <3>1, <3>2
  <2>3. i <= n - 1 \/ i > n - 1
    BY <1>1
  <2> QED BY <2>1, <2>2, <2>3
<1>8. Range(mailbox') \subseteq Range(mailbox)
  BY <1>4, <1>5, <1>7 DEF Range
<1>9. Range(mailbox) \subseteq Range(mailbox') \cup {mailbox[n]}
  BY <1>1, <1>6 DEF Range, k
<1>10. mailbox[n] \in Range(mailbox)
  BY <1>1 DEF Range, k
<1> QED BY <1>4, <1>8, <1>9, <1>10

\* A mail that arrives is new.
LEMMA ArriveAdds ==
    ASSUME IntakeInv, NEW m \in Mails, Arrive(m)
    PROVE  Range(mailbox') \cup gone' = Range(mailbox) \cup gone \cup {m}
BY DEF Arrive, Range, IntakeInv, TypeOK

\* No mail is forgotten.
LEMMA MailsRemembered ==
    ASSUME IntakeInv, [Next]_vars
    PROVE  Range(mailbox) \cup gone \subseteq Range(mailbox') \cup gone'
<1>1. ASSUME NEW n \in 1 .. Len(mailbox), Expunge(n)
      PROVE  Range(mailbox) \cup gone \subseteq Range(mailbox') \cup gone'
  BY <1>1, ExpungeRemembers
<1>2. ASSUME NEW m \in Mails, Arrive(m)
      PROVE  Range(mailbox) \cup gone \subseteq Range(mailbox') \cup gone'
  BY <1>2, ArriveAdds
<1>3. CASE UNCHANGED <<mailbox, gone>>
  BY <1>3
<1> QED BY <1>1, <1>2, <1>3
     DEF Next, Connect, Search, Return, SaveSeen, Fetch, FetchFails, ConnectionLost, Abandon,
         Forget, Age, inbox, vars

\* The numbering that a search goes on with.
LEMMA SearchHanded == ASSUME IntakeInv, HandedInv, Search PROVE HandedInv'
<1>1. PICK old \in 0 .. Len(mailbox) :
         view' \in {view, view \o SubSeq(mailbox, old + 1, Len(mailbox))}
  BY DEF Search
<1>2. UNCHANGED <<mailbox, gone, known, leads>> /\ mailbox \in Seq(Mails) /\ view \in Seq(Mails)
  BY DEF Search, inbox, IntakeInv, TypeOK
<1> DEFINE rest == SubSeq(mailbox, old + 1, Len(mailbox))
<1>3. rest \in Seq(Mails) /\ Range(rest) \subseteq Range(mailbox)
  <2>1. Len(mailbox) \in Nat /\ old + 1 \in 1 .. Len(mailbox) + 1
    BY <1>2
  <2>2. /\ rest \in Seq(Mails) /\ Len(rest) = Len(mailbox) - old
        /\ \A i \in 1 .. Len(rest) : rest[i] = mailbox[old + i]
    BY <1>2, <2>1, SubSeqProperties
  <2>3. \A i \in 1 .. Len(rest) : old + i \in 1 .. Len(mailbox)
    BY <2>1, <2>2
  <2> HIDE DEF rest
  <2>5. \A k \in 1 .. Len(mailbox) : mailbox[k] \in Range(mailbox)
    BY <1>2 DEF Range
  <2>4. \A i \in 1 .. Len(rest) : rest[i] \in Range(mailbox)
    BY <2>2, <2>3, <2>5
  <2> QED BY <2>2, <2>4 DEF Range
<1> HIDE DEF rest
<1>4. Range(view \o rest) \subseteq Range(view) \cup Range(rest)
  BY <1>2, <1>3, ConcatProperties DEF Range
<1> QED BY <1>1, <1>2, <1>3, <1>4 DEF HandedInv, rest

LEMMA HandedNext == ASSUME IntakeInv, HandedInv, [Next]_vars PROVE HandedInv'
<1> USE DEF HandedInv
<1>1. CASE Search
  BY <1>1, SearchHanded
<1>2. ASSUME NEW n \in ids, Fetch(n) PROVE HandedInv'
  BY <1>2 DEF Fetch, inbox
<1>3. CASE Connect
  BY <1>3 DEF Connect, inbox
<1>4. CASE SaveSeen \/ Abandon
  BY <1>4 DEF SaveSeen, Abandon, Range, inbox
<1>5. CASE UNCHANGED <<view, leads, known>>
  BY <1>5, MailsRemembered
<1> QED BY <1>1, <1>2, <1>3, <1>4, <1>5
     DEF Next, Return, FetchFails, ConnectionLost, Forget, Arrive, Age, Expunge, session, vars

\* Every step of a session is one of MailSource or changes nothing there.
LEMMA StepHandsOut ==
    ASSUME IntakeInv, HandedInv, [Next]_vars
    PROVE  [Source!Next]_(Source!vars)
<1> DEFINE delivered == Range(mailbox) \cup gone
           handed == {l.mail : l \in leads}
           full == Cardinality(seen) = SeenLimit
<1> USE DEF Source!vars
<1> HIDE DEF delivered, handed, full
<1>1. ASSUME NEW n \in ids, Fetch(n) PROVE [Source!Next]_(Source!vars)
  <2>1. view[n] \in delivered
    BY DEF IntakeInv, TypeOK, HandedInv, Range, delivered
  <2>2. UNCHANGED <<delivered, looked, seen, known>>
    BY <1>1 DEF Fetch, inbox, memory, delivered
  <2>3. CASE leads' = leads
    BY <2>2, <2>3 DEF delivered, Named
  <2>4. ASSUME NEW l, l.mail = view[n], l.id = Id(view[n], n), l.id \notin known,
               leads' = leads \cup {l}
        PROVE  [Source!Next]_(Source!vars)
    <3>1. PICK m \in delivered : m = l.mail
      BY <2>1, <2>4
    <3>2. handed' = handed \cup {m}
      BY <2>4, <3>1 DEF handed
    <3>3. m \in WithId => m \notin Named(known)
      BY <2>4, <3>1 DEF Named, Id
    <3>4. Source!HandOut(m)
      BY <2>2, <3>2, <3>3 DEF Source!HandOut, delivered, handed, Named
    <3> QED BY <3>4 DEF Source!Next, delivered
  <2>5. \/ leads' = leads
        \/ \E l : /\ l.mail = view[n] /\ l.id = Id(view[n], n) /\ l.id \notin known
                 /\ leads' = leads \cup {l}
    <3>1. PICK l : l = [mail |-> view[n], id |-> Id(view[n], n)]
      OBVIOUS
    <3>2. leads' = leads \/ (leads' = leads \cup {l} /\ l.id \notin known)
      BY <1>1, <3>1 DEF Fetch
    <3> QED BY <3>1, <3>2
  <2> QED BY <2>3, <2>4, <2>5
<1>2. CASE SaveSeen
  <2>1. /\ looked' = looked \cup handed /\ handed' = {} /\ delivered' = delivered
        /\ known' = {}
    BY <1>2 DEF SaveSeen, inbox, delivered, handed
  <2>2. Named(known \cup Ids(leads)) = Named(known) \cup (handed \cap WithId)
    <3>1. ASSUME NEW m \in WithId
          PROVE  (\E l \in leads : l.id = <<"id", m>>) <=> \E l \in leads : l.mail = m
      <4>1. ASSUME NEW l \in leads PROVE l.id = <<"id", m>> <=> l.mail = m
        <5>1. PICK n \in DOMAIN view : l.mail = view[n] /\ l.id = Id(view[n], n)
          BY DEF IntakeInv, TypeOK
        <5>2. l.id = <<"id", m>> <=> view[n] \in WithId /\ view[n] = m
          BY <5>1, IdIsMessageId
        <5> QED BY <5>1, <5>2
      <4> QED BY <4>1
    <3>2. ASSUME NEW m \in WithId
          PROVE  <<"id", m>> \in known \cup Ids(leads)
                     <=> <<"id", m>> \in known \/ \E l \in leads : l.mail = m
      <4>1. PICK id : id = <<"id", m>>
        OBVIOUS
      <4>2. id \in Ids(leads) <=> \E l \in leads : l.id = id
        BY DEF Ids
      <4> QED BY <3>1, <4>1, <4>2
    <3> QED BY <3>2 DEF Named, handed
  <2>3. seen' \subseteq known \cup Ids(leads) /\ (full' \/ seen' = known \cup Ids(leads))
    BY <1>2, Saved DEF full
  <2>4. /\ Named(seen)' \subseteq Named(known) \cup (handed \cap WithId)
        /\ full' \/ Named(seen)' = Named(known) \cup (handed \cap WithId)
    BY <2>2, <2>3 DEF Named
  <2>5. Named(known)' = {}
    BY <2>1 DEF Named
  <2>6. Source!Finish
    BY <2>1, <2>4, <2>5 DEF Source!Finish, delivered, handed, full
  <2> QED BY <2>6 DEF Source!Next
<1>3. CASE Connect
  <2>1. UNCHANGED <<looked, delivered, seen>> /\ handed' = {} /\ known' \in {seen, {}}
    BY <1>3 DEF Connect, inbox, delivered, handed
  <2>2. Named(known)' \in {Named(seen), {}} /\ Named(seen)' = Named(seen) /\ full' = full
    BY <2>1 DEF Named, full
  <2>3. Source!Begin
    BY <2>1, <2>2 DEF Source!Begin, delivered, handed, full
  <2> QED BY <2>3 DEF Source!Next
<1>4. CASE Abandon \/ Forget
  <2>1. UNCHANGED <<looked, delivered>> /\ handed' = {} /\ known' = {}
    <3>1. UNCHANGED <<looked, delivered>> /\ leads' = {} /\ known' = {}
      BY <1>4 DEF Abandon, Forget, IntakeInv, Memory, inbox, session, delivered
    <3> QED BY <3>1 DEF handed
  <2>2. Named(known)' = {}
    BY <2>1 DEF Named
  <2>3. CASE seen' = seen
    <3>1. Named(seen)' = Named(seen) /\ full' = full
      BY <2>3 DEF Named, full
    <3>2. Source!CutOff
      BY <2>1, <2>2, <3>1 DEF Source!CutOff, delivered, handed, full
    <3> QED BY <3>2 DEF Source!Next
  <2>4. CASE seen' = {}
    <3>1. Named(seen)' = {}
      BY <2>4 DEF Named
    <3>2. ~full'
      BY <2>4, FS_EmptySet, IntakeAssumption DEF full
    <3>3. Source!Forget
      BY <2>1, <2>2, <3>1, <3>2 DEF Source!Forget, delivered, handed, full
    <3> QED BY <3>3 DEF Source!Next
  <2> QED BY <1>4, <2>3, <2>4 DEF Abandon, Forget, Empty, memory
<1>5. ASSUME NEW m \in Mails, Arrive(m) PROVE [Source!Next]_(Source!vars)
  <2>1. m \notin delivered /\ delivered' = delivered \cup {m}
    BY <1>5, ArriveAdds DEF Arrive, delivered
  <2>2. UNCHANGED <<looked, leads, seen, known>>
    BY <1>5 DEF Arrive, session, memory
  <2>3. Source!Deliver(m)
    BY <2>1, <2>2 DEF Source!Deliver, delivered, Named
  <2> QED BY <2>3 DEF Source!Next
<1>6. ASSUME NEW n \in 1 .. Len(mailbox), Expunge(n) PROVE [Source!Next]_(Source!vars)
  <2>1. delivered' = delivered
    BY <1>6, ExpungeRemembers DEF delivered
  <2>2. UNCHANGED <<looked, leads, seen, known>>
    BY <1>6 DEF Expunge, session, memory
  <2> QED BY <2>1, <2>2 DEF delivered, Named
<1>7. CASE UNCHANGED <<mailbox, gone, looked, leads, seen, known>>
  BY <1>7 DEF Named
<1> QED BY <1>1, <1>2, <1>3, <1>4, <1>5, <1>6, <1>7
     DEF Next, Search, Return, FetchFails, ConnectionLost, Age, inbox, session, memory, vars

LEMMA HandedCorrect == Spec => []HandedInv
<1>1. Init => HandedInv
  BY DEF Init, HandedInv, Range
<1> QED BY <1>1, HandedNext, IntakeCorrect, PTL DEF Spec

\* The sessions of all runs together hand out mails as MailSource promises.
THEOREM ImplementsSource == Spec => HandsOutUnknown
<1>1. Init => Source!Init
  <2>1. Cardinality({}) # SeenLimit
    BY FS_EmptySet, IntakeAssumption
  <2> QED BY <2>1 DEF Init, Source!Init, Range, Named
<1> QED
  BY <1>1, StepHandsOut, IntakeCorrect, HandedCorrect, PTL
     DEF Spec, HandsOutUnknown, Source!Spec

\* A mail is handed out under an id that the run does not know, so no run has
\* looked at it, unless its id is not its own or the file forgets.
THEOREM NoneHandedTwice == Spec => []HandedOnce
<1>1. IntakeInv /\ HandedInv => HandedOnce
  <2> SUFFICES ASSUME IntakeInv, HandedInv, NEW l \in leads
               PROVE  /\ l.mail \in Range(mailbox) \cup gone
                      /\ OwnId(l.mail) /\ l.mail \in looked => Forgetful
    BY DEF HandedOnce
  <2>1. PICK n \in DOMAIN view : l.mail = view[n] /\ l.id = Id(view[n], n)
    BY DEF IntakeInv, TypeOK
  <2>2. view[n] \in Mails /\ n \in Nat /\ n \in 1 .. Len(view)
    BY DEF IntakeInv, TypeOK
  <2>3. view[n] \in Range(mailbox) \cup gone
    BY <2>1 DEF HandedInv, Range
  <2>4. unread \/ Id(view[n], n) \notin seen
    <3>1. pc # "closed"
      BY DEF IntakeInv
    <3>2. unread \/ known = seen
      BY <3>1 DEF IntakeInv, TypeOK, Memory
    <3> QED BY <2>1, <3>2 DEF HandedInv
  <2>5. CASE view[n] \in WithId
    <3>1. Tells(<<"id", view[n]>>, view[n]) /\ Id(view[n], n) = <<"id", view[n]>>
      BY <2>5 DEF IntakeInv, MessageIds, Id
    <3> QED BY <2>1, <2>3, <2>4, <3>1 DEF Tells, Forgetful
  <2>6. CASE view[n] \notin WithId /\ gone = {}
    <3>1. n \in 1 .. Len(mailbox) /\ mailbox[n] = view[n]
      BY <2>2, <2>6 DEF IntakeInv, TypeOK, SameView
    <3>2. Tells(<<"seq", n>>, view[n]) /\ Id(view[n], n) = <<"seq", n>>
      BY <2>6, <3>1 DEF IntakeInv, Numbers, Id
    <3> QED BY <2>1, <2>3, <2>4, <3>2 DEF Tells, Forgetful
  <2> QED BY <2>1, <2>3, <2>5, <2>6 DEF OwnId
<1> QED BY <1>1, HandedCorrect, IntakeCorrect, PTL
=============================================================================
