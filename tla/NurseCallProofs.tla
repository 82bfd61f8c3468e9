-------------------------- MODULE NurseCallProofs --------------------------
(***************************************************************************)
(* For any number of calls, reloads and timers: what the patient reads is   *)
(* true, a call is given up after its own two minutes only, and, as long as *)
(* no acknowledgement is handled twice, there is one call at a time.        *)
(***************************************************************************)
EXTENDS NurseCall, FiniteSetTheorems, TLAPS

\* The call waited for was published, and an acknowledgement that can arrive was
\* given by a nurse.
Known ==
    /\ activeCallId # NoCall => activeCallId \in published
    /\ incoming \subseteq acked
    /\ HonestStatus

\* A call whose POST is under way is new: no timer has it, and it is not waited for.
Fresh ==
    /\ activeCallId <= calls /\ activeCallId \notin requests
    /\ \A c \in requests : c <= calls
    /\ \A t \in noAckTimers : t.call <= calls /\ t.call \notin requests

\* A timer that would give up a call is the one timeoutHandle refers to; the one set
\* when the page was loaded waits for the active call, and no POST is under way.
Handle ==
    /\ \A t \in noAckTimers : GivesUp(t) => t = timeoutHandle
    /\ \A t \in noAckTimers : ~t.checks => /\ t = timeoutHandle
                                           /\ t.call = activeCallId
                                           /\ requests = {}

\* No timer gives up the call that was acknowledged.
Still ==
    status.kind = "acknowledged" /\ status.call = activeCallId
        => \A t \in noAckTimers : ~GivesUp(t)

\* One call at a time, and a timer that ends it only after its acknowledgement.
Alone ==
    ~repeated =>
        /\ \A c, d \in requests : c = d
        /\ requests # {} => activeCallId = NoCall
        /\ disabled <=> activeCallId # NoCall \/ requests # {}
        /\ idleTimers # 0 => /\ idleTimers = 1
                             /\ activeCallId # NoCall
                             /\ status = Says("acknowledged", activeCallId)

NurseInv ==
    /\ TypeOK
    /\ Known
    /\ Fresh
    /\ Handle
    /\ Still
    /\ Alone
    /\ OwnTimer
    /\ NeverCutOff

LEMMA NurseInit == Init => NurseInv
<1> SUFFICES ASSUME Init PROVE NurseInv
  OBVIOUS
<1> USE NurseAssumption DEF Init, Says, Timer, NoTimer, NoCall, Calls
<1>1. TypeOK
  <2>1. /\ activeCallId = NoCall /\ disabled = FALSE /\ repeated = FALSE
        /\ status \in [kind : Kinds, call : Calls \cup {NoCall}]
        /\ timeoutHandle = NoTimer
        /\ idleTimers \in 0 .. MaxIdleTimers /\ calls \in 0 .. MaxCalls
        /\ reloads \in 0 .. MaxReloads /\ reconnects \in Nat
        /\ socket \in {"connecting", "open", "closed"}
    BY DEF Kinds
  <2>2. /\ requests = {} /\ noAckTimers = {} /\ incoming = {} /\ published = {}
        /\ acked = {} /\ expired = {} /\ forgotten = {}
    OBVIOUS
  <2> HIDE DEF Init, NoTimer, Calls
  <2> QED BY <2>1, <2>2 DEF TypeOK
<1>2. Known /\ Fresh /\ Handle /\ Still /\ Alone
  BY DEF Known, HonestStatus, Fresh, Handle, Still, Alone
<1>3. OwnTimer /\ NeverCutOff
  BY DEF OwnTimer, NeverCutOff
<1> QED BY <1>1, <1>2, <1>3 DEF NurseInv

\* Every step keeps the types.
LEMMA TypeNext == TypeOK /\ [Next]_vars => TypeOK'
<1> SUFFICES ASSUME TypeOK, [Next]_vars PROVE TypeOK'
  OBVIOUS
<1> USE NurseAssumption DEF TypeOK, Kinds, Timers, Says, Timer, NoTimer, NoCall, Calls
<1>1. CASE Click
  <2>1. calls' \in Calls /\ disabled' \in BOOLEAN
    BY <1>1 DEF Click
  <2>2. requests' \in SUBSET Calls /\ status' \in [kind : Kinds, call : Calls \cup {NoCall}]
    BY <1>1, <2>1 DEF Click
  <2>3. /\ socket' \in {"connecting", "open", "closed"}
        /\ reconnects' \in Nat /\ incoming' \in SUBSET Calls
    BY <1>1 DEF Click, ConnectSocket, network
  <2>4. UNCHANGED <<timers, ward, activeCallId, reloads, expired, forgotten, repeated>>
    BY <1>1 DEF Click
  <2> QED BY <2>1, <2>2, <2>3, <2>4 DEF timers, ward
<1>2. ASSUME NEW c \in Calls, CallSent(c) PROVE TypeOK'
  <2>1. /\ Timer(c, TRUE) \in Timers
        /\ Says("waiting", c) \in [kind : Kinds, call : Calls \cup {NoCall}]
    OBVIOUS
  <2>2. /\ noAckTimers' \in SUBSET Timers /\ timeoutHandle' \in Timers
        /\ status' \in [kind : Kinds, call : Calls \cup {NoCall}]
    <3> HIDE DEF Timer, Says, Timers
    <3> QED BY <1>2, <2>1 DEF CallSent
  <2>3. requests' \in SUBSET Calls /\ activeCallId' \in Calls
    BY <1>2 DEF CallSent
  <2>4. UNCHANGED <<disabled, idleTimers, network, ward, history>>
    BY <1>2 DEF CallSent
  <2> QED BY <2>2, <2>3, <2>4 DEF network, ward, history
<1>3. ASSUME NEW c \in Calls, CallFails(c) PROVE TypeOK'
  BY <1>3 DEF CallFails, SetIdle, network, ward, history
<1>4. ASSUME NEW c \in Calls, Acknowledge(c) PROVE TypeOK'
  BY <1>4 DEF Acknowledge, ward
<1>5. ASSUME NEW c \in Calls, IgnoreAcknowledgement(c) PROVE TypeOK'
  BY <1>5 DEF IgnoreAcknowledgement, button, timers, ward, history
<1>6. CASE IdleTimerFires
  <2>1. /\ idleTimers' \in 0 .. MaxIdleTimers
        /\ activeCallId' = NoCall /\ disabled' = FALSE
        /\ noAckTimers' \in SUBSET Timers
        /\ timeoutHandle' = NoTimer
    BY <1>6 DEF IdleTimerFires, SetIdle
  <2>2. UNCHANGED <<status, requests, network, ward, history>>
    BY <1>6 DEF IdleTimerFires
  <2> HIDE DEF NoTimer
  <2> QED BY <2>1, <2>2 DEF network, ward, history
<1>7. ASSUME NEW t \in noAckTimers, NoAckTimerFires(t) PROVE TypeOK'
  <2>1. UNCHANGED <<requests, idleTimers, network, ward, calls, reloads, forgotten, repeated>>
    BY <1>7 DEF NoAckTimerFires
  <2>2. expired' \in SUBSET Calls
    BY <1>7 DEF NoAckTimerFires
  <2>3. CASE GivesUp(t)
    <3>1. /\ activeCallId' = NoCall /\ disabled' = FALSE
          /\ noAckTimers' \in SUBSET Timers
          /\ timeoutHandle' = NoTimer
      BY <1>7, <2>3 DEF NoAckTimerFires, SetIdle
    <3>2. status' \in [kind : Kinds, call : Calls \cup {NoCall}]
      BY <1>7, <2>3 DEF NoAckTimerFires
    <3> HIDE DEF NoTimer
    <3> QED BY <2>1, <2>2, <3>1, <3>2 DEF network, ward
  <2>4. CASE ~GivesUp(t)
    BY <1>7, <2>1, <2>2, <2>4 DEF NoAckTimerFires, network, ward
  <2> QED BY <2>3, <2>4
<1>8. CASE Reload
  BY <1>8 DEF Reload, Resume, Resumes
<1>9. CASE SocketOpens
  BY <1>9 DEF SocketOpens, button, timers, ward, history
<1>10. CASE SocketCloses
  BY <1>10 DEF SocketCloses, button, timers, ward, history
<1>11. CASE Reconnect
  BY <1>11 DEF Reconnect, ConnectSocket, button, timers, ward, history
<1>12. ASSUME NEW c \in Calls, Publish(c) PROVE TypeOK'
  BY <1>12 DEF Publish, button, timers, network, history
<1>13. ASSUME NEW c \in Calls, NurseAcknowledges(c) PROVE TypeOK'
  BY <1>13 DEF NurseAcknowledges, button, timers, history
<1>14. CASE UNCHANGED vars
  BY <1>14 DEF vars
<1> QED BY <1>1, <1>2, <1>3, <1>4, <1>5, <1>6, <1>7, <1>8, <1>9, <1>10, <1>11, <1>12, <1>13,
           <1>14 DEF Next, PageStep, CallAnswered

\* What is waited for was published, what arrives was acknowledged.
LEMMA KnownNext == TypeOK /\ Known /\ [Next]_vars => Known'
<1> SUFFICES ASSUME TypeOK, Known, [Next]_vars PROVE Known'
  OBVIOUS
<1> USE DEF TypeOK, Known, HonestStatus, Says, Timer, NoTimer, NoCall, Calls
<1>1. CASE Click
  BY <1>1 DEF Click, ConnectSocket, timers, network, ward, button, history
<1>2. ASSUME NEW c \in Calls, CallSent(c) PROVE Known'
  BY <1>2 DEF CallSent, network, ward, history
<1>3. ASSUME NEW c \in Calls, CallFails(c) PROVE Known'
  BY <1>3 DEF CallFails, SetIdle, network, ward, history
<1>4. ASSUME NEW c \in Calls, Acknowledge(c) PROVE Known'
  BY <1>4 DEF Acknowledge, ward
<1>5. ASSUME NEW c \in Calls, IgnoreAcknowledgement(c) PROVE Known'
  BY <1>5 DEF IgnoreAcknowledgement, button, timers, ward, history
<1>6. CASE IdleTimerFires
  BY <1>6 DEF IdleTimerFires, SetIdle, network, ward, history
<1>7. ASSUME NEW t \in noAckTimers, NoAckTimerFires(t) PROVE Known'
  BY <1>7 DEF NoAckTimerFires, SetIdle, network, ward
<1>8. CASE Reload
  BY <1>8 DEF Reload, Resume, Resumes
<1>9. CASE SocketOpens
  BY <1>9 DEF SocketOpens, button, timers, ward, history
<1>10. CASE SocketCloses
  BY <1>10 DEF SocketCloses, button, timers, ward, history
<1>11. CASE Reconnect
  BY <1>11 DEF Reconnect, ConnectSocket, button, timers, ward, history
<1>12. ASSUME NEW c \in Calls, Publish(c) PROVE Known'
  BY <1>12 DEF Publish, button, timers, network, history
<1>13. ASSUME NEW c \in Calls, NurseAcknowledges(c) PROVE Known'
  BY <1>13 DEF NurseAcknowledges, button, timers, history
<1>14. CASE UNCHANGED vars
  BY <1>14 DEF vars
<1> QED BY <1>1, <1>2, <1>3, <1>4, <1>5, <1>6, <1>7, <1>8, <1>9, <1>10, <1>11, <1>12, <1>13,
           <1>14 DEF Next, PageStep, CallAnswered

\* A new call has a new number.
LEMMA FreshNext == TypeOK /\ Fresh /\ [Next]_vars => Fresh'
<1> SUFFICES ASSUME TypeOK, Fresh, [Next]_vars PROVE Fresh'
  OBVIOUS
<1> USE NurseAssumption DEF TypeOK, Fresh, Timers, Says, Timer, NoTimer, NoCall, Calls
<1>1. CASE Click
  BY <1>1 DEF Click, ConnectSocket, timers, network, ward, button, history
<1>2. ASSUME NEW c \in Calls, CallSent(c) PROVE Fresh'
  BY <1>2 DEF CallSent, network, ward, history
<1>3. ASSUME NEW c \in Calls, CallFails(c) PROVE Fresh'
  BY <1>3 DEF CallFails, SetIdle, network, ward, history
<1>4. ASSUME NEW c \in Calls, Acknowledge(c) PROVE Fresh'
  BY <1>4 DEF Acknowledge, ward
<1>5. ASSUME NEW c \in Calls, IgnoreAcknowledgement(c) PROVE Fresh'
  BY <1>5 DEF IgnoreAcknowledgement, button, timers, ward, history
<1>6. CASE IdleTimerFires
  BY <1>6 DEF IdleTimerFires, SetIdle, network, ward, history
<1>7. ASSUME NEW t \in noAckTimers, NoAckTimerFires(t) PROVE Fresh'
  BY <1>7 DEF NoAckTimerFires, SetIdle, network, ward
<1>8. CASE Reload
  BY <1>8 DEF Reload, Resume, Resumes
<1>9. CASE SocketOpens
  BY <1>9 DEF SocketOpens, button, timers, ward, history
<1>10. CASE SocketCloses
  BY <1>10 DEF SocketCloses, button, timers, ward, history
<1>11. CASE Reconnect
  BY <1>11 DEF Reconnect, ConnectSocket, button, timers, ward, history
<1>12. ASSUME NEW c \in Calls, Publish(c) PROVE Fresh'
  BY <1>12 DEF Publish, button, timers, network, history
<1>13. ASSUME NEW c \in Calls, NurseAcknowledges(c) PROVE Fresh'
  BY <1>13 DEF NurseAcknowledges, button, timers, history
<1>14. CASE UNCHANGED vars
  BY <1>14 DEF vars
<1> QED BY <1>1, <1>2, <1>3, <1>4, <1>5, <1>6, <1>7, <1>8, <1>9, <1>10, <1>11, <1>12, <1>13,
           <1>14 DEF Next, PageStep, CallAnswered

\* A timer that is not to fire is cleared.
LEMMA HandleNext == TypeOK /\ Fresh /\ Handle /\ [Next]_vars => Handle'
<1> SUFFICES ASSUME TypeOK, Fresh, Handle, [Next]_vars PROVE Handle'
  OBVIOUS
<1> USE DEF TypeOK, Fresh, Handle, GivesUp, Timers, Says, Timer, NoTimer, NoCall, Calls
<1>1. CASE Click
  BY <1>1 DEF Click, ConnectSocket, timers, network, ward, button, history
<1>2. ASSUME NEW c \in Calls, CallSent(c) PROVE Handle'
  BY <1>2 DEF CallSent, network, ward, history
<1>3. ASSUME NEW c \in Calls, CallFails(c) PROVE Handle'
  BY <1>3 DEF CallFails, SetIdle, network, ward, history
<1>4. ASSUME NEW c \in Calls, Acknowledge(c) PROVE Handle'
  BY <1>4 DEF Acknowledge, ward
<1>5. ASSUME NEW c \in Calls, IgnoreAcknowledgement(c) PROVE Handle'
  BY <1>5 DEF IgnoreAcknowledgement, button, timers, ward, history
<1>6. CASE IdleTimerFires
  BY <1>6 DEF IdleTimerFires, SetIdle, network, ward, history
<1>7. ASSUME NEW t \in noAckTimers, NoAckTimerFires(t) PROVE Handle'
  BY <1>7 DEF NoAckTimerFires, SetIdle, network, ward
<1>8. CASE Reload
  BY <1>8 DEF Reload, Resume, Resumes
<1>9. CASE SocketOpens
  BY <1>9 DEF SocketOpens, button, timers, ward, history
<1>10. CASE SocketCloses
  BY <1>10 DEF SocketCloses, button, timers, ward, history
<1>11. CASE Reconnect
  BY <1>11 DEF Reconnect, ConnectSocket, button, timers, ward, history
<1>12. ASSUME NEW c \in Calls, Publish(c) PROVE Handle'
  BY <1>12 DEF Publish, button, timers, network, history
<1>13. ASSUME NEW c \in Calls, NurseAcknowledges(c) PROVE Handle'
  BY <1>13 DEF NurseAcknowledges, button, timers, history
<1>14. CASE UNCHANGED vars
  BY <1>14 DEF vars
<1> QED BY <1>1, <1>2, <1>3, <1>4, <1>5, <1>6, <1>7, <1>8, <1>9, <1>10, <1>11, <1>12, <1>13,
           <1>14 DEF Next, PageStep, CallAnswered

\* An acknowledgement clears the timer.
LEMMA StillNext == TypeOK /\ Fresh /\ Handle /\ Still /\ [Next]_vars => Still'
<1> SUFFICES ASSUME TypeOK, Fresh, Handle, Still, [Next]_vars PROVE Still'
  OBVIOUS
<1> USE DEF TypeOK, Handle, Still, GivesUp, Timers, Says, Timer, NoTimer, NoCall, Calls
<1>1. CASE Click
  BY <1>1 DEF Click, ConnectSocket, timers, network, ward, button, history
<1>2. ASSUME NEW c \in Calls, CallSent(c) PROVE Still'
  BY <1>2 DEF CallSent, network, ward, history
<1>3. ASSUME NEW c \in Calls, CallFails(c) PROVE Still'
  BY <1>3 DEF CallFails, SetIdle, network, ward, history
<1>4. ASSUME NEW c \in Calls, Acknowledge(c) PROVE Still'
  BY <1>4 DEF Acknowledge, ward
<1>5. ASSUME NEW c \in Calls, IgnoreAcknowledgement(c) PROVE Still'
  BY <1>5 DEF IgnoreAcknowledgement, button, timers, ward, history
<1>6. CASE IdleTimerFires
  BY <1>6 DEF IdleTimerFires, SetIdle, network, ward, history
<1>7. ASSUME NEW t \in noAckTimers, NoAckTimerFires(t) PROVE Still'
  BY <1>7 DEF NoAckTimerFires, SetIdle, network, ward
<1>8. CASE Reload
  BY <1>8 DEF Reload, Resume, Resumes
<1>9. CASE SocketOpens
  BY <1>9 DEF SocketOpens, button, timers, ward, history
<1>10. CASE SocketCloses
  BY <1>10 DEF SocketCloses, button, timers, ward, history
<1>11. CASE Reconnect
  BY <1>11 DEF Reconnect, ConnectSocket, button, timers, ward, history
<1>12. ASSUME NEW c \in Calls, Publish(c) PROVE Still'
  BY <1>12 DEF Publish, button, timers, network, history
<1>13. ASSUME NEW c \in Calls, NurseAcknowledges(c) PROVE Still'
  BY <1>13 DEF NurseAcknowledges, button, timers, history
<1>14. CASE UNCHANGED vars
  BY <1>14 DEF vars
<1> QED BY <1>1, <1>2, <1>3, <1>4, <1>5, <1>6, <1>7, <1>8, <1>9, <1>10, <1>11, <1>12, <1>13,
           <1>14 DEF Next, PageStep, CallAnswered

\* Calls, waits and timers follow each other.
LEMMA AloneNext == TypeOK /\ Fresh /\ Still /\ Alone /\ [Next]_vars => Alone'
<1> SUFFICES ASSUME TypeOK, Fresh, Still, Alone, [Next]_vars PROVE Alone'
  OBVIOUS
<1> USE DEF TypeOK, Still, Alone, GivesUp, Timers, Says, Timer, NoTimer, NoCall, Calls
<1>1. CASE Click
  BY <1>1 DEF Click, ConnectSocket, timers, network, ward, button, history
<1>2. ASSUME NEW c \in Calls, CallSent(c) PROVE Alone'
  <2>1. /\ requests' = requests \ {c} /\ activeCallId' = c /\ c \in requests /\ c # NoCall
        /\ UNCHANGED <<disabled, idleTimers, repeated>>
    BY <1>2 DEF CallSent, history
  <2>2. ~repeated => requests' = {} /\ disabled /\ idleTimers = 0
    BY <2>1
  <2> QED BY <2>1, <2>2
<1>3. ASSUME NEW c \in Calls, CallFails(c) PROVE Alone'
  BY <1>3 DEF CallFails, SetIdle, network, ward, history
<1>4. ASSUME NEW c \in Calls, Acknowledge(c) PROVE Alone'
  BY <1>4 DEF Acknowledge, ward
<1>5. ASSUME NEW c \in Calls, IgnoreAcknowledgement(c) PROVE Alone'
  BY <1>5 DEF IgnoreAcknowledgement, button, timers, ward, history
<1>6. CASE IdleTimerFires
  BY <1>6 DEF IdleTimerFires, SetIdle, network, ward, history
<1>7. ASSUME NEW t \in noAckTimers, NoAckTimerFires(t) PROVE Alone'
  BY <1>7 DEF NoAckTimerFires, SetIdle, network, ward
<1>8. CASE Reload
  BY <1>8 DEF Reload, Resume, Resumes
<1>9. CASE SocketOpens
  BY <1>9 DEF SocketOpens, button, timers, ward, history
<1>10. CASE SocketCloses
  BY <1>10 DEF SocketCloses, button, timers, ward, history
<1>11. CASE Reconnect
  BY <1>11 DEF Reconnect, ConnectSocket, button, timers, ward, history
<1>12. ASSUME NEW c \in Calls, Publish(c) PROVE Alone'
  BY <1>12 DEF Publish, button, timers, network, history
<1>13. ASSUME NEW c \in Calls, NurseAcknowledges(c) PROVE Alone'
  BY <1>13 DEF NurseAcknowledges, button, timers, history
<1>14. CASE UNCHANGED vars
  BY <1>14 DEF vars
<1> QED BY <1>1, <1>2, <1>3, <1>4, <1>5, <1>6, <1>7, <1>8, <1>9, <1>10, <1>11, <1>12, <1>13,
           <1>14 DEF Next, PageStep, CallAnswered

\* A timer expires before its call is given up.
LEMMA OwnTimerNext == TypeOK /\ Handle /\ OwnTimer /\ [Next]_vars => OwnTimer'
<1> SUFFICES ASSUME TypeOK, Handle, OwnTimer, [Next]_vars PROVE OwnTimer'
  OBVIOUS
<1> USE DEF TypeOK, Handle, OwnTimer, GivesUp, Timers, Says, Timer, NoTimer, NoCall, Calls
<1>1. CASE Click
  BY <1>1 DEF Click, ConnectSocket, timers, network, ward, button, history
<1>2. ASSUME NEW c \in Calls, CallSent(c) PROVE OwnTimer'
  BY <1>2 DEF CallSent, network, ward, history
<1>3. ASSUME NEW c \in Calls, CallFails(c) PROVE OwnTimer'
  BY <1>3 DEF CallFails, SetIdle, network, ward, history
<1>4. ASSUME NEW c \in Calls, Acknowledge(c) PROVE OwnTimer'
  BY <1>4 DEF Acknowledge, ward
<1>5. ASSUME NEW c \in Calls, IgnoreAcknowledgement(c) PROVE OwnTimer'
  BY <1>5 DEF IgnoreAcknowledgement, button, timers, ward, history
<1>6. CASE IdleTimerFires
  BY <1>6 DEF IdleTimerFires, SetIdle, network, ward, history
<1>7. ASSUME NEW t \in noAckTimers, NoAckTimerFires(t) PROVE OwnTimer'
  BY <1>7 DEF NoAckTimerFires, SetIdle, network, ward
<1>8. CASE Reload
  BY <1>8 DEF Reload, Resume, Resumes
<1>9. CASE SocketOpens
  BY <1>9 DEF SocketOpens, button, timers, ward, history
<1>10. CASE SocketCloses
  BY <1>10 DEF SocketCloses, button, timers, ward, history
<1>11. CASE Reconnect
  BY <1>11 DEF Reconnect, ConnectSocket, button, timers, ward, history
<1>12. ASSUME NEW c \in Calls, Publish(c) PROVE OwnTimer'
  BY <1>12 DEF Publish, button, timers, network, history
<1>13. ASSUME NEW c \in Calls, NurseAcknowledges(c) PROVE OwnTimer'
  BY <1>13 DEF NurseAcknowledges, button, timers, history
<1>14. CASE UNCHANGED vars
  BY <1>14 DEF vars
<1> QED BY <1>1, <1>2, <1>3, <1>4, <1>5, <1>6, <1>7, <1>8, <1>9, <1>10, <1>11, <1>12, <1>13,
           <1>14 DEF Next, PageStep, CallAnswered

\* Closing a socket schedules a connection.
LEMMA NeverCutOffNext == TypeOK /\ NeverCutOff /\ [Next]_vars => NeverCutOff'
<1> SUFFICES ASSUME TypeOK, NeverCutOff, [Next]_vars PROVE NeverCutOff'
  OBVIOUS
<1> USE DEF TypeOK, NeverCutOff, Live
<1>1. CASE Click
  BY <1>1 DEF Click, ConnectSocket, timers, network, ward, button, history
<1>2. ASSUME NEW c \in Calls, CallSent(c) PROVE NeverCutOff'
  BY <1>2 DEF CallSent, network, ward, history
<1>3. ASSUME NEW c \in Calls, CallFails(c) PROVE NeverCutOff'
  BY <1>3 DEF CallFails, SetIdle, network, ward, history
<1>4. ASSUME NEW c \in Calls, Acknowledge(c) PROVE NeverCutOff'
  BY <1>4 DEF Acknowledge, ward
<1>5. ASSUME NEW c \in Calls, IgnoreAcknowledgement(c) PROVE NeverCutOff'
  BY <1>5 DEF IgnoreAcknowledgement, button, timers, ward, history
<1>6. CASE IdleTimerFires
  BY <1>6 DEF IdleTimerFires, SetIdle, network, ward, history
<1>7. ASSUME NEW t \in noAckTimers, NoAckTimerFires(t) PROVE NeverCutOff'
  BY <1>7 DEF NoAckTimerFires, SetIdle, network, ward
<1>8. CASE Reload
  BY <1>8 DEF Reload, Resume, Resumes
<1>9. CASE SocketOpens
  BY <1>9 DEF SocketOpens, button, timers, ward, history
<1>10. CASE SocketCloses
  BY <1>10 DEF SocketCloses, button, timers, ward, history
<1>11. CASE Reconnect
  BY <1>11 DEF Reconnect, ConnectSocket, button, timers, ward, history
<1>12. ASSUME NEW c \in Calls, Publish(c) PROVE NeverCutOff'
  BY <1>12 DEF Publish, button, timers, network, history
<1>13. ASSUME NEW c \in Calls, NurseAcknowledges(c) PROVE NeverCutOff'
  BY <1>13 DEF NurseAcknowledges, button, timers, history
<1>14. CASE UNCHANGED vars
  BY <1>14 DEF vars
<1> QED BY <1>1, <1>2, <1>3, <1>4, <1>5, <1>6, <1>7, <1>8, <1>9, <1>10, <1>11, <1>12, <1>13,
           <1>14 DEF Next, PageStep, CallAnswered

LEMMA NurseNext == NurseInv /\ [Next]_vars => NurseInv'
BY TypeNext, KnownNext, FreshNext, HandleNext, StillNext, AloneNext, OwnTimerNext, NeverCutOffNext
   DEF NurseInv

LEMMA NurseCorrect == Spec => []NurseInv
BY NurseInit, NurseNext, PTL DEF Spec

-----------------------------------------------------------------------------
\* The page and its surroundings keep their types.
THEOREM NurseTypes == Spec => []TypeOK
<1>1. NurseInv => TypeOK
  BY DEF NurseInv
<1> QED BY <1>1, NurseCorrect, PTL

\* Nobody is told that help is on the way for a call no nurse has answered.
THEOREM StatusHonest == Spec => []HonestStatus
<1>1. NurseInv => HonestStatus
  BY DEF NurseInv, Known
<1> QED BY <1>1, NurseCorrect, PTL

\* A call is given up only after its own two minutes.
THEOREM GivenUpInTime == Spec => []OwnTimer
<1>1. NurseInv => OwnTimer
  BY DEF NurseInv
<1> QED BY <1>1, NurseCorrect, PTL

\* One call at a time, and a button that is free exactly while there is none.
THEOREM OneCall == Spec => []SingleCall
<1>1. NurseInv => SingleCall
  <2> SUFFICES ASSUME NurseInv, ~repeated PROVE Cardinality(requests) <= 1
    BY DEF NurseInv, Alone, SingleCall
  <2>1. CASE requests = {}
    BY <2>1, FS_EmptySet
  <2>2. CASE requests # {}
    <3>1. PICK c \in requests : requests = {c}
      BY <2>2 DEF NurseInv, Alone
    <3> QED BY <3>1, FS_Singleton
  <2> QED BY <2>1, <2>2
<1> QED BY <1>1, NurseCorrect, PTL

\* A page without a socket has a reconnection coming.
THEOREM StaysConnected == Spec => []NeverCutOff
<1>1. NurseInv => NeverCutOff
  BY DEF NurseInv
<1> QED BY <1>1, NurseCorrect, PTL

\* No step turns an acknowledged call into one that nobody has answered.
THEOREM AckStands == Spec => AcknowledgedStands
<1> DEFINE Stands == \A c \in Calls :
                        status = Says("acknowledged", c) => status' # Says("unanswered", c)
<1>1. NurseInv /\ [Next]_vars => [Stands]_vars
  <2> SUFFICES ASSUME NurseInv, Next, NEW c \in Calls,
                      status = Says("acknowledged", c), status' = Says("unanswered", c)
               PROVE  FALSE
    OBVIOUS
  <2>1. PICK t \in noAckTimers : NoAckTimerFires(t)
    BY DEF Next, PageStep, CallAnswered, Click, CallSent, CallFails, Acknowledge,
           IgnoreAcknowledgement, IdleTimerFires, Reload, Resume, Resumes, SocketOpens,
           SocketCloses, Reconnect, Publish, NurseAcknowledges, button, Says
  <2>2. GivesUp(t) /\ activeCallId = c
    BY <2>1 DEF NoAckTimerFires, Says
  <2> QED BY <2>1, <2>2 DEF NurseInv, Still, Says
<1> QED BY <1>1, NurseCorrect, PTL DEF Spec, AcknowledgedStands
=============================================================================
