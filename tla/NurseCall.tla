----------------------------- MODULE NurseCall ------------------------------
(***************************************************************************)
(* The bedside page of the nurse call (nurse-call-host/index.html): the     *)
(* button, the call in flight, the socket on which acknowledgements arrive, *)
(* and the timers.  The handlers of the page run to their next await one at *)
(* a time; replies, messages and timers come in any order.                  *)
(*                                                                         *)
(* The page is configured (room, ward and topic are valid), which hides the *)
(* setup form for good.  A call is its number.  ntfy.sh and the nurses'     *)
(* receivers are the environment: a nurse may acknowledge a call that was   *)
(* published, several may, and a socket that connects gets the              *)
(* acknowledgements of the last minutes again.                              *)
(*                                                                         *)
(* Timers may fire at any time after they are set; their lengths (12        *)
(* seconds, two minutes) are left out.                                      *)
(***************************************************************************)
EXTENDS Integers, FiniteSets

CONSTANTS
    MaxCalls,       \* calls of the patient
    MaxReloads,     \* reloads of the page
    MaxIdleTimers   \* setIdle timers that may be pending together

ASSUME NurseAssumption ==
    MaxCalls \in Nat /\ MaxReloads \in Nat /\ MaxIdleTimers \in Nat

Calls == 1 .. MaxCalls
NoCall == 0

VARIABLES
    activeCallId,   \* the call waited for; sessionStorage has the same value
    disabled,       \* callBtn.disabled
    status,         \* what the patient reads, and about which call
    requests,       \* calls whose POST has not been answered
    idleTimers,     \* number of pending setTimeout(setIdle, 12000)
    noAckTimers,    \* pending two-minute timers
    timeoutHandle,  \* the timer the variable of that name refers to
    socket,         \* "connecting", "open" or "closed"
    reconnects,     \* number of pending setTimeout(connectSocket)
    incoming,       \* acknowledgements the open socket may still deliver
    \* around the page
    published,      \* calls ntfy.sh has accepted
    acked,          \* calls a nurse has acknowledged
    \* history and bounds
    calls,          \* number of calls made
    reloads,        \* number of reloads
    expired,        \* calls whose two minutes have run out
    forgotten,      \* calls whose POST was under way at a reload
    repeated        \* the acknowledgement of the call was handled twice

button  == <<activeCallId, disabled, status, requests>>
timers  == <<idleTimers, noAckTimers, timeoutHandle>>
network == <<socket, reconnects, incoming>>
ward    == <<published, acked>>
history == <<calls, reloads, expired, forgotten, repeated>>
vars    == <<activeCallId, disabled, status, requests, idleTimers, noAckTimers,
             timeoutHandle, socket, reconnects, incoming, published, acked,
             calls, reloads, expired, forgotten, repeated>>

Says(kind, c) == [kind |-> kind, call |-> c]

\* A two-minute timer; one set by a click looks whether its call is still the
\* active one, one set when the page was loaded only whether there is one.
Timer(c, checks) == [call |-> c, checks |-> checks]
NoTimer == Timer(NoCall, FALSE)

Init ==
    /\ activeCallId = NoCall
    /\ disabled = FALSE
    /\ status = Says("blank", NoCall)
    /\ requests = {}
    /\ idleTimers = 0
    /\ noAckTimers = {}
    /\ timeoutHandle = NoTimer
    /\ socket = "connecting"
    /\ reconnects = 0
    /\ incoming = {}
    /\ published = {}
    /\ acked = {}
    /\ calls = 0
    /\ reloads = 0
    /\ expired = {}
    /\ forgotten = {}
    /\ repeated = FALSE

-----------------------------------------------------------------------------
\* setIdle, with "pending" the two-minute timers that have not fired.
SetIdle(pending) ==
    /\ activeCallId' = NoCall
    /\ disabled' = FALSE
    /\ noAckTimers' = pending \ {timeoutHandle}
    /\ timeoutHandle' = NoTimer

Live == socket \in {"connecting", "open"}

\* connectSocket, with "due" other reconnections pending: closing the old
\* socket makes its onclose schedule one more.
ConnectSocket(due) ==
    /\ reconnects' = IF Live THEN due + 1 ELSE due
    /\ socket' = "connecting"
    /\ incoming' = {}

\* Mutant: the button is not disabled until the POST is answered.
ClickLeavesEnabled ==
    /\ ~disabled
    /\ activeCallId = NoCall
    /\ calls < MaxCalls
    /\ calls' = calls + 1
    /\ status' = Says("calling", calls')
    /\ requests' = requests \cup {calls'}
    /\ IF Live THEN UNCHANGED network ELSE ConnectSocket(reconnects)
    /\ UNCHANGED <<timers, ward, activeCallId, disabled, reloads, expired, forgotten, repeated>>

\* The patient presses the button; nothing happens while a call is active.
Click ==
    /\ ~disabled
    /\ activeCallId = NoCall
    /\ calls < MaxCalls
    /\ calls' = calls + 1
    /\ disabled' = TRUE
    /\ status' = Says("calling", calls')
    /\ requests' = requests \cup {calls'}
    /\ IF Live THEN UNCHANGED network ELSE ConnectSocket(reconnects)
    /\ UNCHANGED <<timers, ward, activeCallId, reloads, expired, forgotten, repeated>>

\* ntfy.sh takes the call, whether or not its reply arrives.
Publish(c) ==
    /\ c \in requests
    /\ published' = published \cup {c}
    /\ UNCHANGED <<button, timers, network, acked, history>>

\* Mutant: no timer waits for the acknowledgement.
CallSentNoTimer(c) ==
    /\ c \in requests \cap published
    /\ requests' = requests \ {c}
    /\ activeCallId' = c
    /\ status' = Says("waiting", c)
    /\ UNCHANGED <<disabled, timers, network, ward, history>>

CallSent(c) ==
    /\ c \in requests \cap published
    /\ requests' = requests \ {c}
    /\ activeCallId' = c
    /\ status' = Says("waiting", c)
    /\ noAckTimers' = noAckTimers \cup {Timer(c, TRUE)}
    /\ timeoutHandle' = Timer(c, TRUE)
    /\ UNCHANGED <<disabled, idleTimers, network, ward, history>>

\* The POST is refused, fails, or its reply is lost.
CallFails(c) ==
    /\ c \in requests
    /\ requests' = requests \ {c}
    /\ status' = Says("undelivered", c)
    /\ SetIdle(noAckTimers)
    /\ UNCHANGED <<idleTimers, network, ward, history>>

\* Mutant: any acknowledgement is taken for that of the active call.
AcknowledgeAny(c) ==
    /\ socket = "open"
    /\ c \in incoming
    /\ activeCallId # NoCall
    /\ idleTimers < MaxIdleTimers
    /\ incoming' = incoming \ {c}
    /\ status' = Says("acknowledged", activeCallId)
    /\ disabled' = TRUE
    /\ noAckTimers' = noAckTimers \ {timeoutHandle}
    /\ timeoutHandle' = NoTimer
    /\ idleTimers' = idleTimers + 1
    /\ repeated' = (repeated \/ status = Says("acknowledged", c))
    /\ UNCHANGED <<activeCallId, requests, socket, reconnects, ward,
                   calls, reloads, expired, forgotten>>

\* Mutant: the page does not go back to idle after an acknowledgement.
AcknowledgeForGood(c) ==
    /\ socket = "open"
    /\ c \in incoming
    /\ c = activeCallId
    /\ incoming' = incoming \ {c}
    /\ status' = Says("acknowledged", c)
    /\ disabled' = TRUE
    /\ noAckTimers' = noAckTimers \ {timeoutHandle}
    /\ timeoutHandle' = NoTimer
    /\ repeated' = (repeated \/ status = Says("acknowledged", c))
    /\ UNCHANGED <<activeCallId, requests, idleTimers, socket, reconnects, ward,
                   calls, reloads, expired, forgotten>>

\* Mutant: the two-minute timer keeps running after the acknowledgement.
AcknowledgeKeepsTimer(c) ==
    /\ socket = "open"
    /\ c \in incoming
    /\ c = activeCallId
    /\ idleTimers < MaxIdleTimers
    /\ incoming' = incoming \ {c}
    /\ status' = Says("acknowledged", c)
    /\ disabled' = TRUE
    /\ idleTimers' = idleTimers + 1
    /\ repeated' = (repeated \/ status = Says("acknowledged", c))
    /\ UNCHANGED <<activeCallId, requests, noAckTimers, timeoutHandle, socket,
                   reconnects, ward, calls, reloads, expired, forgotten>>

\* The acknowledgement of the active call arrives.
Acknowledge(c) ==
    /\ socket = "open"
    /\ c \in incoming
    /\ c = activeCallId
    /\ idleTimers < MaxIdleTimers
    /\ incoming' = incoming \ {c}
    /\ status' = Says("acknowledged", c)
    /\ disabled' = TRUE
    /\ noAckTimers' = noAckTimers \ {timeoutHandle}
    /\ timeoutHandle' = NoTimer
    /\ idleTimers' = idleTimers + 1
    /\ repeated' = (repeated \/ status = Says("acknowledged", c))
    /\ UNCHANGED <<activeCallId, requests, socket, reconnects, ward,
                   calls, reloads, expired, forgotten>>

\* One of another call arrives, or one of a call whose POST is not answered yet.
IgnoreAcknowledgement(c) ==
    /\ socket = "open"
    /\ c \in incoming
    /\ c # activeCallId
    /\ incoming' = incoming \ {c}
    /\ UNCHANGED <<button, timers, socket, reconnects, ward, history>>

IdleTimerFires ==
    /\ idleTimers > 0
    /\ idleTimers' = idleTimers - 1
    /\ SetIdle(noAckTimers)
    /\ UNCHANGED <<status, requests, network, ward, history>>

\* Whether timer t, when it fires, finds a call to give up.
GivesUp(t) == IF t.checks THEN activeCallId = t.call ELSE activeCallId # NoCall

NoAckTimerFires(t) ==
    /\ t \in noAckTimers
    /\ expired' = expired \cup {t.call}
    /\ IF GivesUp(t)
       THEN /\ status' = Says("unanswered", activeCallId)
            /\ SetIdle(noAckTimers \ {t})
       ELSE /\ noAckTimers' = noAckTimers \ {t}
            /\ UNCHANGED <<status, activeCallId, disabled, timeoutHandle>>
    /\ UNCHANGED <<requests, idleTimers, network, ward, calls, reloads, forgotten, repeated>>

-----------------------------------------------------------------------------
(* The socket.                                                              *)

\* ntfy.sh sends what was published in the last two minutes again.
SocketOpens ==
    /\ socket = "connecting"
    /\ socket' = "open"
    /\ incoming' = acked
    /\ UNCHANGED <<button, timers, reconnects, ward, history>>

\* Mutant: nothing is scheduled when a socket that never opened is closed.
SocketClosesOpenOnly ==
    /\ Live
    /\ socket' = "closed"
    /\ incoming' = {}
    /\ reconnects' = IF socket = "open" THEN reconnects + 1 ELSE reconnects
    /\ UNCHANGED <<button, timers, ward, history>>

\* onclose, also after an error.
SocketCloses ==
    /\ Live
    /\ socket' = "closed"
    /\ incoming' = {}
    /\ reconnects' = reconnects + 1
    /\ UNCHANGED <<button, timers, ward, history>>

Reconnect ==
    /\ reconnects > 0
    /\ ConnectSocket(reconnects - 1)
    /\ UNCHANGED <<button, timers, ward, history>>

\* Mutant: the timer is set whether or not there is a call to wait for.
ResumesAlways == TRUE

\* A call is found in sessionStorage.
Resumes == activeCallId # NoCall

\* Mutant: the timer set at page load is not kept in timeoutHandle.
ResumeLosesHandle ==
    /\ disabled' = Resumes
    /\ status' = IF Resumes THEN Says("waiting", activeCallId) ELSE Says("blank", NoCall)
    /\ noAckTimers' = IF Resumes THEN {Timer(activeCallId, FALSE)} ELSE {}
    /\ timeoutHandle' = NoTimer

\* The page that is loaded waits for the call it finds, with a timer of its own.
Resume ==
    /\ disabled' = Resumes
    /\ status' = IF Resumes THEN Says("waiting", activeCallId) ELSE Says("blank", NoCall)
    /\ noAckTimers' = IF Resumes THEN {Timer(activeCallId, FALSE)} ELSE {}
    /\ timeoutHandle' = IF Resumes THEN Timer(activeCallId, FALSE) ELSE NoTimer

\* The page is loaded again: what it waited for is in sessionStorage, its
\* requests, timers and sockets are gone.
Reload ==
    /\ reloads < MaxReloads
    /\ reloads' = reloads + 1
    /\ requests' = {}
    /\ forgotten' = forgotten \cup requests
    /\ \E arrived \in SUBSET requests : published' = published \cup arrived
    /\ Resume
    /\ idleTimers' = 0
    /\ socket' = "connecting"
    /\ reconnects' = 0
    /\ incoming' = {}
    /\ UNCHANGED <<activeCallId, acked, calls, expired, repeated>>

\* A nurse, or another one, acknowledges a call.
NurseAcknowledges(c) ==
    /\ c \in published
    /\ acked' = acked \cup {c}
    /\ incoming' = IF socket = "open" THEN incoming \cup {c} ELSE incoming
    /\ UNCHANGED <<button, timers, socket, reconnects, published, history>>

CallAnswered(c) == CallSent(c) \/ CallFails(c)

PageStep ==
    \/ Click \/ IdleTimerFires \/ Reload
    \/ \E c \in Calls : CallAnswered(c) \/ Acknowledge(c) \/ IgnoreAcknowledgement(c)
    \/ \E t \in noAckTimers : NoAckTimerFires(t)

Next ==
    \/ PageStep
    \/ SocketOpens \/ SocketCloses \/ Reconnect
    \/ \E c \in Calls : Publish(c) \/ NurseAcknowledges(c)

Spec == Init /\ [][Next]_vars

\* Timers fire and a POST is answered or fails in the end.
Fairness ==
    /\ WF_vars(IdleTimerFires)
    /\ \A c \in Calls :
        /\ WF_vars(CallAnswered(c))
        /\ \A checks \in BOOLEAN : WF_vars(NoAckTimerFires(Timer(c, checks)))

FairSpec == Spec /\ Fairness

-----------------------------------------------------------------------------
(* Properties.                                                              *)

Timers == [call : Calls, checks : BOOLEAN]

Kinds == {"blank", "calling", "waiting", "acknowledged", "unanswered", "undelivered"}

\* The variables of the page and of its surroundings keep their types.
TypeOK ==
    /\ activeCallId \in Calls \cup {NoCall}
    /\ disabled \in BOOLEAN
    /\ status \in [kind : Kinds, call : Calls \cup {NoCall}]
    /\ requests \in SUBSET Calls
    /\ idleTimers \in 0 .. MaxIdleTimers
    /\ noAckTimers \in SUBSET Timers
    /\ timeoutHandle \in Timers \cup {NoTimer}
    /\ socket \in {"connecting", "open", "closed"}
    /\ reconnects \in Nat
    /\ incoming \in SUBSET Calls
    /\ published \in SUBSET Calls
    /\ acked \in SUBSET Calls
    /\ calls \in 0 .. MaxCalls
    /\ reloads \in 0 .. MaxReloads
    /\ expired \in SUBSET Calls
    /\ forgotten \in SUBSET Calls
    /\ repeated \in BOOLEAN

\* What the patient reads is true of the very call it is about: nobody is told
\* that help is on the way for a call no nurse has answered, although the
\* answers to earlier calls arrive again with every reconnection.
HonestStatus ==
    /\ status.kind = "waiting" => status.call \in published
    /\ status.kind = "acknowledged" => status.call \in acked

\* A call is given up only after its own two minutes, also the one found in
\* sessionStorage, whose timer does not look at the call.
OwnTimer == status.kind = "unanswered" => status.call \in expired

\* A patient who reads that help is on the way never reads next that nobody has
\* answered that call: no timer outlives the acknowledgement.
AcknowledgedStands ==
    [][\A c \in Calls :
          status = Says("acknowledged", c) => status' # Says("unanswered", c)]_vars

\* As long as no acknowledgement is handled twice, there is one call at a time,
\* and the button is free exactly while there is none.
SingleCall ==
    ~repeated =>
        /\ Cardinality(requests) <= 1
        /\ requests # {} => activeCallId = NoCall
        /\ disabled <=> activeCallId # NoCall \/ requests # {}

\* A page without a socket has a reconnection coming.
NeverCutOff == socket = "closed" => reconnects > 0

Pending(c) == status.call = c /\ status.kind \in {"calling", "waiting"}

\* A call the patient is told is being made or waited for ends with a verdict,
\* unless the page was reloaded in the middle of the POST or an acknowledgement
\* was handled twice.
Concluded ==
    \A c \in Calls :
        Pending(c) ~> (~Pending(c) /\ status.call = c) \/ c \in forgotten \/ repeated

\* The button never stays disabled, whatever arrives twice, late or not at all.
ButtonComesBack == disabled ~> ~disabled
=============================================================================
