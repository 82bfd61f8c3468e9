----------------------------- MODULE MCAgentRun -----------------------------
(***************************************************************************)
(* Small instances of AgentRun.  Mails are numbers because state.json keeps *)
(* the lexicographically largest message ids.                              *)
(***************************************************************************)
EXTENDS AgentRun, TLC

CONSTANTS r1, r2, h1, a, b, c

\* Two alerts with the same links, a and b, both ending at vacancy b.
TwoAlerts == 1 .. 2
SharedLinks == (1 :> {a, b}) @@ (2 :> {a, b})
Redirected == (a :> b) @@ (b :> b)

\* One alert with both links.
OneAlert == {1}
BothLinks == 1 :> {a, b}

\* Two alerts for the same vacancy; another one to be added by hand.
RepeatedAlert == (1 :> {a}) @@ (2 :> {a})
TwoDirect == (a :> a) @@ (b :> b)

\* Two alerts with three vacancies between them.
ThreeLinks == (1 :> {a, b}) @@ (2 :> {c})
Direct == (a :> a) @@ (b :> b) @@ (c :> c)

StrictConfig  == [mode |-> "Strict Auto Apply", limit |-> 1, password |-> TRUE]
AskConfig     == [mode |-> "Prepare & Ask", limit |-> 1, password |-> TRUE]
NoPassword    == [mode |-> "Prepare & Ask", limit |-> 1, password |-> FALSE]
MonitorConfig == [mode |-> "Monitor Only", limit |-> 1, password |-> TRUE]

OnlyStrict == {StrictConfig}
OnlyStrictTwo == {[StrictConfig EXCEPT !.limit = 2]}
EveryConfig == OnlyStrictTwo \cup {AskConfig, NoPassword, MonitorConfig}

\* Two kinds of failure in one behaviour, each as often as it likes.
TwoKindsOfFailure == Cardinality(mishaps \ {"dropped"}) <= 2

RunSymmetry == Permutations(Runs)
=============================================================================
