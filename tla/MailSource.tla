----------------------------- MODULE MailSource -----------------------------
(***************************************************************************)
(* What a search run may rely on of its mails: it is handed mails that     *)
(* have been delivered, and a mail that has an id of its own only when it  *)
(* does not know it.  A run that ends has looked at everything it was      *)
(* handed, and this is remembered as long as there is room; one that is    *)
(* cut off has looked at nothing.                                          *)
(***************************************************************************)
CONSTANTS
    Mails,
    Own         \* those with an id that no other mail can have

VARIABLES
    delivered,  \* mails that are or were in the mailbox
    handed,     \* mails of the run under way
    known,      \* mails it knows
    looked,     \* mails that runs have looked at, to the end
    remembered, \* mails that the next run can know
    full        \* no more can be remembered

vars == <<delivered, handed, known, looked, remembered, full>>

Init ==
    /\ delivered = {}
    /\ handed = {}
    /\ known = {}
    /\ looked = {}
    /\ remembered = {}
    /\ full = FALSE

Deliver(m) ==
    /\ m \notin delivered
    /\ delivered' = delivered \cup {m}
    /\ UNCHANGED <<handed, known, looked, remembered, full>>

\* A run knows what is remembered, or nothing.
Begin ==
    /\ known' \in {remembered, {}}
    /\ handed' = {}
    /\ UNCHANGED <<delivered, looked, remembered, full>>

HandOut(m) ==
    /\ m \in Own => m \notin known
    /\ handed' = handed \cup {m}
    /\ UNCHANGED <<delivered, known, looked, remembered, full>>

Finish ==
    /\ looked' = looked \cup handed
    /\ remembered' \subseteq known \cup (handed \cap Own)
    /\ full' \/ remembered' = known \cup (handed \cap Own)
    /\ handed' = {} /\ known' = {}
    /\ UNCHANGED delivered

CutOff ==
    /\ handed' = {} /\ known' = {}
    /\ UNCHANGED <<delivered, looked, remembered, full>>

\* Everything is forgotten, and a run under way is cut off.
Forget ==
    /\ handed' = {} /\ known' = {}
    /\ remembered' = {} /\ full' = FALSE
    /\ UNCHANGED <<delivered, looked>>

Next ==
    \/ \E m \in Mails : Deliver(m)
    \/ Begin
    \/ \E m \in delivered : HandOut(m)
    \/ Finish
    \/ CutOff
    \/ Forget

Spec == Init /\ [][Next]_vars
=============================================================================
