---------------------------- MODULE PollPromise ----------------------------
(***************************************************************************)
(* What the scheduler promises about polls to the code that runs inside of *)
(* them (the portal session, the account pause, the announcements): an     *)
(* account is leased to one pipeline at a time, only its holder polls, one *)
(* poll at a time, and the lease ends after the last of them. Polls of all *)
(* accounts share Limit tokens, and none begins after Close.               *)
(***************************************************************************)
EXTENDS Naturals, FiniteSets

CONSTANTS
    Accounts,
    Limit         \* polls that may run at a time

VARIABLES
    leased,       \* accounts that somebody has claimed
    polled,       \* accounts with a portal search under way
    closed        \* Runtime.Close has cancelled the context

vars == <<leased, polled, closed>>

Init == leased = {} /\ polled = {} /\ closed = FALSE

Claim(a) ==
    /\ a \notin leased
    /\ leased' = leased \cup {a}
    /\ UNCHANGED <<polled, closed>>

BeginPoll(a) ==
    /\ a \in leased \ polled
    /\ Cardinality(polled) < Limit /\ ~closed
    /\ polled' = polled \cup {a}
    /\ UNCHANGED <<leased, closed>>

EndPoll(a) ==
    /\ a \in polled
    /\ polled' = polled \ {a}
    /\ UNCHANGED <<leased, closed>>

Return(a) ==
    /\ a \in leased \ polled
    /\ leased' = leased \ {a}
    /\ UNCHANGED <<polled, closed>>

Close ==
    /\ closed' = TRUE
    /\ UNCHANGED <<leased, polled>>

Next ==
    \/ \E a \in Accounts : Claim(a) \/ BeginPoll(a) \/ EndPoll(a) \/ Return(a)
    \/ Close

Spec == Init /\ [][Next]_vars
=============================================================================
