------------------------------ MODULE EntraLogin ------------------------------
(***************************************************************************)
(* One user's device-code sign-in: /microsoft iniciar, a handler of        *)
(* Interaction that ends in Login.Begin, and the Login.poll goroutine of   *)
(* every code it hands out.  Begin looks for a pending code and installs a *)
(* new one in two critical sections, with a request to Microsoft between   *)
(* them.                                                                   *)
(*                                                                         *)
(* What the tokens become, and /microsoft cerrar, are in EntraSession.     *)
(***************************************************************************)
EXTENDS Interaction, FiniteSets

CONSTANT MaxGrants      \* bound: codes handed out by Microsoft

Grants == 1..MaxGrants

VARIABLES
    current,    \* Login.current: the state, and the grant whose UserCode it shows or 0
    canceler,   \* Login.cancel: the grant it would cancel, or 0
    grant,      \* every poll: pc, cancelled, whether its code expired
    presses     \* every handler: where it is, and the grant it was given

loginVars == <<current, canceler, grant, presses>>
vars == <<interactionVars, loginVars>>

Over == [pc |-> "over", cancelled |-> FALSE, expired |-> FALSE]
NoPress == [pc |-> "idle", grant |-> 0]

Init ==
    /\ InteractionInit
    /\ current = [state |-> "idle", grant |-> 0] /\ canceler = 0
    /\ grant = [g \in Grants |-> [pc |-> "unused", cancelled |-> FALSE, expired |-> FALSE]]
    /\ presses = [i \in Interactions |-> NoPress]

-----------------------------------------------------------------------------
(* Login.Begin. *)

Iniciar(i) ==
    /\ Receive(i)
    /\ presses' = [presses EXCEPT ![i].pc = "check"]
    /\ UNCHANGED <<current, canceler, grant>>

\* A code that is pending and not expired.
Pending == current.state = "pending" /\ ~grant[current.grant].expired

ReturnPending(i) ==
    /\ presses[i].pc = "check" /\ Pending
    /\ presses' = [presses EXCEPT ![i] = NoPress]
    /\ Finish(i)
    /\ UNCHANGED <<current, canceler, grant>>

NonePending(i) ==
    /\ presses[i].pc = "check" /\ ~Pending
    /\ presses' = [presses EXCEPT ![i].pc = "start"]
    /\ UNCHANGED <<interactionVars, current, canceler, grant>>

\* StartDeviceCode fails, or the interaction's deadline ends it: the status says
\* so, whatever it said before.
StartFails(i) ==
    /\ presses[i].pc = "start"
    /\ current' = [state |-> "failed", grant |-> 0]
    /\ presses' = [presses EXCEPT ![i] = NoPress]
    /\ Finish(i)
    /\ UNCHANGED <<canceler, grant>>

Start(i) ==
    /\ presses[i].pc = "start"
    /\ \E g \in Grants :
           /\ grant[g].pc = "unused"
           /\ \A h \in Grants : grant[h].pc = "unused" => g <= h
           /\ grant' = [grant EXCEPT ![g].pc = "granted"]
           /\ presses' = [presses EXCEPT ![i] = [pc |-> "install", grant |-> g]]
    /\ UNCHANGED <<interactionVars, current, canceler>>

\* The poll that Begin cancels is the one before: the slip cancels none.
CancelNone(g) == 0
CancelPrevious(g) == canceler

Install(i) ==
    /\ presses[i].pc = "install"
    /\ LET g == presses[i].grant IN
           /\ grant' = [h \in Grants |->
                  [grant[h] EXCEPT !.pc = IF h = g THEN "polling" ELSE @,
                                   !.cancelled = @ \/ h = CancelPrevious(g)]]
           /\ current' = [state |-> "pending", grant |-> g]
           /\ canceler' = g
    /\ presses' = [presses EXCEPT ![i] = NoPress]
    /\ Finish(i)

Press(i) == ReturnPending(i) \/ NonePending(i) \/ StartFails(i) \/ Start(i) \/ Install(i)

-----------------------------------------------------------------------------
(* PollDeviceCode and Login.poll. *)

\* The user typed the code and Microsoft answers with tokens.
Granted(g) ==
    /\ grant[g].pc = "polling" /\ ~grant[g].cancelled
    /\ grant' = [grant EXCEPT ![g].pc = "adopt"]
    /\ UNCHANGED <<interactionVars, current, canceler, presses>>

\* Refused for good.
Declined(g) ==
    /\ grant[g].pc = "polling"
    /\ grant' = [grant EXCEPT ![g].pc = "failed"]
    /\ UNCHANGED <<interactionVars, current, canceler, presses>>

\* The loop ends for an expired code and for a cancelled context; otherwise it
\* sleeps and asks again. The slip leaves the code's end to Microsoft.
OnlyCancelled(g) == grant[g].cancelled
GivesUp(g) == grant[g].expired \/ grant[g].cancelled

GiveUp(g) ==
    /\ grant[g].pc = "polling" /\ GivesUp(g)
    /\ grant' = [grant EXCEPT ![g].pc = "failed"]
    /\ UNCHANGED <<interactionVars, current, canceler, presses>>

Adopt(g) ==
    /\ grant[g].pc = "adopt"
    /\ \E end \in {"signed in", "failed"} : grant' = [grant EXCEPT ![g].pc = end]
    /\ UNCHANGED <<interactionVars, current, canceler, presses>>

\* "A newer Begin replaced this grant: its outcome is not ours to report."
Replaced(g) ==
    /\ grant[g].pc \in {"signed in", "failed"} /\ current.grant # g
    /\ grant' = [grant EXCEPT ![g] = Over]
    /\ UNCHANGED <<interactionVars, current, canceler, presses>>

End(g) ==
    /\ grant[g].pc \in {"signed in", "failed"} /\ current.grant = g
    /\ current' = [state |-> IF grant[g].pc = "failed" THEN "failed" ELSE "ok", grant |-> 0]
    /\ canceler' = 0
    /\ grant' = [grant EXCEPT ![g].pc = "notify"]
    /\ UNCHANGED <<interactionVars, presses>>

OnFinish(g) ==
    /\ grant[g].pc = "notify"
    /\ grant' = [grant EXCEPT ![g] = Over]
    /\ UNCHANGED <<interactionVars, current, canceler, presses>>

Poll(g) == Granted(g) \/ Declined(g) \/ GiveUp(g) \/ Adopt(g) \/ Replaced(g) \/ End(g) \/ OnFinish(g)

\* The code of a grant runs out.
Expire(g) ==
    /\ grant[g].pc = "polling" /\ ~grant[g].expired
    /\ grant' = [grant EXCEPT ![g].expired = TRUE]
    /\ UNCHANGED <<interactionVars, current, canceler, presses>>

-----------------------------------------------------------------------------

Next ==
    \/ \E i \in Interactions :
           Iniciar(i) \/ Press(i) \/ (Pipeline(i) /\ UNCHANGED loginVars)
    \/ \E g \in Grants : Poll(g) \/ Expire(g)

Spec == Init /\ [][Next]_vars

\* Requests to Microsoft have timeouts, a code has its end, and the runtime runs
\* the goroutines. A poll that is still asking need not get anywhere.
Fairness ==
    /\ PipelineFairness
    /\ \A i \in Interactions : WF_vars(Press(i))
    /\ \A g \in Grants : /\ WF_vars(Expire(g)) /\ WF_vars(GiveUp(g))
                         /\ WF_vars(Adopt(g) \/ Replaced(g) \/ End(g) \/ OnFinish(g))

FairSpec == Spec /\ Fairness

-----------------------------------------------------------------------------
(* Properties. *)

PollPcs == {"unused", "granted", "polling", "adopt", "signed in", "failed", "notify", "over"}
Asking(g) == grant[g].pc \in {"polling", "adopt", "signed in", "failed"}

\* Every variable stays in its type.
TypeOK ==
    /\ InteractionTypeOK
    /\ current \in [state : {"idle", "pending", "ok", "failed"}, grant : 0..MaxGrants]
    /\ canceler \in 0..MaxGrants
    /\ grant \in [Grants -> [pc : PollPcs, cancelled : BOOLEAN, expired : BOOLEAN]]
    /\ presses \in [Interactions -> [pc : {"idle", "check", "start", "install"}, grant : 0..MaxGrants]]

\* "At most one device-code sign-in at a time": however many presses got a code,
\* no more than one poll is asking that nobody has cancelled.
OneLiveCode == Cardinality({g \in Grants : grant[g].pc = "polling" /\ ~grant[g].cancelled}) <= 1

\* The code on show has a poll of its own under way, so that its status changes
\* when it ends and a user who types it signs in.
PendingIsLive == current.state = "pending" => Asking(current.grant) /\ ~grant[current.grant].cancelled

\* One code at a time is live, and it is the one on show.
CodesSafe == OneLiveCode /\ PendingIsLive

\* No code stays on show for ever: it is used, refused, replaced or runs out.
CodesEnd == \A g \in Grants : current.grant = g ~> current.grant # g

=============================================================================
