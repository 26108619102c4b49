-------------------------- MODULE EntraLogin_proofs --------------------------
(***************************************************************************)
(* CodesSafe, for any number of presses and codes.  The one poll that is   *)
(* asking and not cancelled is the one Login.cancel would cancel (OneLive),*)
(* and a press that was given a code is alone with it until it installs it *)
(* (Given), so that Install cancels the one before and never its own.      *)
(***************************************************************************)
EXTENDS EntraLogin, FiniteSetTheorems, TLAPS

GrantShape == [pc : PollPcs, cancelled : BOOLEAN, expired : BOOLEAN]
PressShape == [pc : {"idle", "check", "start", "install"}, grant : 0..MaxGrants]

Shapes ==
    /\ current \in [state : {"idle", "pending", "ok", "failed"}, grant : 0..MaxGrants]
    /\ grant \in [Grants -> GrantShape]
    /\ presses \in [Interactions -> PressShape]

\* A press about to install has a code that nobody has seen.
Given ==
    /\ \A g \in Grants : grant[g].pc \in {"unused", "granted"} => ~grant[g].cancelled /\ canceler # g
    /\ \A i \in Interactions : presses[i].pc = "install" =>
           presses[i].grant \in Grants /\ grant[presses[i].grant].pc = "granted"
    /\ \A i, j \in Interactions :
           presses[i].pc = "install" /\ presses[j].pc = "install" /\ presses[i].grant = presses[j].grant => i = j

\* Who is asking and not cancelled is the one that would be cancelled.
OneLive ==
    /\ \A g \in Grants : grant[g].pc = "polling" /\ ~grant[g].cancelled => canceler = g
    /\ current.grant # 0 => current.grant \in Grants /\ canceler = current.grant

\* The code on show is asked for.
Shown == current.state = "pending" =>
    /\ current.grant \in Grants
    /\ Asking(current.grant) /\ ~grant[current.grant].cancelled

IInv == Shapes /\ Given /\ OneLive /\ Shown

-----------------------------------------------------------------------------

LEMMA Numbered == 0 \notin Grants /\ Grants \subseteq 0..MaxGrants
BY DEF Grants

LEMMA BeginsSafe == MaxGrants \in Nat /\ Init => IInv
<1> SUFFICES ASSUME MaxGrants \in Nat, Init PROVE IInv
  OBVIOUS
<1>1. Shapes
  BY DEF Init, Shapes, GrantShape, PressShape, PollPcs, NoPress
<1>2. Given /\ OneLive /\ Shown
  BY Numbered DEF Init, Given, OneLive, Shown, NoPress
<1> QED
  BY <1>1, <1>2 DEF IInv

-----------------------------------------------------------------------------
(* The presses. *)

\* One press goes on, to anything but an installation.
LEMMA PressStep ==
    ASSUME IInv, NEW i \in Interactions, NEW n \in PressShape, presses' = [presses EXCEPT ![i] = n],
           n.pc # "install", UNCHANGED <<current, canceler, grant>>
    PROVE  IInv'
<1>1. /\ presses' \in [Interactions -> PressShape] /\ presses'[i] = n
      /\ \A j \in Interactions \ {i} : presses'[j] = presses[j]
  BY DEF IInv, Shapes
<1>2. Shapes'
  BY <1>1 DEF IInv, Shapes
<1>3. Given'
  BY <1>1 DEF IInv, Given
<1>4. OneLive' /\ Shown'
  BY DEF IInv, OneLive, Shown, Asking
<1> QED
  BY <1>2, <1>3, <1>4 DEF IInv

LEMMA QuietPresses ==
    ASSUME MaxGrants \in Nat, IInv, NEW i \in Interactions, Iniciar(i) \/ ReturnPending(i) \/ NonePending(i)
    PROVE  IInv'
<1>1. presses[i] \in PressShape /\ presses \in [Interactions -> PressShape]
  BY DEF IInv, Shapes
<1>2. PICK n : presses' = [presses EXCEPT ![i] = n] /\ n \in PressShape /\ n.pc # "install"
  <2>1. CASE Iniciar(i) \/ NonePending(i)
    <3>1. PICK pc \in {"check", "start"} : presses' = [presses EXCEPT ![i].pc = pc]
      BY <2>1 DEF Iniciar, NonePending
    <3>2. PICK n : n = [presses[i] EXCEPT !.pc = pc]
      OBVIOUS
    <3>3. n \in PressShape /\ n.pc # "install"
      BY <1>1, <3>1, <3>2 DEF PressShape
    <3>4. presses' = [presses EXCEPT ![i] = n]
      BY <1>1, <3>1, <3>2
    <3> QED
      BY <3>3, <3>4
  <2>2. CASE ReturnPending(i)
    <3>1. NoPress \in PressShape /\ NoPress.pc # "install"
      BY DEF NoPress, PressShape
    <3> QED
      BY <2>2, <3>1 DEF ReturnPending
  <2> QED
    BY <2>1, <2>2
<1>3. UNCHANGED <<current, canceler, grant>>
  BY DEF Iniciar, ReturnPending, NonePending
<1> QED
  BY <1>2, <1>3, PressStep

\* Begin reports that there is no code to be had: nothing is on show.
LEMMA StartFailsSafe ==
    ASSUME MaxGrants \in Nat, IInv, NEW i \in Interactions, StartFails(i)
    PROVE  IInv'
<1>1. /\ current'.state = "failed" /\ current'.grant = 0
      /\ current' \in [state : {"idle", "pending", "ok", "failed"}, grant : 0..MaxGrants]
      /\ canceler' = canceler /\ grant' = grant
  BY DEF StartFails
<1>2. NoPress \in PressShape /\ NoPress.pc = "idle"
  BY DEF NoPress, PressShape
<1>3. /\ presses' \in [Interactions -> PressShape] /\ presses'[i].pc = "idle"
      /\ \A j \in Interactions \ {i} : presses'[j] = presses[j]
  BY <1>2 DEF IInv, Shapes, StartFails
<1>4. Shapes' /\ Given'
  BY <1>1, <1>3 DEF IInv, Shapes, Given
<1>5. OneLive' /\ Shown'
  BY <1>1 DEF IInv, OneLive, Shown
<1> QED
  BY <1>4, <1>5 DEF IInv

LEMMA StartSafe ==
    ASSUME IInv, NEW i \in Interactions, Start(i)
    PROVE  IInv'
<1>1. PICK g \in Grants : /\ grant[g].pc = "unused" /\ grant' = [grant EXCEPT ![g].pc = "granted"]
                          /\ presses' = [presses EXCEPT ![i] = [pc |-> "install", grant |-> g]]
  BY DEF Start
<1>2. /\ grant'[g].pc = "granted" /\ grant'[g].cancelled = grant[g].cancelled
      /\ \A h \in Grants \ {g} : grant'[h] = grant[h]
      /\ grant' \in [Grants -> GrantShape]
  BY <1>1 DEF IInv, Shapes, GrantShape, PollPcs
<1>3. /\ presses'[i].pc = "install" /\ presses'[i].grant = g
      /\ \A j \in Interactions \ {i} : presses'[j] = presses[j]
      /\ presses' \in [Interactions -> PressShape]
  BY <1>1, Numbered DEF IInv, Shapes, PressShape
<1>4. UNCHANGED <<current, canceler>>
  BY DEF Start
<1>5. Shapes'
  BY <1>2, <1>3, <1>4 DEF IInv, Shapes
<1>6. \A j \in Interactions : presses[j].pc = "install" => presses[j].grant # g
  BY <1>1 DEF IInv, Given
<1>7. Given'
  <2>1. \A h \in Grants : grant'[h].pc \in {"unused", "granted"} => ~grant'[h].cancelled /\ canceler' # h
    BY <1>1, <1>2, <1>4 DEF IInv, Given
  <2>2. \A j \in Interactions : presses'[j].pc = "install" =>
            presses'[j].grant \in Grants /\ grant'[presses'[j].grant].pc = "granted"
    BY <1>2, <1>3, <1>6 DEF IInv, Given
  <2>3. \A j, k \in Interactions :
            presses'[j].pc = "install" /\ presses'[k].pc = "install" /\ presses'[j].grant = presses'[k].grant => j = k
    BY <1>3, <1>6 DEF IInv, Given
  <2> QED
    BY <2>1, <2>2, <2>3 DEF Given
<1>8. OneLive' /\ Shown'
  BY <1>1, <1>2, <1>4 DEF IInv, OneLive, Shown, Asking
<1> QED
  BY <1>5, <1>7, <1>8 DEF IInv

\* The new code is on show and asked for; the one before is cancelled.
LEMMA InstallSafe ==
    ASSUME MaxGrants \in Nat, IInv, NEW i \in Interactions, Install(i)
    PROVE  IInv'
<1>1. PICK g \in Grants : g = presses[i].grant
  BY DEF IInv, Given, Install
<1>2. grant[g].pc = "granted" /\ ~grant[g].cancelled /\ canceler # g
  BY <1>1 DEF IInv, Given, Install
<1>3. /\ current' = [state |-> "pending", grant |-> g] /\ canceler' = g
      /\ presses' = [presses EXCEPT ![i] = NoPress]
      /\ grant' = [h \in Grants |-> [grant[h] EXCEPT !.pc = IF h = g THEN "polling" ELSE @,
                                                     !.cancelled = @ \/ h = canceler]]
  BY <1>1 DEF Install, CancelPrevious
<1>4. ASSUME NEW h \in Grants
      PROVE  /\ grant'[h] \in GrantShape
             /\ grant'[h].pc = IF h = g THEN "polling" ELSE grant[h].pc
             /\ h = canceler => grant'[h].cancelled
             /\ h # canceler => grant'[h].cancelled = grant[h].cancelled
  <2>1. grant[h] \in GrantShape
    BY DEF IInv, Shapes
  <2>2. PICK c \in BOOLEAN : c = (grant[h].cancelled \/ h = canceler)
    OBVIOUS
  <2>3. (h = canceler => c) /\ (h # canceler => c = grant[h].cancelled)
    BY <2>1, <2>2 DEF GrantShape
  <2>4. grant'[h] = [grant[h] EXCEPT !.pc = IF h = g THEN "polling" ELSE @, !.cancelled = c]
    BY <1>3, <2>2
  <2> QED
    BY <2>1, <2>3, <2>4 DEF GrantShape, PollPcs
<1>5. /\ presses' \in [Interactions -> PressShape] /\ presses'[i].pc = "idle"
      /\ \A j \in Interactions \ {i} : presses'[j] = presses[j]
  <2>1. NoPress \in PressShape /\ NoPress.pc = "idle" /\ presses \in [Interactions -> PressShape]
    BY DEF NoPress, PressShape, IInv, Shapes
  <2> QED
    BY <1>3, <2>1
<1>6. grant' \in [Grants -> GrantShape]
  BY <1>3, <1>4
<1>7. Shapes'
  BY <1>3, <1>5, <1>6, Numbered DEF IInv, Shapes
<1>8. Given'
  <2>1. \A h \in Grants : grant'[h].pc \in {"unused", "granted"} => ~grant'[h].cancelled /\ canceler' # h
    <3> TAKE h \in Grants
    <3> HAVE grant'[h].pc \in {"unused", "granted"}
    <3>1. h # g /\ grant[h].pc \in {"unused", "granted"}
      BY <1>4
    <3>2. ~grant[h].cancelled /\ h # canceler
      BY <3>1 DEF IInv, Given
    <3> QED
      BY <1>3, <1>4, <3>1, <3>2
  <2>2. \A j \in Interactions \ {i} : presses[j].pc = "install" => presses[j].grant # g
    BY <1>1 DEF IInv, Given, Install
  <2>3. \A j \in Interactions : presses'[j].pc = "install" =>
            presses'[j].grant \in Grants /\ grant'[presses'[j].grant].pc = "granted"
    BY <1>4, <1>5, <2>2 DEF IInv, Given
  <2> QED
    BY <1>5, <2>1, <2>3 DEF IInv, Given
<1>9. OneLive'
  <2>1. \A h \in Grants : grant'[h].pc = "polling" /\ ~grant'[h].cancelled => h = g
    BY <1>4 DEF IInv, OneLive
  <2> QED
    BY <1>1, <1>3, <2>1 DEF OneLive
<1>10. Shown'
  <2>1. Asking(g)' /\ ~grant'[g].cancelled
    BY <1>2, <1>4 DEF Asking
  <2> QED
    BY <1>3, <2>1 DEF Shown
<1> QED
  BY <1>7, <1>8, <1>9, <1>10 DEF IInv

-----------------------------------------------------------------------------
(* The polls. *)

\* One poll goes on.
LEMMA PollStep ==
    ASSUME IInv, NEW g \in Grants, NEW n \in GrantShape, grant' = [grant EXCEPT ![g] = n],
           grant[g].pc \notin {"unused", "granted"}, n.pc \notin {"unused", "granted"},
           n.pc = "polling" => grant[g].pc = "polling" /\ n.cancelled = grant[g].cancelled,
           current.state = "pending" /\ current.grant = g =>
               n.pc \in {"polling", "adopt", "signed in", "failed"} /\ n.cancelled = grant[g].cancelled,
           UNCHANGED <<current, canceler, presses>>
    PROVE  IInv'
<1>1. grant' \in [Grants -> GrantShape] /\ grant'[g] = n /\ \A h \in Grants \ {g} : grant'[h] = grant[h]
  BY DEF IInv, Shapes
<1>2. Shapes'
  BY <1>1 DEF IInv, Shapes
<1>3. Given'
  BY <1>1 DEF IInv, Given
<1>4. OneLive'
  BY <1>1 DEF IInv, OneLive
<1>5. Shown'
  BY <1>1 DEF IInv, Shown, Asking
<1> QED
  BY <1>2, <1>3, <1>4, <1>5 DEF IInv

LEMMA PollsSafe ==
    ASSUME IInv, NEW g \in Grants,
           Granted(g) \/ Declined(g) \/ GiveUp(g) \/ Adopt(g) \/ Replaced(g) \/ OnFinish(g) \/ Expire(g)
    PROVE  IInv'
<1>0. grant[g] \in GrantShape /\ grant \in [Grants -> GrantShape]
  BY DEF IInv, Shapes
<1>1. UNCHANGED <<current, canceler, presses>>
  BY DEF Granted, Declined, GiveUp, Adopt, Replaced, OnFinish, Expire
<1>2. CASE Granted(g) \/ Declined(g) \/ GiveUp(g) \/ Adopt(g)
  <2>1. PICK pc \in {"adopt", "signed in", "failed"} : grant' = [grant EXCEPT ![g].pc = pc]
    BY <1>2 DEF Granted, Declined, GiveUp, Adopt
  <2>2. PICK n : n = [grant[g] EXCEPT !.pc = pc]
    OBVIOUS
  <2>3. n \in GrantShape /\ n.pc = pc /\ n.cancelled = grant[g].cancelled
    BY <1>0, <2>1, <2>2 DEF GrantShape, PollPcs
  <2>4. grant' = [grant EXCEPT ![g] = n]
    BY <1>0, <2>1, <2>2
  <2>5. grant[g].pc \in {"polling", "adopt"}
    BY <1>2 DEF Granted, Declined, GiveUp, Adopt
  <2> QED
    BY <1>1, <2>1, <2>3, <2>4, <2>5, PollStep
<1>3. CASE Replaced(g) \/ OnFinish(g)
  <2>1. Over \in GrantShape /\ Over.pc = "over"
    BY DEF Over, GrantShape, PollPcs
  <2>2. grant' = [grant EXCEPT ![g] = Over] /\ grant[g].pc \in {"signed in", "failed", "notify"}
    BY <1>3 DEF Replaced, OnFinish
  <2>3. ~(current.state = "pending" /\ current.grant = g)
    BY <1>3 DEF Replaced, OnFinish, IInv, Shown, Asking
  <2> QED
    BY <1>1, <2>1, <2>2, <2>3, PollStep
<1>4. CASE Expire(g)
  <2>1. PICK n : n = [grant[g] EXCEPT !.expired = TRUE]
    OBVIOUS
  <2>2. n \in GrantShape /\ n.pc = "polling" /\ n.cancelled = grant[g].cancelled /\ grant[g].pc = "polling"
    BY <1>0, <1>4, <2>1 DEF Expire, GrantShape
  <2>3. grant' = [grant EXCEPT ![g] = n]
    BY <1>0, <1>4, <2>1 DEF Expire
  <2> QED
    BY <1>1, <2>2, <2>3, PollStep
<1> QED
  BY <1>2, <1>3, <1>4

\* The poll on show ends, and there is none to cancel: who was asking was this one.
LEMMA EndSafe ==
    ASSUME MaxGrants \in Nat, IInv, NEW g \in Grants, End(g)
    PROVE  IInv'
<1>1. /\ current'.state \in {"failed", "ok"} /\ current'.grant = 0 /\ canceler' = 0
      /\ current' \in [state : {"idle", "pending", "ok", "failed"}, grant : 0..MaxGrants]
      /\ presses' = presses /\ grant[g].pc \in {"signed in", "failed"} /\ current.grant = g
  <2>1. PICK end \in {"failed", "ok"} : end = IF grant[g].pc = "failed" THEN "failed" ELSE "ok"
    OBVIOUS
  <2>2. current' = [state |-> end, grant |-> 0]
    <3>1. current' = [state |-> IF grant[g].pc = "failed" THEN "failed" ELSE "ok", grant |-> 0]
      BY DEF End
    <3> QED
      BY <2>1, <3>1
  <2>3. canceler' = 0 /\ presses' = presses /\ grant[g].pc \in {"signed in", "failed"} /\ current.grant = g
    BY DEF End
  <2>4. current'.state = end /\ current'.grant = 0
    BY <2>2
  <2>5. current' \in [state : {"idle", "pending", "ok", "failed"}, grant : 0..MaxGrants]
    BY <2>1, <2>2
  <2> QED
    BY <2>1, <2>3, <2>4, <2>5
<1>2. /\ grant'[g].pc = "notify" /\ \A h \in Grants \ {g} : grant'[h] = grant[h]
      /\ grant' \in [Grants -> GrantShape]
  BY DEF End, IInv, Shapes, GrantShape, PollPcs
<1>3. canceler = g
  BY <1>1, Numbered DEF IInv, OneLive
<1>4. Shapes'
  BY <1>1, <1>2 DEF IInv, Shapes
<1>5. Given'
  BY <1>1, <1>2, Numbered DEF IInv, Given
<1>6. OneLive' /\ Shown'
  BY <1>1, <1>2, <1>3 DEF IInv, OneLive, Shown
<1> QED
  BY <1>4, <1>5, <1>6 DEF IInv

-----------------------------------------------------------------------------

\* The strengthening is inductive: a press cancels the poll before its own, and what is
\* on show has a poll (login.go:61-132).
THEOREM Invariant == ASSUME MaxGrants \in Nat PROVE Spec => []IInv
<1>1. Init => IInv
  BY BeginsSafe
<1>2. IInv /\ [Next]_vars => IInv'
  <2> SUFFICES ASSUME IInv, [Next]_vars PROVE IInv'
    OBVIOUS
  <2>1. CASE UNCHANGED loginVars
    BY <2>1 DEF loginVars, IInv, Shapes, Given, OneLive, Shown, Asking
  <2>2. ASSUME NEW i \in Interactions, Iniciar(i) \/ Press(i) PROVE IInv'
    BY <2>2, QuietPresses, StartFailsSafe, StartSafe, InstallSafe DEF Press
  <2>3. ASSUME NEW g \in Grants, Poll(g) \/ Expire(g) PROVE IInv'
    BY <2>3, PollsSafe, EndSafe DEF Poll
  <2> QED
    BY <2>1, <2>2, <2>3 DEF Next, vars
<1> QED
  BY <1>1, <1>2, PTL DEF Spec

\* One code at a time is asked for and not cancelled, and it is the one on show, however
\* many presses find none pending and get a code (login.go:69-84, 98-132).
THEOREM CodesKept == ASSUME MaxGrants \in Nat PROVE Spec => []CodesSafe
<1>1. IInv => CodesSafe
  <2> SUFFICES ASSUME IInv PROVE CodesSafe
    OBVIOUS
  <2>1. {g \in Grants : grant[g].pc = "polling" /\ ~grant[g].cancelled} \subseteq {canceler}
    BY DEF IInv, OneLive
  <2>2. OneLiveCode
    <3>1. IsFiniteSet({canceler}) /\ Cardinality({canceler}) = 1
      BY FS_Singleton
    <3> QED
      BY <2>1, <3>1, FS_Subset DEF OneLiveCode
  <2> QED
    BY <2>2 DEF IInv, Shown, PendingIsLive, CodesSafe
<1> QED
  BY <1>1, Invariant, PTL

\* Every interaction, code and poll is in its type, for any number of them; the poll that
\* would be cancelled is one of those handed out (login.go:61-132).
THEOREM TypeCorrect == ASSUME MaxGrants \in Nat PROVE Spec => []TypeOK
<1> DEFINE Typed == InteractionTypeOK /\ canceler \in 0..MaxGrants
<1>1. Init => Typed
  BY DEF Init, InteractionInit, InteractionTypeOK
<1>2. IInv /\ Typed /\ [Next]_vars => Typed'
  <2> SUFFICES ASSUME IInv, Typed, [Next]_vars PROVE Typed'
    OBVIOUS
  <2>1. CASE UNCHANGED vars
    BY <2>1 DEF vars, interactionVars, loginVars, InteractionTypeOK
  <2>2. ASSUME NEW i \in Interactions, Iniciar(i) \/ Press(i) PROVE Typed'
    <3>1. InteractionTypeOK'
      <4>1. UNCHANGED interactionVars \/ Receive(i) \/ Finish(i)
        BY <2>2 DEF Iniciar, Press, ReturnPending, NonePending, StartFails, Start, Install
      <4> QED
        BY <4>1 DEF InteractionTypeOK, Receive, Finish, interactionVars
    <3>2. CASE Install(i)
      <4>1. presses[i].grant \in 0..MaxGrants
        BY DEF IInv, Shapes, PressShape
      <4> QED
        BY <3>1, <3>2, <4>1 DEF Install
    <3>3. CASE UNCHANGED canceler
      BY <3>1, <3>3
    <3> QED
      BY <2>2, <3>2, <3>3 DEF Iniciar, Press, ReturnPending, NonePending, StartFails, Start
  <2>3. ASSUME NEW i \in Interactions, Pipeline(i), UNCHANGED loginVars PROVE Typed'
    <3>1. InteractionTypeOK'
      BY <2>3 DEF InteractionTypeOK, Pipeline, Send, TakeResult, TakeDeadline, RaceEnds, RaceOver, Respond,
                  Responded
    <3> QED
      BY <2>3, <3>1 DEF loginVars
  <2>4. ASSUME NEW g \in Grants, Poll(g) \/ Expire(g) PROVE Typed'
    <3>1. UNCHANGED interactionVars /\ (canceler' = canceler \/ canceler' = 0)
      BY <2>4 DEF Poll, Expire, Granted, Declined, GiveUp, Adopt, Replaced, End, OnFinish
    <3> QED
      BY <3>1 DEF interactionVars, InteractionTypeOK
  <2> QED
    BY <2>1, <2>2, <2>3, <2>4 DEF Next
<1>3. IInv /\ Typed => TypeOK
  BY DEF IInv, Shapes, GrantShape, PressShape, TypeOK
<1> QED
  BY <1>1, <1>2, <1>3, Invariant, PTL DEF Spec

=============================================================================
