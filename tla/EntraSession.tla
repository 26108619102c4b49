---------------------------- MODULE EntraSession ----------------------------
(***************************************************************************)
(* One user's Microsoft session: internal/entra.  A Session object holds   *)
(* an access token that ages and a refresh token that Microsoft replaces   *)
(* at each renewal; a file keeps the refresh token across restarts.        *)
(*                                                                         *)
(*   the tick      Manager.RenewAll, and                                   *)
(*   requests      Session.Do: both renew through one shared flight        *)
(*   sign-ins      Login.poll, which ends in Session.Adopt                 *)
(*   /microsoft    estado and iniciar look the session up, cerrar forgets  *)
(*                                                                         *)
(* Whoever looked a Session up keeps its pointer: after cerrar the manager *)
(* builds another object while the old one may still be in use.  An action *)
(* is one critical section of a mutex, one answer of Microsoft or one      *)
(* operation on the file.                                                  *)
(***************************************************************************)
EXTENDS Integers, FiniteSets

CONSTANTS
    Callers,        \* goroutines that ask for an access token
    Tick,           \* the one that is RenewAll; the others are in Do
    NoOne,          \* no flight
    SignIns,        \* slots for Login.poll goroutines
    Stored,         \* the token in the file at the first start, or 0
    MaxTokens,      \* bound: answers of Microsoft that carry tokens
    MaxSessions     \* bound: Session objects between two restarts

ASSUME CallersAssumption == IsFiniteSet(Callers) /\ Tick \in Callers /\ NoOne \notin Callers
ASSUME TokensAssumption == MaxTokens \in Nat /\ Stored \in {0, 1} /\ Stored <= MaxTokens
ASSUME SessionsAssumption == MaxSessions \in Nat \ {0}

\* Tokens are numbered by the answer that brought them; 0 is the empty string.
Tokens == 0..MaxTokens
Sessions == 1..MaxSessions

VARIABLES
    minted,         \* Microsoft: answers with tokens so far
    file,           \* the stored refresh token
    current, born,  \* Manager.sessions[user], 0 if none; objects built so far
    session,        \* every Session object: access, age, refresh, state, flight
    caller,         \* frames: pc, the object, the refresh token in hand, the
                    \* access token received or used, the 401s so far
    signin,         \* frames: pc, the object, the token granted
    forgetting,     \* Forget is between the maps and the file
    \* History, for the properties only.
    lives,          \* times each object became active, less its OnDead calls
    spent,          \* refresh tokens whose replacement was received
    forgot          \* Forget was called since the last restart

mapVars == <<current, born, forgetting>>
histVars == <<lives, spent, forgot>>
vars == <<minted, file, mapVars, session, caller, signin, histVars>>

Blank == [access |-> 0, age |-> "new", refresh |-> 0, state |-> "none", flight |-> NoOne]
IdleCaller == [pc |-> "idle", on |-> 0, refresh |-> 0, access |-> 0, refused |-> 0]
IdleSignIn == [pc |-> "idle", on |-> 0, token |-> 0]

\* Session.Load of what the file holds.
Loaded(t) == [Blank EXCEPT !.refresh = t, !.state = IF t = 0 THEN "none" ELSE "active"]
Boot(t) == [g \in Sessions |-> IF g = 1 THEN Loaded(t) ELSE Blank]
Lives(t) == [g \in Sessions |-> IF g = 1 /\ t # 0 THEN 1 ELSE 0]
Resident(t) == IF t = 0 THEN 0 ELSE 1

\* LoadAll at the first start.
Init ==
    /\ minted = Stored /\ file = Stored
    /\ current = Resident(Stored) /\ born = Resident(Stored)
    /\ session = Boot(Stored)
    /\ caller = [c \in Callers |-> IdleCaller]
    /\ signin = [s \in SignIns |-> IdleSignIn]
    /\ forgetting = FALSE
    /\ lives = Lives(Stored)
    /\ spent = {} /\ forgot = FALSE

On(c) == session[caller[c].on]
Goto(c, pc) == caller' = [caller EXCEPT ![c].pc = pc]

-----------------------------------------------------------------------------
(* Manager. *)

\* Session builds the object that is not there, for estado, iniciar or a request.
Open ==
    /\ current = 0 /\ born < MaxSessions
    /\ current' = born + 1 /\ born' = born + 1
    /\ session' = [session EXCEPT ![born + 1] = Loaded(file)]
    /\ lives' = [lives EXCEPT ![born + 1] = IF file = 0 THEN 0 ELSE 1]
    /\ UNCHANGED <<minted, file, forgetting, caller, signin, spent, forgot>>

\* RenewAll takes the active objects of the map.
StartTick ==
    /\ caller[Tick].pc = "idle"
    /\ current # 0 /\ session[current].state = "active"
    /\ caller' = [caller EXCEPT ![Tick] = [IdleCaller EXCEPT !.pc = "token", !.on = current]]
    /\ UNCHANGED <<minted, file, mapVars, session, signin, histVars>>

StartRequest(c) ==
    /\ c # Tick /\ caller[c].pc = "idle" /\ current # 0
    /\ caller' = [caller EXCEPT ![c] = [IdleCaller EXCEPT !.pc = "token", !.on = current]]
    /\ UNCHANGED <<minted, file, mapVars, session, signin, histVars>>

\* Forget drops the entries of the maps, then removes the file. Neither the
\* renewals nor the sign-ins in progress are cancelled.
ForgetEntry ==
    /\ ~forgetting
    /\ current' = 0 /\ forgetting' = TRUE /\ forgot' = TRUE
    /\ UNCHANGED <<minted, file, born, session, caller, signin, lives, spent>>

ForgetFile ==
    /\ forgetting
    /\ file' = 0 /\ forgetting' = FALSE
    /\ UNCHANGED <<minted, current, born, session, caller, signin, lives, spent, forgot>>

ForgetFileFails ==
    /\ forgetting
    /\ forgetting' = FALSE
    /\ UNCHANGED <<minted, file, current, born, session, caller, signin, histVars>>

-----------------------------------------------------------------------------
(* Session.tokenWithin and renew. *)

\* The tick has what it came for; a request goes on to use the token.
Answer(c) ==
    caller' = [caller EXCEPT ![c] = IF c = Tick THEN IdleCaller
                                    ELSE [@ EXCEPT !.pc = "send", !.access = On(c).access]]

TokenFresh(c) ==
    /\ caller[c].pc = "token"
    /\ On(c).access # 0 /\ On(c).age = "new"
    /\ Answer(c)
    /\ UNCHANGED <<minted, file, mapVars, session, signin, histVars>>

TokenStale(c) ==
    /\ caller[c].pc = "token"
    /\ On(c).access = 0 \/ On(c).age # "new"
    /\ Goto(c, "renew")
    /\ UNCHANGED <<minted, file, mapVars, session, signin, histVars>>

\* A renewal is under way, and the slip of not looking when no access token is
\* left.
AirborneWithToken(s) == s.flight # NoOne /\ s.access # 0
Airborne(s) == s.flight # NoOne

Join(c) ==
    /\ caller[c].pc = "renew" /\ Airborne(On(c))
    /\ Goto(c, "wait")
    /\ UNCHANGED <<minted, file, mapVars, session, signin, histVars>>

\* The waiter's own context ends.
GiveUp(c) ==
    /\ caller[c].pc = "wait"
    /\ Goto(c, "after")
    /\ UNCHANGED <<minted, file, mapVars, session, signin, histVars>>

NoRefresh(c) ==
    /\ caller[c].pc = "renew" /\ ~Airborne(On(c)) /\ On(c).refresh = 0
    /\ Goto(c, "after")
    /\ UNCHANGED <<minted, file, mapVars, session, signin, histVars>>

Depart(c) ==
    /\ caller[c].pc = "renew" /\ ~Airborne(On(c)) /\ On(c).refresh # 0
    /\ session' = [session EXCEPT ![caller[c].on].flight = c]
    /\ caller' = [caller EXCEPT ![c].pc = "refresh", ![c].refresh = On(c).refresh]
    /\ UNCHANGED <<minted, file, mapVars, signin, histVars>>

\* flight = nil and close(done): the waiters are released.
Land(c) ==
    /\ caller[c].pc = "land"
    /\ session' = [session EXCEPT ![caller[c].on].flight = NoOne]
    /\ caller' = [d \in Callers |->
           IF d = c \/ (caller[d].pc = "wait" /\ caller[d].on = caller[c].on)
           THEN [caller[d] EXCEPT !.pc = "after"] ELSE caller[d]]
    /\ UNCHANGED <<minted, file, mapVars, signin, histVars>>

\* After the renewal, whatever its result, a token not yet expired will do.
TokenLeft(c) ==
    /\ caller[c].pc = "after"
    /\ On(c).access # 0 /\ On(c).age # "expired"
    /\ Answer(c)
    /\ UNCHANGED <<minted, file, mapVars, session, signin, histVars>>

NoToken(c) ==
    /\ caller[c].pc = "after"
    /\ On(c).access = 0 \/ On(c).age = "expired"
    /\ caller' = [caller EXCEPT ![c] = IdleCaller]
    /\ UNCHANGED <<minted, file, mapVars, session, signin, histVars>>

-----------------------------------------------------------------------------
(* Client.Refresh and refreshOnce. What the token endpoint answers is up   *)
(* to Microsoft.                                                           *)

Mint == minted < MaxTokens /\ minted' = minted + 1

\* A new pair; the old refresh token normally stops working.
Rotated(c) ==
    /\ caller[c].pc = "refresh"
    /\ Mint
    /\ spent' = spent \cup {caller[c].refresh}
    /\ caller' = [caller EXCEPT ![c].pc = "validate", ![c].access = minted', ![c].refresh = minted']
    /\ UNCHANGED <<file, mapVars, session, signin, lives, forgot>>

\* An access token only: the refresh token in hand stays.
Unrotated(c) ==
    /\ caller[c].pc = "refresh"
    /\ Mint
    /\ caller' = [caller EXCEPT ![c].pc = "validate", ![c].access = minted']
    /\ UNCHANGED <<file, mapVars, session, signin, histVars>>

\* Network failure, 5xx or throttle.
Transient(c) ==
    /\ caller[c].pc = "refresh"
    /\ caller' = [caller EXCEPT ![c].pc = "land", ![c].refresh = 0]
    /\ UNCHANGED <<minted, file, mapVars, session, signin, histVars>>

\* invalid_grant, or any answer classify takes for permanent.
Refused(c) ==
    /\ caller[c].pc = "refresh"
    /\ caller' = [caller EXCEPT ![c].pc = "dead", ![c].refresh = 0]
    /\ UNCHANGED <<minted, file, mapVars, session, signin, histVars>>

\* The validator's GET passes: the tokens are installed ...
Installed(s, access, refresh) ==
    [s EXCEPT !.access = access, !.age = "new", !.refresh = refresh, !.state = "active"]
Revived(g) == lives' = IF session[g].state = "active" THEN lives ELSE [lives EXCEPT ![g] = @ + 1]

InstallRenewed(c) ==
    /\ caller[c].pc = "validate"
    /\ session' = [session EXCEPT ![caller[c].on] = Installed(@, caller[c].access, caller[c].refresh)]
    /\ Revived(caller[c].on)
    /\ caller' = [caller EXCEPT ![c].pc = "persist", ![c].access = 0]
    /\ UNCHANGED <<minted, file, mapVars, signin, spent, forgot>>

\* ... or does not: the access token is dropped, the refresh token kept. The
\* slip drops both.
Dropped(s, refresh) == s
Kept(s, refresh) == [s EXCEPT !.refresh = refresh]

KeepRotated(c) ==
    /\ caller[c].pc = "validate"
    /\ session' = [session EXCEPT ![caller[c].on] = Kept(@, caller[c].refresh)]
    /\ caller' = [caller EXCEPT ![c].pc = "persist", ![c].access = 0]
    /\ UNCHANGED <<minted, file, mapVars, signin, histVars>>

\* Store.Save replaces the file at a stroke, or fails and leaves it.
Persist(c) ==
    /\ caller[c].pc = "persist"
    /\ file' \in {file, caller[c].refresh}
    /\ caller' = [caller EXCEPT ![c].pc = "land", ![c].refresh = 0]
    /\ UNCHANGED <<minted, mapVars, session, signin, histVars>>

-----------------------------------------------------------------------------
(* markDead, from refreshOnce or from Do. *)

\* Whether this call is the one to tell, and the slip of always telling.
AlwaysTells(s) == TRUE
FirstToSee(s) == s.state # "dead"

Dead(s) == [Blank EXCEPT !.state = "dead", !.flight = s.flight]

MarkDead(c) ==
    /\ caller[c].pc = "dead"
    /\ session' = [session EXCEPT ![caller[c].on] = Dead(@)]
    /\ Goto(c, IF FirstToSee(On(c)) THEN "clear and tell" ELSE "clear")
    /\ UNCHANGED <<minted, file, mapVars, signin, histVars>>

\* Back to renew, or out of Do. The slip forgets the flight on this way out.
ReturnAtOnce(c) == IdleCaller
Return(c) == IF On(c).flight = c THEN [caller[c] EXCEPT !.pc = "land"] ELSE IdleCaller

\* Store.Clear works or fails; with nobody to tell, markDead is over.
Clear(c) ==
    /\ caller[c].pc \in {"clear", "clear and tell"}
    /\ file' \in {file, 0}
    /\ caller' = [caller EXCEPT ![c] = IF caller[c].pc = "clear" THEN Return(c)
                                      ELSE [@ EXCEPT !.pc = "notify"]]
    /\ UNCHANGED <<minted, mapVars, session, signin, histVars>>

OnDead(c) ==
    /\ caller[c].pc = "notify"
    /\ lives' = [lives EXCEPT ![caller[c].on] = @ - 1]
    /\ caller' = [caller EXCEPT ![c] = Return(c)]
    /\ UNCHANGED <<minted, file, mapVars, session, signin, spent, forgot>>

-----------------------------------------------------------------------------
(* Session.Do. *)

\* Anything but a 401, or a request that cannot be sent (again).
Sent(c) ==
    /\ caller[c].pc = "send"
    /\ caller' = [caller EXCEPT ![c] = IdleCaller]
    /\ UNCHANGED <<minted, file, mapVars, session, signin, histVars>>

\* The token is dropped if it is still the one that was refused.
DropRefused(s, token) == IF s.access = token THEN [s EXCEPT !.access = 0] ELSE s

Unauthorized(c) ==
    /\ caller[c].pc = "send" /\ caller[c].refused = 0
    /\ session' = [session EXCEPT ![caller[c].on] = DropRefused(@, caller[c].access)]
    /\ caller' = [caller EXCEPT ![c].pc = "token", ![c].access = 0, ![c].refused = 1]
    /\ UNCHANGED <<minted, file, mapVars, signin, histVars>>

UnauthorizedAgain(c) ==
    /\ caller[c].pc = "send" /\ caller[c].refused = 1
    /\ caller' = [caller EXCEPT ![c].pc = "dead", ![c].access = 0]
    /\ UNCHANGED <<minted, file, mapVars, session, signin, histVars>>

-----------------------------------------------------------------------------
(* A sign-in: the end of Login.poll, and Session.Adopt. *)

\* BeginLogin looked the session up.
BeginLogin(s) ==
    /\ signin[s].pc = "idle" /\ current # 0
    /\ signin' = [signin EXCEPT ![s] = [IdleSignIn EXCEPT !.pc = "pending", !.on = current]]
    /\ UNCHANGED <<minted, file, mapVars, session, caller, histVars>>

\* The user completes it elsewhere.
Granted(s) ==
    /\ signin[s].pc = "pending"
    /\ Mint
    /\ signin' = [signin EXCEPT ![s].pc = "validate", ![s].token = minted']
    /\ UNCHANGED <<file, mapVars, session, caller, histVars>>

\* The code expires or is cancelled; no refresh token; the validator refuses.
SignInFails(s) ==
    /\ signin[s].pc \in {"pending", "validate"}
    /\ signin' = [signin EXCEPT ![s] = IdleSignIn]
    /\ UNCHANGED <<minted, file, mapVars, session, caller, histVars>>

Adopt(s) ==
    /\ signin[s].pc = "validate"
    /\ session' = [session EXCEPT ![signin[s].on] = Installed(@, signin[s].token, signin[s].token)]
    /\ Revived(signin[s].on)
    /\ signin' = [signin EXCEPT ![s].pc = "persist"]
    /\ UNCHANGED <<minted, file, mapVars, caller, spent, forgot>>

AdoptPersist(s) ==
    /\ signin[s].pc = "persist"
    /\ file' \in {file, signin[s].token}
    /\ signin' = [signin EXCEPT ![s] = IdleSignIn]
    /\ UNCHANGED <<minted, mapVars, session, caller, histVars>>

-----------------------------------------------------------------------------
(* Time, Microsoft, the process. *)

\* The access token comes within RenewBefore of its end, and reaches it.
Ages(g) ==
    /\ session[g].access # 0 /\ session[g].age # "expired"
    /\ session' = [session EXCEPT ![g].age = IF @ = "new" THEN "old" ELSE "expired"]
    /\ UNCHANGED <<minted, file, mapVars, caller, signin, histVars>>

\* The process dies anywhere; LoadAll restores what the file holds.
Restart ==
    /\ current' = Resident(file) /\ born' = Resident(file)
    /\ session' = Boot(file)
    /\ caller' = [c \in Callers |-> IdleCaller]
    /\ signin' = [s \in SignIns |-> IdleSignIn]
    /\ forgetting' = FALSE
    /\ lives' = Lives(file)
    /\ spent' = {} /\ forgot' = FALSE
    /\ UNCHANGED <<minted, file>>

Renewal(c) ==
    \/ TokenFresh(c) \/ TokenStale(c) \/ Join(c) \/ NoRefresh(c) \/ Depart(c)
    \/ Rotated(c) \/ Unrotated(c) \/ Transient(c) \/ Refused(c)
    \/ InstallRenewed(c) \/ KeepRotated(c) \/ Persist(c) \/ Land(c)
    \/ TokenLeft(c) \/ NoToken(c) \/ MarkDead(c) \/ Clear(c) \/ OnDead(c)

Request(c) == Sent(c) \/ Unauthorized(c) \/ UnauthorizedAgain(c)

SignIn(s) == BeginLogin(s) \/ Granted(s) \/ SignInFails(s) \/ Adopt(s) \/ AdoptPersist(s)

Forget == ForgetEntry \/ ForgetFile \/ ForgetFileFails

Next ==
    \/ StartTick \/ Open \/ Forget \/ Restart
    \/ \E c \in Callers : StartRequest(c) \/ Renewal(c) \/ Request(c) \/ GiveUp(c)
    \/ \E s \in SignIns : SignIn(s)
    \/ \E g \in Sessions : Ages(g)

Spec == Init /\ [][Next]_vars

\* Goroutines are scheduled and the HTTP clients have timeouts: each call of a
\* caller under way returns. Nobody has to start anything.
Fairness == \A c \in Callers : WF_vars(Renewal(c) \/ Request(c))

FairSpec == Spec /\ Fairness

-----------------------------------------------------------------------------
(* Properties. *)

CallerPcs == {"idle", "token", "renew", "wait", "refresh", "validate", "persist", "land", "after",
              "dead", "clear", "clear and tell", "notify", "send"}
SignInPcs == {"idle", "pending", "validate", "persist"}

\* Every variable stays in its type, and an active session has a refresh token to
\* renew with.
TypeOK ==
    /\ minted \in Tokens /\ file \in Tokens
    /\ current \in 0..born /\ born \in 0..MaxSessions
    /\ session \in [Sessions -> [access : Tokens, age : {"new", "old", "expired"}, refresh : Tokens,
                                 state : {"none", "active", "dead"}, flight : Callers \cup {NoOne}]]
    /\ caller \in [Callers -> [pc : CallerPcs, on : 0..MaxSessions, refresh : Tokens, access : Tokens,
                               refused : {0, 1}]]
    /\ signin \in [SignIns -> [pc : SignInPcs, on : 0..MaxSessions, token : Tokens]]
    /\ forgetting \in BOOLEAN
    /\ \A g \in Sessions : session[g].state = "active" => session[g].refresh # 0
    /\ lives \in [Sessions -> Nat]
    /\ spent \subseteq Tokens /\ forgot \in BOOLEAN

\* renew is single-flight: "two parallel refreshes with the same token race each
\* other and the loser can invalidate the session the winner just obtained".
\* Callers of one object never have two requests out, through every way out of
\* refreshOnce, and whoever waits waits for a flight that is there.
Flying(c) == caller[c].pc \in {"refresh", "validate", "persist", "land"}

SingleFlight ==
    \A c, d \in Callers : caller[c].on = caller[d].on =>
        /\ Flying(c) /\ Flying(d) => c = d
        /\ caller[c].pc = "wait" => On(c).flight # NoOne

\* markDead "fires OnDead exactly once per transition": every time an object
\* became active is answered by one notification, or by one on its way, or it is
\* active still, however many callers find it dead at once.
Telling(c) == caller[c].pc \in {"clear and tell", "notify"}

OneNoticePerDeath ==
    \A g \in Sessions :
        lives[g] = Cardinality({c \in Callers : Telling(c) /\ caller[c].on = g})
                   + IF session[g].state = "active" THEN 1 ELSE 0

\* "The old one may already be invalidated by the rotation, and discarding the
\* new one would lose the session entirely": between renewals the session never
\* holds a refresh token whose replacement it was given. Until Forget, that is:
\* afterwards two objects may have loaded the same token.
NoSpentToken ==
    ~forgot => \A g \in Sessions :
        session[g].refresh \in spent => \E c \in Callers : caller[c].on = g /\ caller[c].pc = "validate"

\* Whoever asks for a token gets an answer: no flight is left open behind which
\* every later renewal would wait.
EveryCallerReturns == \A c \in Callers : caller[c].pc # "idle" ~> caller[c].pc = "idle"

=============================================================================
