------------------------ MODULE EntraSession_proofs ------------------------
(***************************************************************************)
(* The session's renewals, for any number of callers, sign-ins, objects    *)
(* and tokens.  The flight of an object names the one caller that is       *)
(* between renew and its end (Flights), which gives SingleFlight; only an  *)
(* object somebody signed in to can be found dead (Alive), and a caller    *)
(* tells of a death only if it saw the object alive, so that the lives of  *)
(* an object and the notices about it balance (Notices).                   *)
(***************************************************************************)
EXTENDS EntraSession, FiniteSetTheorems, TLAPS

SessionShape == [access : Tokens, age : {"new", "old", "expired"}, refresh : Tokens,
                 state : {"none", "active", "dead"}, flight : Callers \cup {NoOne}]
CallerShape == [pc : CallerPcs, on : 0..MaxSessions, refresh : Tokens, access : Tokens,
                refused : {0, 1}]
SignInShape == [pc : SignInPcs, on : 0..MaxSessions, token : Tokens]

Shapes ==
    /\ minted \in Tokens /\ file \in Tokens
    /\ current \in 0..born /\ born \in 0..MaxSessions
    /\ session \in [Sessions -> SessionShape]
    /\ caller \in [Callers -> CallerShape]
    /\ signin \in [SignIns -> SignInShape]
    /\ forgetting \in BOOLEAN /\ forgot \in BOOLEAN
    /\ spent \subseteq Tokens

\* A frame in use is on an object that was built, and has the token it needs.
Frames ==
    /\ \A c \in Callers :
         /\ caller[c].pc # "idle" => caller[c].on \in 1..born
         /\ caller[c].pc \in {"refresh", "validate", "persist"} => caller[c].refresh # 0
    /\ \A s \in SignIns :
         /\ signin[s].pc # "idle" => signin[s].on \in 1..born
         /\ signin[s].pc \in {"validate", "persist"} => signin[s].token # 0

Dying(c) == caller[c].pc \in {"dead", "clear", "clear and tell", "notify"}

\* An object's flight is the caller that flies on it, and nobody else does.
Flights ==
    /\ \A c \in Callers : Flying(c) => On(c).flight = c
    /\ \A c \in Callers : caller[c].pc = "wait" => On(c).flight # NoOne
    /\ \A g \in Sessions, c \in Callers :
         session[g].flight = c => caller[c].on = g /\ (Flying(c) \/ Dying(c))

\* An object nobody signed in to has no token, and nobody got one from it.
Alive ==
    /\ \A g \in Sessions :
         /\ session[g].state = "none" => session[g].access = 0 /\ session[g].refresh = 0
         /\ session[g].state = "active" => session[g].refresh # 0
         /\ g > born => session[g].state = "none"
    /\ \A c \in Callers : Flying(c) \/ Dying(c) \/ caller[c].pc = "send" => On(c).state # "none"

Struct == Shapes /\ Frames /\ Flights /\ Alive

-----------------------------------------------------------------------------

LEMMA BlankShape == Blank \in SessionShape
BY TokensAssumption DEF Blank, SessionShape, Tokens

LEMMA LoadedShape ==
    ASSUME NEW t \in Tokens
    PROVE  /\ Loaded(t) \in SessionShape
           /\ Loaded(t).access = 0 /\ Loaded(t).refresh = t /\ Loaded(t).flight = NoOne
           /\ Loaded(t).state = IF t = 0 THEN "none" ELSE "active"
BY BlankShape DEF Loaded, Blank, SessionShape, Tokens

LEMMA IdleShapes == IdleCaller \in CallerShape /\ IdleSignIn \in SignInShape
BY TokensAssumption, SessionsAssumption
DEF IdleCaller, IdleSignIn, CallerShape, SignInShape, CallerPcs, SignInPcs, Tokens

LEMMA BootShape ==
    ASSUME NEW t \in Tokens
    PROVE  /\ Boot(t) \in [Sessions -> SessionShape]
           /\ \A g \in Sessions :
                /\ Boot(t)[g].access = 0 /\ Boot(t)[g].flight = NoOne
                /\ Boot(t)[g].refresh = IF g = 1 THEN t ELSE 0
                /\ Boot(t)[g].state = IF g = 1 /\ t # 0 THEN "active" ELSE "none"
                /\ g > Resident(t) => Boot(t)[g].state = "none"
           /\ Resident(t) \in 0..MaxSessions
<1>1. \A g \in Sessions : Boot(t)[g] = IF g = 1 THEN Loaded(t) ELSE Blank
  BY DEF Boot
<1> QED
  BY <1>1, BlankShape, LoadedShape, SessionsAssumption
  DEF Boot, Blank, Resident, Sessions, Tokens

LEMMA InitStruct == Init => Struct
<1> SUFFICES ASSUME Init PROVE Struct
  OBVIOUS
<1>1. Stored \in Tokens /\ 0 \in 0..MaxSessions
  BY TokensAssumption, SessionsAssumption DEF Tokens
<1>2. Shapes
  <2>1. session \in [Sessions -> SessionShape] /\ Resident(Stored) \in 0..MaxSessions
    BY <1>1, BootShape DEF Init
  <2>2. caller \in [Callers -> CallerShape] /\ signin \in [SignIns -> SignInShape]
    BY IdleShapes DEF Init
  <2>3. current \in 0..born
    BY <2>1 DEF Init
  <2> QED
    BY <1>1, <2>1, <2>2, <2>3 DEF Init, Shapes
<1>3. /\ \A c \in Callers : caller[c].pc = "idle" /\ ~Flying(c) /\ ~Dying(c)
      /\ \A s \in SignIns : signin[s].pc = "idle"
  BY DEF Init, IdleCaller, IdleSignIn, Flying, Dying
<1>4. \A g \in Sessions :
        /\ session[g].access = 0 /\ session[g].flight = NoOne
        /\ session[g].state = "active" => session[g].refresh # 0
        /\ session[g].state = "none" => session[g].refresh = 0
        /\ g > born => session[g].state = "none"
  BY <1>1, BootShape DEF Init
<1>5. Frames
  BY <1>3 DEF Frames
<1>6. Flights
  BY <1>3, <1>4, CallersAssumption DEF Flights
<1>7. Alive
  BY <1>3, <1>4 DEF Alive
<1> QED
  BY <1>2, <1>5, <1>6, <1>7 DEF Struct

-----------------------------------------------------------------------------
(* What a step of one caller keeps, whatever it does to the access tokens  *)
(* and the refresh tokens of the objects.                                  *)

\* The objects that stay alive stay so, and their flights stay.
SessionsKept ==
    \A g \in Sessions :
        /\ session'[g].flight = session[g].flight
        /\ session[g].state # "none" => session'[g].state # "none"
        /\ g > born => session'[g].state = "none"
        /\ session'[g].state = "none" => session'[g].access = 0 /\ session'[g].refresh = 0
        /\ session'[g].state = "active" => session'[g].refresh # 0

LEMMA CallerStep ==
    ASSUME Struct, NEW c \in Callers, Shapes', born' = born, signin' = signin, SessionsKept,
           \A d \in Callers \ {c} : caller'[d] = caller[d],
           caller'[c].pc # "idle" => caller'[c].on = caller[c].on /\ caller[c].pc # "idle",
           caller'[c].pc \in {"refresh", "validate", "persist"} => caller'[c].refresh # 0,
           Flying(c)' => On(c).flight = c,
           caller'[c].pc = "wait" => On(c).flight # NoOne,
           Flying(c) \/ Dying(c) => Flying(c)' \/ Dying(c)' \/ On(c).flight # c,
           Flying(c)' \/ Dying(c)' \/ caller'[c].pc = "send" => On(c).state # "none"
    PROVE  Struct'
<1>1. \A d \in Callers : caller[d].pc # "idle" => caller[d].on \in Sessions
  BY SessionsAssumption DEF Struct, Shapes, Frames, Sessions
<1>2. \A d \in Callers : caller'[d].pc # "idle" => caller'[d].on = caller[d].on /\ caller[d].pc # "idle"
  OBVIOUS
<1>3. \A d \in Callers :
        /\ Flying(d)' => On(d).flight = d
        /\ Flying(d) \/ Dying(d) => caller[d].pc # "idle"
        /\ (Flying(d) \/ Dying(d))' => caller'[d].pc # "idle"
  BY DEF Struct, Flights, On, Flying, Dying
<1>4. Frames'
  BY DEF Struct, Frames
<1>5. Flights'
  <2>1. \A d \in Callers : Flying(d)' => On(d)'.flight = d
    BY <1>1, <1>2, <1>3 DEF Struct, Flights, On, SessionsKept
  <2>2. \A d \in Callers : caller'[d].pc = "wait" => On(d)'.flight # NoOne
    BY <1>1, <1>2, <1>3 DEF Struct, Flights, On, SessionsKept
  <2>3. ASSUME NEW g \in Sessions, NEW d \in Callers, session'[g].flight = d
        PROVE  caller'[d].on = g /\ (Flying(d) \/ Dying(d))'
    <3>1. caller[d].on = g /\ (Flying(d) \/ Dying(d)) /\ On(d).flight = d
      BY <2>3 DEF Struct, Flights, SessionsKept, On
    <3>2. (Flying(d) \/ Dying(d))'
      BY <3>1 DEF Flying, Dying
    <3> QED
      BY <3>1, <3>2, <1>2, <1>3
  <2> QED
    BY <2>1, <2>2, <2>3 DEF Flights
<1>6. Alive'
  <2>1. ASSUME NEW d \in Callers, (Flying(d) \/ Dying(d))' \/ caller'[d].pc = "send"
        PROVE  On(d)'.state # "none"
    <3>1. On(d).state # "none"
      BY <2>1 DEF Struct, Alive, Flying, Dying
    <3> QED
      BY <2>1, <3>1, <1>1, <1>2, <1>3 DEF SessionsKept, On
  <2> QED
    BY <2>1 DEF Struct, Alive, SessionsKept
<1> QED
  BY <1>4, <1>5, <1>6 DEF Struct


\* A step that leaves every caller alone.
LEMMA QuietStep ==
    ASSUME Struct, Shapes', born' = born, caller' = caller, SessionsKept, Frames'
    PROVE  Struct'
<1>1. \A d \in Callers : caller[d].pc # "idle" => caller[d].on \in Sessions
  BY SessionsAssumption DEF Struct, Shapes, Frames, Sessions
<1>2. Flights'
  BY <1>1 DEF Struct, Flights, On, SessionsKept, Flying, Dying
<1>3. Alive'
  BY <1>1 DEF Struct, Alive, On, SessionsKept, Flying, Dying
<1> QED
  BY <1>2, <1>3 DEF Struct

\* No object is touched.
LEMMA SameSessions == ASSUME Struct, session' = session PROVE SessionsKept
BY DEF Struct, Alive, SessionsKept

\* One object is.
LEMMA OneSession ==
    ASSUME Struct, NEW g \in Sessions, NEW s \in SessionShape,
           session' = [session EXCEPT ![g] = s], g <= born,
           s.flight = session[g].flight,
           session[g].state # "none" => s.state # "none",
           s.state = "none" => s.access = 0 /\ s.refresh = 0,
           s.state = "active" => s.refresh # 0
    PROVE  SessionsKept /\ session' \in [Sessions -> SessionShape]
<1>1. \A h \in Sessions : session'[h] = IF h = g THEN s ELSE session[h]
  BY DEF Struct, Shapes
<1>2. session' \in [Sessions -> SessionShape]
  BY DEF Struct, Shapes
<1>3. ~(g > born)
  BY SessionsAssumption DEF Struct, Shapes, Sessions
<1> QED
  BY <1>1, <1>2, <1>3 DEF Struct, Alive, SessionsKept

LEMMA OnBuilt ==
    ASSUME Struct, NEW c \in Callers, caller[c].pc # "idle"
    PROVE  /\ caller[c].on \in Sessions /\ caller[c].on <= born
           /\ On(c) \in SessionShape /\ caller[c] \in CallerShape
BY SessionsAssumption DEF Struct, Shapes, Frames, Sessions, On

-----------------------------------------------------------------------------
(* Each action keeps the structure. *)

LEMMA SignInStruct ==
    ASSUME Struct, NEW s \in SignIns, SignIn(s)
    PROVE  Struct'
<1>1. Shapes /\ Frames
  BY DEF Struct
<1>2. 0 \in Tokens /\ signin[s] \in SignInShape
  BY <1>1, TokensAssumption DEF Shapes, Tokens
<1>3. ASSUME NEW n \in SignInShape, signin' = [signin EXCEPT ![s] = n],
             n.pc # "idle" => n.on \in 1..born, n.pc \in {"validate", "persist"} => n.token # 0,
             caller' = caller, born' = born
      PROVE  Frames' /\ signin' \in [SignIns -> SignInShape]
  BY <1>1, <1>3 DEF Shapes, Frames
<1>4. CASE BeginLogin(s)
  <2> DEFINE n == [IdleSignIn EXCEPT !.pc = "pending", !.on = current]
  <2>1. signin' = [signin EXCEPT ![s] = n]
    BY <1>4 DEF BeginLogin
  <2>2. current \in 1..born /\ current \in 0..MaxSessions
    BY <1>1, <1>4, SessionsAssumption DEF Shapes, BeginLogin
  <2>3. n \in SignInShape /\ n.pc = "pending" /\ n.on = current
    BY <2>2, IdleShapes DEF SignInShape, SignInPcs
  <2> HIDE DEF n
  <2>4. Frames' /\ signin' \in [SignIns -> SignInShape]
    BY <1>3, <1>4, <2>1, <2>2, <2>3 DEF BeginLogin, mapVars
  <2>5. Shapes' /\ SessionsKept
    BY <1>1, <1>4, <2>4, SameSessions DEF BeginLogin, Shapes, mapVars, histVars
  <2> QED
    BY <2>4, <2>5, <1>4, QuietStep DEF BeginLogin, mapVars, histVars
<1>5. CASE Granted(s)
  <2>1. minted' \in Tokens /\ minted' # 0
    BY <1>1, <1>5, TokensAssumption DEF Granted, Mint, Shapes, Tokens
  <2>2. signin' = [signin EXCEPT ![s] = [signin[s] EXCEPT !.pc = "validate", !.token = minted']]
    BY <1>1, <1>5 DEF Granted, Shapes
  <2>3. [signin[s] EXCEPT !.pc = "validate", !.token = minted'] \in SignInShape /\ signin[s].on \in 1..born
    BY <1>1, <1>2, <1>5, <2>1 DEF SignInShape, SignInPcs, Frames, Granted
  <2>4. Frames' /\ signin' \in [SignIns -> SignInShape]
    BY <1>2, <1>3, <1>5, <2>1, <2>2, <2>3 DEF Granted, mapVars, SignInShape
  <2>5. Shapes' /\ SessionsKept
    BY <1>1, <1>5, <2>1, <2>4, SameSessions DEF Granted, Shapes, mapVars, histVars
  <2> QED
    BY <2>4, <2>5, <1>5, QuietStep DEF Granted, mapVars
<1>6. CASE SignInFails(s) \/ AdoptPersist(s)
  <2>1. signin' = [signin EXCEPT ![s] = IdleSignIn] /\ file' \in Tokens
    BY <1>1, <1>2, <1>6 DEF SignInFails, AdoptPersist, Shapes, SignInShape
  <2>2. Frames' /\ signin' \in [SignIns -> SignInShape]
    BY <1>3, <1>6, <2>1, IdleShapes DEF SignInFails, AdoptPersist, IdleSignIn, mapVars
  <2>3. Shapes' /\ SessionsKept
    BY <1>1, <1>6, <2>1, <2>2, SameSessions DEF SignInFails, AdoptPersist, Shapes, mapVars, histVars
  <2> QED
    BY <2>2, <2>3, <1>6, QuietStep DEF SignInFails, AdoptPersist, mapVars
<1>7. CASE Adopt(s)
  <2>1. signin' = [signin EXCEPT ![s] = [signin[s] EXCEPT !.pc = "persist"]]
    BY <1>1, <1>7 DEF Adopt, Shapes
  <2>2. [signin[s] EXCEPT !.pc = "persist"] \in SignInShape /\ signin[s].token # 0 /\ signin[s].on \in 1..born
    BY <1>1, <1>2, <1>7 DEF SignInShape, SignInPcs, Frames, Adopt
  <2>3. Frames' /\ signin' \in [SignIns -> SignInShape]
    BY <1>2, <1>3, <1>7, <2>1, <2>2 DEF Adopt, mapVars, SignInShape
  <2> DEFINE g == signin[s].on
             t == signin[s].token
  <2>4. g \in Sessions /\ g <= born /\ t \in Tokens
    BY <1>1, <1>2, <2>2, SessionsAssumption DEF Shapes, Sessions, SignInShape
  <2>5. session[g] \in SessionShape
    BY <1>1, <2>4 DEF Shapes
  <2>6. Installed(session[g], t, t) \in SessionShape
    BY <2>4, <2>5 DEF SessionShape, Installed
  <2>7. /\ Installed(session[g], t, t).flight = session[g].flight
        /\ Installed(session[g], t, t).state = "active" /\ Installed(session[g], t, t).refresh = t
    BY <2>5 DEF SessionShape, Installed
  <2>8. SessionsKept /\ session' \in [Sessions -> SessionShape]
    <3>1. session' = [session EXCEPT ![g] = Installed(session[g], t, t)]
      BY <1>7, <2>4 DEF Adopt
    <3> QED
      BY <3>1, <2>2, <2>4, <2>6, <2>7, OneSession
  <2>9. Shapes'
    BY <1>1, <1>7, <2>3, <2>8 DEF Adopt, Shapes, mapVars
  <2> QED
    BY <2>3, <2>8, <2>9, <1>7, QuietStep DEF Adopt, mapVars
<1> QED
  BY <1>4, <1>5, <1>6, <1>7 DEF SignIn


\* What caller c's frame becomes when the flights stay as they are.
MayBecome(c, n) ==
    /\ caller[c].pc # "idle"
    /\ n.pc # "idle" => n.on = caller[c].on
    /\ n.pc \in {"refresh", "validate", "persist"} => n.refresh # 0
    /\ n.pc \in {"refresh", "validate", "persist", "land"} => On(c).flight = c
    /\ n.pc = "wait" => On(c).flight # NoOne
    /\ \/ On(c).flight # c
       \/ n.pc \in {"refresh", "validate", "persist", "land", "dead", "clear", "clear and tell", "notify"}
    /\ n.pc \in {"refresh", "validate", "persist", "land", "dead", "clear", "clear and tell", "notify", "send"}
           => On(c).state # "none"

LEMMA FrameStep ==
    ASSUME Struct, NEW c \in Callers, NEW n \in CallerShape, caller' = [caller EXCEPT ![c] = n],
           minted' \in Tokens, file' \in Tokens, spent' \subseteq Tokens,
           UNCHANGED <<current, born, forgetting, signin, forgot>>,
           session' \in [Sessions -> SessionShape], SessionsKept, MayBecome(c, n)
    PROVE  Struct'
<1>1. caller' \in [Callers -> CallerShape] /\ caller'[c] = n /\ \A d \in Callers \ {c} : caller'[d] = caller[d]
  BY DEF Struct, Shapes
<1>2. Shapes'
  BY <1>1 DEF Struct, Shapes
<1>3. /\ Flying(c)' <=> n.pc \in {"refresh", "validate", "persist", "land"}
      /\ Dying(c)' <=> n.pc \in {"dead", "clear", "clear and tell", "notify"}
  BY <1>1 DEF Flying, Dying
<1>4. Flying(c)' => On(c).flight = c
  BY <1>3 DEF MayBecome
<1>5. Flying(c) \/ Dying(c) => Flying(c)' \/ Dying(c)' \/ On(c).flight # c
  BY <1>3 DEF MayBecome
<1>6. Flying(c)' \/ Dying(c)' \/ caller'[c].pc = "send" => On(c).state # "none"
  BY <1>1, <1>3 DEF MayBecome
<1>7. /\ caller'[c].pc # "idle" => caller'[c].on = caller[c].on /\ caller[c].pc # "idle"
      /\ caller'[c].pc \in {"refresh", "validate", "persist"} => caller'[c].refresh # 0
      /\ caller'[c].pc = "wait" => On(c).flight # NoOne
  BY <1>1 DEF MayBecome
<1> QED
  BY <1>1, <1>2, <1>4, <1>5, <1>6, <1>7, CallerStep

LEMMA RenewalStruct ==
    ASSUME Struct, NEW c \in Callers, Renewal(c) \/ Request(c) \/ GiveUp(c), ~Depart(c), ~Land(c)
    PROVE  Struct'
<1> DEFINE f == caller[c]
           s == session[f.on]
<1>1. caller[c].pc # "idle"
  BY DEF Renewal, Request, GiveUp, TokenFresh, TokenStale, Join, NoRefresh, Rotated, Unrotated, Transient,
         Refused, InstallRenewed, KeepRotated, Persist, TokenLeft, NoToken, MarkDead, Clear, OnDead, Sent,
         Unauthorized, UnauthorizedAgain
<1>2. /\ f.on \in Sessions /\ f.on <= born /\ f \in CallerShape /\ On(c) = s /\ s \in SessionShape
      /\ file \in Tokens /\ minted \in Tokens /\ spent \subseteq Tokens /\ 0 \in Tokens
      /\ caller \in [Callers -> CallerShape] /\ session \in [Sessions -> SessionShape]
  BY <1>1, OnBuilt, TokensAssumption DEF On, Struct, Shapes, Tokens
<1>3. /\ Flying(c) => On(c).flight = c
      /\ On(c).flight = c => Flying(c) \/ Dying(c)
      /\ Flying(c) \/ Dying(c) \/ f.pc = "send" => On(c).state # "none"
      /\ f.pc \in {"refresh", "validate", "persist"} => f.refresh # 0
  BY <1>1, <1>2 DEF Struct, Flights, Alive, Frames, On
<1>4. IdleCaller \in CallerShape /\ IdleCaller.pc = "idle"
  BY IdleShapes DEF IdleCaller
<1> HIDE DEF f, s
<1>5. ASSUME f.pc \in {"token", "renew", "wait", "after", "send"}
      PROVE  On(c).flight # c
  BY <1>3, <1>5 DEF Flying, Dying, f
<1>6. ASSUME NEW n \in CallerShape, caller' = [caller EXCEPT ![c] = n], n.pc = "idle" \/ n.on = f.on,
             UNCHANGED <<minted, file, mapVars, session, signin, spent, forgot>>,
             f.pc \in {"token", "renew", "wait", "after", "send"},
             \/ n.pc \in {"idle", "renew", "after", "token"}
             \/ n.pc \in {"dead", "send"} /\ s.state # "none"
             \/ n.pc = "wait" /\ s.flight # NoOne
      PROVE  Struct'
  <2>1. MayBecome(c, n)
    BY <1>1, <1>2, <1>5, <1>6 DEF MayBecome, f
  <2> QED
    BY <1>2, <1>6, <2>1, SameSessions, FrameStep DEF mapVars
<1>7. CASE TokenFresh(c) \/ TokenLeft(c)
  <2> DEFINE m == [f EXCEPT !.pc = "send", !.access = s.access]
             n == IF c = Tick THEN IdleCaller ELSE m
  <2>1. caller' = [caller EXCEPT ![c] = n] /\ f.pc \in {"token", "after"} /\ s.access # 0
    BY <1>2, <1>7 DEF TokenFresh, TokenLeft, Answer, On, f, s
  <2>2. s.state # "none"
    BY <1>2, <2>1 DEF Struct, Alive, s
  <2>3. m \in CallerShape /\ m.pc = "send" /\ m.on = f.on
    BY <1>2 DEF CallerShape, CallerPcs, SessionShape
  <2>4. n \in CallerShape /\ (n.pc = "idle" \/ (n.pc = "send" /\ n.on = f.on))
    <3>1. CASE c = Tick
      BY <1>4, <3>1
    <3>2. CASE c # Tick
      <4>1. n = m
        BY <3>2
      <4> QED
        BY <2>3, <4>1
    <3> QED
      BY <3>1, <3>2
  <2> HIDE DEF n
  <2> QED
    BY <1>6, <1>7, <2>1, <2>2, <2>4 DEF TokenFresh, TokenLeft, mapVars, histVars
<1>8. CASE TokenStale(c) \/ Join(c) \/ NoRefresh(c) \/ GiveUp(c)
  <2>1. PICK pc \in {"renew", "wait", "after"} : 
          /\ caller' = [caller EXCEPT ![c].pc = pc] /\ f.pc \in {"token", "renew", "wait"} 
          /\ pc = "wait" => s.flight # NoOne
    BY <1>2, <1>8 DEF TokenStale, Join, NoRefresh, GiveUp, Goto, Airborne, f
  <2> DEFINE n == [f EXCEPT !.pc = pc]
  <2>2. caller' = [caller EXCEPT ![c] = n]
    BY <1>2, <2>1 DEF f
  <2>3. n \in CallerShape /\ n.pc = pc /\ n.on = f.on
    BY <1>2, <2>1 DEF CallerShape, CallerPcs
  <2> HIDE DEF n
  <2> QED
    BY <1>6, <1>8, <2>1, <2>2, <2>3 DEF TokenStale, Join, NoRefresh, GiveUp, mapVars, histVars
<1>9. CASE NoToken(c) \/ Sent(c)
  <2>1. caller' = [caller EXCEPT ![c] = IdleCaller] /\ f.pc \in {"after", "send"}
    BY <1>9 DEF NoToken, Sent, f
  <2> QED
    BY <1>4, <1>6, <1>9, <2>1 DEF NoToken, Sent, mapVars, histVars
<1>10. CASE UnauthorizedAgain(c)
  <2> DEFINE n == [f EXCEPT !.pc = "dead", !.access = 0]
  <2>1. caller' = [caller EXCEPT ![c] = n] /\ f.pc = "send"
    BY <1>2, <1>10 DEF UnauthorizedAgain, f
  <2>2. n \in CallerShape /\ n.pc = "dead" /\ n.on = f.on
    BY <1>2 DEF CallerShape, CallerPcs
  <2>3. s.state # "none"
    BY <1>2, <1>3, <2>1
  <2> HIDE DEF n
  <2> QED
    BY <1>6, <1>10, <2>1, <2>2, <2>3 DEF UnauthorizedAgain, mapVars, histVars
<1>11. CASE Rotated(c) \/ Unrotated(c)
  <2>1. minted' \in Tokens /\ minted' # 0 /\ f.pc = "refresh" /\ f.refresh \in Tokens
    BY <1>2, <1>11, TokensAssumption DEF Rotated, Unrotated, Mint, Tokens, CallerShape, f
  <2>2. PICK t \in Tokens \ {0} : caller' = [caller EXCEPT ![c] = [f EXCEPT !.pc = "validate", !.access = minted', !.refresh = t]]
    <3>1. CASE Rotated(c)
      BY <1>2, <2>1, <3>1 DEF Rotated, f
    <3>2. CASE Unrotated(c)
      <4>1. f.refresh # 0
        BY <1>3, <2>1
      <4>2. [f EXCEPT !.pc = "validate", !.access = minted', !.refresh = f.refresh]
            = [f EXCEPT !.pc = "validate", !.access = minted']
        BY <1>2 DEF CallerShape
      <4>3. caller' = [caller EXCEPT ![c] = [f EXCEPT !.pc = "validate", !.access = minted']]
        BY <1>2, <3>2 DEF Unrotated, f
      <4> QED
        BY <2>1, <4>1, <4>2, <4>3
    <3> QED
      BY <1>11, <3>1, <3>2
  <2> DEFINE n == [f EXCEPT !.pc = "validate", !.access = minted', !.refresh = t]
  <2>3. n \in CallerShape /\ n.pc = "validate" /\ n.on = f.on /\ n.refresh # 0
    BY <1>2, <2>1 DEF CallerShape, CallerPcs
  <2>4. MayBecome(c, n)
    <3> HIDE DEF n
    <3> QED
      BY <1>1, <1>3, <2>1, <2>3 DEF MayBecome, Flying, f
  <2>5. spent' \subseteq Tokens /\ caller' = [caller EXCEPT ![c] = n]
    BY <1>2, <1>11, <2>1, <2>2 DEF Rotated, Unrotated, histVars, f
  <2> HIDE DEF n
  <2> QED
    BY <1>2, <1>11, <2>1, <2>3, <2>4, <2>5, SameSessions, FrameStep DEF Rotated, Unrotated, mapVars, histVars
<1>12. ASSUME NEW n \in CallerShape, caller' = [caller EXCEPT ![c] = n], n.on = f.on, 
              UNCHANGED <<minted, mapVars, signin, spent, forgot>>, file' \in Tokens,
              SessionsKept, session' \in [Sessions -> SessionShape], s.state # "none",
              \/ n.pc = "land" /\ s.flight = c
              \/ n.pc \in {"dead", "clear", "clear and tell", "notify"}
              \/ n.pc = "persist" /\ n.refresh # 0 /\ s.flight = c
       PROVE  Struct'
  <2>1. MayBecome(c, n)
    BY <1>1, <1>2, <1>12 DEF MayBecome, f
  <2> QED
    BY <1>2, <1>12, <2>1, FrameStep DEF mapVars
<1>13. CASE Transient(c) \/ Refused(c) \/ Persist(c)
  <2>1. PICK pc \in {"land", "dead"} : 
          /\ caller' = [caller EXCEPT ![c] = [f EXCEPT !.pc = pc, !.refresh = 0]]
          /\ f.pc \in {"refresh", "persist"}
    BY <1>2, <1>13 DEF Transient, Refused, Persist, f
  <2> DEFINE n == [f EXCEPT !.pc = pc, !.refresh = 0]
  <2>2. n \in CallerShape /\ n.pc = pc /\ n.on = f.on /\ caller' = [caller EXCEPT ![c] = n]
    BY <1>2, <2>1 DEF CallerShape, CallerPcs
  <2>3. s.flight = c /\ s.state # "none"
    BY <1>2, <1>3, <2>1 DEF Flying, f
  <2>4. file' \in Tokens
    <3>1. f.refresh \in Tokens
      BY <1>2 DEF CallerShape
    <3> QED
      BY <1>2, <1>13, <3>1 DEF Transient, Refused, Persist, f
  <2> HIDE DEF n
  <2>5. UNCHANGED <<minted, mapVars, session, signin, spent, forgot>>
    BY <1>13 DEF Transient, Refused, Persist, mapVars, histVars
  <2>6. SessionsKept /\ session' \in [Sessions -> SessionShape]
    BY <1>2, <2>5, SameSessions
  <2> QED
    BY <1>12, <2>2, <2>3, <2>4, <2>5, <2>6
<1>14. CASE InstallRenewed(c)
  <2> DEFINE n == [f EXCEPT !.pc = "persist", !.access = 0]
             r == Installed(s, f.access, f.refresh)
  <2>1. f.pc = "validate" /\ session' = [session EXCEPT ![f.on] = r]
    BY <1>2, <1>14 DEF InstallRenewed, f, s
  <2>2. n \in CallerShape /\ n.pc = "persist" /\ n.on = f.on /\ n.refresh = f.refresh
    BY <1>2 DEF CallerShape, CallerPcs
  <2>3. r \in SessionShape /\ r.flight = s.flight /\ r.state = "active" /\ r.refresh = f.refresh
    BY <1>2 DEF Installed, SessionShape, CallerShape
  <2>4. s.flight = c /\ s.state # "none" /\ f.refresh # 0
    BY <1>2, <1>3, <2>1 DEF Flying, f
  <2>5. caller' = [caller EXCEPT ![c] = n] /\ UNCHANGED <<minted, file, mapVars, signin, spent, forgot>>
    BY <1>2, <1>14 DEF InstallRenewed, f
  <2> HIDE DEF n, r
  <2>6. SessionsKept /\ session' \in [Sessions -> SessionShape]
    BY <1>2, <2>1, <2>3, <2>4, OneSession DEF s
  <2> QED
    BY <1>2, <1>12, <2>2, <2>4, <2>5, <2>6
<1>15. CASE KeepRotated(c)
  <2> DEFINE n == [f EXCEPT !.pc = "persist", !.access = 0]
             r == Kept(s, f.refresh)
  <2>1. f.pc = "validate" /\ session' = [session EXCEPT ![f.on] = r]
    BY <1>2, <1>15 DEF KeepRotated, f, s
  <2>2. n \in CallerShape /\ n.pc = "persist" /\ n.on = f.on /\ n.refresh = f.refresh
    BY <1>2 DEF CallerShape, CallerPcs
  <2>3. r \in SessionShape /\ r.flight = s.flight /\ r.state = s.state /\ r.refresh = f.refresh
    BY <1>2 DEF Kept, SessionShape, CallerShape
  <2>4. s.flight = c /\ s.state # "none" /\ f.refresh # 0
    BY <1>2, <1>3, <2>1 DEF Flying, f
  <2>5. caller' = [caller EXCEPT ![c] = n] /\ UNCHANGED <<minted, file, mapVars, signin, spent, forgot>>
    BY <1>2, <1>15 DEF KeepRotated, histVars, f
  <2> HIDE DEF n, r
  <2>6. SessionsKept /\ session' \in [Sessions -> SessionShape]
    BY <1>2, <2>1, <2>3, <2>4, OneSession DEF s
  <2> QED
    BY <1>2, <1>12, <2>2, <2>4, <2>5, <2>6
<1>16. CASE MarkDead(c)
  <2> DEFINE pc == IF FirstToSee(On(c)) THEN "clear and tell" ELSE "clear"
             n == [f EXCEPT !.pc = pc]
             r == Dead(s)
  <2>1. f.pc = "dead" /\ session' = [session EXCEPT ![f.on] = r]
    BY <1>2, <1>16 DEF MarkDead, f, s
  <2>2. caller' = [caller EXCEPT ![c] = n] /\ UNCHANGED <<minted, file, mapVars, signin, spent, forgot>>
    BY <1>2, <1>16 DEF MarkDead, Goto, histVars, f
  <2>3. pc \in {"clear and tell", "clear"}
    OBVIOUS
  <2> HIDE DEF pc
  <2>4. n \in CallerShape /\ n.pc = pc /\ n.on = f.on
    BY <1>2, <2>3 DEF CallerShape, CallerPcs
  <2>5. r \in SessionShape /\ r.flight = s.flight /\ r.state = "dead"
    BY <1>2 DEF Dead, Blank, SessionShape
  <2>6. s.state # "none"
    BY <1>2, <1>3, <2>1 DEF Dying, f
  <2> HIDE DEF n, r
  <2>7. SessionsKept /\ session' \in [Sessions -> SessionShape]
    BY <1>2, <2>1, <2>5, <2>6, OneSession DEF s
  <2> QED
    BY <1>2, <1>12, <2>2, <2>3, <2>4, <2>6, <2>7
<1>17. CASE Clear(c) \/ OnDead(c)
  <2> DEFINE m == [f EXCEPT !.pc = "land"]
             k == [f EXCEPT !.pc = "notify"]
  <2>1. m \in CallerShape /\ m.pc = "land" /\ m.on = f.on
    BY <1>2 DEF CallerShape, CallerPcs
  <2>2. k \in CallerShape /\ k.pc = "notify" /\ k.on = f.on
    BY <1>2 DEF CallerShape, CallerPcs
  <2>3. PICK n : /\ n = k \/ (s.flight = c /\ n = m) \/ (s.flight # c /\ n = IdleCaller)
                 /\ caller' = [caller EXCEPT ![c] = n]
    BY <1>2, <1>17 DEF Clear, OnDead, Return, f
  <2>4. /\ f.pc \in {"clear", "clear and tell", "notify"} /\ file' \in Tokens
        /\ UNCHANGED <<minted, mapVars, session, signin, spent, forgot>>
    BY <1>2, <1>17 DEF Clear, OnDead, histVars, f
  <2>5. s.state # "none"
    BY <1>2, <1>3, <2>4 DEF Dying, f
  <2> HIDE DEF m, k
  <2>6. n \in CallerShape /\ MayBecome(c, n)
    BY <1>1, <1>2, <1>4, <2>1, <2>2, <2>3, <2>4, <2>5 DEF MayBecome, f
  <2> QED
    BY <1>2, <2>3, <2>4, <2>6, SameSessions, FrameStep DEF mapVars
<1>18. CASE Unauthorized(c)
  <2> DEFINE n == [f EXCEPT !.pc = "token", !.access = 0, !.refused = 1]
             r == DropRefused(s, f.access)
  <2>1. f.pc = "send" /\ session' = [session EXCEPT ![f.on] = r]
    BY <1>2, <1>18 DEF Unauthorized, f, s
  <2>2. n \in CallerShape /\ n.pc = "token" /\ n.on = f.on
    BY <1>2 DEF CallerShape, CallerPcs
  <2>3. r \in SessionShape /\ r.flight = s.flight /\ r.state = s.state /\ r.refresh = s.refresh
    BY <1>2 DEF DropRefused, SessionShape
  <2>4. s.state # "none" /\ (s.state = "active" => s.refresh # 0)
    BY <1>2, <1>3, <2>1 DEF Struct, Alive, s
  <2>5. caller' = [caller EXCEPT ![c] = n] /\ UNCHANGED <<minted, file, mapVars, signin, spent, forgot>>
    BY <1>2, <1>18 DEF Unauthorized, histVars, f
  <2> HIDE DEF n, r
  <2>6. SessionsKept /\ session' \in [Sessions -> SessionShape]
    BY <1>2, <2>1, <2>3, <2>4, OneSession DEF s
  <2>7. MayBecome(c, n)
    BY <1>1, <1>2, <1>5, <2>1, <2>2 DEF MayBecome, f
  <2> QED
    BY <1>2, <2>2, <2>5, <2>6, <2>7, FrameStep DEF mapVars
<1> QED
  BY <1>7, <1>8, <1>9, <1>10, <1>11, <1>13, <1>14, <1>15, <1>16, <1>17, <1>18 DEF Renewal, Request

\* A call begins.
LEMMA StartStruct ==
    ASSUME Struct, NEW c \in Callers, (StartTick /\ c = Tick) \/ StartRequest(c)
    PROVE  Struct'
<1> DEFINE n == [IdleCaller EXCEPT !.pc = "token", !.on = current]
<1>1. caller' = [caller EXCEPT ![c] = n] /\ caller[c].pc = "idle" /\ current # 0
  BY DEF StartTick, StartRequest
<1>2. UNCHANGED <<minted, file, mapVars, session, signin, spent, forgot>>
  BY DEF StartTick, StartRequest, histVars
<1>3. current \in 1..born /\ current \in 0..MaxSessions
  BY <1>1, SessionsAssumption DEF Struct, Shapes
<1>4. n \in CallerShape /\ n.pc = "token" /\ n.on = current
  BY <1>3, IdleShapes DEF CallerShape, CallerPcs
<1> HIDE DEF n
<1>5. caller' \in [Callers -> CallerShape] /\ caller'[c] = n /\ \A d \in Callers \ {c} : caller'[d] = caller[d]
  BY <1>1, <1>4 DEF Struct, Shapes
<1>6. Shapes'
  BY <1>2, <1>5 DEF Struct, Shapes, mapVars
<1>7. Frames'
  BY <1>2, <1>3, <1>4, <1>5 DEF Struct, Frames, mapVars
<1>8. \A g \in Sessions : session[g].flight # c
  BY <1>1 DEF Struct, Flights, Flying, Dying
<1>9. Flights'
  <2>1. \A d \in Callers : caller'[d].pc # "token" => caller'[d] = caller[d]
    BY <1>4, <1>5
  <2>2. \A d \in Callers : Flying(d)' => On(d)'.flight = d
    BY <1>2, <2>1 DEF Struct, Flights, Flying, On
  <2>3. \A d \in Callers : caller'[d].pc = "wait" => On(d)'.flight # NoOne
    BY <1>2, <2>1 DEF Struct, Flights, On
  <2>4. \A g \in Sessions, d \in Callers :
          session'[g].flight = d => caller'[d].on = g /\ (Flying(d) \/ Dying(d))'
    <3>1. \A g \in Sessions, d \in Callers :
            session[g].flight = d => /\ caller'[d] = caller[d]
                                     /\ caller[d].on = g /\ (Flying(d) \/ Dying(d))
      BY <1>5, <1>8 DEF Struct, Flights
    <3> QED
      BY <1>2, <3>1 DEF Flying, Dying
  <2> QED
    BY <2>2, <2>3, <2>4 DEF Flights
<1>10. Alive'
  BY <1>2, <1>4, <1>5 DEF Struct, Alive, Flying, Dying, On, mapVars
<1> QED
  BY <1>6, <1>7, <1>9, <1>10 DEF Struct

\* A flight begins, and ends.
LEMMA DepartStruct ==
    ASSUME Struct, NEW c \in Callers, Depart(c)
    PROVE  Struct'
<1> DEFINE f == caller[c]
           s == session[f.on]
           n == [f EXCEPT !.pc = "refresh", !.refresh = s.refresh]
           r == [s EXCEPT !.flight = c]
<1>1. /\ f.on \in Sessions /\ f.on \in 1..born /\ f \in CallerShape /\ s \in SessionShape
      /\ caller \in [Callers -> CallerShape] /\ session \in [Sessions -> SessionShape] 
  BY OnBuilt DEF On, Struct, Shapes, Frames, Depart
<1>2. f.pc = "renew" /\ s.flight = NoOne /\ s.refresh # 0
  BY DEF Depart, Airborne, On
<1>3. session' = [session EXCEPT ![f.on] = r] /\ caller' = [caller EXCEPT ![c] = n]
  BY <1>1 DEF Depart, On
<1>4. UNCHANGED <<minted, file, mapVars, signin, histVars>>
  BY DEF Depart
<1>5. n \in CallerShape /\ n.pc = "refresh" /\ n.on = f.on /\ n.refresh = s.refresh
  BY <1>1 DEF CallerShape, CallerPcs, SessionShape
<1>6. /\ r \in SessionShape /\ r.flight = c /\ r.state = s.state /\ r.access = s.access /\ r.refresh = s.refresh
  BY <1>1 DEF SessionShape
<1>7. f.pc = caller[c].pc /\ f.on = caller[c].on /\ s = session[caller[c].on]
  OBVIOUS
<1> HIDE DEF f, s, n, r
<1>8. caller' \in [Callers -> CallerShape] /\ caller'[c] = n /\ \A d \in Callers \ {c} : caller'[d] = caller[d]
  BY <1>1, <1>3, <1>5
<1>9. /\ session' \in [Sessions -> SessionShape] /\ session'[f.on] = r
      /\ \A g \in Sessions \ {f.on} : session'[g] = session[g]
  BY <1>1, <1>3, <1>6
<1>10. Shapes'
  BY <1>4, <1>8, <1>9 DEF Struct, Shapes, mapVars, histVars
<1>11. Frames'
  BY <1>1, <1>2, <1>4, <1>5, <1>8 DEF Struct, Frames, mapVars
<1>12. \A d \in Callers : caller[d].pc # "idle" => caller[d].on \in Sessions
  BY OnBuilt
<1>13. Flights'
  <2>1. \A g \in Sessions : session[g].flight # c
    BY <1>2, <1>7 DEF Struct, Flights, Flying, Dying
  <2>2. \A d \in Callers : caller[d].on = f.on => ~Flying(d)
    BY <1>2, <1>7, CallersAssumption DEF Struct, Flights, On
  <2>3. \A d \in Callers : Flying(d)' => On(d)'.flight = d
    BY <1>5, <1>6, <1>8, <1>9, <1>12, <2>2 DEF Struct, Flights, On, Flying
  <2>4. \A d \in Callers : caller'[d].pc = "wait" => On(d)'.flight # NoOne
    BY <1>5, <1>6, <1>8, <1>9, <1>12, CallersAssumption DEF Struct, Flights, On
  <2>5. ASSUME NEW g \in Sessions, NEW d \in Callers, session'[g].flight = d
        PROVE  caller'[d].on = g /\ (Flying(d) \/ Dying(d))'
    <3>1. CASE g = f.on
      <4>1. d = c
        BY <1>6, <1>9, <2>5, <3>1
      <4> QED
        BY <1>5, <1>8, <3>1, <4>1 DEF Flying
    <3>2. CASE g # f.on
      <4>1. session[g].flight = d /\ d # c
        BY <1>9, <2>1, <2>5, <3>2
      <4>2. caller[d].on = g /\ (Flying(d) \/ Dying(d)) /\ caller'[d] = caller[d]
        BY <1>8, <4>1 DEF Struct, Flights
      <4> QED
        BY <4>2 DEF Flying, Dying
    <3> QED
      BY <3>1, <3>2
  <2> QED
    BY <2>3, <2>4, <2>5 DEF Flights
<1>14. Alive'
  <2>1. \A g \in Sessions : /\ session'[g].state = session[g].state
                           /\ session'[g].access = session[g].access
                           /\ session'[g].refresh = session[g].refresh
    BY <1>1, <1>6, <1>7, <1>9
  <2>2. s.state # "none"
    BY <1>1, <1>2, <1>7 DEF Struct, Alive
  <2>3. ASSUME NEW d \in Callers, (Flying(d) \/ Dying(d) \/ caller[d].pc = "send")'
        PROVE  On(d)'.state # "none"
    <3>1. CASE d = c
      BY <1>1, <1>5, <1>7, <1>8, <2>1, <2>2, <3>1 DEF On
    <3>2. CASE d # c
      <4>1. caller'[d] = caller[d] /\ On(d).state # "none" /\ caller[d].pc # "idle"
        BY <1>8, <2>3, <3>2 DEF Struct, Alive, Flying, Dying
      <4> QED
        BY <1>12, <2>1, <4>1 DEF On
    <3> QED
      BY <3>1, <3>2
  <2> QED
    BY <1>4, <2>1, <2>3 DEF Struct, Alive, mapVars
<1> QED
  BY <1>10, <1>11, <1>13, <1>14 DEF Struct

LEMMA LandStruct ==
    ASSUME Struct, NEW c \in Callers, Land(c)
    PROVE  Struct'
<1> DEFINE f == caller[c]
           s == session[f.on]
           r == [s EXCEPT !.flight = NoOne]
           freed(d) == d = c \/ (caller[d].pc = "wait" /\ caller[d].on = f.on)
<1>1. /\ f.on \in Sessions /\ s \in SessionShape /\ f.pc = "land" /\ Flying(c)
      /\ caller \in [Callers -> CallerShape] /\ session \in [Sessions -> SessionShape] 
  BY OnBuilt DEF On, Struct, Shapes, Land, Flying
<1>2. session' = [session EXCEPT ![f.on] = r]
  BY <1>1 DEF Land
<1>3. UNCHANGED <<minted, file, mapVars, signin, histVars>>
  BY DEF Land
<1>4. r \in SessionShape /\ r.flight = NoOne /\ r.state = s.state /\ r.access = s.access /\ r.refresh = s.refresh
  BY <1>1 DEF SessionShape
<1>5. \A d \in Callers : [caller[d] EXCEPT !.pc = "after"] \in CallerShape
                         /\ [caller[d] EXCEPT !.pc = "after"].pc = "after"
                         /\ [caller[d] EXCEPT !.pc = "after"].on = caller[d].on
  BY <1>1 DEF CallerShape, CallerPcs
<1>6. \A d \in Callers : caller'[d] = IF freed(d) THEN [caller[d] EXCEPT !.pc = "after"] ELSE caller[d]
  BY DEF Land
<1>7. /\ caller' \in [Callers -> CallerShape]
      /\ \A d \in Callers : freed(d) => caller'[d].pc = "after" /\ caller'[d].on = caller[d].on
      /\ \A d \in Callers : ~freed(d) => caller'[d] = caller[d]
  <2>1. \A d \in Callers : caller'[d] \in CallerShape
    BY <1>1, <1>5, <1>6
  <2>2. caller' = [d \in Callers |-> caller'[d]]
    BY DEF Land
  <2> QED
    BY <1>5, <1>6, <2>1, <2>2
<1>8. f = caller[c] /\ s = session[caller[c].on]
  OBVIOUS
<1>9. \A d \in Callers : caller[d].pc # "idle" => caller[d].on \in Sessions /\ caller[d].on \in 1..born
  BY OnBuilt DEF Struct, Frames
<1>10. \A d \in Callers : freed(d) => caller[d].pc # "idle" /\ caller[d].on = f.on
  BY <1>1
<1>11. \A d \in Callers : caller[d].pc = "wait" /\ caller[d].on = f.on => freed(d)
  OBVIOUS
<1>12. freed(c)
  OBVIOUS
<1> HIDE DEF f, s, r, freed
<1>13. /\ session' \in [Sessions -> SessionShape] /\ session'[f.on] = r
       /\ \A g \in Sessions \ {f.on} : session'[g] = session[g]
  BY <1>1, <1>2, <1>4
<1>14. Shapes'
  BY <1>3, <1>7, <1>13 DEF Struct, Shapes, mapVars, histVars
<1>15. Frames'
  BY <1>3, <1>7, <1>9, <1>10 DEF Struct, Frames, mapVars
<1>16. s.flight = c
  BY <1>1, <1>8 DEF Struct, Flights, On
<1>17. \A d \in Callers : Flying(d) /\ caller[d].on = f.on => d = c
  BY <1>8, <1>16 DEF Struct, Flights, On
<1>18. Flights'
  <2>1. \A d \in Callers : Flying(d)' => Flying(d) /\ ~freed(d) /\ caller'[d] = caller[d]
    BY <1>7 DEF Flying
  <2>2. \A d \in Callers : Flying(d)' => On(d)'.flight = d
    BY <1>9, <1>12, <1>13, <1>17, <2>1 DEF Struct, Flights, On, Flying
  <2>3. \A d \in Callers : caller'[d].pc = "wait" => On(d)'.flight # NoOne
    BY <1>7, <1>9, <1>11, <1>13 DEF Struct, Flights, On
  <2>4. ASSUME NEW g \in Sessions, NEW d \in Callers, session'[g].flight = d
        PROVE  caller'[d].on = g /\ (Flying(d) \/ Dying(d))'
    <3>1. g # f.on /\ session[g].flight = d
      BY <1>4, <1>13, <2>4, CallersAssumption
    <3>2. caller[d].on = g /\ (Flying(d) \/ Dying(d))
      BY <3>1 DEF Struct, Flights
    <3>3. ~freed(d)
      BY <1>10, <3>1, <3>2
    <3> QED
      BY <1>7, <3>2, <3>3 DEF Flying, Dying
  <2> QED
    BY <2>2, <2>3, <2>4 DEF Flights
<1>19. Alive'
  <2>1. \A g \in Sessions : /\ session'[g].state = session[g].state
                           /\ session'[g].access = session[g].access
                           /\ session'[g].refresh = session[g].refresh
    BY <1>1, <1>4, <1>8, <1>13
  <2>2. ASSUME NEW d \in Callers, (Flying(d) \/ Dying(d) \/ caller[d].pc = "send")'
        PROVE  On(d)'.state # "none"
    <3>1. caller'[d] = caller[d] /\ On(d).state # "none" /\ caller[d].pc # "idle"
      BY <1>7, <2>2 DEF Struct, Alive, Flying, Dying
    <3> QED
      BY <1>9, <2>1, <3>1 DEF On
  <2> QED
    BY <1>3, <2>1, <2>2 DEF Struct, Alive, mapVars
<1> QED
  BY <1>14, <1>15, <1>18, <1>19 DEF Struct

LEMMA ManagerStruct ==
    ASSUME Struct, Open \/ Forget \/ Restart \/ \E g \in Sessions : Ages(g)
    PROVE  Struct'
<1>1. Shapes /\ Frames
  BY DEF Struct
<1>2. CASE Forget
  <2>1. /\ current' \in {0, current} /\ file' \in {0, file} /\ forgetting' \in BOOLEAN /\ forgot' \in BOOLEAN
        /\ UNCHANGED <<minted, born, session, caller, signin, spent>>
    BY <1>1, <1>2 DEF Forget, ForgetEntry, ForgetFile, ForgetFileFails, histVars, Shapes
  <2>2. Shapes'
    BY <1>1, <2>1, TokensAssumption, SessionsAssumption DEF Shapes, Tokens
  <2>3. Frames' /\ SessionsKept
    BY <1>1, <2>1, SameSessions DEF Frames
  <2> QED
    BY <2>1, <2>2, <2>3, QuietStep
<1>3. ASSUME NEW g \in Sessions, Ages(g) PROVE Struct'
  <2> DEFINE s == session[g]
             r == [s EXCEPT !.age = IF @ = "new" THEN "old" ELSE "expired"]
  <2>1. s \in SessionShape /\ s.access # 0
    BY <1>1, <1>3 DEF Shapes, Ages
  <2>2. session' = [session EXCEPT ![g] = r]
    BY <1>1, <1>3 DEF Ages, Shapes
  <2>3. r \in SessionShape /\ r.flight = s.flight /\ r.state = s.state /\ r.access = s.access /\ r.refresh = s.refresh
    BY <2>1 DEF SessionShape
  <2>4. s.state # "none" /\ (s.state = "active" => s.refresh # 0) /\ g <= born
    BY <1>1, <2>1, SessionsAssumption DEF Struct, Alive, Shapes, Sessions
  <2> HIDE DEF r
  <2>5. SessionsKept /\ session' \in [Sessions -> SessionShape]
    BY <2>2, <2>3, <2>4, OneSession
  <2>6. Shapes' /\ Frames' /\ born' = born /\ caller' = caller
    BY <1>1, <1>3, <2>5 DEF Ages, Shapes, Frames, mapVars, histVars
  <2> QED
    BY <2>5, <2>6, QuietStep
<1>4. CASE Open
  <2>1. /\ session' = [session EXCEPT ![born + 1] = Loaded(file)] /\ current' = born + 1 /\ born' = born + 1
        /\ UNCHANGED <<minted, file, forgetting, caller, signin, spent, forgot>>
        /\ born + 1 \in Sessions /\ born' \in 0..MaxSessions /\ born \in Nat
    BY <1>1, <1>4, SessionsAssumption DEF Open, Shapes, Sessions
  <2>2. /\ session' \in [Sessions -> SessionShape] /\ session'[born + 1] = Loaded(file)
        /\ \A g \in Sessions \ {born + 1} : session'[g] = session[g]
    BY <1>1, <2>1, LoadedShape DEF Shapes
  <2>3. Shapes'
    BY <1>1, <2>1, <2>2 DEF Shapes
  <2>4. Frames'
    BY <1>1, <2>1 DEF Frames
  <2>5. \A c \in Callers : caller[c].pc # "idle" => caller[c].on \in Sessions /\ caller[c].on # born + 1
    BY <1>1, <2>1, OnBuilt DEF Frames
  <2>6. \A c \in Callers : session[born + 1].flight # c
    BY <2>1, <2>5 DEF Struct, Flights, Flying, Dying
  <2>7. Flights'
    <3>1. Loaded(file).flight = NoOne
      BY <1>1, LoadedShape DEF Shapes
    <3>2. \A c \in Callers : Flying(c) \/ Dying(c) => caller[c].pc # "idle"
      BY DEF Flying, Dying
    <3>3. \A c \in Callers : (Flying(c)' <=> Flying(c)) /\ (Dying(c)' <=> Dying(c))
      BY <2>1 DEF Flying, Dying
    <3>4. \A c \in Callers : caller[c].pc # "idle" => On(c)' = On(c)
      BY <2>1, <2>2, <2>5 DEF On
    <3>5. /\ \A c \in Callers : Flying(c)' => On(c)'.flight = c
          /\ \A c \in Callers : caller'[c].pc = "wait" => On(c)'.flight # NoOne
      BY <2>1, <3>2, <3>3, <3>4 DEF Struct, Flights
    <3>6. \A g \in Sessions, c \in Callers : session'[g].flight = c => session[g].flight = c
      BY <2>2, <3>1, CallersAssumption
    <3> QED
      BY <2>1, <3>3, <3>5, <3>6 DEF Struct, Flights
  <2>8. Alive'
    <3>1. /\ Loaded(file).state = "none" => Loaded(file).access = 0 /\ Loaded(file).refresh = 0
          /\ Loaded(file).state = "active" => Loaded(file).refresh # 0
      BY <1>1, LoadedShape DEF Shapes
    <3>2. \A g \in Sessions : g > born + 1 => g > born /\ g # born + 1
      BY <2>1 DEF Sessions
    <3> QED
      BY <2>1, <2>2, <2>5, <3>1, <3>2 DEF Struct, Alive, On, Flying, Dying
  <2> QED
    BY <2>3, <2>4, <2>7, <2>8 DEF Struct
<1>5. CASE Restart
  <2>1. file \in Tokens /\ file' = file /\ minted' \in Tokens /\ 0 \in 0..MaxSessions
    BY <1>1, <1>5, SessionsAssumption DEF Restart, Shapes
  <2>2. /\ session' = Boot(file) /\ born' = Resident(file) /\ current' = Resident(file)
        /\ caller' = [c \in Callers |-> IdleCaller] /\ signin' = [s \in SignIns |-> IdleSignIn]
        /\ forgetting' = FALSE /\ spent' = {} /\ forgot' = FALSE
    BY <1>5 DEF Restart
  <2>3. Shapes'
    <3>1. session' \in [Sessions -> SessionShape] /\ Resident(file) \in 0..MaxSessions
      BY <2>1, <2>2, BootShape
    <3>2. caller' \in [Callers -> CallerShape] /\ signin' \in [SignIns -> SignInShape]
      BY <2>2, IdleShapes
    <3>3. current' \in 0..born'
      BY <2>2, <3>1
    <3> QED
      BY <2>1, <2>2, <3>1, <3>2, <3>3 DEF Shapes
  <2>4. /\ \A c \in Callers : caller'[c].pc = "idle" /\ ~Flying(c)' /\ ~Dying(c)'
        /\ \A s \in SignIns : signin'[s].pc = "idle"
    BY <2>2 DEF IdleCaller, IdleSignIn, Flying, Dying
  <2>5. \A g \in Sessions :
          /\ session'[g].access = 0 /\ session'[g].flight = NoOne
          /\ session'[g].state = "active" => session'[g].refresh # 0
          /\ session'[g].state = "none" => session'[g].refresh = 0
          /\ g > born' => session'[g].state = "none"
    BY <2>1, <2>2, BootShape
  <2>6. Frames'
    BY <2>4 DEF Frames
  <2>7. Flights'
    BY <2>4, <2>5, CallersAssumption DEF Flights
  <2>8. Alive'
    BY <2>4, <2>5 DEF Alive
  <2> QED
    BY <2>3, <2>6, <2>7, <2>8 DEF Struct
<1> QED
  BY <1>2, <1>3, <1>4, <1>5

\* The inductive invariant: types, frames, flights and lives agree (session.go:97-371).
THEOREM Structure == Spec => []Struct
<1>1. Struct /\ [Next]_vars => Struct'
  <2> SUFFICES ASSUME Struct, [Next]_vars PROVE Struct'
    OBVIOUS
  <2>1. CASE UNCHANGED vars
    BY <2>1 DEF Struct, Shapes, Frames, Flights, Alive, Flying, Dying, On, vars, mapVars, histVars
  <2>2. CASE Next
    <3>1. CASE StartTick
      BY <3>1, StartStruct, CallersAssumption
    <3>2. ASSUME NEW c \in Callers, StartRequest(c) \/ Renewal(c) \/ Request(c) \/ GiveUp(c)
          PROVE  Struct'
      BY <3>2, StartStruct, RenewalStruct, DepartStruct, LandStruct
    <3> QED
      BY <2>2, <3>1, <3>2, ManagerStruct, SignInStruct DEF Next
  <2> QED
    BY <2>1, <2>2
<1> QED
  BY InitStruct, <1>1, PTL DEF Spec

\* Callers of one object never have two renewals out, and whoever waits waits for a
\* flight that is there (session.go:176-205).
THEOREM SingleFlightHolds == Spec => []SingleFlight
<1>1. Struct => SingleFlight
  BY DEF Struct, Flights, SingleFlight, On
<1> QED
  BY Structure, <1>1, PTL

-----------------------------------------------------------------------------
(* One notice for each life. *)

Tellers(g) == {c \in Callers : Telling(c) /\ caller[c].on = g}
Active(g) == IF session[g].state = "active" THEN 1 ELSE 0

Notices ==
    /\ lives \in [Sessions -> Int]
    /\ \A g \in Sessions : lives[g] = Cardinality(Tellers(g)) + Active(g)

LEMMA TellersFinite == \A g : IsFiniteSet(Tellers(g)) /\ Cardinality(Tellers(g)) \in Nat
BY CallersAssumption, FS_Subset, FS_CardinalityType DEF Tellers

\* Nobody begins or ends telling, and no object is born, revived or killed.
LEMMA QuietNotices ==
    ASSUME Notices, lives' = lives,
           \A g \in Sessions : Active(g)' = Active(g),
           \A d \in Callers : Telling(d)' <=> Telling(d),
           \A d \in Callers : Telling(d) => caller'[d].on = caller[d].on
    PROVE  Notices'
<1>1. \A g \in Sessions : Tellers(g)' = Tellers(g)
  BY DEF Tellers
<1> QED
  BY <1>1 DEF Notices

LEMMA InitNotices == Init => Notices
<1> SUFFICES ASSUME Init PROVE Notices
  OBVIOUS
<1>1. \A g \in Sessions : Tellers(g) = {}
  BY DEF Init, IdleCaller, Tellers, Telling
<1>2. \A g \in Sessions : Active(g) = IF g = 1 /\ Stored # 0 THEN 1 ELSE 0
  BY BootShape, TokensAssumption DEF Init, Active, Tokens
<1>3. lives \in [Sessions -> Int] /\ \A g \in Sessions : lives[g] = IF g = 1 /\ Stored # 0 THEN 1 ELSE 0
  BY DEF Init, Lives
<1> QED
  BY <1>1, <1>2, <1>3, FS_EmptySet DEF Notices

LEMMA ReviveNotices ==
    ASSUME Struct, Notices, NEW g \in Sessions, Revived(g), session'[g].state = "active",
           \A h \in Sessions \ {g} : session'[h] = session[h],
           \A d \in Callers : Telling(d)' <=> Telling(d),
           \A d \in Callers : Telling(d) => caller'[d].on = caller[d].on
    PROVE  Notices'
<1>1. \A h \in Sessions : Tellers(h)' = Tellers(h)
  BY DEF Tellers
<1>2. /\ lives' \in [Sessions -> Int] /\ lives'[g] = lives[g] + 1 - Active(g)
      /\ \A h \in Sessions \ {g} : lives'[h] = lives[h]
  BY DEF Revived, Notices, Active
<1>3. Active(g)' = 1 /\ \A h \in Sessions \ {g} : Active(h)' = Active(h)
  BY DEF Active
<1>4. Active(g) \in Int /\ Cardinality(Tellers(g)) \in Int
  BY TellersFinite DEF Active
<1>5. lives'[g] = Cardinality(Tellers(g)') + Active(g)'
  BY <1>1, <1>2, <1>3, <1>4 DEF Notices
<1>6. \A h \in Sessions \ {g} : lives'[h] = Cardinality(Tellers(h)') + Active(h)'
  BY <1>1, <1>2, <1>3 DEF Notices
<1> QED
  BY <1>2, <1>5, <1>6 DEF Notices

LEMMA MarkDeadNotices ==
    ASSUME Struct, Notices, NEW c \in Callers, MarkDead(c)
    PROVE  Notices'
<1>1. PICK g \in Sessions : g = caller[c].on
  BY OnBuilt DEF MarkDead
<1>2. /\ session[g] \in SessionShape /\ caller[c].pc = "dead" /\ On(c) = session[g]
      /\ caller \in [Callers -> CallerShape] /\ session \in [Sessions -> SessionShape]
      /\ session[g].state \in {"active", "dead"}
  BY <1>1, OnBuilt DEF On, Struct, Shapes, MarkDead, Alive, Dying, SessionShape
<1>3. /\ lives' = lives /\ session'[g].state = "dead"
      /\ \A h \in Sessions \ {g} : session'[h] = session[h]
  BY <1>1, <1>2 DEF MarkDead, Dead, Blank, histVars
<1>4. Active(g)' = 0 /\ \A h \in Sessions \ {g} : Active(h)' = Active(h)
  BY <1>3 DEF Active
<1> DEFINE pc == IF session[g].state # "dead" THEN "clear and tell" ELSE "clear"
<1>5. caller' = [caller EXCEPT ![c].pc = pc]
  BY <1>1, <1>2 DEF MarkDead, Goto, FirstToSee
<1> HIDE DEF pc
<1>6. \A d \in Callers : caller'[d].on = caller[d].on /\ (d # c => caller'[d] = caller[d])
  BY <1>2, <1>5 DEF CallerShape
<1>7. caller'[c].pc = pc
  BY <1>2, <1>5 DEF CallerShape
<1>8. caller'[c].pc = IF session[g].state # "dead" THEN "clear and tell" ELSE "clear"
  BY <1>7 DEF pc
<1>9. \A h \in Sessions \ {g} : Tellers(h)' = Tellers(h)
  BY <1>1, <1>6 DEF Tellers, Telling
<1>10. c \notin Tellers(g)
  BY <1>2 DEF Tellers, Telling
<1>11. CASE session[g].state = "dead"
  <2>1. Tellers(g)' = Tellers(g)
    BY <1>2, <1>6, <1>8, <1>11 DEF Tellers, Telling
  <2>2. Active(g) = 0
    BY <1>11 DEF Active
  <2> QED
    BY <1>3, <1>4, <1>9, <2>1, <2>2 DEF Notices
<1>12. CASE session[g].state = "active"
  <2>1. Tellers(g)' = Tellers(g) \cup {c}
    BY <1>1, <1>6, <1>8, <1>12 DEF Tellers, Telling
  <2>2. Cardinality(Tellers(g)') = Cardinality(Tellers(g)) + 1
    BY <1>10, <2>1, TellersFinite, FS_AddElement
  <2>3. Active(g) = 1
    BY <1>12 DEF Active
  <2>4. lives'[g] = Cardinality(Tellers(g)') + Active(g)'
    BY <1>2, <1>3, <1>4, <2>2, <2>3, TellersFinite DEF Notices
  <2> QED
    BY <1>3, <1>4, <1>9, <2>4 DEF Notices
<1> QED
  BY <1>2, <1>11, <1>12

LEMMA OnDeadNotices ==
    ASSUME Struct, Notices, NEW c \in Callers, OnDead(c)
    PROVE  Notices'
<1>1. PICK g \in Sessions : g = caller[c].on
  BY OnBuilt DEF OnDead
<1>2. /\ caller[c].pc = "notify" /\ session' = session
      /\ caller \in [Callers -> CallerShape] /\ lives' = [lives EXCEPT ![g] = @ - 1]
  BY <1>1 DEF Struct, Shapes, OnDead
<1>3. \A h \in Sessions : Active(h)' = Active(h) /\ Active(h) \in Int
  BY <1>2 DEF Active
<1>4. caller'[c].pc \in {"idle", "land"} /\ \A d \in Callers \ {c} : caller'[d] = caller[d]
  BY <1>2 DEF OnDead, Return, IdleCaller, CallerShape
<1>5. /\ lives' \in [Sessions -> Int] /\ lives'[g] = lives[g] - 1
      /\ \A h \in Sessions \ {g} : lives'[h] = lives[h]
  BY <1>2 DEF Notices
<1>6. \A h \in Sessions \ {g} : Tellers(h)' = Tellers(h)
  BY <1>1, <1>4 DEF Tellers, Telling
<1>7. c \in Tellers(g) /\ Tellers(g)' = Tellers(g) \ {c}
  BY <1>1, <1>2, <1>4 DEF Tellers, Telling
<1>8. Cardinality(Tellers(g)') = Cardinality(Tellers(g)) - 1
  BY <1>7, TellersFinite, FS_RemoveElement
<1>9. lives'[g] = Cardinality(Tellers(g)') + Active(g)'
  BY <1>2, <1>3, <1>5, <1>8, TellersFinite DEF Notices
<1> QED
  BY <1>3, <1>5, <1>6, <1>9 DEF Notices

LEMMA CallerNotices ==
    ASSUME Struct, Notices, NEW c \in Callers, StartRequest(c) \/ Renewal(c) \/ Request(c) \/ GiveUp(c)
    PROVE  Notices'
<1>1. caller \in [Callers -> CallerShape] /\ session \in [Sessions -> SessionShape]
  BY DEF Struct, Shapes
<1>2. caller[c].pc # "idle" => caller[c].on \in Sessions
  BY OnBuilt
<1>3. ASSUME lives' = lives, \A g \in Sessions : session'[g].state = session[g].state,
             \A d \in Callers \ {c} : \/ caller'[d] = caller[d]
                                      \/ caller'[d].pc = "after" /\ caller[d].pc = "wait",
             Telling(c)' <=> Telling(c), Telling(c) => caller'[c].on = caller[c].on
      PROVE  Notices'
  <2>1. \A g \in Sessions : Active(g)' = Active(g)
    BY <1>3 DEF Active
  <2>2. \A d \in Callers : Telling(d)' <=> Telling(d)
    BY <1>3 DEF Telling
  <2>3. \A d \in Callers : Telling(d) => caller'[d].on = caller[d].on
    BY <1>3 DEF Telling
  <2> QED
    BY <1>3, <2>1, <2>2, <2>3, QuietNotices
<1>4. CASE StartRequest(c)
  <2>1. Telling(c)' = FALSE /\ Telling(c) = FALSE
    BY <1>1, <1>4 DEF StartRequest, Telling, IdleCaller
  <2> QED
    BY <1>1, <1>3, <1>4, <2>1 DEF StartRequest, histVars
<1>5. CASE TokenFresh(c) \/ TokenLeft(c) \/ NoToken(c) \/ Sent(c) \/ UnauthorizedAgain(c)
  <2>1. caller[c].pc \notin {"clear and tell", "notify"}
    BY <1>5 DEF TokenFresh, TokenLeft, NoToken, Sent, UnauthorizedAgain
  <2>2. caller'[c].pc \notin {"clear and tell", "notify"}
    <3>1. CASE TokenFresh(c)
      BY <1>1, <3>1 DEF TokenFresh, Answer, IdleCaller, CallerShape
    <3>2. CASE TokenLeft(c)
      BY <1>1, <3>2 DEF TokenLeft, Answer, IdleCaller, CallerShape
    <3>3. CASE NoToken(c)
      BY <1>1, <3>3 DEF NoToken, IdleCaller, CallerShape
    <3>4. CASE Sent(c)
      BY <1>1, <3>4 DEF Sent, IdleCaller, CallerShape
    <3>5. CASE UnauthorizedAgain(c)
      BY <1>1, <3>5 DEF UnauthorizedAgain, CallerShape
    <3> QED
      BY <1>5, <3>1, <3>2, <3>3, <3>4, <3>5
  <2>3. \A d \in Callers \ {c} : caller'[d] = caller[d]
    BY <1>1, <1>5 DEF TokenFresh, TokenLeft, NoToken, Sent, UnauthorizedAgain, Answer
  <2> QED
    BY <1>3, <1>5, <2>1, <2>2, <2>3 DEF Telling, TokenFresh, TokenLeft, NoToken, Sent, UnauthorizedAgain, histVars
<1>6. CASE TokenStale(c) \/ Join(c) \/ NoRefresh(c) \/ GiveUp(c)
  <2>1. caller[c].pc \notin {"clear and tell", "notify"}
    BY <1>6 DEF TokenStale, Join, NoRefresh, GiveUp
  <2>2. caller'[c].pc \notin {"clear and tell", "notify"}
    BY <1>1, <1>6 DEF TokenStale, Join, NoRefresh, GiveUp, Goto, CallerShape
  <2>3. \A d \in Callers \ {c} : caller'[d] = caller[d]
    BY <1>1, <1>6 DEF TokenStale, Join, NoRefresh, GiveUp, Goto
  <2> QED
    BY <1>3, <1>6, <2>1, <2>2, <2>3 DEF Telling, TokenStale, Join, NoRefresh, GiveUp, histVars
<1>7. CASE Rotated(c) \/ Unrotated(c) \/ Transient(c) \/ Refused(c) \/ Persist(c)
  <2>1. caller[c].pc \notin {"clear and tell", "notify"}
    BY <1>7 DEF Rotated, Unrotated, Transient, Refused, Persist
  <2>2. caller'[c].pc \notin {"clear and tell", "notify"}
    <3>1. CASE Rotated(c)
      BY <1>1, <3>1 DEF Rotated, CallerShape
    <3>2. CASE Unrotated(c)
      BY <1>1, <3>2 DEF Unrotated, CallerShape
    <3>3. CASE Transient(c)
      BY <1>1, <3>3 DEF Transient, CallerShape
    <3>4. CASE Refused(c)
      BY <1>1, <3>4 DEF Refused, CallerShape
    <3>5. CASE Persist(c)
      BY <1>1, <3>5 DEF Persist, CallerShape
    <3> QED
      BY <1>7, <3>1, <3>2, <3>3, <3>4, <3>5
  <2>3. \A d \in Callers \ {c} : caller'[d] = caller[d]
    BY <1>1, <1>7 DEF Rotated, Unrotated, Transient, Refused, Persist
  <2> QED
    BY <1>3, <1>7, <2>1, <2>2, <2>3 DEF Telling, Rotated, Unrotated, Transient, Refused, Persist, histVars
<1>8. CASE Depart(c) \/ Unauthorized(c) \/ KeepRotated(c)
  <2>1. caller[c].pc \notin {"clear and tell", "notify"}
    BY <1>8 DEF Depart, Unauthorized, KeepRotated
  <2>2. caller'[c].pc \notin {"clear and tell", "notify"}
    <3>1. CASE Depart(c)
      BY <1>1, <3>1 DEF Depart, CallerShape
    <3>2. CASE Unauthorized(c)
      BY <1>1, <3>2 DEF Unauthorized, CallerShape
    <3>3. CASE KeepRotated(c)
      BY <1>1, <3>3 DEF KeepRotated, CallerShape
    <3> QED
      BY <1>8, <3>1, <3>2, <3>3
  <2>3. \A d \in Callers \ {c} : caller'[d] = caller[d]
    BY <1>1, <1>8 DEF Depart, Unauthorized, KeepRotated
  <2>4. \A g \in Sessions : session'[g].state = session[g].state
    BY <1>1, <1>2, <1>8 DEF Depart, Unauthorized, KeepRotated, DropRefused, Kept, SessionShape
  <2> QED
    BY <1>3, <1>8, <2>1, <2>2, <2>3, <2>4 DEF Telling, Depart, Unauthorized, KeepRotated, histVars
<1>9. CASE Land(c)
  <2>1. caller[c].pc \notin {"clear and tell", "notify"}
    BY <1>9 DEF Land
  <2>2. caller'[c].pc \notin {"clear and tell", "notify"}
    BY <1>1, <1>9 DEF Land, CallerShape
  <2>3. \A d \in Callers \ {c} : caller'[d] = caller[d] \/ (caller'[d].pc = "after" /\ caller[d].pc = "wait")
    BY <1>1, <1>9 DEF Land, CallerShape
  <2>4. \A g \in Sessions : session'[g].state = session[g].state
    BY <1>1, <1>2, <1>9 DEF Land, SessionShape
  <2> QED
    BY <1>3, <1>9, <2>1, <2>2, <2>3, <2>4 DEF Telling, Land, histVars
<1>10. CASE Clear(c)
  <2>1. Telling(c)' <=> Telling(c)
    BY <1>1, <1>10 DEF Clear, Return, Telling, IdleCaller, CallerShape
  <2>2. Telling(c) => caller'[c].on = caller[c].on
    BY <1>1, <1>10 DEF Clear, Telling, CallerShape
  <2>3. \A d \in Callers \ {c} : caller'[d] = caller[d]
    BY <1>1, <1>10 DEF Clear
  <2> QED
    BY <1>3, <1>10, <2>1, <2>2, <2>3 DEF Clear, histVars
<1>11. CASE InstallRenewed(c)
  <2>1. PICK g \in Sessions : g = caller[c].on
    BY <1>2, <1>11 DEF InstallRenewed
  <2>2. Telling(c)' = FALSE /\ Telling(c) = FALSE /\ \A d \in Callers \ {c} : caller'[d] = caller[d]
    BY <1>1, <1>11 DEF InstallRenewed, Telling, CallerShape
  <2>3. /\ session'[g].state = "active" /\ \A h \in Sessions \ {g} : session'[h] = session[h]
        /\ Revived(g)
    BY <1>1, <1>11, <2>1 DEF InstallRenewed, Installed, SessionShape
  <2> QED
    BY <2>2, <2>3, ReviveNotices DEF Telling
<1> QED
  BY <1>4, <1>5, <1>6, <1>7, <1>8, <1>9, <1>10, <1>11, MarkDeadNotices, OnDeadNotices DEF Renewal, Request

LEMMA OtherNotices ==
    ASSUME Struct, Notices, 
           StartTick \/ Open \/ Forget \/ Restart \/ (\E g \in Sessions : Ages(g)) \/ (\E s \in SignIns : SignIn(s))
    PROVE  Notices'
<1>1. caller \in [Callers -> CallerShape] /\ session \in [Sessions -> SessionShape] /\ file \in Tokens
  BY DEF Struct, Shapes
<1>2. ASSUME lives' = lives, caller' = caller, \A g \in Sessions : session'[g].state = session[g].state
      PROVE  Notices'
  BY <1>2, QuietNotices DEF Active, Telling
<1>3. CASE StartTick
  <2>1. \A d \in Callers : Telling(d)' <=> Telling(d)
    BY <1>1, <1>3, CallersAssumption DEF StartTick, Telling, IdleCaller
  <2>2. \A d \in Callers : Telling(d) => caller'[d].on = caller[d].on
    BY <1>1, <1>3, CallersAssumption DEF StartTick, Telling
  <2> QED
    BY <1>3, <2>1, <2>2, QuietNotices DEF StartTick, histVars, Active
<1>4. CASE Forget
  BY <1>2, <1>4 DEF Forget, ForgetEntry, ForgetFile, ForgetFileFails, histVars
<1>5. ASSUME NEW g \in Sessions, Ages(g) PROVE Notices'
  <2>1. \A h \in Sessions : session'[h].state = session[h].state
    BY <1>1, <1>5 DEF Ages, SessionShape
  <2> QED
    BY <1>2, <1>5, <2>1 DEF Ages, histVars
<1>6. ASSUME NEW s \in SignIns, SignIn(s) PROVE Notices'
  <2>1. CASE Adopt(s)
    <3>1. signin[s].on \in Sessions
      BY <2>1, SessionsAssumption DEF Adopt, Struct, Shapes, Frames, Sessions
    <3>2. PICK g \in Sessions : g = signin[s].on
      BY <3>1
    <3>3. /\ session'[g].state = "active" /\ \A h \in Sessions \ {g} : session'[h] = session[h]
          /\ Revived(g) /\ caller' = caller
      BY <1>1, <2>1, <3>2 DEF Adopt, Installed, SessionShape
    <3> QED
      BY <3>3, ReviveNotices DEF Telling
  <2>2. CASE ~Adopt(s)
    BY <1>2, <1>6, <2>2 DEF SignIn, BeginLogin, Granted, SignInFails, AdoptPersist, histVars
  <2> QED
    BY <2>1, <2>2
<1>7. CASE Open
  <2>1. PICK g : g = born + 1
    OBVIOUS
  <2>2. /\ g \in Sessions /\ session' = [session EXCEPT ![g] = Loaded(file)] /\ caller' = caller
        /\ lives' = [lives EXCEPT ![g] = IF file = 0 THEN 0 ELSE 1]
    BY <1>7, <2>1, SessionsAssumption DEF Open, Struct, Shapes, Sessions
  <2>3. /\ session'[g].state = IF file = 0 THEN "none" ELSE "active"
        /\ \A h \in Sessions \ {g} : session'[h] = session[h]
    BY <1>1, <2>2, LoadedShape
  <2>4. Active(g)' = IF file = 0 THEN 0 ELSE 1
    BY <2>3 DEF Active
  <2>5. \A h \in Sessions \ {g} : Active(h)' = Active(h)
    BY <2>3 DEF Active
  <2>6. Tellers(g)' = {} /\ \A h \in Sessions : Tellers(h)' = Tellers(h)
    <3>1. \A c \in Callers : Telling(c) => caller[c].on # g
      <4>1. \A c \in Callers : Telling(c) => caller[c].on \in 1..born
        BY DEF Telling, Struct, Frames
      <4>2. born \in Int
        BY SessionsAssumption DEF Struct, Shapes
      <4> QED
        BY <2>1, <4>1, <4>2
    <3> QED
      BY <2>2, <3>1 DEF Tellers, Telling
  <2>7. lives'[g] = Cardinality(Tellers(g)') + Active(g)' /\ lives' \in [Sessions -> Int]
    <3>1. lives'[g] = IF file = 0 THEN 0 ELSE 1
      BY <2>2 DEF Notices
    <3>2. lives' \in [Sessions -> Int]
      BY <2>2 DEF Notices
    <3>3. Cardinality(Tellers(g)') = 0
      BY <2>6, FS_EmptySet
    <3> QED
      BY <2>4, <3>1, <3>2, <3>3
  <2>8. \A h \in Sessions \ {g} : lives'[h] = Cardinality(Tellers(h)') + Active(h)'
    BY <2>2, <2>5, <2>6 DEF Notices
  <2> QED
    BY <2>7, <2>8 DEF Notices
<1>8. CASE Restart
  <2>1. \A g \in Sessions : Tellers(g)' = {}
    BY <1>8 DEF Restart, IdleCaller, Tellers, Telling
  <2>2. \A g \in Sessions : Active(g)' = IF g = 1 /\ file # 0 THEN 1 ELSE 0
    BY <1>1, <1>8, BootShape DEF Restart, Active
  <2>3. lives' \in [Sessions -> Int] /\ \A g \in Sessions : lives'[g] = IF g = 1 /\ file # 0 THEN 1 ELSE 0
    BY <1>8 DEF Restart, Lives
  <2> QED
    BY <2>1, <2>2, <2>3, FS_EmptySet DEF Notices
<1> QED
  BY <1>3, <1>4, <1>5, <1>6, <1>7, <1>8

\* The lives of each object balance with its notices: Notices is inductive on top of
\* Structure (session.go:233-235, 279-294).
THEOREM NoticesKept == Spec => []Notices
<1>1. Struct /\ Notices /\ [Next]_vars => Notices'
  <2> SUFFICES ASSUME Struct, Notices, [Next]_vars PROVE Notices'
    OBVIOUS
  <2>1. CASE UNCHANGED vars
    BY <2>1 DEF Notices, Tellers, Telling, Active, vars, histVars
  <2>2. CASE Next
    BY <2>2, CallerNotices, OtherNotices DEF Next
  <2> QED
    BY <2>1, <2>2
<1> QED
  BY InitNotices, Structure, <1>1, PTL DEF Spec

\* However many callers find an object dead at once, OnDead fires once for each time it
\* became active (session.go:279-294).
THEOREM OneNoticeHolds == Spec => []OneNoticePerDeath
<1>1. Notices => OneNoticePerDeath
  BY DEF Notices, OneNoticePerDeath, Tellers, Active
<1> QED
  BY NoticesKept, <1>1, PTL

\* Every variable keeps its type, and an active session has a refresh token.
THEOREM TypeCorrect == Spec => []TypeOK
<1>1. Struct /\ Notices => TypeOK
  <2> SUFFICES ASSUME Struct, Notices PROVE TypeOK
    OBVIOUS
  <2>1. \A g \in Sessions : lives[g] \in Nat
    BY TellersFinite DEF Notices, Active
  <2>2. lives \in [Sessions -> Nat]
    BY <2>1 DEF Notices
  <2>3. \A g \in Sessions : session[g].state = "active" => session[g].refresh # 0
    BY DEF Struct, Alive
  <2> QED
    BY <2>2, <2>3 DEF Struct, Shapes, TypeOK, SessionShape, CallerShape, SignInShape
<1> QED
  BY Structure, NoticesKept, <1>1, PTL

-----------------------------------------------------------------------------
(* NoSpentToken: until Forget, the session never keeps a refresh token whose         *)
(* replacement it was given. There is one object then (Sole), so one renewal at a    *)
(* time spends tokens (Flights), and a sign-in that has not been adopted yet has a   *)
(* token nobody else has seen (Usable).                                              *)

\* Whatever token is about came in an answer.
Numbered ==
    /\ file <= minted
    /\ \A g \in Sessions : session[g].refresh <= minted
    /\ \A c \in Callers : caller[c].refresh <= minted
    /\ \A s \in SignIns : signin[s].token <= minted
    /\ \A t \in spent : 1 <= t /\ t <= minted

\* Until Forget one object is all that was built.
Sole ==
    /\ forgetting => forgot
    /\ ~forgot => current = born /\ born <= 1 /\ (born = 0 => spent = {})

\* Callers with a refresh token in hand that is not installed yet.
Holding(c) == caller[c].pc \in {"refresh", "validate"}

\* A token granted to a sign-in is nobody else's until it is adopted.
Untouched(s) ==
    /\ signin[s].token \notin spent
    /\ \A g \in Sessions : session[g].refresh # signin[s].token
    /\ \A c \in Callers : Holding(c) => caller[c].refresh # signin[s].token
    /\ \A r \in SignIns \ {s} : signin[r].pc = "validate" => signin[r].token # signin[s].token

\* A token in use is not spent, but for the object whose renewal has just spent it.
Usable ==
    /\ \A g \in Sessions :
         session[g].refresh \in spent => \E c \in Callers : caller[c].on = g /\ caller[c].pc = "validate"
    /\ \A c \in Callers : Holding(c) => caller[c].refresh \notin spent
    /\ \A s \in SignIns : signin[s].pc = "validate" => Untouched(s)

Tokenwise == Numbered /\ Sole /\ (~forgot => Usable)

-----------------------------------------------------------------------------

\* Tokens are numbers.
LEMMA Numbers ==
    ASSUME Struct
    PROVE  /\ minted \in Nat /\ file \in Nat /\ born \in Nat /\ spent \subseteq Nat
           /\ \A g \in Sessions : session[g] \in SessionShape /\ session[g].refresh \in Nat
           /\ \A c \in Callers : caller[c] \in CallerShape /\ caller[c].refresh \in Nat
           /\ \A s \in SignIns : signin[s] \in SignInShape /\ signin[s].token \in Nat
<1>1. Tokens \subseteq Nat /\ 0..MaxSessions \subseteq Nat
  BY TokensAssumption, SessionsAssumption DEF Tokens
<1> QED
  BY <1>1 DEF Struct, Shapes, SessionShape, CallerShape, SignInShape

\* Until Forget callers that hold a token are on one object: there is one of them.
LEMMA OneHolds ==
    ASSUME Struct, Sole, ~forgot, NEW c \in Callers, Holding(c), NEW d \in Callers, Holding(d)
    PROVE  d = c
<1>1. caller[c].on \in 1..born /\ caller[d].on \in 1..born /\ born <= 1 /\ born \in Nat
  BY Numbers DEF Struct, Frames, Holding, Sole
<1>2. caller[c].on = caller[d].on
  BY <1>1
<1> QED
  BY <1>2 DEF Struct, Flights, Flying, Holding, On

\* A frame in use is on the one object.
LEMMA OnSole ==
    ASSUME Struct, Sole, ~forgot, NEW c \in Callers, caller[c].pc # "idle", NEW g \in Sessions,
           session[g].state # "none"
    PROVE  caller[c].on = g
<1>1. caller[c].on \in 1..born /\ born <= 1 /\ born \in Nat
  BY Numbers DEF Struct, Frames, Sole
<1>2. ~(g > born) /\ g \in Nat \ {0}
  BY SessionsAssumption DEF Struct, Alive, Sessions
<1> QED
  BY <1>1, <1>2

\* Steps that make and move no tokens, but may forget some.
Moves ==
    /\ minted' = minted /\ spent' = spent /\ file' <= minted
    /\ \A g \in Sessions : session'[g].refresh \in {session[g].refresh, 0}
    /\ \A c \in Callers :
         /\ caller'[c].refresh \in {caller[c].refresh, 0}
         /\ Holding(c)' => caller'[c].refresh = caller[c].refresh /\ Holding(c)
         /\ caller[c].pc = "validate" => caller'[c].pc = "validate" /\ caller'[c].on = caller[c].on
    /\ \A s \in SignIns :
         /\ signin'[s].token \in {signin[s].token, 0}
         /\ signin'[s].pc = "validate" => signin'[s] = signin[s]

LEMMA QuietTokens ==
    ASSUME Struct, Struct', Tokenwise, Moves,
           UNCHANGED <<current, born, forgetting, forgot>> \/ (forgot' /\ (forgetting' => forgot'))
    PROVE  Tokenwise'
<1>1. Numbered'
  BY Numbers DEF Numbered, Tokenwise, Moves
<1>2. Sole'
  BY DEF Sole, Tokenwise, Moves
<1>3. ASSUME ~forgot' PROVE Usable'
  <2>1. Usable /\ 0 \notin spent
    BY <1>3, Numbers DEF Tokenwise, Numbered
  <2>2. ASSUME NEW g \in Sessions, session'[g].refresh \in spent'
        PROVE  \E c \in Callers : caller'[c].on = g /\ caller'[c].pc = "validate"
    BY <2>1, <2>2 DEF Moves, Usable
  <2>3. \A c \in Callers : Holding(c)' => caller'[c].refresh \notin spent'
    BY <2>1 DEF Moves, Usable
  <2>4. ASSUME NEW s \in SignIns, signin'[s].pc = "validate" PROVE Untouched(s)'
    <3>1. signin'[s] = signin[s] /\ Untouched(s)
      BY <2>1, <2>4 DEF Moves, Usable
    <3>2. signin[s].token # 0
      BY <2>4, <3>1 DEF Struct, Frames
    <3> QED
      BY <3>1, <3>2 DEF Moves, Untouched
  <2> QED
    BY <2>2, <2>3, <2>4 DEF Usable
<1> QED
  BY <1>1, <1>2, <1>3 DEF Tokenwise

-----------------------------------------------------------------------------
(* The steps that move no token. *)

\* One caller goes elsewhere.
LEMMA CallerMoves ==
    ASSUME Struct, Struct', Tokenwise, NEW c \in Callers, NEW n, caller' = [caller EXCEPT ![c] = n],
           n.refresh \in {caller[c].refresh, 0},
           n.pc \in {"refresh", "validate"} => n.refresh = caller[c].refresh /\ Holding(c),
           caller[c].pc # "validate",
           \A g \in Sessions : session'[g].refresh \in {session[g].refresh, 0},
           file' \in {file, caller[c].refresh, 0},
           UNCHANGED <<minted, spent, forgot, mapVars, signin>>
    PROVE  Tokenwise'
<1>1. \A d \in Callers : caller'[d] = IF d = c THEN n ELSE caller[d]
  BY DEF Struct, Shapes
<1>2. file' <= minted
  BY Numbers DEF Tokenwise, Numbered
<1>3. Moves
  BY <1>1, <1>2 DEF Moves, Holding
<1> QED
  BY <1>3, QuietTokens DEF mapVars

LEMMA QuietCallers ==
    ASSUME Struct, Struct', Tokenwise, NEW c \in Callers,
           \/ TokenFresh(c) \/ TokenStale(c) \/ Join(c) \/ NoRefresh(c) \/ GiveUp(c) \/ TokenLeft(c) \/ NoToken(c)
           \/ Sent(c) \/ Unauthorized(c) \/ UnauthorizedAgain(c) \/ Transient(c) \/ Refused(c) \/ Persist(c)
           \/ MarkDead(c) \/ Clear(c) \/ OnDead(c)
    PROVE  Tokenwise'
<1>0. caller[c] \in CallerShape /\ \A g \in Sessions : session[g] \in SessionShape
  BY Numbers
<1>i. IdleCaller.refresh = 0 /\ IdleCaller.pc = "idle"
  BY DEF IdleCaller
<1>1. CASE TokenFresh(c) \/ TokenLeft(c)
  <2>1. PICK n : caller' = [caller EXCEPT ![c] = n] /\ n = IF c = Tick THEN IdleCaller
                                          ELSE [caller[c] EXCEPT !.pc = "send", !.access = On(c).access]
    BY <1>1 DEF TokenFresh, TokenLeft, Answer, Struct, Shapes
  <2>2. n.refresh \in {caller[c].refresh, 0} /\ n.pc \in {"idle", "send"}
    BY <1>0, <1>i, <2>1 DEF CallerShape
  <2> QED
    BY <1>1, <2>1, <2>2, CallerMoves DEF TokenFresh, TokenLeft, histVars
<1>2. CASE TokenStale(c) \/ Join(c) \/ NoRefresh(c) \/ GiveUp(c)
  <2>1. PICK pc \in {"renew", "wait", "after"} : caller' = [caller EXCEPT ![c].pc = pc]
    BY <1>2 DEF TokenStale, Join, NoRefresh, GiveUp, Goto
  <2>2. PICK n : n = [caller[c] EXCEPT !.pc = pc]
    OBVIOUS
  <2>3. caller' = [caller EXCEPT ![c] = n] /\ n.refresh = caller[c].refresh /\ n.pc = pc
    BY <1>0, <2>1, <2>2 DEF CallerShape, Struct, Shapes
  <2> QED
    BY <1>2, <2>3, CallerMoves DEF TokenStale, Join, NoRefresh, GiveUp, histVars
<1>3. CASE NoToken(c) \/ Sent(c)
  BY <1>3, <1>i, CallerMoves DEF NoToken, Sent, histVars
<1>4. CASE Unauthorized(c) \/ UnauthorizedAgain(c)
  <2>1. PICK n : caller' = [caller EXCEPT ![c] = n] /\ n.refresh = caller[c].refresh /\ n.pc \in {"token", "dead"}
    <3>1. CASE Unauthorized(c)
      <4>1. PICK n : n = [caller[c] EXCEPT !.pc = "token", !.access = 0, !.refused = 1]
        OBVIOUS
      <4> QED
        BY <1>0, <3>1, <4>1 DEF Unauthorized, CallerShape, Struct, Shapes
    <3>2. CASE UnauthorizedAgain(c)
      <4>1. PICK n : n = [caller[c] EXCEPT !.pc = "dead", !.access = 0]
        OBVIOUS
      <4>2. n.refresh = caller[c].refresh /\ n.pc = "dead"
        BY <1>0, <4>1 DEF CallerShape
      <4>3. caller' = [caller EXCEPT ![c] = n]
        BY <1>0, <3>2, <4>1 DEF UnauthorizedAgain, Struct, Shapes
      <4> QED
        BY <4>2, <4>3
    <3> QED
      BY <1>4, <3>1, <3>2
  <2>2. \A g \in Sessions : session'[g].refresh = session[g].refresh
    <3>1. CASE Unauthorized(c)
      BY <1>0, <3>1 DEF Unauthorized, DropRefused, SessionShape, Struct, Shapes
    <3>2. CASE UnauthorizedAgain(c)
      BY <3>2 DEF UnauthorizedAgain
    <3> QED
      BY <1>4, <3>1, <3>2
  <2> QED
    BY <1>4, <2>1, <2>2, CallerMoves DEF Unauthorized, UnauthorizedAgain, histVars
<1>5. CASE Transient(c) \/ Refused(c) \/ Persist(c)
  <2>1. PICK pc \in {"land", "dead"} : caller' = [caller EXCEPT ![c].pc = pc, ![c].refresh = 0]
    BY <1>5 DEF Transient, Refused, Persist
  <2>2. PICK n : n = [caller[c] EXCEPT !.pc = pc, !.refresh = 0]
    OBVIOUS
  <2>3. caller' = [caller EXCEPT ![c] = n] /\ n.refresh = 0 /\ n.pc = pc
    BY <1>0, <2>1, <2>2 DEF CallerShape, Struct, Shapes
  <2> QED
    BY <1>5, <2>3, CallerMoves DEF Transient, Refused, Persist, histVars
<1>6. CASE MarkDead(c)
  <2>1. PICK pc \in {"clear and tell", "clear"} : caller' = [caller EXCEPT ![c].pc = pc]
    BY <1>6 DEF MarkDead, Goto
  <2>2. PICK n : n = [caller[c] EXCEPT !.pc = pc]
    OBVIOUS
  <2>3. caller' = [caller EXCEPT ![c] = n] /\ n.refresh = caller[c].refresh /\ n.pc = pc
    BY <1>0, <2>1, <2>2 DEF CallerShape, Struct, Shapes
  <2>4. \A g \in Sessions : session'[g].refresh \in {session[g].refresh, 0}
    BY <1>0, <1>6 DEF MarkDead, Dead, Blank, SessionShape, Struct, Shapes
  <2> QED
    BY <1>6, <2>3, <2>4, CallerMoves DEF MarkDead, histVars
<1>7. CASE Clear(c) \/ OnDead(c)
  <2>1. PICK m : m = [caller[c] EXCEPT !.pc = "land"]
    OBVIOUS
  <2>2. PICK k : k = [caller[c] EXCEPT !.pc = "notify"]
    OBVIOUS
  <2>3. m.refresh = caller[c].refresh /\ m.pc = "land" /\ k.refresh = caller[c].refresh /\ k.pc = "notify"
    BY <1>0, <2>1, <2>2 DEF CallerShape
  <2>4. PICK n \in {m, k, IdleCaller} : caller' = [caller EXCEPT ![c] = n]
    BY <1>7, <2>1, <2>2 DEF Clear, OnDead, Return, Struct, Shapes
  <2>5. n.refresh \in {caller[c].refresh, 0} /\ n.pc \notin {"refresh", "validate"}
    BY <1>i, <2>3, <2>4
  <2> QED
    BY <1>7, <2>4, <2>5, CallerMoves DEF Clear, OnDead, histVars
<1> QED
  BY <1>1, <1>2, <1>3, <1>4, <1>5, <1>6, <1>7

LEMMA QuietOthers ==
    ASSUME Struct, Struct', Tokenwise,
           \/ StartTick \/ Forget \/ (\E c \in Callers : StartRequest(c) \/ Land(c)) \/ (\E g \in Sessions : Ages(g))
           \/ (\E s \in SignIns : BeginLogin(s) \/ SignInFails(s) \/ AdoptPersist(s))
           \/ UNCHANGED vars
    PROVE  Tokenwise'
<1>0. /\ \A c \in Callers : caller[c] \in CallerShape
      /\ \A g \in Sessions : session[g] \in SessionShape
      /\ \A s \in SignIns : signin[s] \in SignInShape
      /\ minted \in Nat /\ file <= minted /\ 0 <= minted
  BY Numbers DEF Tokenwise, Numbered
<1>1. CASE StartTick \/ \E c \in Callers : StartRequest(c)
  <2>1. PICK n : n = [IdleCaller EXCEPT !.pc = "token", !.on = current]
    OBVIOUS
  <2>2. n.refresh = 0 /\ n.pc = "token"
    BY <2>1 DEF IdleCaller
  <2>3. PICK c \in Callers : caller' = [caller EXCEPT ![c] = n] /\ caller[c].pc = "idle"
    BY <1>1, <2>1, CallersAssumption DEF StartTick, StartRequest
  <2> QED
    BY <1>1, <2>2, <2>3, CallerMoves DEF StartTick, StartRequest, histVars
<1>2. CASE Forget
  <2>1. file' \in {file, 0} /\ UNCHANGED <<minted, spent, caller, session, signin>>
    BY <1>2 DEF Forget, ForgetEntry, ForgetFile, ForgetFileFails, histVars
  <2>2. Moves
    BY <1>0, <2>1 DEF Moves, Holding
  <2>3. forgot'
    BY <1>2 DEF Forget, ForgetEntry, ForgetFile, ForgetFileFails, histVars, Tokenwise, Sole
  <2> QED
    BY <2>2, <2>3, QuietTokens
<1>3. ASSUME NEW c \in Callers, Land(c) PROVE Tokenwise'
  <2>1. \A d \in Callers : \/ caller'[d] = caller[d] /\ d # c
                           \/ caller'[d] = [caller[d] EXCEPT !.pc = "after"] /\ caller[d].pc \in {"wait", "land"}
    BY <1>3 DEF Land
  <2>2. \A d \in Callers : \/ caller'[d] = caller[d]
                           \/ /\ caller'[d].refresh = caller[d].refresh /\ caller'[d].pc = "after"
                              /\ caller[d].pc \in {"wait", "land"}
    BY <1>0, <2>1 DEF CallerShape
  <2>3. \A g \in Sessions : session'[g].refresh = session[g].refresh
    BY <1>0, <1>3 DEF Land, SessionShape, Struct, Shapes
  <2>4. UNCHANGED <<minted, file, spent, signin, forgot, mapVars>>
    BY <1>3 DEF Land, histVars
  <2>5. Moves
    BY <1>0, <2>2, <2>3, <2>4 DEF Moves, Holding
  <2> QED
    BY <2>4, <2>5, QuietTokens DEF mapVars
<1>4. ASSUME NEW g \in Sessions, Ages(g) PROVE Tokenwise'
  <2>1. \A h \in Sessions : session'[h].refresh = session[h].refresh
    BY <1>0, <1>4 DEF Ages, SessionShape, Struct, Shapes
  <2>2. UNCHANGED <<minted, file, spent, caller, signin, forgot, mapVars>>
    BY <1>4 DEF Ages, histVars
  <2>3. Moves
    BY <1>0, <2>1, <2>2 DEF Moves, Holding
  <2> QED
    BY <2>2, <2>3, QuietTokens DEF mapVars
<1>5. ASSUME NEW s \in SignIns, BeginLogin(s) \/ SignInFails(s) \/ AdoptPersist(s) PROVE Tokenwise'
  <2>1. PICK n : signin' = [signin EXCEPT ![s] = n] /\ n.token = 0 /\ n.pc # "validate"
    <3>1. CASE BeginLogin(s)
      <4>1. PICK n : n = [IdleSignIn EXCEPT !.pc = "pending", !.on = current]
        OBVIOUS
      <4>2. n.token = 0 /\ n.pc = "pending"
        BY <4>1 DEF IdleSignIn
      <4> QED
        BY <3>1, <4>1, <4>2 DEF BeginLogin
    <3>2. CASE SignInFails(s) \/ AdoptPersist(s)
      <4>1. IdleSignIn.token = 0 /\ IdleSignIn.pc = "idle"
        BY DEF IdleSignIn
      <4> QED
        BY <3>2, <4>1 DEF SignInFails, AdoptPersist
    <3> QED
      BY <1>5, <3>1, <3>2
  <2>2. /\ \A r \in SignIns : signin'[r] = IF r = s THEN n ELSE signin[r]
        /\ file' \in {file, signin[s].token} /\ UNCHANGED <<minted, spent, session, caller, forgot, mapVars>>
    BY <1>5, <2>1 DEF BeginLogin, SignInFails, AdoptPersist, Struct, Shapes, histVars
  <2>3. signin[s].token <= minted
    BY DEF Tokenwise, Numbered
  <2>4. Moves
    BY <1>0, <2>1, <2>2, <2>3 DEF Moves, Holding
  <2> QED
    BY <2>2, <2>4, QuietTokens DEF mapVars
<1>6. CASE UNCHANGED vars
  <2>1. Moves
    BY <1>0, <1>6 DEF Moves, Holding, vars, histVars
  <2> QED
    BY <1>6, <2>1, QuietTokens DEF vars, mapVars, histVars
<1> QED
  BY <1>1, <1>2, <1>3, <1>4, <1>5, <1>6

-----------------------------------------------------------------------------
(* The steps that do. *)

\* A token in use was granted.
LEMMA InUse ==
    ASSUME Struct, Numbered
    PROVE  /\ 0 \notin spent
           /\ \A g \in Sessions : session[g].refresh \in spent => session[g].state # "none"
BY DEF Struct, Alive, Numbered

\* A flight departs: the token it takes is not spent, or there would be another.
LEMMA DepartTokens ==
    ASSUME Struct, Tokenwise, NEW c \in Callers, Depart(c)
    PROVE  Tokenwise'
<1>1. PICK g \in Sessions : g = caller[c].on
  BY OnBuilt DEF Depart
<1>2. /\ caller[c].pc = "renew" /\ session[g].flight = NoOne
      /\ caller'[c].pc = "refresh" /\ caller'[c].refresh = session[g].refresh
      /\ \A d \in Callers \ {c} : caller'[d] = caller[d]
      /\ \A h \in Sessions : session'[h].refresh = session[h].refresh
      /\ UNCHANGED <<minted, file, signin, spent, forgot, mapVars>>
  BY <1>1, Numbers DEF Depart, Airborne, On, CallerShape, SessionShape, Struct, Shapes, histVars
<1>3. Numbered' /\ Sole'
  BY <1>1, <1>2 DEF Tokenwise, Numbered, Sole, mapVars
<1>4. ASSUME ~forgot' PROVE Usable'
  <2>1. Usable
    BY <1>2, <1>4 DEF Tokenwise
  <2>2. ASSUME NEW h \in Sessions, session[h].refresh \in spent
        PROVE  \E d \in Callers \ {c} : caller[d].on = h /\ caller[d].pc = "validate"
    BY <1>2, <2>1, <2>2 DEF Usable
  <2>3. session[g].refresh \notin spent
    <3> SUFFICES ASSUME session[g].refresh \in spent PROVE FALSE
      OBVIOUS
    <3>1. PICK d \in Callers : caller[d].on = g /\ caller[d].pc = "validate"
      BY <2>2
    <3>2. session[g].flight = d
      BY <3>1 DEF Struct, Flights, Flying, On
    <3> QED
      BY <1>2, <3>2, CallersAssumption
  <2>4. ASSUME NEW s \in SignIns, signin'[s].pc = "validate" PROVE Untouched(s)'
    BY <1>1, <1>2, <2>1, <2>4 DEF Usable, Untouched, Holding
  <2>5. \A d \in Callers : Holding(d)' => caller'[d].refresh \notin spent'
    BY <1>2, <2>1, <2>3 DEF Usable, Holding
  <2> QED
    BY <1>2, <2>2, <2>4, <2>5 DEF Usable
<1> QED
  BY <1>3, <1>4 DEF Tokenwise

\* Microsoft answers: what it spends was in one place beside the caller's hand, and
\* what it grants is new.
LEMMA AnsweredTokens ==
    ASSUME Struct, Tokenwise, NEW c \in Callers, Rotated(c) \/ Unrotated(c)
    PROVE  Tokenwise'
<1>1. PICK t : t = caller[c].refresh
  OBVIOUS
<1>2. /\ caller[c].pc = "refresh" /\ t # 0 /\ minted \in Nat /\ minted' = minted + 1
      /\ caller'[c].pc = "validate" /\ caller'[c].on = caller[c].on
      /\ \/ spent' = spent /\ caller'[c].refresh = t
         \/ spent' = spent \cup {t} /\ caller'[c].refresh = minted + 1
      /\ \A d \in Callers \ {c} : caller'[d] = caller[d]
      /\ UNCHANGED <<file, session, signin, forgot, mapVars>>
  BY <1>1, Numbers DEF Rotated, Unrotated, Mint, CallerShape, Struct, Shapes, Frames, histVars
<1>3. Numbered'
  <2>1. t \in Nat /\ 1 <= t /\ t <= minted /\ Numbered
    BY <1>1, <1>2, Numbers DEF Tokenwise, Numbered
  <2>2. \A d \in Callers : caller'[d].refresh <= minted'
    BY <1>2, <2>1, Numbers DEF Numbered
  <2>3. \A u \in spent' : 1 <= u /\ u <= minted'
    BY <1>2, <2>1, Numbers DEF Numbered
  <2> QED
    BY <1>2, <2>1, <2>2, <2>3, Numbers DEF Numbered
<1>4. Sole'
  <2>1. Sole /\ born # 0
    BY <1>2 DEF Tokenwise, Struct, Frames
  <2> QED
    BY <1>2, <2>1 DEF Sole, mapVars
<1>5. ASSUME ~forgot' PROVE Usable'
  <2>1. Usable /\ Sole /\ Numbered /\ ~forgot /\ Holding(c)
    BY <1>2, <1>5 DEF Tokenwise, Holding
  <2>2. \A d \in Callers : Holding(d) => d = c
    BY <2>1, OneHolds
  <2>3. ASSUME NEW g \in Sessions, session'[g].refresh \in spent'
        PROVE  \E d \in Callers : caller'[d].on = g /\ caller'[d].pc = "validate"
    <3>1. session[g].state # "none"
      BY <1>2, <2>1, <2>3, InUse DEF Struct, Alive
    <3>2. caller[c].on = g
      BY <1>2, <2>1, <3>1, OnSole
    <3> QED
      BY <1>2, <3>2
  <2>4. caller'[c].refresh \notin spent' /\ \A d \in Callers \ {c} : ~Holding(d)'
    <3>1. t \notin spent /\ t # minted + 1 /\ minted + 1 \notin spent
      BY <1>1, <1>2, <2>1, Numbers DEF Usable, Numbered
    <3> QED
      BY <1>2, <2>2, <3>1 DEF Holding
  <2>5. ASSUME NEW s \in SignIns, signin'[s].pc = "validate" PROVE Untouched(s)'
    <3>1. Untouched(s) /\ signin[s].token # t /\ signin[s].token # minted + 1
      BY <1>1, <1>2, <2>1, <2>5, Numbers DEF Usable, Untouched, Numbered
    <3> QED
      BY <1>2, <2>4, <3>1 DEF Untouched
  <2> QED
    BY <2>3, <2>4, <2>5 DEF Usable
<1> QED
  BY <1>3, <1>4, <1>5 DEF Tokenwise

\* The caller's token reaches its object.
LEMMA KeptTokens ==
    ASSUME Struct, Tokenwise, NEW c \in Callers, InstallRenewed(c) \/ KeepRotated(c)
    PROVE  Tokenwise'
<1>1. PICK g \in Sessions : g = caller[c].on
  BY OnBuilt DEF InstallRenewed, KeepRotated
<1>2. /\ caller[c].pc = "validate" /\ caller'[c].pc = "persist" /\ caller'[c].refresh = caller[c].refresh
      /\ \A d \in Callers \ {c} : caller'[d] = caller[d]
      /\ session'[g].refresh = caller[c].refresh
      /\ \A h \in Sessions \ {g} : session'[h] = session[h]
      /\ UNCHANGED <<minted, file, signin, spent, forgot, mapVars>>
  <2>1. /\ caller[c] \in CallerShape /\ session[g] \in SessionShape
        /\ session \in [Sessions -> SessionShape] /\ caller \in [Callers -> CallerShape]
    BY Numbers DEF Struct, Shapes
  <2>2. /\ caller[c].pc = "validate" /\ UNCHANGED <<minted, file, signin, spent, forgot, mapVars>>
        /\ caller' = [caller EXCEPT ![c].pc = "persist", ![c].access = 0]
    BY <1>1 DEF InstallRenewed, KeepRotated, histVars
  <2>3. /\ caller'[c].pc = "persist" /\ caller'[c].refresh = caller[c].refresh
        /\ \A d \in Callers \ {c} : caller'[d] = caller[d]
    BY <2>1, <2>2 DEF CallerShape
  <2>4. PICK n : session' = [session EXCEPT ![g] = n] /\ n.refresh = caller[c].refresh
    <3>1. CASE InstallRenewed(c)
      <4>1. PICK n : n = Installed(session[g], caller[c].access, caller[c].refresh)
        OBVIOUS
      <4>2. n.refresh = caller[c].refresh
        BY <2>1, <4>1 DEF Installed, SessionShape
      <4> QED
        BY <1>1, <3>1, <4>1, <4>2 DEF InstallRenewed
    <3>2. CASE KeepRotated(c)
      <4>1. PICK n : n = Kept(session[g], caller[c].refresh)
        OBVIOUS
      <4>2. n.refresh = caller[c].refresh
        BY <2>1, <4>1 DEF Kept, SessionShape
      <4> QED
        BY <1>1, <3>2, <4>1, <4>2 DEF KeepRotated
    <3> QED
      BY <3>1, <3>2
  <2> QED
    BY <2>1, <2>2, <2>3, <2>4
<1>3. Numbered' /\ Sole'
  BY <1>2 DEF Tokenwise, Numbered, Sole, mapVars
<1>4. ASSUME ~forgot' PROVE Usable'
  <2>1. Usable /\ Sole /\ Numbered /\ ~forgot /\ Holding(c) /\ caller[c].refresh \notin spent
    BY <1>2, <1>4 DEF Tokenwise, Holding, Usable
  <2>2. \A h \in Sessions : session'[h].refresh \notin spent'
    <3>1. \A h \in Sessions \ {g} : session[h].refresh \notin spent
      BY <1>1, <1>2, <2>1, OnSole, InUse
    <3> QED
      BY <1>2, <2>1, <3>1
  <2>3. \A d \in Callers : Holding(d)' => caller'[d].refresh \notin spent'
    BY <1>2, <2>1 DEF Usable, Holding
  <2>4. ASSUME NEW s \in SignIns, signin'[s].pc = "validate" PROVE Untouched(s)'
    <3>1. Untouched(s)
      BY <1>2, <2>1, <2>4 DEF Usable
    <3> QED
      BY <1>2, <2>1, <3>1 DEF Untouched, Holding
  <2> QED
    BY <2>2, <2>3, <2>4 DEF Usable
<1> QED
  BY <1>3, <1>4 DEF Tokenwise

\* A sign-in gets a token nobody has, and it reaches the object of the sign-in.
LEMMA SignInTokens ==
    ASSUME Struct, Tokenwise, NEW s \in SignIns, Granted(s) \/ Adopt(s)
    PROVE  Tokenwise'
<1>1. PICK g \in Sessions : g = signin[s].on
  <2>1. signin[s].on \in 1..born /\ born \in 0..MaxSessions
    BY DEF Granted, Adopt, Struct, Shapes, Frames
  <2> QED
    BY <2>1, SessionsAssumption DEF Sessions
<1>2. CASE Granted(s)
  <2>1. /\ minted \in Nat /\ minted' = minted + 1
        /\ signin'[s].token = minted + 1 /\ \A r \in SignIns \ {s} : signin'[r] = signin[r]
        /\ UNCHANGED <<file, session, caller, spent, forgot, mapVars>>
    BY <1>2, Numbers DEF Granted, Mint, SignInShape, Struct, Shapes, histVars
  <2>2. Numbered' /\ Sole'
    BY <2>1, Numbers DEF Tokenwise, Numbered, Sole, mapVars
  <2>3. ASSUME ~forgot' PROVE Usable'
    <3>1. Usable /\ Numbered
      BY <2>1, <2>3 DEF Tokenwise
    <3>2. Untouched(s)'
      <4>1. minted + 1 \notin spent
        BY <3>1, Numbers DEF Numbered
      <4>2. \A h \in Sessions : session[h].refresh # minted + 1
        BY <3>1, Numbers DEF Numbered
      <4>3. \A c \in Callers : caller[c].refresh # minted + 1
        BY <3>1, Numbers DEF Numbered
      <4>4. \A r \in SignIns : signin[r].token # minted + 1
        BY <3>1, Numbers DEF Numbered
      <4> QED
        BY <2>1, <4>1, <4>2, <4>3, <4>4 DEF Untouched
    <3>3. ASSUME NEW r \in SignIns \ {s}, signin'[r].pc = "validate" PROVE Untouched(r)'
      <4>1. Untouched(r) /\ signin[r].token # minted + 1
        BY <2>1, <3>1, <3>3, Numbers DEF Usable, Numbered
      <4> QED
        BY <2>1, <4>1 DEF Untouched, Holding
    <3>4. \A r \in SignIns : signin'[r].pc = "validate" => Untouched(r)'
      BY <3>2, <3>3
    <3> QED
      BY <2>1, <3>1, <3>4 DEF Usable, Holding
  <2> QED
    BY <2>2, <2>3 DEF Tokenwise
<1>3. CASE Adopt(s)
  <2>1. /\ signin[s].pc = "validate" /\ signin'[s].pc = "persist" /\ signin'[s].token = signin[s].token
        /\ \A r \in SignIns \ {s} : signin'[r] = signin[r]
        /\ session'[g].refresh = signin[s].token
        /\ \A h \in Sessions \ {g} : session'[h] = session[h]
        /\ UNCHANGED <<minted, file, caller, spent, forgot, mapVars>>
    BY <1>1, <1>3, Numbers DEF Adopt, Installed, SignInShape, SessionShape, Struct, Shapes
  <2>2. Numbered' /\ Sole'
    BY <2>1 DEF Tokenwise, Numbered, Sole, mapVars
  <2>3. ASSUME ~forgot' PROVE Usable'
    <3>1. Usable /\ Untouched(s)
      BY <2>1, <2>3 DEF Tokenwise, Usable
    <3>2. ASSUME NEW h \in Sessions, session'[h].refresh \in spent'
          PROVE  \E c \in Callers : caller'[c].on = h /\ caller'[c].pc = "validate"
      BY <2>1, <3>1, <3>2 DEF Usable, Untouched
    <3>3. ASSUME NEW r \in SignIns, signin'[r].pc = "validate" PROVE Untouched(r)'
      <4>1. r # s /\ Untouched(r) /\ signin[s].token # signin[r].token
        BY <2>1, <3>1, <3>3 DEF Usable, Untouched
      <4> QED
        BY <2>1, <4>1 DEF Untouched, Holding
    <3> QED
      BY <2>1, <3>1, <3>2, <3>3 DEF Usable, Holding
  <2> QED
    BY <2>2, <2>3 DEF Tokenwise
<1> QED
  BY <1>2, <1>3

\* Before Forget the manager builds one object, from what the file holds.
LEMMA OpenTokens ==
    ASSUME Struct, Tokenwise, Open
    PROVE  Tokenwise'
<1>1. PICK g : g = born + 1
  OBVIOUS
<1>2. g \in Sessions /\ born \in Nat /\ file \in Tokens
  BY <1>1, Numbers, SessionsAssumption DEF Open, Struct, Shapes, Sessions
<1>3. /\ current = 0 /\ current' = g /\ born' = g
      /\ session'[g].refresh = file /\ \A h \in Sessions \ {g} : session'[h] = session[h]
      /\ UNCHANGED <<minted, file, forgetting, caller, signin, spent, forgot>>
  BY <1>1, <1>2, LoadedShape DEF Open, Struct, Shapes
<1>4. Numbered'
  BY <1>3 DEF Tokenwise, Numbered
<1>5. Sole'
  BY <1>1, <1>2, <1>3 DEF Tokenwise, Sole
<1>6. ASSUME ~forgot' PROVE Usable'
  <2>1. born = 0 /\ spent' = {}
    BY <1>3, <1>6 DEF Tokenwise, Sole
  <2>2. \A s \in SignIns : signin[s].pc = "idle"
    BY <2>1 DEF Struct, Frames
  <2> QED
    BY <1>3, <2>1, <2>2 DEF Usable
<1> QED
  BY <1>4, <1>5, <1>6 DEF Tokenwise

\* What LoadAll builds.
LEMMA BootTokens ==
    ASSUME NEW t \in Tokens, NEW m \in Nat, t <= m, NEW g \in Sessions
    PROVE  Boot(t)[g].refresh <= m
<1>1. t \in Nat
  BY TokensAssumption DEF Tokens
<1> QED
  BY <1>1, BootShape

LEMMA RestartTokens ==
    ASSUME Struct, Tokenwise, Restart
    PROVE  Tokenwise'
<1>1. /\ \A c \in Callers : caller'[c].pc = "idle" /\ caller'[c].refresh = 0
      /\ \A s \in SignIns : signin'[s].pc = "idle" /\ signin'[s].token = 0
      /\ minted' = minted /\ file' = file /\ spent' = {} /\ ~forgetting'
      /\ current' = Resident(file) /\ born' = Resident(file) /\ Resident(file) <= 1
  BY DEF Restart, IdleCaller, IdleSignIn, Resident
<1>2. \A g \in Sessions : session'[g].refresh <= minted
  BY BootTokens, Numbers DEF Restart, Struct, Shapes, Tokenwise, Numbered
<1>3. Numbered'
  BY <1>1, <1>2, Numbers DEF Tokenwise, Numbered
<1>4. Sole' /\ Usable'
  BY <1>1 DEF Sole, Usable, Holding
<1> QED
  BY <1>3, <1>4 DEF Tokenwise

LEMMA InitTokens == Init => Tokenwise
<1> SUFFICES ASSUME Init PROVE Tokenwise
  OBVIOUS
<1>1. /\ \A c \in Callers : caller[c].pc = "idle" /\ caller[c].refresh = 0
      /\ \A s \in SignIns : signin[s].pc = "idle" /\ signin[s].token = 0
      /\ minted = Stored /\ file = Stored /\ spent = {} /\ ~forgetting
      /\ current = Resident(Stored) /\ born = Resident(Stored) /\ Resident(Stored) <= 1
      /\ Stored \in Tokens /\ Stored \in Nat
  BY TokensAssumption DEF Init, IdleCaller, IdleSignIn, Resident, Tokens
<1>2. \A g \in Sessions : session[g].refresh <= minted
  BY <1>1, BootTokens DEF Init
<1>3. Numbered
  BY <1>1, <1>2 DEF Numbered
<1>4. Sole /\ Usable
  BY <1>1 DEF Sole, Usable, Holding
<1> QED
  BY <1>3, <1>4 DEF Tokenwise

-----------------------------------------------------------------------------

\* Tokenwise is inductive on top of Structure: a renewal spends the one token it took
\* and keeps the one it got, whatever sign-ins do meanwhile (session.go:211-261, 318-347).
THEOREM TokensKept == Spec => []Tokenwise
<1>1. Struct /\ Struct' /\ Tokenwise /\ [Next]_vars => Tokenwise'
  <2> SUFFICES ASSUME Struct, Struct', Tokenwise, [Next]_vars PROVE Tokenwise'
    OBVIOUS
  <2>1. CASE UNCHANGED vars
    BY <2>1, QuietOthers
  <2>2. CASE StartTick \/ Forget \/ \E g \in Sessions : Ages(g)
    BY <2>2, QuietOthers
  <2>3. CASE Open \/ Restart
    BY <2>3, OpenTokens, RestartTokens
  <2>4. ASSUME NEW c \in Callers, StartRequest(c) \/ Land(c)
        PROVE  Tokenwise'
    BY <2>4, QuietOthers
  <2>5. ASSUME NEW c \in Callers, Renewal(c) \/ Request(c) \/ GiveUp(c)
        PROVE  Tokenwise'
    <3>1. CASE Land(c)
      BY <3>1, <2>4
    <3>2. CASE Depart(c)
      BY <3>2, DepartTokens
    <3>3. CASE Rotated(c) \/ Unrotated(c)
      BY <3>3, AnsweredTokens
    <3>4. CASE InstallRenewed(c) \/ KeepRotated(c)
      BY <3>4, KeptTokens
    <3> QED
      BY <2>5, <3>1, <3>2, <3>3, <3>4, QuietCallers DEF Renewal, Request
  <2>6. ASSUME NEW s \in SignIns, SignIn(s)
        PROVE  Tokenwise'
    <3>1. CASE Granted(s) \/ Adopt(s)
      BY <3>1, SignInTokens
    <3>2. CASE BeginLogin(s) \/ SignInFails(s) \/ AdoptPersist(s)
      BY <3>2, QuietOthers
    <3> QED
      BY <2>6, <3>1, <3>2 DEF SignIn
  <2> QED
    BY <2>1, <2>2, <2>3, <2>4, <2>5, <2>6 DEF Next
<1> QED
  BY InitTokens, Structure, <1>1, PTL DEF Spec

\* Until Forget, between renewals the session never holds a refresh token whose
\* replacement it was given, for any number of callers and sign-ins (session.go:236-252).
THEOREM NoSpentTokenHolds == Spec => []NoSpentToken
<1>1. Tokenwise => NoSpentToken
  BY DEF Tokenwise, Usable, NoSpentToken
<1> QED
  BY TokensKept, <1>1, PTL

=============================================================================
