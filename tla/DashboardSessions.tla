-------------------------- MODULE DashboardSessions --------------------------
(***************************************************************************)
(* The sign-in of the dashboard: the session table and the failure counter *)
(* of dashboard.Server, under one mutex that no handler holds from one     *)
(* step to the next.                                                       *)
(*                                                                         *)
(* Handlers of several requests run at once, a browser may send a request  *)
(* before the last is answered.  Time is the age of what is in the tables. *)
(* Requests are of one client address; the counter has an entry for each.  *)
(***************************************************************************)
EXTENDS Integers, FiniteSets

CONSTANTS
    Sids,           \* random in the code: which unused one is drawn makes no difference
    Handlers,       \* slots for requests
    MaxSessions,    \* 1024 in the code
    TTL,            \* ticks: eight hours in the code
    LoginLimit,     \* five in the code
    LoginWindow     \* ticks: fifteen minutes in the code

ASSUME SessionsAssumption ==
    /\ Sids \subseteq Nat \ {0} /\ IsFiniteSet(Handlers)
    /\ MaxSessions \in Nat \ {0} /\ LoginLimit \in Nat \ {0}
    /\ TTL \in Nat \ {0} /\ LoginWindow \in Nat \ {0}

VARIABLES
    sessions,   \* Server.sessions: age and Authenticated
    attempts,   \* Server.attempts of the address: age of WindowStart and Failures
    cookie,     \* the browser's session id, or none
    request     \* the handlers: where they are and the session they found

sessionVars == <<sessions, attempts, cookie, request>>

NoSid == 0
NoAttempts == [age |-> 0, failures |-> 0]
NoRequest == [pc |-> "none", sid |-> NoSid]

SessionsInit ==
    /\ sessions = [s \in {} |-> NoRequest]
    /\ attempts = NoAttempts
    /\ cookie = NoSid
    /\ request = [h \in Handlers |-> NoRequest]

InTable(s) == s \in DOMAIN sessions
Without(table, ids) == [s \in DOMAIN table \ ids |-> table[s]]

\* cleanupLocked.
Alive(table) == Without(table, {s \in DOMAIN table : table[s].age >= TTL})

\* One tick. What is too old to matter grows no older.
Tick ==
    /\ sessions' = [s \in DOMAIN sessions |->
           [sessions[s] EXCEPT !.age = IF @ < TTL THEN @ + 1 ELSE @]]
    /\ attempts' = IF attempts.age < LoginWindow /\ attempts.failures > 0
                   THEN [attempts EXCEPT !.age = @ + 1] ELSE attempts
    /\ UNCHANGED <<cookie, request>>

-----------------------------------------------------------------------------
(* newSession and currentSession. *)

\* for len >= max, evict the oldest; of several of one age, any.
Oldest(table) == {s \in DOMAIN table : \A r \in DOMAIN table : table[s].age >= table[r].age}
Full(table) == Cardinality(DOMAIN table) >= MaxSessions

With(table, s, auth) == [r \in DOMAIN table \cup {s} |->
    IF r = s THEN [age |-> 0, auth |-> auth] ELSE table[r]]

\* The tables that evicting first and inserting then may end in. The slip inserts
\* first.
Evicted(table) == IF Full(table) THEN {Without(table, {s}) : s \in Oldest(table)} ELSE {table}
InsertEvict(table, s, auth) == Evicted(With(table, s, auth))
EvictInsert(table, s, auth) == {With(t, s, auth) : t \in Evicted(table)}

Unused == Sids \ (DOMAIN sessions \cup {cookie} \cup {request[h].sid : h \in Handlers})

\* The browser gets its cookie with the answer.
NewSession(previous, auth) ==
    \E s \in Unused :
        /\ \A r \in Unused : s <= r
        /\ sessions' \in EvictInsert(Alive(Without(sessions, {previous})), s, auth)
        /\ cookie' = s

\* The handler goes on with the session it has found, if that suits it.
CurrentSession(h, suits, pc) ==
    /\ request[h] = NoRequest
    /\ sessions' = Alive(sessions)
    /\ request' = IF cookie \in DOMAIN sessions' /\ sessions'[cookie].auth = suits
                  THEN [request EXCEPT ![h] = [pc |-> pc, sid |-> cookie]] ELSE request
    /\ UNCHANGED <<attempts, cookie>>

-----------------------------------------------------------------------------
(* The handlers. *)

LoginPage ==
    /\ NewSession(cookie, FALSE)
    /\ UNCHANGED <<attempts, request>>

\* login: a session that is not signed in, then the limit, the password, and the
\* counter, each of them on its own.
Login(h) == CurrentSession(h, FALSE, "limit")

Limited(a) == a.failures >= LoginLimit /\ a.age < LoginWindow

RateLimited(h) ==
    /\ request[h].pc = "limit"
    /\ request' = [request EXCEPT ![h] = IF Limited(attempts) THEN NoRequest ELSE [@ EXCEPT !.pc = "password"]]
    /\ UNCHANGED <<sessions, attempts, cookie>>

\* A window that is over begins anew.
RecordFailure(h) ==
    /\ request[h].pc = "password"
    /\ attempts' = IF attempts.failures = 0 \/ attempts.age >= LoginWindow
                   THEN [age |-> 0, failures |-> 1] ELSE [attempts EXCEPT !.failures = @ + 1]
    /\ request' = [request EXCEPT ![h] = NoRequest]
    /\ UNCHANGED <<sessions, cookie>>

ClearFailures(h) ==
    /\ request[h].pc = "password"
    /\ attempts' = NoAttempts
    /\ request' = [request EXCEPT ![h].pc = "sign in"]
    /\ UNCHANGED <<sessions, cookie>>

SignIn(h) ==
    /\ request[h].pc = "sign in"
    /\ NewSession(request[h].sid, TRUE)
    /\ request' = [request EXCEPT ![h] = NoRequest]
    /\ UNCHANGED attempts

\* logout: the session is looked up and deleted in two steps. jobAction and the
\* pages only look it up.
Logout(h) == CurrentSession(h, TRUE, "logout")

Delete(h) ==
    /\ request[h].pc = "logout"
    /\ sessions' = Without(sessions, {request[h].sid})
    /\ cookie' = NoSid
    /\ request' = [request EXCEPT ![h] = NoRequest]
    /\ UNCHANGED attempts

Handle(h) == RateLimited(h) \/ RecordFailure(h) \/ ClearFailures(h) \/ SignIn(h) \/ Delete(h)

SessionsNext ==
    \/ Tick \/ LoginPage
    \/ \E h \in Handlers : Login(h) \/ Logout(h) \/ Handle(h)

-----------------------------------------------------------------------------
(* Properties. *)

SessionsTypeOK ==
    /\ DOMAIN sessions \subseteq Sids
    /\ \A s \in DOMAIN sessions : sessions[s] \in [age : 0..TTL, auth : BOOLEAN]
    /\ attempts \in [age : 0..LoginWindow, failures : Nat]
    /\ cookie \in Sids \cup {NoSid}
    /\ request \in [Handlers -> [pc : {"none", "limit", "password", "sign in", "logout"}, sid : Sids \cup {NoSid}]]

\* The table never holds more than its cap, however requests that look up, insert
\* and delete sessions follow each other.
TableBounded == Cardinality(DOMAIN sessions) <= MaxSessions

\* A session that is handed to a browser is in the table: making room for it never
\* takes the new one, even when all of them are of one age.
HandedOutIsThere == cookie' \in Sids \ {cookie} => cookie' \in DOMAIN sessions'

\* Logins that were let through before the limit was reached still fail after it:
\* no more than the other handlers there are.
FailuresBounded ==
    (IF attempts.age < LoginWindow THEN attempts.failures ELSE 0)
        + Cardinality({h \in Handlers : request[h].pc = "password"})
    <= LoginLimit - 1 + Cardinality(Handlers)

\* The table and the counter keep to their limits in every step, however requests
\* race, and what is handed out is there.
SessionsSafe == [][TableBounded' /\ FailuresBounded' /\ HandedOutIsThere]_sessionVars

\* Nobody is locked out for ever: an address over the limit is let in again when
\* the window has passed, whatever it tries meanwhile.
LockoutEnds == Limited(attempts) ~> ~Limited(attempts)

=============================================================================
