------------------------------ MODULE Searches ------------------------------
(***************************************************************************)
(* How one user's searches are created: /buscar, the credentials form and  *)
(* the activation it starts, in internal/discordhttp/commands.go.  The     *)
(* commands are handlers of Interaction, several at once; an activation    *)
(* runs on after its form was answered.                                    *)
(*                                                                         *)
(* The database has one connection (store.Open): a transaction holds it,   *)
(* and every other statement waits for it.  An action is one statement, or *)
(* one question to UADE.                                                   *)
(*                                                                         *)
(* A subject is a subject code in one guild, the identity of a search.     *)
(* Pausing leaves a search counted; what else a pause does is in           *)
(* AccountPause.                                                           *)
(***************************************************************************)
EXTENDS Interaction, FiniteSets

CONSTANTS
    Subjects,
    Activations,    \* slots for activateCredentials goroutines
    NoOne,          \* the connection is free
    NoRow,          \* no pending search
    Limit,          \* ten in the code
    MaxVersion      \* bound: pending searches saved

ASSUME HandlersAssumption ==
    IsFiniteSet(Interactions) /\ IsFiniteSet(Activations) /\ Interactions \cap Activations = {}
ASSUME SubjectsAssumption == IsFiniteSet(Subjects)
ASSUME NobodyAssumption == NoOne \notin Interactions \cup Activations
ASSUME NoRowAssumption == NoRow \notin [subject : Subjects, version : Nat]
ASSUME LimitAssumption == Limit \in Nat \ {0} /\ MaxVersion \in Nat

Handlers == Interactions \cup Activations

VARIABLES
    credentials,    \* the user has a row in credentials
    pending,        \* the row of pending_searches
    clock,          \* the last version given to it
    jobs,           \* the subjects of the rows of jobs
    conn,           \* who holds the connection in a transaction
    frame           \* every handler: pc, subject, version of the pending row

dataVars == <<credentials, pending, clock, jobs>>
vars == <<interactionVars, dataVars, conn, frame>>

Idle == [pc |-> "idle", subject |-> NoRow, version |-> 0]

Init ==
    /\ InteractionInit
    /\ credentials = FALSE /\ pending = NoRow /\ clock = 0
    /\ jobs = {}
    /\ conn = NoOne
    /\ frame = [h \in Handlers |-> Idle]

At(h, pc) == frame[h].pc = pc
Free == conn = NoOne
Goto(h, pc) == frame' = [frame EXCEPT ![h].pc = pc]
Subject(h) == frame[h].subject

\* The handler is through: a command returns to the pipeline.
Done(h) ==
    /\ frame' = [frame EXCEPT ![h] = Idle]
    /\ IF h \in Interactions THEN Finish(h) ELSE UNCHANGED interactionVars

Still == UNCHANGED interactionVars

-----------------------------------------------------------------------------
(* DispatchInteraction: which command it is. *)

Buscar(i, s) ==
    /\ Receive(i)
    /\ frame' = [frame EXCEPT ![i] = [Idle EXCEPT !.pc = "credentials", !.subject = s]]
    /\ UNCHANGED <<dataVars, conn>>

SubmitForm(i) ==
    /\ Receive(i)
    /\ Goto(i, "submit")
    /\ UNCHANGED <<dataVars, conn>>

Detener(i, s) ==
    /\ Receive(i)
    /\ frame' = [frame EXCEPT ![i] = [Idle EXCEPT !.pc = "delete job", !.subject = s]]
    /\ UNCHANGED <<dataVars, conn>>

\* /detener, or the button under an announcement.
DeleteJob(i) ==
    /\ At(i, "delete job") /\ Free
    /\ jobs' = jobs \ {Subject(i)}
    /\ Done(i)
    /\ UNCHANGED <<credentials, pending, clock, conn>>

-----------------------------------------------------------------------------
(* buscar. *)

\* SELECT COUNT(*) FROM credentials; the slip goes on without them.
NotAsked == TRUE
HasCredentials == credentials

CountCredentials(i) ==
    /\ At(i, "credentials") /\ Free
    /\ Goto(i, IF HasCredentials THEN "count" ELSE "save")
    /\ Still /\ UNCHANGED <<dataVars, conn>>

\* The upsert gives a row that is there a later version, even within one
\* millisecond; between two rows a form was filled in. The slip takes the time
\* as it is.
VersionByClock(now) == now
VersionAfter(now) == IF pending # NoRow /\ now <= pending.version THEN pending.version + 1 ELSE now

\* savePendingSearch, answered with the form.
SavePending(i) ==
    /\ At(i, "save") /\ Free /\ clock < MaxVersion
    /\ \E now \in {clock, clock + 1} :
           /\ pending = NoRow => now > clock
           /\ pending' = [subject |-> Subject(i), version |-> VersionAfter(now)]
    /\ clock' = pending'.version
    /\ Done(i)
    /\ UNCHANGED <<credentials, jobs, conn>>

\* Whether another search may be created, and the slip that is one too generous.
OneTooMany(n) == n <= Limit
BelowLimit(n) == n < Limit

CountJobs(i) ==
    /\ At(i, "count") /\ Free
    /\ IF BelowLimit(Cardinality(jobs)) THEN Goto(i, "look") /\ Still ELSE Done(i)
    /\ UNCHANGED <<dataVars, conn>>

\* findExistingJob: "ya está siendo monitoreada".
FindExisting(i) ==
    /\ At(i, "look") /\ Free
    /\ IF Subject(i) \in jobs THEN Done(i) ELSE Goto(i, "resolve") /\ Still
    /\ UNCHANGED <<dataVars, conn>>

\* resolveMateriaName: the cached name, or UADE's answer, or no answer.
Resolve(h) ==
    /\ At(h, "resolve")
    /\ Goto(h, "begin")
    /\ Still /\ UNCHANGED <<dataVars, conn>>

Unresolved(h) ==
    /\ At(h, "resolve")
    /\ Done(h)
    /\ UNCHANGED <<dataVars, conn>>

-----------------------------------------------------------------------------
(* The transaction of buscar and of materializePendingSearchResult. *)

Begin(h) ==
    /\ At(h, "begin") /\ Free
    /\ conn' = h
    /\ Goto(h, IF h \in Activations THEN "claim" ELSE "insert")
    /\ Still /\ UNCHANGED dataVars

\* The unique index on jobs.
Taken(s) == s \in jobs

Insert(h) ==
    /\ At(h, "insert") /\ ~Taken(Subject(h))
    /\ Goto(h, "commit")
    /\ Still /\ UNCHANGED <<dataVars, conn>>

\* The transaction is rolled back before anything else is asked. The slip still
\* holds it.
HeldBy(h) == h
RolledBack(h) == NoOne

Conflict(h) ==
    /\ At(h, "insert") /\ Taken(Subject(h))
    /\ conn' = RolledBack(h)
    /\ Goto(h, "explain")
    /\ Still /\ UNCHANGED dataVars

\* OnJobCreated, and for an activation OnAccountActivated, follow.
Commit(h) ==
    /\ At(h, "commit")
    /\ jobs' = jobs \cup {Subject(h)}
    /\ pending' = IF h \in Activations THEN NoRow ELSE pending
    /\ conn' = NoOne
    /\ Done(h)
    /\ UNCHANGED <<credentials, clock>>

\* findExistingJob again: another command was first.
Explain(h) ==
    /\ At(h, "explain") /\ Free
    /\ IF h \in Activations /\ Subject(h) \in jobs THEN Goto(h, "clear") /\ Still
       ELSE Done(h)
    /\ UNCHANGED <<dataVars, conn>>

\* A statement fails, or the context is past its deadline: 2400 ms for a command,
\* two minutes for an activation. What was not committed is rolled back.
Abandon(h) ==
    /\ ~At(h, "idle")
    /\ conn' = IF conn = h THEN NoOne ELSE conn
    /\ Done(h)
    /\ UNCHANGED dataVars

-----------------------------------------------------------------------------
(* submitCredentials and activateCredentials. *)

\* users and credentials in one transaction; then the activation is detached.
SaveCredentials(i) ==
    /\ At(i, "submit") /\ Free
    /\ credentials' = TRUE
    /\ \E a \in Activations :
           /\ At(a, "idle")
           /\ frame' = [frame EXCEPT ![i] = Idle, ![a].pc = "prepare"]
    /\ Finish(i)
    /\ UNCHANGED <<pending, clock, jobs, conn>>

\* PrepareAccount signs in at UADE; if that fails, the row stays.
Prepare(a) ==
    /\ At(a, "prepare")
    /\ Goto(a, "read")
    /\ Still /\ UNCHANGED <<dataVars, conn>>

ReadPending(a) ==
    /\ At(a, "read") /\ Free
    /\ IF pending = NoRow THEN Done(a)
       ELSE /\ frame' = [frame EXCEPT ![a] = [pc |-> "resolve", subject |-> pending.subject,
                                             version |-> pending.version]]
            /\ Still
    /\ UNCHANGED <<dataVars, conn>>

\* Whether the row is still the one that was read.
SameRow(a) == pending # NoRow /\ pending.version = frame[a].version

\* DELETE ... AND created_at = version; with no match it reads again.
Claim(a) ==
    /\ At(a, "claim")
    /\ IF SameRow(a)
       THEN Goto(a, "insert") /\ UNCHANGED conn
       ELSE frame' = [frame EXCEPT ![a] = [Idle EXCEPT !.pc = "read"]] /\ conn' = NoOne
    /\ Still /\ UNCHANGED dataVars

\* The search was there: its pending row goes, unless it is another by now.
ClearPending(a) ==
    /\ At(a, "clear") /\ Free
    /\ pending' = IF SameRow(a) THEN NoRow ELSE pending
    /\ Done(a)
    /\ UNCHANGED <<credentials, clock, jobs, conn>>

-----------------------------------------------------------------------------

Statement(h) ==
    \/ Resolve(h) \/ Unresolved(h) \/ Begin(h) \/ Insert(h) \/ Conflict(h) \/ Commit(h) \/ Explain(h)

Command(i) ==
    \/ DeleteJob(i) \/ CountCredentials(i) \/ SavePending(i) \/ CountJobs(i) \/ FindExisting(i)
    \/ SaveCredentials(i) \/ Statement(i)

Activation(a) == Prepare(a) \/ ReadPending(a) \/ Claim(a) \/ ClearPending(a) \/ Statement(a)

\* The process dies: nothing of memory is left, and the open transaction is gone.
Restart ==
    /\ conn' = NoOne
    /\ frame' = [h \in Handlers |-> Idle]
    /\ pipeline' = [i \in Interactions |-> "over"]
    /\ dispatched' = [i \in Interactions |-> "none"]
    /\ posts' = [i \in Interactions |-> 1]
    /\ UNCHANGED dataVars

Next ==
    \/ \E i \in Interactions :
           \/ SubmitForm(i) \/ Command(i)
           \/ \E s \in Subjects : Buscar(i, s) \/ Detener(i, s)
           \/ Pipeline(i) /\ UNCHANGED <<dataVars, conn, frame>>
    \/ \E a \in Activations : Activation(a)
    \/ \E h \in Handlers : Abandon(h)
    \/ Restart

Spec == Init /\ [][Next]_vars

-----------------------------------------------------------------------------
(* Properties. *)

Pcs == {"idle", "delete job", "credentials", "save", "count", "look", "resolve", "begin", "claim",
        "insert", "commit", "explain", "submit", "prepare", "read", "clear"}
InTransaction(h) == frame[h].pc \in {"claim", "insert", "commit"}

\* Every variable stays in its type, and without credentials there are no searches.
TypeOK ==
    /\ InteractionTypeOK
    /\ credentials \in BOOLEAN
    /\ pending \in [subject : Subjects, version : Nat] \cup {NoRow}
    /\ clock \in Nat
    /\ jobs \subseteq Subjects
    /\ conn \in Handlers \cup {NoOne}
    /\ frame \in [Handlers -> [pc : Pcs, subject : Subjects \cup {NoRow}, version : Nat]]
    /\ ~credentials => jobs = {}

\* "SetMaxOpenConns(1) hangs forever on a nested query": whoever holds the one
\* connection is inside its transaction, and nobody asks for it from there.
ConnectionReturned == \A h \in Handlers : conn = h <=> InTransaction(h)

\* The limit is counted in one statement and filled in another, so that commands
\* at once may pass it, and a pending search is not counted at all. It is passed
\* by no more than what was under way at once.
LetThrough == {i \in Interactions :
                  frame[i].pc \in {"save", "look", "resolve", "begin", "insert", "commit"}}
Waiting == IF pending = NoRow THEN 0 ELSE 1

LimitHolds == Cardinality(jobs) + Cardinality(LetThrough) + Waiting <= Limit + Cardinality(Interactions)

\* Two commands, or a command and a pending search, never create one search twice:
\* no transaction is about to commit a search that is there.
CreatedOnce == \A h \in Handlers : At(h, "commit") => Subject(h) \notin jobs

\* What is sent once is answered once and created once.
OnceEach == AnsweredOnce /\ CreatedOnce

\* The pending search is kept "instead of losing it": its row is replaced by a
\* later /buscar, or goes when its own search was created or found.
PendingHonoured ==
    [][pending # NoRow /\ pending' = NoRow =>
           \E a \in Activations : /\ frame[a].pc \in {"commit", "clear"} /\ frame'[a] = Idle
                                  /\ Subject(a) = pending.subject]_vars

=============================================================================
