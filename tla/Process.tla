------------------------------- MODULE Process -------------------------------
(***************************************************************************)
(* The parts of the process that share no state with the scheduler, nor    *)
(* with each other: the store that main opens first, the dashboard's       *)
(* sign-in and its snapshots, the guilds of the gateway and the commands   *)
(* registered in them, one user's sign-in at Microsoft, and a check of a   *)
(* search at the portal, with the texts it is served.                      *)
(*                                                                         *)
(* As no step of one of them depends on another once the store is open, a  *)
(* behaviour follows one part and leaves the others where they start.      *)
(***************************************************************************)
EXTENDS DashboardSessions, Sequences

CONSTANTS Ids, Codes, MaxFaults
CONSTANTS Guilds, Order, Convergences, Attempts
CONSTANTS Users, Jobs, Owner, Builds, Outcomes, NoOne, RawLimit, HistoryDisplayLimit, MaxPolls
CONSTANTS Interactions, MaxGrants
CONSTANT MaxTurns

CONSTANT Parts      \* the parts that are followed

\* Ids are rowids of SQLite. The words the parts have for what is not there, or not a
\* guild, are no codes, no guilds and no builds; limits and bounds are numbers.
ASSUME PartsAssumption ==
    /\ Ids \subseteq Nat /\ Codes \cap {"bad", "NULL"} = {} /\ MaxFaults \in Nat
    /\ "global" \notin Guilds /\ Attempts \in Nat \ {0}
    /\ Jobs \subseteq Nat /\ IsFiniteSet(Jobs) /\ NoOne \notin Builds
    /\ RawLimit \in Nat /\ HistoryDisplayLimit \in Nat /\ MaxPolls \in Nat
    /\ MaxGrants \in Nat /\ MaxTurns \in Nat

VARIABLES schema, rows, draft, hasColumn, opening, found, faults
VARIABLES members, globalSet, copies, session, loading, missed, projected, convergence
VARIABLES jobs, paused, history, conn, build
VARIABLES pipeline, dispatched, posts, current, canceler, grant, presses
VARIABLES term, turns, login, check, page, answer
VARIABLE sample

VARIABLE part       \* the part this behaviour follows

Store == INSTANCE StoreMigration
Gateway == INSTANCE GatewayCommands
Dashboard == INSTANCE Snapshot
Microsoft == INSTANCE EntraLogin
Uade == INSTANCE Portal
Texts == INSTANCE CountedTexts
Forms == INSTANCE SearchForms

storeVars == <<schema, rows, draft, hasColumn, opening, found, faults>>
gatewayVars == <<members, globalSet, copies, session, loading, missed, projected, convergence>>
snapshotVars == <<jobs, paused, history, conn, build>>
microsoftVars == <<pipeline, dispatched, posts, current, canceler, grant, presses>>
portalVars == <<term, turns, login, check, page, answer>>

vars == <<part, sample, storeVars, gatewayVars, sessionVars, snapshotVars, microsoftVars, portalVars>>

Init ==
    /\ part \in Parts
    /\ IF part = "store" THEN Store!Init ELSE Store!Fresh
    /\ Gateway!Init /\ SessionsInit /\ Dashboard!Init /\ Microsoft!Init
    /\ IF part = "portal" THEN Uade!Init ELSE Uade!Idle
    /\ CASE part = "texts" -> Texts!Init [] part = "forms" -> Forms!Init [] OTHER -> sample = Texts!NoSample

Next ==
    \/ /\ part = "store" /\ Store!Next
       /\ UNCHANGED <<part, sample, gatewayVars, sessionVars, snapshotVars, microsoftVars, portalVars>>
    \/ /\ part = "gateway" /\ Gateway!Next
       /\ UNCHANGED <<part, sample, storeVars, sessionVars, snapshotVars, microsoftVars, portalVars>>
    \/ /\ part = "sessions" /\ SessionsNext
       /\ UNCHANGED <<part, sample, storeVars, gatewayVars, snapshotVars, microsoftVars, portalVars>>
    \/ /\ part = "snapshot" /\ Dashboard!Next
       /\ UNCHANGED <<part, sample, storeVars, gatewayVars, sessionVars, microsoftVars, portalVars>>
    \/ /\ part = "microsoft" /\ Microsoft!Next
       /\ UNCHANGED <<part, sample, storeVars, gatewayVars, sessionVars, snapshotVars, portalVars>>
    \/ /\ part = "portal" /\ Uade!Next
       /\ UNCHANGED <<part, sample, storeVars, gatewayVars, sessionVars, snapshotVars, microsoftVars>>

Spec == Init /\ [][Next]_vars

\* The supervisor starts the process again and its statements are executed, time
\* passes, and what EntraLogin says of goroutines, timers and timeouts.
Fairness ==
    /\ WF_storeVars(Store!Open \/ Store!NotUnique)
    /\ WF_sessionVars(Tick)
    /\ Microsoft!Fairness
    /\ WF_portalVars(Uade!Step)

FairSpec == Spec /\ Fairness

-----------------------------------------------------------------------------
(* Properties: those of the parts. *)

\* Every part keeps its variables in their types.
TypeOK ==
    /\ Store!MigrationTypeOK /\ Gateway!GatewayTypeOK /\ SessionsTypeOK
    /\ Dashboard!SnapshotTypeOK /\ Microsoft!TypeOK /\ Uade!PortalTypeOK

\* The session table and the failure counter of the dashboard keep to their limits:
\* SessionsSafe and LockoutEnds, of DashboardSessions.

\* A legacy database is converged or left as it was, and opens in the end.
ConvergedOrUntouched == Store!ConvergedOrUntouched
EventuallyOpens == Store!EventuallyOpens

\* The projection has the bot's guilds, and commands are never missing in one.
GatewaySafe == Gateway!GatewaySafe

\* A snapshot agrees with itself, shows the changes of every search, and never
\* waits for itself.
SnapshotSafe == Dashboard!SnapshotSafe

\* One code at a time is live and it is the one on show.
CodesSafe == Microsoft!CodesSafe

\* Nobody waits for ever: a lockout has its end and so has a code on show.
WaitsEnd == LockoutEnds /\ Microsoft!CodesEnd

\* Every interaction is answered and its goroutine ends.
EveryInteractionEnds == Microsoft!EveryInteractionEnds

\* A check of a search means what it says, and comes to an end.
ChecksSafe == Uade!ChecksSafe
ChecksEnd == Uade!ChecksEnd

\* What is taken apart, filled in and told apart keeps what it was.
TextsFaithful == Texts!TextsFaithful
FormsFaithful == Forms!FormsFaithful

=============================================================================
