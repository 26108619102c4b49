--------------------------- MODULE GatewayCommands ---------------------------
(***************************************************************************)
(* The guilds of the bot and its command registration: Projection in       *)
(* internal/discordgateway, ConvergeCommands in internal/discordhttp and   *)
(* the GuildsReady listener of main.                                       *)
(*                                                                         *)
(* Events of one gateway session are handled in order.  A reconnect sends  *)
(* its guilds again; what happened while it was down is not reported.      *)
(* Versions before the global registration left commands in every guild.   *)
(***************************************************************************)
EXTENDS Integers

CONSTANTS
    Guilds,
    Order,          \* the guilds in the order of their ids, as strings
    Convergences,   \* slots for goroutines of the GuildsReady listener
    Attempts        \* three in the code

VARIABLES
    members,        \* Discord: the guilds the bot is in
    globalSet,      \* Discord: the application's global commands
    copies,         \* Discord: the guilds with commands of their own
    session,        \* the gateway: "down", "loading", "ready"
    loading,        \* guilds of the session still to come
    missed,         \* guilds left while the session was down
    projected,      \* Projection.guilds
    convergence     \* the goroutines: pc, guild ids to do, attempt, and the guilds
                    \* that were ready when it was started

discordVars == <<members, globalSet, copies>>
gatewayVars == <<discordVars, session, loading, missed, projected, convergence>>

NoConvergence == [pc |-> "none", todo |-> {}, attempt |-> 0, ready |-> {}]

Init ==
    /\ members = Guilds /\ globalSet = "old" /\ copies = Guilds
    /\ session = "down" /\ loading = {} /\ missed = {} /\ projected = {}
    /\ convergence = [c \in Convergences |-> NoConvergence]

-----------------------------------------------------------------------------
(* The gateway. *)

\* READY lists the guilds, which come one by one.
Connect ==
    /\ session = "down"
    /\ session' = "loading" /\ loading' = members
    /\ UNCHANGED <<discordVars, missed, projected, convergence>>

Disconnect ==
    /\ session # "down"
    /\ session' = "down" /\ loading' = {}
    /\ UNCHANGED <<discordVars, missed, projected, convergence>>

OnGuildReady(g) ==
    /\ g \in loading
    /\ loading' = loading \ {g}
    /\ projected' = projected \cup {g}
    /\ UNCHANGED <<discordVars, session, missed, convergence>>

\* The event the listener waits for: the slip is the one that opens the session.
ReadyEvent == session = "loading"
GuildsReadyEvent == session = "loading" /\ loading = {}

\* It starts a convergence of its own, whatever the one before is doing.
GuildsReady(c) ==
    /\ GuildsReadyEvent /\ convergence[c].pc = "none"
    /\ session' = "ready"
    /\ convergence' = [convergence EXCEPT ![c] = [NoConvergence EXCEPT !.pc = "guilds", !.ready = members]]
    /\ UNCHANGED <<discordVars, loading, missed, projected>>

OnGuildJoin(g) ==
    /\ session = "ready" /\ g \notin members
    /\ members' = members \cup {g}
    /\ projected' = projected \cup {g}
    /\ missed' = missed \ {g}
    /\ UNCHANGED <<globalSet, copies, session, loading, convergence>>

\* Discord drops the commands of a guild the bot leaves.
Left(g) ==
    /\ g \in members /\ g \notin loading
    /\ members' = members \ {g}
    /\ copies' = copies \ {g}
    /\ convergence' = [c \in Convergences |-> [convergence[c] EXCEPT !.ready = @ \ {g}]]
    /\ UNCHANGED <<globalSet, session, loading>>

OnGuildLeave(g) ==
    /\ session = "ready" /\ Left(g)
    /\ projected' = projected \ {g}
    /\ UNCHANGED missed

\* An outage: the guild stays one of the bot's.
StillProjected(g) == projected

OnGuildUnavailable(g) ==
    /\ session = "ready" /\ g \in members
    /\ projected' = StillProjected(g)
    /\ UNCHANGED <<discordVars, session, loading, missed, convergence>>

OnGuildAvailable(g) ==
    /\ session = "ready" /\ g \in members
    /\ projected' = projected \cup {g}
    /\ UNCHANGED <<discordVars, session, loading, missed, convergence>>

\* Nobody hears of these. A join will be in the next READY.
LeftUnseen(g) ==
    /\ session = "down" /\ Left(g)
    /\ missed' = missed \cup {g}
    /\ UNCHANGED projected

JoinedUnseen(g) ==
    /\ session = "down" /\ g \notin members
    /\ members' = members \cup {g}
    /\ missed' = missed \ {g}
    /\ UNCHANGED <<globalSet, copies, session, loading, projected, convergence>>

-----------------------------------------------------------------------------
(* ConvergeCommands. *)

Goto(c, pc, todo, attempt) ==
    convergence' = [convergence EXCEPT ![c] = [@ EXCEPT !.pc = pc, !.todo = todo, !.attempt = attempt]]

\* The goroutine takes the guilds when it comes to run.
ReadGuilds(c) ==
    /\ convergence[c].pc = "guilds"
    /\ Goto(c, "put", {"global"} \cup projected, 0)
    /\ UNCHANGED <<discordVars, session, loading, missed, projected>>

\* The order of the calls.
GlobalFirst(todo) == IF "global" \in todo THEN "global"
                     ELSE Order[CHOOSE n \in DOMAIN Order : Order[n] \in todo /\
                                    \A k \in 1..n - 1 : Order[k] \notin todo]

\* putCommandSet, answered with 2xx.
Put(c) ==
    /\ convergence[c].pc = "put" /\ convergence[c].todo # {}
    /\ LET stage == GlobalFirst(convergence[c].todo) IN
           /\ globalSet' = IF stage = "global" THEN "new" ELSE globalSet
           /\ copies' = copies \ {stage}
           /\ Goto(c, "put", convergence[c].todo \ {stage}, 0)
    /\ UNCHANGED <<members, session, loading, missed, projected>>

\* With 429: three times in all.
RateLimited(c) ==
    /\ convergence[c].pc = "put" /\ convergence[c].todo # {}
    /\ convergence[c].attempt + 1 < Attempts
    /\ Goto(c, "put", convergence[c].todo, convergence[c].attempt + 1)
    /\ UNCHANGED <<discordVars, session, loading, missed, projected>>

\* With anything else, a third 429, or the thirty seconds are over: it is not
\* tried again before the next GuildsReady. A call may have worked unheard.
GiveUp(c) ==
    /\ convergence[c].pc = "put" /\ convergence[c].todo # {}
    /\ LET stage == GlobalFirst(convergence[c].todo) IN
           \/ UNCHANGED <<globalSet, copies>>
           \/ /\ globalSet' = IF stage = "global" THEN "new" ELSE globalSet
              /\ copies' = copies \ {stage}
    /\ convergence' = [convergence EXCEPT ![c] = NoConvergence]
    /\ UNCHANGED <<members, session, loading, missed, projected>>

\* "converged %d global discord commands and cleared guild-scoped copies in %d guilds"
Converged(c) ==
    /\ convergence[c].pc = "put" /\ convergence[c].todo = {}
    /\ convergence' = [convergence EXCEPT ![c] = NoConvergence]
    /\ UNCHANGED <<discordVars, session, loading, missed, projected>>

Next ==
    \/ Connect \/ Disconnect
    \/ \E g \in Guilds : \/ OnGuildReady(g) \/ OnGuildJoin(g) \/ OnGuildLeave(g)
                         \/ OnGuildUnavailable(g) \/ OnGuildAvailable(g)
                         \/ LeftUnseen(g) \/ JoinedUnseen(g)
    \/ \E c \in Convergences : \/ GuildsReady(c) \/ ReadGuilds(c) \/ Put(c)
                               \/ RateLimited(c) \/ GiveUp(c) \/ Converged(c)

-----------------------------------------------------------------------------
(* Properties. *)

GatewayTypeOK ==
    /\ members \subseteq Guilds /\ copies \subseteq Guilds /\ globalSet \in {"old", "new"}
    /\ session \in {"down", "loading", "ready"} /\ loading \subseteq Guilds
    /\ missed \subseteq Guilds /\ projected \subseteq Guilds
    /\ convergence \in [Convergences -> [pc : {"none", "guilds", "put"}, todo : SUBSET (Guilds \cup {"global"}),
                                         attempt : 0..Attempts - 1, ready : SUBSET Guilds]]

\* The projection has every guild of the bot that has come, through outages and
\* reconnects, and beyond them only guilds that it left without being told.
ProjectionFollows ==
    /\ session # "down" => members \ loading \subseteq projected
    /\ session = "ready" => projected \ members \subseteq missed

\* No guild loses its old commands before the new ones are there, however a
\* convergence fails and whatever another one has done.
NeverWithoutCommands == \A g \in Guilds :
    g \in copies \ copies' /\ g \in members' => globalSet = "new"

\* A convergence that reports success has replaced the global commands, and has
\* cleared every guild that was ready when it was started and is still one of the
\* bot's.
SuccessCoversReady == \A c \in Convergences :
    Converged(c) => globalSet = "new" /\ convergence[c].ready \cap copies = {}

\* Guilds and their commands survive outages, reconnects and failures: in every step.
GatewaySafe == [][ProjectionFollows' /\ NeverWithoutCommands /\ SuccessCoversReady]_gatewayVars

=============================================================================
