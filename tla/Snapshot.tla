------------------------------ MODULE Snapshot ------------------------------
(***************************************************************************)
(* What the dashboard shows: SnapshotSource.Build in internal/dashboard,   *)
(* on the one connection of the store.  Build asks for the pauses, for the *)
(* jobs and then for the history of each job, in statements of their own,  *)
(* while polls and commands go on writing between them.                    *)
(*                                                                         *)
(* A job's polls are numbered from 1; an outcome has its code and counts.  *)
(***************************************************************************)
EXTENDS Integers, Sequences, FiniteSets

CONSTANTS
    Users, Jobs,    \* jobs are numbered
    Owner,          \* of a job
    Builds,         \* slots for requests that build a snapshot
    Outcomes,
    NoOne,          \* the connection is free
    RawLimit,       \* fifty in the code
    HistoryDisplayLimit,    \* ten in the code, less than RawLimit
    MaxPolls        \* bound: polls that are kept, of all jobs

VARIABLES
    jobs,       \* the rows of jobs
    paused,     \* the users with a pause_reason
    history,    \* poll_outcome_history, of every job, the oldest first
    conn,       \* whose rows are open on the connection
    build       \* the builds: where they are, the pauses they read, the jobs still to
                \* be shown, and for those that are, whether they are shown as paused

snapshotVars == <<jobs, paused, history, conn, build>>

Nothing == [j \in {} |-> FALSE]
NoBuild == [pc |-> "none", pauses |-> {}, todo |-> {}, shown |-> Nothing]

Init ==
    /\ jobs = {} /\ paused = {}
    /\ history = [j \in Jobs |-> <<>>]
    /\ conn = NoOne
    /\ build = [b \in Builds |-> NoBuild]

Free == conn = NoOne

-----------------------------------------------------------------------------
(* What writes meanwhile: each a statement, or a transaction, of its own. *)

Polls == {p \in Jobs \X (1..MaxPolls) : p[2] <= Len(history[p[1]])}

\* RecordOutcome appends a row. No row is ever deleted but with its job.
RecordPoll(j, outcome) ==
    /\ Free /\ j \in jobs /\ Cardinality(Polls) < MaxPolls
    /\ history' = [history EXCEPT ![j] = Append(@, outcome)]
    /\ UNCHANGED <<jobs, paused, conn, build>>

PauseOrResume(u) ==
    /\ Free
    /\ paused' = IF u \in paused THEN paused \ {u} ELSE paused \cup {u}
    /\ UNCHANGED <<jobs, history, conn, build>>

CreateJob(j) ==
    /\ Free /\ j \notin jobs
    /\ jobs' = jobs \cup {j}
    /\ UNCHANGED <<paused, history, conn, build>>

\* ON DELETE CASCADE.
DeleteJob(j) ==
    /\ Free /\ j \in jobs
    /\ jobs' = jobs \ {j}
    /\ history' = [history EXCEPT ![j] = <<>>]
    /\ UNCHANGED <<paused, conn, build>>

-----------------------------------------------------------------------------
(* Build. *)

\* The rows of pauses are read and closed.
QueryPauses(b) ==
    /\ Free /\ build[b] = NoBuild
    /\ build' = [build EXCEPT ![b] = [NoBuild EXCEPT !.pc = "jobs", !.pauses = paused]]
    /\ UNCHANGED <<jobs, paused, history, conn>>

OpenJobRows(b) ==
    /\ Free /\ build[b].pc = "jobs"
    /\ conn' = b
    /\ build' = [build EXCEPT ![b].pc = "rows", ![b].todo = jobs]
    /\ UNCHANGED <<jobs, paused, history>>

\* "Fully drain and close jobRows before running any nested queries".
Closed(b) == NoOne

CloseJobRows(b) ==
    /\ build[b].pc = "rows"
    /\ conn' = Closed(b)
    /\ build' = [build EXCEPT ![b].pc = "each"]
    /\ UNCHANGED <<jobs, paused, history>>

\* Whether the account of a job is paused was read once.
PausedAsRead(b, j) == Owner[j] \in build[b].pauses

\* materiaName and loadHistory, for the jobs in the order of their ids.
ShowJob(b) ==
    /\ Free /\ build[b].pc = "each"
    /\ \E j \in build[b].todo :
           /\ \A k \in build[b].todo : j <= k
           /\ build' = [build EXCEPT ![b].todo = @ \ {j},
                                     ![b].shown = [k \in DOMAIN @ \cup {j} |->
                                         IF k = j THEN PausedAsRead(b, j) ELSE @[k]]]
    /\ UNCHANGED <<jobs, paused, history, conn>>

Reply(b) ==
    /\ build[b].pc = "each" /\ build[b].todo = {}
    /\ build' = [build EXCEPT ![b] = NoBuild]
    /\ UNCHANGED <<jobs, paused, history, conn>>

GoOn(b) == OpenJobRows(b) \/ CloseJobRows(b) \/ ShowJob(b) \/ Reply(b)

Next ==
    \/ \E j \in Jobs : \/ CreateJob(j) \/ DeleteJob(j)
                       \/ \E outcome \in Outcomes : RecordPoll(j, outcome)
    \/ \E u \in Users : PauseOrResume(u)
    \/ \E b \in Builds : QueryPauses(b) \/ GoOn(b)

-----------------------------------------------------------------------------
(* loadHistory: the polls that are shown, by their numbers. *)

\* ORDER BY recorded_at DESC LIMIT 50. "Raw LIMIT is intentionally wider than
\* historyDisplayLimit"; the slip's is not.
RawNarrow(h) == {p \in DOMAIN h : p > Len(h) - HistoryDisplayLimit}
Raw(h) == {p \in DOMAIN h : p > Len(h) - RawLimit}

\* dedupeHistory keeps a row unless the row before it in time, among those it was
\* given, has the same outcome, and stops at the limit.
RealInRaw(h) == {p \in Raw(h) : p - 1 \in Raw(h) => h[p] # h[p - 1]}

\* What comes before poll p in the answer, newest first.
Newer(polls, p) == {q \in polls : q > p}
DedupeHistory(h) == {p \in RealInRaw(h) : Cardinality(Newer(RealInRaw(h), p)) < HistoryDisplayLimit}

-----------------------------------------------------------------------------
(* Properties. *)

SnapshotTypeOK ==
    /\ jobs \subseteq Jobs /\ paused \subseteq Users
    /\ history \in [Jobs -> Seq(Outcomes)] /\ Cardinality(Polls) <= MaxPolls
    /\ conn \in Builds \cup {NoOne}
    /\ \A b \in Builds :
           /\ build[b].pc \in {"none", "jobs", "rows", "each"}
           /\ build[b].pauses \subseteq Users /\ build[b].todo \subseteq Jobs
           /\ build[b].shown \in [DOMAIN build[b].shown -> BOOLEAN] /\ DOMAIN build[b].shown \subseteq Jobs

\* The jobs of one account are shown in one state, and as many accounts at most are
\* shown as paused as were counted, although accounts are paused and resumed while
\* the snapshot is built.
AccountsAgree == \A b \in Builds : \A j, k \in DOMAIN build[b].shown :
    /\ Owner[j] = Owner[k] => build[b].shown[j] = build[b].shown[k]
    /\ build[b].shown[j] => Owner[j] \in build[b].pauses

\* A change of the outcome.
Changes(h) == {p \in DOMAIN h : p > 1 => h[p] # h[p - 1]}

\* Of the last RawLimit polls the history shows every change, the newest ones if
\* they are too many, and nothing else but the oldest of these polls.
NewestChangesShown == \A j \in Jobs :
    LET h == history[j]
        recent == {p \in Changes(h) : p > Len(h) - RawLimit}
    IN  /\ \A p \in DedupeHistory(h) : p \in recent \/ p = Len(h) - RawLimit + 1
        /\ \A p \in recent : p \in DedupeHistory(h) \/ Cardinality(Newer(recent, p)) >= HistoryDisplayLimit

\* Whoever has rows open on the connection reads on and closes them: no build waits
\* for a connection that it holds itself.
RowsGetClosed == conn # NoOne => build[conn].pc = "rows"

\* A snapshot agrees with itself, shows the changes of every search and never waits
\* for itself.
SnapshotSafe == AccountsAgree /\ NewestChangesShown /\ RowsGetClosed

=============================================================================
