----------------------------- MODULE Scheduler -----------------------------
(***************************************************************************)
(* The poll scheduler of the bot: internal/scheduler/scheduler.go, driven  *)
(* by internal/app/runtime.go.                                             *)
(*                                                                         *)
(* Four kinds of goroutine share the maps that Scheduler.mu protects:      *)
(*                                                                         *)
(*   the tick        Runtime.Start: reconcile, then RunOnce, forever       *)
(*   workers         runAccount: one pipeline per in-flight account        *)
(*   requesters      JobCreated, JobsChanged and AccountActivated:         *)
(*                   reconcile, then zero or more PollNow                  *)
(*   command handlers the Discord and dashboard handlers that change the   *)
(*                   jobs table and start requesters                       *)
(*                                                                         *)
(* One action is one critical section of mu, or one statement on the       *)
(* database: what the code does while it holds neither is where the other  *)
(* goroutines get in.                                                      *)
(***************************************************************************)
EXTENDS Integers, Sequences, FiniteSets

CONSTANTS
    Accounts,       \* discord_user_id values
    Jobs,           \* jobs.id values: naturals, so that ORDER BY id is <
    Owner,          \* the account of each job
    BootJobs,       \* the jobs active in the database at NewRuntime
    Limit,          \* capacity of the semaphore
    Workers,        \* slots for runAccount goroutines
    Requesters,     \* slots for the goroutines that JobCreated & co. start
    NoAccount,      \* racct of a requester that lists no account
    PollGates,      \* bound: the pauses polls may end in, a subset of Gates
    MaxCommands,    \* bound: how many command handlers run
    CloseAfter      \* bound: how many of them may come before Close

ASSUME JobsAssumption == Jobs \subseteq Nat /\ IsFiniteSet(Jobs)
ASSUME OwnerAssumption == Owner \in [Jobs -> Accounts]
ASSUME BootJobsAssumption == BootJobs \subseteq Jobs
ASSUME LimitAssumption == Limit \in Nat \ {0}
ASSUME SlotsAssumption == IsFiniteSet(Workers)
ASSUME NoAccountAssumption == NoAccount \notin Accounts
ASSUME BudgetAssumption == MaxCommands \in Nat /\ CloseAfter \in Nat
ASSUME PollGatesAssumption == PollGates \subseteq {"open", "timed", "held"}

VARIABLES
    \* The database, as far as the scheduler reads it.
    status,         \* jobs.status, "unborn" before INSERT, "deleted" after DELETE
    gate,           \* what accountPaused computes from users.pause_reason/_until
    \* The maps under Scheduler.mu, and the semaphore channel.
    byID,           \* Scheduler.byID; jobs[a] is JobsOf(a), see below
    pointer,
    inFlight,
    immediate,
    queued,
    sem,            \* len(s.sem)
    \* The tick goroutine.
    tpc, tsnap, ttodo, tacct, batch,
    \* Workers.
    wpc, wacct, wjob, worigin,
    \* Requesters.
    rpc, rsnap, racct, rids,
    \* Runtime.ctx, and the command budget.
    cancelled, commands

dbVars    == <<status, gate>>
muVars    == <<byID, pointer, inFlight, immediate, queued>>
tickVars  == <<tpc, tsnap, ttodo, tacct, batch>>
workVars  == <<wpc, wacct, wjob, worigin>>
reqVars   == <<rpc, rsnap, racct, rids>>
vars == <<dbVars, muVars, sem, tickVars, workVars, reqVars, cancelled, commands>>

Statuses == {"unborn", "active", "paused_by_user", "deleted"}
Gates    == {"open", "timed", "held"}
TickPCs  == {"idle", "apply", "accounts", "scan", "select", "spawn"}
WorkPCs  == {"idle", "acquire", "polling", "next", "finish"}
ReqPCs   == {"idle", "read", "apply", "list", "poll"}

Elems(q) == {q[i] : i \in DOMAIN q}

-----------------------------------------------------------------------------
(* Derived state. *)

Active == {j \in Jobs : status[j] = "active"}

\* Reconcile rebuilds jobs[account] from the same records as byID, in id
\* order, under the same lock: the slice is the set of that account's ids in
\* byID, and its index i is the element with i smaller ones before it.
JobsOf(a) == {j \in byID : Owner[j] = a}
IndexOf(j, S) == Cardinality({i \in S : i < j})

Live(w) == wpc[w] # "idle"
Polling(w) == wpc[w] = "polling"

-----------------------------------------------------------------------------
(* Initial state: a database with some jobs, and NewRuntime's Reconcile. *)

Init ==
    /\ status = [j \in Jobs |-> IF j \in BootJobs THEN "active" ELSE "unborn"]
    /\ gate = [a \in Accounts |-> "open"]
    /\ byID = BootJobs
    /\ pointer = [a \in Accounts |-> 0]
    /\ inFlight = {}
    /\ immediate = [a \in Accounts |-> <<>>]
    /\ queued = {}
    /\ sem = 0
    /\ tpc = "idle" /\ tsnap = {} /\ ttodo = {} /\ tacct = NoAccount /\ batch = {}
    /\ wpc = [w \in Workers |-> "idle"]
    /\ wacct = [w \in Workers |-> NoAccount]
    /\ wjob = [w \in Workers |-> 0]
    /\ worigin = [w \in Workers |-> "none"]
    /\ rpc = [r \in Requesters |-> "idle"]
    /\ rsnap = [r \in Requesters |-> {}]
    /\ racct = [r \in Requesters |-> NoAccount]
    /\ rids = [r \in Requesters |-> {}]
    /\ cancelled = FALSE
    /\ commands = 0

-----------------------------------------------------------------------------
(* Reconcile. ActiveJobs is read, and the jobs are built, before mu is     *)
(* taken; the caller holds the snapshot until its turn at the lock.        *)

\* The critical section, with snap as the records. The slip only adds.
ScheduledOnlyGrows(snap) == byID \cup snap
Scheduled(snap) == snap

Apply(snap) ==
    /\ byID' = Scheduled(snap)
    /\ queued' = queued \cap snap
    /\ pointer' = [a \in Accounts |->
           LET count == Cardinality({j \in snap : Owner[j] = a})
           IN  IF count = 0 THEN 0
               ELSE IF pointer[a] >= count THEN pointer[a] % count ELSE pointer[a]]
    /\ UNCHANGED <<inFlight, immediate>>

-----------------------------------------------------------------------------
(* The tick: safeTick. *)

\* ActiveJobs answers.
TickRead ==
    /\ tpc = "idle" /\ ~cancelled
    /\ tsnap' = Active
    /\ tpc' = "apply"
    /\ UNCHANGED <<dbVars, muVars, sem, ttodo, tacct, batch, workVars, reqVars, cancelled, commands>>

TickApply ==
    /\ tpc = "apply"
    /\ Apply(tsnap)
    /\ tsnap' = {}
    /\ tpc' = "accounts"
    /\ UNCHANGED <<dbVars, sem, ttodo, tacct, batch, workVars, reqVars, cancelled, commands>>

\* The factory fails, for instance on a row deleted since ActiveJobs: safeTick
\* returns without RunOnce.
TickReconcileFails ==
    /\ tpc = "apply"
    /\ tsnap' = {}
    /\ tpc' = "idle"
    /\ UNCHANGED <<dbVars, muVars, sem, ttodo, tacct, batch, workVars, reqVars, cancelled, commands>>

\* RunOnce copies the keys of jobs under the lock.
TickAccounts ==
    /\ tpc = "accounts"
    /\ ttodo' = {a \in Accounts : JobsOf(a) # {}}
    /\ tpc' = "scan"
    /\ UNCHANGED <<dbVars, muVars, sem, tsnap, tacct, batch, workVars, reqVars, cancelled, commands>>

\* accountPaused says no: the account goes to the selection.
TickGateOpen(a) ==
    /\ tpc = "scan" /\ a \in ttodo
    /\ gate[a] = "open" /\ ~cancelled
    /\ tacct' = a
    /\ ttodo' = ttodo \ {a}
    /\ tpc' = "select"
    /\ UNCHANGED <<dbVars, muVars, sem, tsnap, batch, workVars, reqVars, cancelled, commands>>

\* accountPaused says yes, or its query fails (at any time, and certainly on
\* a cancelled context): the account is skipped.
TickSkip(a) ==
    /\ tpc = "scan" /\ a \in ttodo
    /\ ttodo' = ttodo \ {a}
    /\ UNCHANGED <<dbVars, muVars, sem, tpc, tsnap, tacct, batch, workVars, reqVars, cancelled, commands>>

\* An account RunOnce may claim, unless a PollNow claimed it first.
Claimable(a) == JobsOf(a) # {} /\ a \notin inFlight

\* The pointer after a selection, and the slip of leaving it.
PointerStuck(a) == pointer[a]
NextPointer(a) == pointer[a] + 1

\* The round-robin step, under the lock. The gate was read before it.
TickSelect ==
    /\ tpc = "select"
    /\ IF Claimable(tacct)
       THEN /\ \E j \in JobsOf(tacct) :
                 /\ IndexOf(j, JobsOf(tacct)) = pointer[tacct] % Cardinality(JobsOf(tacct))
                 /\ batch' = batch \cup {j}
            /\ pointer' = [pointer EXCEPT ![tacct] = NextPointer(tacct)]
            /\ inFlight' = inFlight \cup {tacct}
       ELSE UNCHANGED <<batch, pointer, inFlight>>
    /\ tacct' = NoAccount
    /\ tpc' = "scan"
    /\ UNCHANGED <<dbVars, byID, immediate, queued, sem, tsnap, ttodo, workVars, reqVars, cancelled, commands>>

TickScanned ==
    /\ tpc = "scan" /\ ttodo = {}
    /\ tpc' = "spawn"
    /\ UNCHANGED <<dbVars, muVars, sem, tsnap, ttodo, tacct, batch, workVars, reqVars, cancelled, commands>>

\* go runAccount(job) in slot w.
Spawn(w, j, from) ==
    /\ ~Live(w)
    /\ wpc' = [wpc EXCEPT ![w] = "acquire"]
    /\ wacct' = [wacct EXCEPT ![w] = Owner[j]]
    /\ wjob' = [wjob EXCEPT ![w] = j]
    /\ worigin' = [worigin EXCEPT ![w] = from]

TickSpawn(j, w) ==
    /\ tpc = "spawn" /\ j \in batch
    /\ Spawn(w, j, "tick")
    /\ batch' = batch \ {j}
    /\ UNCHANGED <<dbVars, muVars, sem, tpc, tsnap, ttodo, tacct, reqVars, cancelled, commands>>

\* RunOnce has one result per job it spawned.
TickDone ==
    /\ tpc = "spawn" /\ batch = {}
    /\ \A w \in Workers : worigin[w] # "tick"
    /\ tpc' = "idle"
    /\ UNCHANGED <<dbVars, muVars, sem, tsnap, ttodo, tacct, batch, workVars, reqVars, cancelled, commands>>

-----------------------------------------------------------------------------
(* A worker: runAccount, with runJobPipelineSafely unfolded. *)

Goto(w, pc) == wpc' = [wpc EXCEPT ![w] = pc]

\* The channel has room.
TokenFree == sem < Limit

\* The select takes a token, and poll's first query, which joins on
\* status='active', finds the job: the portal search is under way.
StartPoll(w) ==
    /\ wpc[w] = "acquire" /\ TokenFree
    /\ status[wjob[w]] = "active" /\ ~cancelled
    /\ sem' = sem + 1
    /\ Goto(w, "polling")
    /\ UNCHANGED <<dbVars, muVars, tickVars, wacct, wjob, worigin, reqVars, cancelled, commands>>

\* ... or finds no row, and Run returns an error: the token goes straight back.
StartFails(w) ==
    /\ wpc[w] = "acquire" /\ TokenFree
    /\ status[wjob[w]] # "active" \/ cancelled
    /\ Goto(w, "next")
    /\ UNCHANGED <<dbVars, muVars, sem, tickVars, wacct, wjob, worigin, reqVars, cancelled, commands>>

\* The select takes ctx.Done instead: no token, no poll. The slip releases
\* without asking whether the token was acquired.
AcquireCancelledReleases(w) ==
    /\ wpc[w] = "acquire" /\ cancelled
    /\ sem' = sem - 1
    /\ Goto(w, "next")
    /\ UNCHANGED <<dbVars, muVars, tickVars, wacct, wjob, worigin, reqVars, cancelled, commands>>

AcquireCancelled(w) ==
    /\ wpc[w] = "acquire" /\ cancelled
    /\ Goto(w, "next")
    /\ UNCHANGED <<dbVars, muVars, sem, tickVars, wacct, wjob, worigin, reqVars, cancelled, commands>>

\* The deferred function gives the token back.
Release(w) ==
    /\ sem' = sem - 1
    /\ Goto(w, "next")
    /\ UNCHANGED <<muVars, status, tickVars, wacct, wjob, worigin, reqVars, cancelled, commands>>

\* The search answers and handleOutcome saves the account state that
\* NextBackoff computes: success, a timed pause, or an indefinite one.
PollSaves(w) ==
    /\ wpc[w] = "polling" /\ ~cancelled
    /\ \E g \in PollGates : gate' = [gate EXCEPT ![wacct[w]] = g]
    /\ Release(w)

\* job.Run or handleOutcome fails or panics before SaveAccountState.
PollFails(w) ==
    /\ wpc[w] = "polling"
    /\ UNCHANGED gate
    /\ Release(w)

\* nextImmediate. Runnable are the positions whose id is still scheduled.
Runnable(q) == {i \in DOMAIN q : q[i] \in byID}

\* What is left behind position k, and the slip of not consuming it.
RestKeepsHead(q, k) == SubSeq(q, k, Len(q))
Rest(q, k) == SubSeq(q, k + 1, Len(q))

\* ... consumes up to the first id still scheduled and runs it.
NextImmediate(w) ==
    LET q == immediate[wacct[w]] IN
    /\ wpc[w] = "next"
    /\ \E k \in Runnable(q) :
         /\ \A i \in Runnable(q) : k <= i
         /\ wjob' = [wjob EXCEPT ![w] = q[k]]
         /\ immediate' = [immediate EXCEPT ![wacct[w]] = Rest(q, k)]
         /\ queued' = queued \ {q[i] : i \in 1..k}
    /\ Goto(w, "acquire")
    /\ UNCHANGED <<dbVars, byID, pointer, inFlight, sem, tickVars, wacct, worigin, reqVars, cancelled, commands>>

\* Dropping the slice drops its marks, and the slip of dropping it alone.
MarksKept(w) == queued
MarksDropped(w) == queued \ Elems(immediate[wacct[w]])

DropImmediate(w) ==
    /\ queued' = MarksDropped(w)
    /\ immediate' = [immediate EXCEPT ![wacct[w]] = <<>>]

\* ... or consumes everything, finds nothing, and the lock is released before
\* finishAccount takes it again.
NoImmediate(w) ==
    /\ wpc[w] = "next"
    /\ Runnable(immediate[wacct[w]]) = {}
    /\ DropImmediate(w)
    /\ Goto(w, "finish")
    /\ UNCHANGED <<dbVars, byID, pointer, inFlight, sem, tickVars, wacct, wjob, worigin, reqVars, cancelled, commands>>

\* inFlight[account] = false, and the slip of forgetting it.
StillInFlight(w) == inFlight
FreedInFlight(w) == inFlight \ {wacct[w]}

EndWorker(w) ==
    /\ inFlight' = FreedInFlight(w)
    /\ Goto(w, "idle")
    /\ wacct' = [wacct EXCEPT ![w] = NoAccount]
    /\ wjob' = [wjob EXCEPT ![w] = 0]
    /\ worigin' = [worigin EXCEPT ![w] = "none"]
    /\ UNCHANGED <<dbVars, byID, pointer, sem, tickVars, reqVars, cancelled, commands>>

\* finishAccount(account, false).
FinishAccount(w) ==
    /\ wpc[w] = "finish"
    /\ EndWorker(w)
    /\ UNCHANGED <<immediate, queued>>

\* A panic that escapes the per-job boundary: finishAccount(account, true).
PipelinePanics(w) ==
    /\ wpc[w] = "next"
    /\ DropImmediate(w)
    /\ EndWorker(w)

-----------------------------------------------------------------------------
(* Requesters. *)

ReqRead(r) ==
    /\ rpc[r] = "read" /\ ~cancelled
    /\ rsnap' = [rsnap EXCEPT ![r] = Active]
    /\ rpc' = [rpc EXCEPT ![r] = "apply"]
    /\ UNCHANGED <<dbVars, muVars, sem, tickVars, workVars, racct, rids, cancelled, commands>>

EndReq(r) ==
    /\ rpc' = [rpc EXCEPT ![r] = "idle"]
    /\ rsnap' = [rsnap EXCEPT ![r] = {}]
    /\ racct' = [racct EXCEPT ![r] = NoAccount]
    /\ rids' = [rids EXCEPT ![r] = {}]

\* Reconcile or pollAllActiveJobsExcept's query returns an error: the goroutine
\* does not go on to PollNow.
ReqFails(r) ==
    /\ rpc[r] \in {"read", "apply", "list"}
    /\ EndReq(r)
    /\ UNCHANGED <<dbVars, muVars, sem, tickVars, workVars, cancelled, commands>>

ReqApply(r) ==
    /\ rpc[r] = "apply"
    /\ Apply(rsnap[r])
    /\ rpc' = [rpc EXCEPT ![r] = IF racct[r] = NoAccount THEN "poll" ELSE "list"]
    /\ rsnap' = [rsnap EXCEPT ![r] = {}]
    /\ UNCHANGED <<dbVars, sem, tickVars, workVars, racct, rids, cancelled, commands>>

\* pollAllActiveJobsExcept's query; rids held the excluded id until here.
ReqList(r) ==
    /\ rpc[r] = "list"
    /\ rids' = [rids EXCEPT ![r] =
           IF cancelled THEN {} ELSE {j \in Active : Owner[j] = racct[r]} \ rids[r]]
    /\ rpc' = [rpc EXCEPT ![r] = "poll"]
    /\ UNCHANGED <<dbVars, muVars, sem, tickVars, workVars, rsnap, racct, cancelled, commands>>

\* PollNow(j), the next id of r.
PollNow(r, j) ==
    /\ rpc[r] = "poll" /\ j \in rids[r]
    /\ \A i \in rids[r] : j <= i
    /\ rids' = [rids EXCEPT ![r] = @ \ {j}]
    /\ \/ /\ j \notin byID \/ (Owner[j] \in inFlight /\ j \in queued)
          /\ UNCHANGED <<inFlight, immediate, queued, workVars>>
       \/ /\ j \in byID /\ Owner[j] \in inFlight /\ j \notin queued
          /\ immediate' = [immediate EXCEPT ![Owner[j]] = Append(@, j)]
          /\ queued' = queued \cup {j}
          /\ UNCHANGED <<inFlight, workVars>>
       \/ /\ j \in byID /\ Owner[j] \notin inFlight
          /\ inFlight' = inFlight \cup {Owner[j]}
          /\ \E w \in Workers : Spawn(w, j, "now")
          /\ UNCHANGED <<immediate, queued>>
    /\ UNCHANGED <<dbVars, byID, pointer, sem, tickVars, rpc, rsnap, racct, cancelled, commands>>

ReqDone(r) ==
    /\ rpc[r] = "poll" /\ rids[r] = {}
    /\ EndReq(r)
    /\ UNCHANGED <<dbVars, muVars, sem, tickVars, workVars, cancelled, commands>>

-----------------------------------------------------------------------------
(* Command handlers: one statement on the jobs table, then goroutines. *)

\* The goroutines a handler starts: new[r] = <<account, ids>>.
Start(new) ==
    /\ \A r \in DOMAIN new : rpc[r] = "idle"
    /\ rpc' = [r \in Requesters |-> IF r \in DOMAIN new THEN "read" ELSE rpc[r]]
    /\ racct' = [r \in Requesters |-> IF r \in DOMAIN new THEN new[r][1] ELSE racct[r]]
    /\ rids' = [r \in Requesters |-> IF r \in DOMAIN new THEN new[r][2] ELSE rids[r]]
    /\ UNCHANGED rsnap

JobCreatedReq(j) == <<NoAccount, {j}>>
JobsChangedReq   == <<NoAccount, {}>>
ActivatedReq(a, excluded) == <<a, excluded>>

Command ==
    /\ commands < MaxCommands
    /\ commands' = commands + 1
    /\ UNCHANGED <<muVars, sem, tickVars, workVars, rsnap, cancelled>>

\* buscar: INSERT, then JobCreated.
Buscar(j) ==
    /\ Command
    /\ status[j] = "unborn"
    /\ status' = [status EXCEPT ![j] = "active"]
    /\ UNCHANGED gate
    /\ \E r \in Requesters : Start([x \in {r} |-> JobCreatedReq(j)])

Exists(j) == status[j] \in {"active", "paused_by_user"}

\* mutateJob and jobactions.Mutate: pausar, reanudar, detener.
Pausar(j) ==
    /\ Command
    /\ Exists(j)
    /\ status' = [status EXCEPT ![j] = "paused_by_user"]
    /\ UNCHANGED gate
    /\ \E r \in Requesters : Start([x \in {r} |-> JobsChangedReq])

Detener(j) ==
    /\ Command
    /\ Exists(j)
    /\ status' = [status EXCEPT ![j] = "deleted"]
    /\ UNCHANGED gate
    /\ \E r \in Requesters : Start([x \in {r} |-> JobsChangedReq])

\* reanudar calls JobsChanged and then JobCreated: two goroutines.
Reanudar(j) ==
    /\ Command
    /\ Exists(j)
    /\ status' = [status EXCEPT ![j] = "active"]
    /\ UNCHANGED gate
    /\ \E r1, r2 \in Requesters :
         /\ r1 # r2
         /\ Start([x \in {r1, r2} |-> IF x = r1 THEN JobsChangedReq ELSE JobCreatedReq(j)])

\* submitCredentials clears the pause and activateCredentials, when nothing
\* was pending, ends in AccountActivated(a, "").
Credenciales(a) ==
    /\ Command
    /\ gate' = [gate EXCEPT ![a] = "open"]
    /\ UNCHANGED status
    /\ \E r \in Requesters : Start([x \in {r} |-> ActivatedReq(a, {})])

\* ... and when a pending search was materialized as j: JobCreated(j), and
\* AccountActivated with j excluded.
CredencialesWithPending(j) ==
    /\ Command
    /\ status[j] = "unborn"
    /\ status' = [status EXCEPT ![j] = "active"]
    /\ gate' = [gate EXCEPT ![Owner[j]] = "open"]
    /\ \E r1, r2 \in Requesters :
         /\ r1 # r2
         /\ Start([x \in {r1, r2} |->
                IF x = r1 THEN JobCreatedReq(j) ELSE ActivatedReq(Owner[j], {j})])

-----------------------------------------------------------------------------
(* Time and shutdown. *)

\* users.pause_until passes.
PauseExpires(a) ==
    /\ gate[a] = "timed"
    /\ gate' = [gate EXCEPT ![a] = "open"]
    /\ UNCHANGED <<status, muVars, sem, tickVars, workVars, reqVars, cancelled, commands>>

\* Runtime.Close cancels the context, then waits for the workers.
Close ==
    /\ ~cancelled /\ commands <= CloseAfter
    /\ cancelled' = TRUE
    /\ UNCHANGED <<dbVars, muVars, sem, tickVars, workVars, reqVars, commands>>

\* After Close nothing is left to do.
Terminated ==
    /\ cancelled /\ tpc = "idle"
    /\ \A w \in Workers : ~Live(w)
    /\ \A r \in Requesters : rpc[r] = "idle"
    /\ UNCHANGED vars

-----------------------------------------------------------------------------

Tick ==
    \/ TickRead \/ TickApply \/ TickReconcileFails \/ TickAccounts
    \/ \E a \in Accounts : TickGateOpen(a) \/ TickSkip(a)
    \/ TickSelect \/ TickScanned \/ TickDone
    \/ \E j \in Jobs, w \in Workers : TickSpawn(j, w)

Worker(w) ==
    \/ StartPoll(w) \/ StartFails(w) \/ AcquireCancelled(w) \/ PollSaves(w) \/ PollFails(w)
    \/ NextImmediate(w) \/ NoImmediate(w)
    \/ FinishAccount(w) \/ PipelinePanics(w)

Requester(r) ==
    \/ ReqRead(r) \/ ReqFails(r) \/ ReqApply(r) \/ ReqList(r) \/ ReqDone(r)
    \/ \E j \in Jobs : PollNow(r, j)

Handler ==
    \/ \E j \in Jobs : Buscar(j) \/ Pausar(j) \/ Detener(j) \/ Reanudar(j)
                       \/ CredencialesWithPending(j)
    \/ \E a \in Accounts : Credenciales(a)

Next ==
    \/ Tick
    \/ \E w \in Workers : Worker(w)
    \/ \E r \in Requesters : Requester(r)
    \/ Handler
    \/ \E a \in Accounts : PauseExpires(a)
    \/ Close
    \/ Terminated

Spec == Init /\ [][Next]_vars

\* Goroutines are scheduled, the ticker fires, the portal answers (its client
\* has timeouts), time passes, and a store that fails does not fail for ever:
\* a reconcile or a pause query attempted for ever succeeds for ever.
Fairness ==
    /\ WF_vars(Tick)
    /\ SF_vars(TickApply)
    /\ \A a \in Accounts : SF_vars(TickGateOpen(a))
    /\ \A w \in Workers : WF_vars(Worker(w)) /\ SF_vars(StartPoll(w))
    /\ \A r \in Requesters : WF_vars(Requester(r))
    /\ \A a \in Accounts : WF_vars(PauseExpires(a))

FairSpec == Spec /\ Fairness

-----------------------------------------------------------------------------
(* Properties. *)

\* Every variable stays in its type; the semaphore count stays within the
\* channel's capacity (a release without an acquire would block for ever).
TypeOK ==
    /\ status \in [Jobs -> Statuses]
    /\ gate \in [Accounts -> Gates]
    /\ byID \subseteq Jobs
    /\ pointer \in [Accounts -> Nat]
    /\ inFlight \subseteq Accounts
    /\ immediate \in [Accounts -> Seq(Jobs)]
    /\ queued \subseteq Jobs
    /\ sem \in 0..Limit
    /\ tpc \in TickPCs
    /\ tsnap \subseteq Jobs
    /\ ttodo \subseteq Accounts
    /\ tacct \in Accounts \cup {NoAccount}
    /\ batch \subseteq Jobs
    /\ wpc \in [Workers -> WorkPCs]
    /\ wacct \in [Workers -> Accounts \cup {NoAccount}]
    /\ wjob \in [Workers -> Jobs \cup {0}]
    /\ worigin \in [Workers -> {"none", "tick", "now"}]
    /\ rpc \in [Requesters -> ReqPCs]
    /\ rsnap \in [Requesters -> SUBSET Jobs]
    /\ racct \in [Requesters -> Accounts \cup {NoAccount}]
    /\ rids \in [Requesters -> SUBSET Jobs]
    /\ cancelled \in BOOLEAN
    /\ commands \in 0..MaxCommands

\* "Serializes work within an account" (the comment on Scheduler): no two
\* runAccount goroutines of one account exist at a time, whichever of the tick
\* and the PollNow callers started them; a UADE session is used by one poll.
OneWorkerPerAccount ==
    \A v, w \in Workers : Live(v) /\ Live(w) /\ wacct[v] = wacct[w] => v = w

\* inFlight says exactly which accounts are claimed: by a worker, or by a tick
\* that has selected the account and not yet started its goroutine. An account
\* flagged with nobody behind it would never be polled again.
InFlightExact ==
    inFlight = {wacct[w] : w \in {v \in Workers : Live(v)}} \cup {Owner[j] : j \in batch}

\* "Applies one global concurrency cap across overlapping ticks": at most
\* Limit portal searches run at once, and no token leaks on any way out of
\* the pipeline (error, panic, cancellation).
ConcurrencyCap ==
    /\ Cardinality({w \in Workers : Polling(w)}) <= Limit
    /\ sem = Cardinality({w \in Workers : Polling(w)})

\* Accounts and tokens are taken and returned exactly: the three above.
SlotsExact == OneWorkerPerAccount /\ InFlightExact /\ ConcurrencyCap

\* What the polls rely on: the scheduler implements PollPromise. Leases are the
\* flags in inFlight, and an account is polled while one of its workers is
\* between the query of its job and the release of the token.
PolledAccounts == {wacct[w] : w \in {v \in Workers : Polling(v)}}
Promise == INSTANCE PollPromise WITH
               leased <- inFlight, polled <- PolledAccounts, closed <- cancelled
PollsAsPromised == Promise!Spec

\* A job marked queued really waits in its account's queue: PollNow refuses a
\* marked job as a duplicate, so a mark without an entry would refuse every
\* immediate poll of that job from then on.
QueuedIsPending ==
    \A j \in queued : j \in Elems(immediate[Owner[j]])

\* Round robin reaches everybody: a job that stays active, on an account that
\* is not held, is polled again and again, whatever its siblings do.
RoundRobin ==
    \A j \in Jobs :
        <>[](status[j] = "active" /\ gate[Owner[j]] # "held" /\ ~cancelled)
            => []<>(\E w \in Workers : Polling(w) /\ wjob[w] = j)

\* An immediate request that PollNow accepted does not wait for ever, as long
\* as the account is not held: it is consumed, or its job is dropped.
AcceptedPollServed ==
    \A j \in Jobs :
        <>[](gate[Owner[j]] # "held" /\ ~cancelled)
            => (j \in queued ~> j \notin queued)

\* Reconcile "makes the in-memory schedule match durable storage": snapshots
\* may be applied out of order, but once the commands stop the schedule ends
\* up equal to the active jobs, and stays so.
EventuallyConverged == <>[]~cancelled => <>[](byID = Active)

\* Close waits for the workers, and the wait ends: every pipeline, queued
\* requests included, winds down after the context is cancelled.
CloseDrains == cancelled ~> \A w \in Workers : ~Live(w)

=============================================================================
