-------------------------- MODULE Scheduler_proofs --------------------------
(***************************************************************************)
(* Proofs about Scheduler for any accounts, jobs, worker slots, requester  *)
(* slots and semaphore capacity.                                           *)
(*                                                                         *)
(* The inductive invariant has three independent groups besides the types: *)
(*   Claims   who has claimed which account (inFlight, batch, workers)     *)
(*   Queues   what the immediate queues and the queued marks agree on      *)
(*   Tokens   the semaphore count is the number of polling workers         *)
(***************************************************************************)
EXTENDS Scheduler, FiniteSetTheorems, TLAPS

-----------------------------------------------------------------------------
(* The strengthenings. *)

\* A live worker works on a job of its account, and its account is flagged;
\* an account is claimed by one worker, or by one batch entry, never by both.
Claims ==
    /\ tpc = "select" => tacct \in Accounts
    /\ \A w \in Workers : Live(w) => wjob[w] \in Jobs /\ wacct[w] = Owner[wjob[w]]
    /\ \A i, j \in batch : Owner[i] = Owner[j] => i = j
    /\ \A j \in batch : \A w \in Workers : Live(w) => wacct[w] # Owner[j]
    /\ OneWorkerPerAccount
    /\ InFlightExact

\* An account's queue holds jobs of that account; marks have entries.
Queues ==
    /\ \A a \in Accounts : \A i \in DOMAIN immediate[a] : Owner[immediate[a][i]] = a
    /\ QueuedIsPending

PollingWorkers == {w \in Workers : Polling(w)}

Tokens ==
    /\ sem = Cardinality(PollingWorkers)
    /\ sem \in 0..Limit

IInv == TypeOK /\ Claims /\ Queues /\ Tokens

-----------------------------------------------------------------------------
(* The constants, and small facts about the operators. *)

\* The number of an account's jobs in any snapshot is a natural number.
LEMMA CountType ==
    ASSUME NEW S \in SUBSET Jobs, NEW a
    PROVE  Cardinality({j \in S : Owner[j] = a}) \in Nat
<1>1. IsFiniteSet({j \in S : Owner[j] = a})
  BY JobsAssumption, FS_Subset
<1> QED
  BY <1>1, FS_CardinalityType

\* The pointers that Reconcile leaves are natural numbers.
LEMMA ApplyPointerType ==
    ASSUME NEW snap \in SUBSET Jobs, pointer \in [Accounts -> Nat], Apply(snap)
    PROVE  pointer' \in [Accounts -> Nat]
<1> DEFINE count(a) == Cardinality({j \in snap : Owner[j] = a})
           next(a) == IF count(a) = 0 THEN 0
                      ELSE IF pointer[a] >= count(a) THEN pointer[a] % count(a) ELSE pointer[a]
<1>1. \A a \in Accounts : count(a) \in Nat
  BY CountType
<1> HIDE DEF count
<1>2. \A a \in Accounts : next(a) \in Nat
  BY <1>1
<1>3. pointer' = [a \in Accounts |-> next(a)]
  BY DEF Apply, count
<1> QED
  BY <1>2, <1>3

\* The rest of the queue after position k is a queue.
LEMMA RestType ==
    ASSUME NEW q \in Seq(Jobs), NEW k \in DOMAIN q
    PROVE  /\ Rest(q, k) \in Seq(Jobs)
           /\ Len(Rest(q, k)) = Len(q) - k
           /\ DOMAIN Rest(q, k) = 1..(Len(q) - k)
           /\ \A i \in 1..(Len(q) - k) : Rest(q, k)[i] = q[k + i]
<1>1. k \in 1..Len(q)
  OBVIOUS
<1> QED
  BY <1>1 DEF Rest

-----------------------------------------------------------------------------
(* Types. The count of tokens is left to Tokens: a release keeps it above 0 *)
(* only because the releasing worker holds one.                             *)

LEMMA EmptyQueue == <<>> \in Seq(Jobs)
OBVIOUS

LEMMA InitTypes == Init => TypeOK
<1> SUFFICES ASSUME Init PROVE TypeOK
  OBVIOUS
<1>1. immediate \in [Accounts -> Seq(Jobs)]
  BY EmptyQueue DEF Init
<1>2. sem \in 0..Limit /\ commands \in 0..MaxCommands
  BY LimitAssumption, BudgetAssumption DEF Init
<1>3. status \in [Jobs -> Statuses] /\ gate \in [Accounts -> Gates] /\ pointer \in [Accounts -> Nat]
  BY DEF Init, Statuses, Gates
<1>4. /\ wpc \in [Workers -> WorkPCs] /\ wacct \in [Workers -> Accounts \cup {NoAccount}]
      /\ wjob \in [Workers -> Jobs \cup {0}] /\ worigin \in [Workers -> {"none", "tick", "now"}]
  BY DEF Init, WorkPCs
<1>5. /\ rpc \in [Requesters -> ReqPCs] /\ rsnap \in [Requesters -> SUBSET Jobs]
      /\ racct \in [Requesters -> Accounts \cup {NoAccount}] /\ rids \in [Requesters -> SUBSET Jobs]
  BY DEF Init, ReqPCs
<1> QED
  BY <1>1, <1>2, <1>3, <1>4, <1>5, BootJobsAssumption DEF Init, TypeOK, TickPCs

\* The steps of the tick keep the types.
LEMMA TickTypes ==
    ASSUME TypeOK, Claims, Tick
    PROVE  TypeOK'
<1> USE DEF TypeOK, TickPCs, vars, dbVars, muVars, tickVars, workVars, reqVars
<1>1. CASE TickRead
  BY <1>1 DEF TickRead, Active
<1>2. CASE TickApply
  <2>1. Apply(tsnap)
    BY <1>2 DEF TickApply
  <2>2. pointer' \in [Accounts -> Nat]
    BY <2>1, ApplyPointerType
  <2> QED
    BY <1>2, <2>1, <2>2 DEF TickApply, Apply, Scheduled
<1>3. CASE TickReconcileFails
  BY <1>3 DEF TickReconcileFails
<1>4. CASE TickAccounts
  BY <1>4 DEF TickAccounts
<1>5. ASSUME NEW a \in Accounts, TickGateOpen(a) PROVE TypeOK'
  BY <1>5 DEF TickGateOpen
<1>6. ASSUME NEW a \in Accounts, TickSkip(a) PROVE TypeOK'
  BY <1>6 DEF TickSkip
<1>7. CASE TickSelect
  <2>1. tacct \in Accounts
    BY <1>7 DEF TickSelect, Claims
  <2>2. JobsOf(tacct) \subseteq Jobs
    BY DEF JobsOf
  <2> QED
    BY <1>7, <2>1, <2>2 DEF TickSelect, NextPointer
<1>8. CASE TickScanned
  BY <1>8 DEF TickScanned
<1>9. CASE TickDone
  BY <1>9 DEF TickDone
<1>10. ASSUME NEW j \in Jobs, NEW w \in Workers, TickSpawn(j, w) PROVE TypeOK'
  BY <1>10, OwnerAssumption DEF TickSpawn, Spawn, WorkPCs
<1> QED
  BY <1>1, <1>2, <1>3, <1>4, <1>5, <1>6, <1>7, <1>8, <1>9, <1>10 DEF Tick

\* Everything a worker step changes keeps its type, sem aside.
TypeOKButSem ==
    /\ status \in [Jobs -> Statuses] /\ gate \in [Accounts -> Gates]
    /\ byID \subseteq Jobs /\ pointer \in [Accounts -> Nat]
    /\ inFlight \subseteq Accounts /\ queued \subseteq Jobs
    /\ immediate \in [Accounts -> Seq(Jobs)]
    /\ wpc \in [Workers -> WorkPCs]
    /\ wacct \in [Workers -> Accounts \cup {NoAccount}]
    /\ wjob \in [Workers -> Jobs \cup {0}]
    /\ worigin \in [Workers -> {"none", "tick", "now"}]
    /\ tpc \in TickPCs /\ tsnap \subseteq Jobs /\ ttodo \subseteq Accounts
    /\ tacct \in Accounts \cup {NoAccount} /\ batch \subseteq Jobs
    /\ rpc \in [Requesters -> ReqPCs] /\ rsnap \in [Requesters -> SUBSET Jobs]
    /\ racct \in [Requesters -> Accounts \cup {NoAccount}]
    /\ rids \in [Requesters -> SUBSET Jobs]
    /\ cancelled \in BOOLEAN /\ commands \in 0..MaxCommands

LEMMA WorkerTypes ==
    ASSUME TypeOK, Claims, NEW w \in Workers, Worker(w)
    PROVE  TypeOKButSem'
<1> USE DEF TypeOK, TypeOKButSem, WorkPCs, Goto, vars, dbVars, muVars, tickVars, workVars, reqVars
<1>1. CASE StartPoll(w)
  BY <1>1 DEF StartPoll
<1>2. CASE StartFails(w)
  BY <1>2 DEF StartFails
<1>3. CASE AcquireCancelled(w)
  BY <1>3 DEF AcquireCancelled
<1>4. CASE PollSaves(w)
  BY <1>4, PollGatesAssumption DEF PollSaves, Release, Gates
<1>5. CASE PollFails(w)
  BY <1>5 DEF PollFails, Release
<1>6. CASE NextImmediate(w)
  <2> DEFINE q == immediate[wacct[w]]
  <2>1. wacct[w] \in Accounts
    BY <1>6, OwnerAssumption DEF NextImmediate, Claims, Live
  <2>2. q \in Seq(Jobs)
    BY <2>1
  <2>3. PICK k \in DOMAIN q :
           /\ wjob' = [wjob EXCEPT ![w] = q[k]]
           /\ immediate' = [immediate EXCEPT ![wacct[w]] = Rest(q, k)]
           /\ queued' = queued \ {q[i] : i \in 1..k}
    BY <1>6 DEF NextImmediate, Runnable
  <2>4. q[k] \in Jobs /\ Rest(q, k) \in Seq(Jobs)
    BY <2>2, RestType
  <2> HIDE DEF q
  <2> QED
    BY <1>6, <2>3, <2>4 DEF NextImmediate
<1>7. CASE NoImmediate(w)
  <2>1. immediate' \in [Accounts -> Seq(Jobs)]
    BY <1>7, EmptyQueue DEF NoImmediate, DropImmediate
  <2> QED
    BY <1>7, <2>1 DEF NoImmediate, DropImmediate, MarksDropped
<1>8. CASE FinishAccount(w)
  BY <1>8 DEF FinishAccount, EndWorker, FreedInFlight
<1>9. CASE PipelinePanics(w)
  <2>1. immediate' \in [Accounts -> Seq(Jobs)]
    BY <1>9, EmptyQueue DEF PipelinePanics, DropImmediate
  <2> QED
    BY <1>9, <2>1 DEF PipelinePanics, DropImmediate, MarksDropped, EndWorker, FreedInFlight
<1> QED
  BY <1>1, <1>2, <1>3, <1>4, <1>5, <1>6, <1>7, <1>8, <1>9 DEF Worker

LEMMA RequesterTypes ==
    ASSUME TypeOK, NEW r \in Requesters, Requester(r)
    PROVE  TypeOK'
<1> USE DEF TypeOK, ReqPCs, vars, dbVars, muVars, tickVars, workVars, reqVars
<1>1. CASE ReqRead(r)
  BY <1>1 DEF ReqRead, Active
<1>2. CASE ReqFails(r)
  BY <1>2 DEF ReqFails, EndReq
<1>3. CASE ReqApply(r)
  <2>1. rsnap[r] \in SUBSET Jobs /\ Apply(rsnap[r])
    BY <1>3 DEF ReqApply
  <2>2. pointer' \in [Accounts -> Nat]
    BY <2>1, ApplyPointerType
  <2> QED
    BY <1>3, <2>1, <2>2 DEF ReqApply, Apply, Scheduled
<1>4. CASE ReqList(r)
  BY <1>4 DEF ReqList, Active
<1>5. CASE ReqDone(r)
  BY <1>5 DEF ReqDone, EndReq
<1>6. ASSUME NEW j \in Jobs, PollNow(r, j) PROVE TypeOK'
  <2>1. Owner[j] \in Accounts
    BY OwnerAssumption
  <2>2. immediate[Owner[j]] \in Seq(Jobs)
    BY <2>1
  <2>3. Append(immediate[Owner[j]], j) \in Seq(Jobs)
    BY <2>2
  <2>4. immediate' \in [Accounts -> Seq(Jobs)]
    BY <1>6, <2>3 DEF PollNow
  <2>5. /\ wpc' \in [Workers -> WorkPCs] /\ wacct' \in [Workers -> Accounts \cup {NoAccount}]
        /\ wjob' \in [Workers -> Jobs \cup {0}] /\ worigin' \in [Workers -> {"none", "tick", "now"}]
    <3>1. CASE UNCHANGED workVars
      BY <3>1
    <3>2. ASSUME NEW w \in Workers, Spawn(w, j, "now")
          PROVE  /\ wpc' \in [Workers -> WorkPCs] /\ wacct' \in [Workers -> Accounts \cup {NoAccount}]
                 /\ wjob' \in [Workers -> Jobs \cup {0}] /\ worigin' \in [Workers -> {"none", "tick", "now"}]
      BY <2>1, <3>2 DEF Spawn, WorkPCs
    <3> QED
      BY <1>6, <3>1, <3>2 DEF PollNow
  <2>6. inFlight' \subseteq Accounts /\ queued' \subseteq Jobs /\ rids' \in [Requesters -> SUBSET Jobs]
    BY <1>6, <2>1 DEF PollNow
  <2> QED
    BY <1>6, <2>4, <2>5, <2>6 DEF PollNow
<1> QED
  BY <1>1, <1>2, <1>3, <1>4, <1>5, <1>6 DEF Requester

\* Handlers start goroutines with well-typed arguments.
LEMMA StartTypes ==
    ASSUME TypeOK, NEW new,
           \A r \in DOMAIN new : /\ new[r][1] \in Accounts \cup {NoAccount}
                                 /\ new[r][2] \in SUBSET Jobs,
           Start(new)
    PROVE  /\ rpc' \in [Requesters -> ReqPCs]
           /\ rsnap' \in [Requesters -> SUBSET Jobs]
           /\ racct' \in [Requesters -> Accounts \cup {NoAccount}]
           /\ rids' \in [Requesters -> SUBSET Jobs]
BY DEF TypeOK, Start, ReqPCs

LEMMA HandlerTypes ==
    ASSUME TypeOK, Handler
    PROVE  TypeOK'
<1> USE DEF TypeOK, Command, Start, ReqPCs, Statuses, vars, dbVars, muVars, tickVars, workVars, reqVars
<1>0. commands < MaxCommands => commands + 1 \in 0..MaxCommands
  BY BudgetAssumption
<1>1. ASSUME NEW j \in Jobs, Buscar(j) PROVE TypeOK'
  BY <1>0, <1>1 DEF Buscar, JobCreatedReq
<1>2. ASSUME NEW j \in Jobs, Pausar(j) PROVE TypeOK'
  BY <1>0, <1>2 DEF Pausar, JobsChangedReq
<1>3. ASSUME NEW j \in Jobs, Detener(j) PROVE TypeOK'
  BY <1>0, <1>3 DEF Detener, JobsChangedReq
<1>4. ASSUME NEW j \in Jobs, Reanudar(j) PROVE TypeOK'
  BY <1>0, <1>4 DEF Reanudar, JobsChangedReq, JobCreatedReq
<1>5. ASSUME NEW j \in Jobs, CredencialesWithPending(j) PROVE TypeOK'
  <2>1. PICK r1 \in Requesters, r2 \in Requesters :
           /\ r1 # r2
           /\ Start([x \in {r1, r2} |->
                  IF x = r1 THEN JobCreatedReq(j) ELSE ActivatedReq(Owner[j], {j})])
    BY <1>5 DEF CredencialesWithPending
  <2> DEFINE new == [x \in {r1, r2} |->
                  IF x = r1 THEN JobCreatedReq(j) ELSE ActivatedReq(Owner[j], {j})]
  <2>2. \A r \in DOMAIN new : /\ new[r][1] \in Accounts \cup {NoAccount}
                              /\ new[r][2] \in SUBSET Jobs
    BY OwnerAssumption DEF ActivatedReq, JobCreatedReq
  <2> HIDE DEF new
  <2>3. /\ rpc' \in [Requesters -> ReqPCs]
        /\ rsnap' \in [Requesters -> SUBSET Jobs]
        /\ racct' \in [Requesters -> Accounts \cup {NoAccount}]
        /\ rids' \in [Requesters -> SUBSET Jobs]
    BY <2>1, <2>2, StartTypes DEF new
  <2> QED
    BY <1>0, <1>5, <2>3 DEF CredencialesWithPending, Gates
<1>6. ASSUME NEW a \in Accounts, Credenciales(a) PROVE TypeOK'
  BY <1>0, <1>6 DEF Credenciales, ActivatedReq, Gates
<1> QED
  BY <1>1, <1>2, <1>3, <1>4, <1>5, <1>6 DEF Handler

-----------------------------------------------------------------------------
(* Claims. *)

\* Claims reads these variables only.
claimVars == <<tpc, tacct, batch, inFlight, wpc, wacct, wjob>>

LEMMA InitClaims == Init => Claims
BY DEF Init, Claims, Live, OneWorkerPerAccount, InFlightExact

LEMMA ClaimsStutter == Claims /\ UNCHANGED claimVars => Claims'
BY DEF Claims, Live, OneWorkerPerAccount, InFlightExact, claimVars

\* A worker that stays alive, on the same account, disturbs no claim.
LEMMA ClaimsMove ==
    ASSUME TypeOK, Claims, NEW w \in Workers, NEW pc \in WorkPCs \ {"idle"},
           NEW j \in Jobs, Owner[j] = wacct[w], Live(w),
           wpc' = [wpc EXCEPT ![w] = pc],
           wjob' = [wjob EXCEPT ![w] = j],
           UNCHANGED <<tpc, tacct, batch, inFlight, wacct>>
    PROVE  Claims'
<1>1. \A v \in Workers : Live(v)' <=> Live(v)
  BY DEF Live, TypeOK
<1>2. \A v \in Workers : Live(v) => wjob'[v] \in Jobs /\ wacct[v] = Owner[wjob'[v]]
  BY DEF Claims, TypeOK
<1>3. {wacct[v] : v \in {u \in Workers : Live(u)}}' = {wacct[v] : v \in {u \in Workers : Live(u)}}
  BY <1>1
<1> QED
  BY <1>1, <1>2, <1>3 DEF Claims, OneWorkerPerAccount, InFlightExact

\* A fresh worker on an account that nobody claims, or that the batch claimed.
LEMMA ClaimsSpawn ==
    ASSUME TypeOK, Claims, NEW w \in Workers, NEW j \in Jobs, NEW from,
           Spawn(w, j, from),
           UNCHANGED <<tpc, tacct>>,
           \/ j \in batch /\ batch' = batch \ {j} /\ inFlight' = inFlight
           \/ Owner[j] \notin inFlight /\ batch' = batch /\ inFlight' = inFlight \cup {Owner[j]}
    PROVE  Claims'
<1>1. /\ \A v \in Workers : Live(v)' <=> (v = w \/ Live(v))
      /\ ~Live(w)
      /\ wacct'[w] = Owner[j] /\ wjob'[w] = j
      /\ \A v \in Workers \ {w} : wacct'[v] = wacct[v] /\ wjob'[v] = wjob[v]
  BY DEF Spawn, Live, TypeOK
<1>2. \A v \in Workers : Live(v) => wacct[v] # Owner[j]
  BY DEF Claims, InFlightExact
<1>3. \A i \in batch' : Owner[i] # Owner[j]
  BY DEF Claims, InFlightExact
<1>4. InFlightExact'
  <2>1. {wacct[v] : v \in {u \in Workers : Live(u)}}'
          = {wacct[v] : v \in {u \in Workers : Live(u)}} \cup {Owner[j]}
    BY <1>1
  <2> QED
    BY <2>1 DEF Claims, InFlightExact
<1>5. OneWorkerPerAccount'
  BY <1>1, <1>2 DEF Claims, OneWorkerPerAccount
<1>6. /\ (\A v \in Workers : Live(v) => wjob[v] \in Jobs /\ wacct[v] = Owner[wjob[v]])'
      /\ (\A i \in batch : \A v \in Workers : Live(v) => wacct[v] # Owner[i])'
  BY <1>1, <1>3 DEF Claims
<1> QED
  BY <1>4, <1>5, <1>6 DEF Claims

\* A worker that ends frees its account, which nobody else claims.
LEMMA ClaimsEnd ==
    ASSUME TypeOK, Claims, NEW w \in Workers, Live(w), EndWorker(w)
    PROVE  Claims'
<1>1. /\ \A v \in Workers : Live(v)' <=> (v # w /\ Live(v))
      /\ \A v \in Workers \ {w} : wacct'[v] = wacct[v] /\ wjob'[v] = wjob[v]
      /\ inFlight' = inFlight \ {wacct[w]}
      /\ UNCHANGED <<tpc, tacct, batch>>
  BY DEF EndWorker, FreedInFlight, Goto, Live, TypeOK, WorkPCs, tickVars
<1>2. \A v \in Workers \ {w} : Live(v) => wacct[v] # wacct[w]
  BY DEF Claims, OneWorkerPerAccount
<1>3. \A j \in batch : Owner[j] # wacct[w]
  BY DEF Claims
<1>4. InFlightExact'
  <2>1. {wacct[v] : v \in {u \in Workers : Live(u)}}'
          = {wacct[v] : v \in {u \in Workers : Live(u)}} \ {wacct[w]}
    BY <1>1, <1>2
  <2> QED
    BY <1>1, <1>3, <2>1 DEF Claims, InFlightExact
<1>5. OneWorkerPerAccount'
  BY <1>1 DEF Claims, OneWorkerPerAccount
<1> QED
  BY <1>1, <1>4, <1>5 DEF Claims

LEMMA TickClaims ==
    ASSUME TypeOK, Claims, Tick
    PROVE  Claims'
<1> USE DEF muVars, tickVars, workVars, claimVars
<1>1. CASE TickRead \/ TickReconcileFails \/ TickAccounts \/ TickScanned \/ TickDone
  BY <1>1 DEF TickRead, TickReconcileFails, TickAccounts, TickScanned, TickDone,
              Claims, Live, OneWorkerPerAccount, InFlightExact
<1>2. CASE TickApply
  BY <1>2 DEF TickApply, Apply, Claims, Live, OneWorkerPerAccount, InFlightExact
<1>3. ASSUME NEW a \in Accounts, TickGateOpen(a) \/ TickSkip(a) PROVE Claims'
  BY <1>3 DEF TickGateOpen, TickSkip, Claims, Live, OneWorkerPerAccount, InFlightExact
<1>4. CASE TickSelect
  <2>1. CASE Claimable(tacct)
    <3>1. PICK j \in JobsOf(tacct) : batch' = batch \cup {j}
      BY <1>4, <2>1 DEF TickSelect
    <3>2. /\ Owner[j] = tacct /\ tacct \notin inFlight
          /\ inFlight' = inFlight \cup {Owner[j]}
          /\ tpc' = "scan" /\ UNCHANGED <<wpc, wacct, wjob>>
      BY <1>4, <2>1, <3>1 DEF TickSelect, Claimable, JobsOf
    <3>3. /\ \A w \in Workers : Live(w) => wacct[w] # Owner[j]
          /\ \A i \in batch : Owner[i] # Owner[j]
      BY <3>2 DEF Claims, InFlightExact
    <3>4. InFlightExact'
      BY <3>1, <3>2 DEF Claims, InFlightExact, Live
    <3>5. OneWorkerPerAccount'
      BY <3>2 DEF Claims, OneWorkerPerAccount, Live
    <3> QED
      BY <3>1, <3>2, <3>3, <3>4, <3>5 DEF Claims, Live
  <2>2. CASE ~Claimable(tacct)
    BY <1>4, <2>2 DEF TickSelect, Claims, Live, OneWorkerPerAccount, InFlightExact
  <2> QED
    BY <2>1, <2>2
<1>5. ASSUME NEW j \in Jobs, NEW w \in Workers, TickSpawn(j, w) PROVE Claims'
  BY <1>5, ClaimsSpawn DEF TickSpawn
<1> QED
  BY <1>1, <1>2, <1>3, <1>4, <1>5 DEF Tick

LEMMA WorkerClaims ==
    ASSUME TypeOK, Claims, Queues, NEW w \in Workers, Worker(w)
    PROVE  Claims'
<1> USE DEF muVars, tickVars, workVars, WorkPCs
<1>1. CASE \/ StartPoll(w) \/ StartFails(w) \/ AcquireCancelled(w)
           \/ PollSaves(w) \/ PollFails(w) \/ NoImmediate(w)
  <2>1. /\ Live(w) /\ wjob[w] \in Jobs /\ Owner[wjob[w]] = wacct[w]
        /\ \E pc \in WorkPCs \ {"idle"} : Goto(w, pc)
        /\ wjob' = [wjob EXCEPT ![w] = wjob[w]]
        /\ UNCHANGED <<tpc, tacct, batch, inFlight, wacct>>
    BY <1>1 DEF StartPoll, StartFails, AcquireCancelled, PollSaves, PollFails, NoImmediate,
                Release, Goto, Live, Claims, TypeOK
  <2> QED
    BY <2>1, ClaimsMove DEF Goto
<1>2. CASE NextImmediate(w)
  <2> DEFINE q == immediate[wacct[w]]
  <2>1. Live(w) /\ wacct[w] \in Accounts
    BY <1>2, OwnerAssumption DEF NextImmediate, Live, Claims
  <2>2. PICK k \in DOMAIN q : wjob' = [wjob EXCEPT ![w] = q[k]]
    BY <1>2 DEF NextImmediate, Runnable
  <2>3. q[k] \in Jobs /\ Owner[q[k]] = wacct[w]
    BY <2>1 DEF Queues, TypeOK
  <2>4. Goto(w, "acquire") /\ UNCHANGED <<tpc, tacct, batch, inFlight, wacct>>
    BY <1>2 DEF NextImmediate
  <2> QED
    BY <2>1, <2>2, <2>3, <2>4, ClaimsMove DEF Goto
<1>3. CASE FinishAccount(w) \/ PipelinePanics(w)
  BY <1>3, ClaimsEnd DEF FinishAccount, PipelinePanics, Live
<1> QED
  BY <1>1, <1>2, <1>3 DEF Worker

LEMMA RequesterClaims ==
    ASSUME TypeOK, Claims, NEW r \in Requesters, Requester(r)
    PROVE  Claims'
<1> USE DEF muVars, tickVars, workVars, claimVars
<1>1. CASE ReqRead(r) \/ ReqFails(r) \/ ReqApply(r) \/ ReqList(r) \/ ReqDone(r)
  BY <1>1, ClaimsStutter DEF ReqRead, ReqFails, ReqApply, Apply, ReqList, ReqDone
<1>2. ASSUME NEW j \in Jobs, PollNow(r, j) PROVE Claims'
  <2>1. CASE UNCHANGED <<inFlight, workVars>>
    BY <1>2, <2>1, ClaimsStutter DEF PollNow
  <2>2. CASE /\ Owner[j] \notin inFlight
             /\ inFlight' = inFlight \cup {Owner[j]}
             /\ \E w \in Workers : Spawn(w, j, "now")
    BY <1>2, <2>2, ClaimsSpawn DEF PollNow
  <2> QED
    BY <1>2, <2>1, <2>2 DEF PollNow
<1> QED
  BY <1>1, <1>2 DEF Requester

-----------------------------------------------------------------------------
(* Queues. *)

\* Queues reads these variables only.
LEMMA QueuesStutter ==
    ASSUME Queues, queued' \subseteq queued, UNCHANGED immediate
    PROVE  Queues'
BY DEF Queues, QueuedIsPending, Elems

\* Emptying one account's queue together with its marks.
LEMMA QueuesEmptied ==
    ASSUME TypeOK, Queues, NEW a \in Accounts,
           queued' = queued \ Elems(immediate[a]),
           immediate' = [immediate EXCEPT ![a] = <<>>]
    PROVE  Queues'
<1>1. immediate'[a] = <<>> /\ \A b \in Accounts \ {a} : immediate'[b] = immediate[b]
  BY DEF TypeOK
<1>2. \A j \in queued' : Owner[j] # a
  BY DEF Queues, QueuedIsPending
<1>3. \A j \in queued' : j \in Elems(immediate'[Owner[j]])
  BY <1>1, <1>2, OwnerAssumption DEF Queues, QueuedIsPending, TypeOK
<1> QED
  BY <1>1, <1>3 DEF Queues, QueuedIsPending

\* nextImmediate takes the marks of what it consumes, and the jobs that keep a
\* mark are behind position k.
LEMMA QueuesConsumed ==
    ASSUME TypeOK, Queues, NEW a \in Accounts, NEW k \in DOMAIN immediate[a],
           queued' = queued \ {immediate[a][i] : i \in 1..k},
           immediate' = [immediate EXCEPT ![a] = Rest(immediate[a], k)]
    PROVE  Queues'
<1> DEFINE q == immediate[a]
<1>1. q \in Seq(Jobs) /\ k \in 1..Len(q)
  BY DEF TypeOK
<1>2. immediate'[a] = Rest(q, k) /\ \A b \in Accounts \ {a} : immediate'[b] = immediate[b]
  BY DEF TypeOK
<1>3. /\ Rest(q, k) \in Seq(Jobs) /\ DOMAIN Rest(q, k) = 1..(Len(q) - k)
      /\ Len(q) \in Nat /\ DOMAIN q = 1..Len(q)
      /\ \A i \in 1..(Len(q) - k) : Rest(q, k)[i] = q[k + i]
  <2>1. k \in DOMAIN q
    OBVIOUS
  <2> HIDE DEF q
  <2>2. DOMAIN q = 1..Len(q) /\ Len(q) \in Nat
    BY <1>1
  <2> QED
    BY <1>1, <2>1, <2>2, RestType
<1>4. \A b \in Accounts : \A i \in DOMAIN immediate'[b] : Owner[immediate'[b][i]] = b
  <2>1. \A i \in DOMAIN Rest(q, k) : k + i \in DOMAIN q /\ Rest(q, k)[i] = q[k + i]
    <3> HIDE DEF q
    <3> QED
      BY <1>1, <1>3
  <2> QED
    BY <1>2, <2>1 DEF Queues
<1>5. ASSUME NEW j \in queued' PROVE j \in Elems(immediate'[Owner[j]])
  <2>1. j \in queued /\ j \in Elems(immediate[Owner[j]]) /\ Owner[j] \in Accounts
    BY OwnerAssumption DEF Queues, QueuedIsPending, TypeOK
  <2>2. CASE Owner[j] = a
    <3>1. PICK i \in DOMAIN q : q[i] = j
      BY <2>1, <2>2 DEF Elems
    <3>2. i \in (k + 1)..Len(q)
      BY <1>1, <3>1
    <3>3. i - k \in DOMAIN Rest(q, k) /\ Rest(q, k)[i - k] = j
      <4>1. i - k \in 1..(Len(q) - k) /\ k + (i - k) = i
        BY <1>1, <1>3, <3>2
      <4> HIDE DEF q
      <4> QED
        BY <1>3, <3>1, <4>1
    <3> QED
      BY <1>2, <2>2, <3>3 DEF Elems
  <2>3. CASE Owner[j] # a
    BY <1>2, <2>1, <2>3
  <2> QED
    BY <2>2, <2>3
<1> QED
  BY <1>4, <1>5 DEF Queues, QueuedIsPending

\* PollNow marks exactly what it appends.
LEMMA QueuesAppended ==
    ASSUME TypeOK, Queues, NEW j \in Jobs,
           queued' = queued \cup {j},
           immediate' = [immediate EXCEPT ![Owner[j]] = Append(@, j)]
    PROVE  Queues'
<1> DEFINE a == Owner[j]
           q == immediate[a]
<1>1. a \in Accounts /\ q \in Seq(Jobs)
  BY OwnerAssumption DEF TypeOK
<1>2. immediate'[a] = Append(q, j) /\ \A b \in Accounts \ {a} : immediate'[b] = immediate[b]
  BY <1>1 DEF TypeOK
<1>3. /\ DOMAIN Append(q, j) = 1..(Len(q) + 1) /\ DOMAIN q = 1..Len(q)
      /\ Append(q, j)[Len(q) + 1] = j
      /\ \A i \in 1..Len(q) : Append(q, j)[i] = q[i]
  BY <1>1
<1>4. Elems(Append(q, j)) = Elems(q) \cup {j}
  BY <1>1, <1>3 DEF Elems
<1>5. \A i \in DOMAIN Append(q, j) : Owner[Append(q, j)[i]] = a
  BY <1>1, <1>3 DEF Queues
<1>6. \A i \in queued' : i \in Elems(immediate'[Owner[i]])
  BY <1>1, <1>2, <1>4, OwnerAssumption DEF Queues, QueuedIsPending, TypeOK
<1> QED
  BY <1>2, <1>5, <1>6 DEF Queues, QueuedIsPending

LEMMA QueuesStep ==
    ASSUME TypeOK, Claims, Queues, [Next]_vars
    PROVE  Queues'
<1> USE DEF vars, muVars
<1>1. CASE Tick
  BY <1>1, QueuesStutter
     DEF Tick, TickRead, TickApply, Apply, Scheduled, TickReconcileFails, TickAccounts, TickGateOpen,
         TickSkip, TickSelect, TickScanned, TickDone, TickSpawn
<1>2. ASSUME NEW w \in Workers, Worker(w) PROVE Queues'
  <2>1. CASE \/ StartPoll(w) \/ StartFails(w) \/ AcquireCancelled(w)
             \/ PollSaves(w) \/ PollFails(w) \/ FinishAccount(w)
    BY <2>1, QueuesStutter
       DEF StartPoll, StartFails, AcquireCancelled, PollSaves, PollFails, Release, FinishAccount
  <2>2. ASSUME wpc[w] = "next" PROVE wacct[w] \in Accounts
    BY <2>2, OwnerAssumption DEF Claims, Live
  <2>3. CASE NextImmediate(w)
    <3>1. PICK k \in DOMAIN immediate[wacct[w]] :
             /\ immediate' = [immediate EXCEPT ![wacct[w]] = Rest(immediate[wacct[w]], k)]
             /\ queued' = queued \ {immediate[wacct[w]][i] : i \in 1..k}
      BY <2>3 DEF NextImmediate, Runnable
    <3> QED
      BY <2>2, <2>3, <3>1, QueuesConsumed DEF NextImmediate
  <2>4. CASE NoImmediate(w) \/ PipelinePanics(w)
    BY <2>2, <2>4, QueuesEmptied DEF NoImmediate, PipelinePanics, DropImmediate, MarksDropped
  <2> QED
    BY <1>2, <2>1, <2>3, <2>4 DEF Worker
<1>3. ASSUME NEW r \in Requesters, Requester(r) PROVE Queues'
  <2>1. CASE ReqRead(r) \/ ReqFails(r) \/ ReqApply(r) \/ ReqList(r) \/ ReqDone(r)
    BY <2>1, QueuesStutter DEF ReqRead, ReqFails, ReqApply, Apply, ReqList, ReqDone
  <2>2. ASSUME NEW j \in Jobs, PollNow(r, j) PROVE Queues'
    BY <2>2, QueuesStutter, QueuesAppended DEF PollNow
  <2> QED
    BY <1>3, <2>1, <2>2 DEF Requester
<1>4. CASE \/ Handler \/ (\E a \in Accounts : PauseExpires(a)) \/ Close \/ Terminated \/ UNCHANGED vars
  BY <1>4, QueuesStutter
     DEF Handler, Buscar, Pausar, Detener, Reanudar, CredencialesWithPending, Credenciales, Command,
         PauseExpires, Close, Terminated
<1> QED
  BY <1>1, <1>2, <1>3, <1>4 DEF Next

-----------------------------------------------------------------------------
(* Tokens. *)

\* Steps that leave every worker's polling status alone.
LEMMA TokensStutter ==
    ASSUME Tokens, UNCHANGED sem, \A w \in Workers : Polling(w)' <=> Polling(w)
    PROVE  Tokens'
<1>1. PollingWorkers' = PollingWorkers
  BY DEF PollingWorkers
<1> QED
  BY <1>1 DEF Tokens

LEMMA TokenTaken ==
    ASSUME Tokens, NEW w \in Workers, ~Polling(w), sem < Limit, sem' = sem + 1,
           PollingWorkers' = PollingWorkers \cup {w}
    PROVE  Tokens'
<1>1. IsFiniteSet(PollingWorkers)
  BY SlotsAssumption, FS_Subset DEF PollingWorkers
<1>2. w \notin PollingWorkers
  BY DEF PollingWorkers
<1>3. Cardinality(PollingWorkers') = Cardinality(PollingWorkers) + 1
  BY <1>1, <1>2, FS_AddElement
<1> QED
  BY <1>3, LimitAssumption DEF Tokens

LEMMA TokenGivenBack ==
    ASSUME Tokens, NEW w \in Workers, Polling(w), sem' = sem - 1,
           PollingWorkers' = PollingWorkers \ {w}
    PROVE  Tokens'
<1>1. IsFiniteSet(PollingWorkers)
  BY SlotsAssumption, FS_Subset DEF PollingWorkers
<1>2. w \in PollingWorkers
  BY DEF PollingWorkers
<1>3. /\ IsFiniteSet(PollingWorkers \ {w})
      /\ Cardinality(PollingWorkers') = Cardinality(PollingWorkers) - 1
  BY <1>1, <1>2, FS_RemoveElement
<1>4. Cardinality(PollingWorkers') \in Nat
  BY <1>3, FS_CardinalityType
<1> QED
  BY <1>3, <1>4, LimitAssumption DEF Tokens

LEMMA InitTokens == Init => Tokens
<1> SUFFICES ASSUME Init PROVE Tokens
  OBVIOUS
<1>1. PollingWorkers = {}
  BY DEF Init, PollingWorkers, Polling
<1> QED
  BY <1>1, FS_EmptySet, LimitAssumption DEF Init, Tokens

LEMMA TokensStep ==
    ASSUME TypeOK, Tokens, [Next]_vars
    PROVE  Tokens'
<1> USE DEF vars, workVars
<1>1. CASE Tick
  <2>1. CASE UNCHANGED <<sem, wpc>>
    BY <2>1, TokensStutter DEF Polling
  <2>2. ASSUME NEW j \in Jobs, NEW w \in Workers, TickSpawn(j, w) PROVE Tokens'
    BY <2>2, TokensStutter DEF TickSpawn, Spawn, Live, Polling, TypeOK
  <2> QED
    BY <1>1, <2>1, <2>2
       DEF Tick, TickRead, TickApply, TickReconcileFails, TickAccounts, TickGateOpen,
           TickSkip, TickSelect, TickScanned, TickDone
<1>2. ASSUME NEW w \in Workers, Worker(w) PROVE Tokens'
  <2>1. CASE StartPoll(w)
    <3>1. PollingWorkers' = PollingWorkers \cup {w}
      BY <2>1 DEF StartPoll, Goto, PollingWorkers, Polling, TypeOK
    <3> QED
      BY <2>1, <3>1, TokenTaken DEF StartPoll, TokenFree, Polling
  <2>2. CASE PollSaves(w) \/ PollFails(w)
    <3>1. PollingWorkers' = PollingWorkers \ {w}
      BY <2>2 DEF PollSaves, PollFails, Release, Goto, PollingWorkers, Polling, TypeOK
    <3> QED
      BY <2>2, <3>1, TokenGivenBack DEF PollSaves, PollFails, Release, Polling
  <2>3. CASE \/ StartFails(w) \/ AcquireCancelled(w) \/ NextImmediate(w) \/ NoImmediate(w)
             \/ FinishAccount(w) \/ PipelinePanics(w)
    <3>1. UNCHANGED sem /\ ~Polling(w) /\ (\E pc \in WorkPCs \ {"polling"} : Goto(w, pc))
      BY <2>3 DEF StartFails, AcquireCancelled, NextImmediate, NoImmediate, FinishAccount,
                  PipelinePanics, EndWorker, Polling, WorkPCs
    <3> QED
      BY <3>1, TokensStutter DEF Goto, Polling, TypeOK
  <2> QED
    BY <1>2, <2>1, <2>2, <2>3 DEF Worker
<1>3. ASSUME NEW r \in Requesters, Requester(r) PROVE Tokens'
  <2>1. CASE UNCHANGED <<sem, wpc>>
    BY <2>1, TokensStutter DEF Polling
  <2>2. ASSUME NEW w \in Workers, NEW j \in Jobs, Spawn(w, j, "now"), UNCHANGED sem PROVE Tokens'
    BY <2>2, TokensStutter DEF Spawn, Live, Polling, TypeOK
  <2> QED
    BY <1>3, <2>1, <2>2 DEF Requester, ReqRead, ReqFails, ReqApply, ReqList, ReqDone, PollNow
<1>4. CASE \/ Handler \/ (\E a \in Accounts : PauseExpires(a)) \/ Close \/ Terminated \/ UNCHANGED vars
  BY <1>4, TokensStutter
     DEF Handler, Buscar, Pausar, Detener, Reanudar, CredencialesWithPending, Credenciales, Command,
         PauseExpires, Close, Terminated, Polling
<1> QED
  BY <1>1, <1>2, <1>3, <1>4 DEF Next

-----------------------------------------------------------------------------
(* The invariant. *)

LEMMA TypesStep ==
    ASSUME TypeOK, Claims, Tokens', [Next]_vars
    PROVE  TypeOK'
<1>1. ASSUME NEW w \in Workers, Worker(w) PROVE TypeOK'
  BY <1>1, WorkerTypes DEF TypeOK, TypeOKButSem, Tokens
<1>2. ASSUME NEW r \in Requesters, Requester(r) PROVE TypeOK'
  BY <1>2, RequesterTypes
<1>3. ASSUME NEW a \in Accounts, PauseExpires(a) PROVE TypeOK'
  BY <1>3 DEF PauseExpires, TypeOK, Gates, muVars, tickVars, workVars, reqVars
<1>4. CASE Close
  BY <1>4 DEF Close, TypeOK, dbVars, muVars, tickVars, workVars, reqVars
<1>5. CASE Terminated \/ UNCHANGED vars
  BY <1>5 DEF Terminated, TypeOK, vars, dbVars, muVars, tickVars, workVars, reqVars
<1> QED
  BY <1>1, <1>2, <1>3, <1>4, <1>5, TickTypes, HandlerTypes DEF Next

LEMMA ClaimsStep ==
    ASSUME TypeOK, Claims, Queues, [Next]_vars
    PROVE  Claims'
<1>1. CASE \/ Handler \/ (\E a \in Accounts : PauseExpires(a)) \/ Close \/ Terminated \/ UNCHANGED vars
  BY <1>1, ClaimsStutter
     DEF Handler, Buscar, Pausar, Detener, Reanudar, CredencialesWithPending, Credenciales, Command,
         PauseExpires, Close, Terminated, vars, muVars, tickVars, workVars, claimVars
<1> QED
  BY <1>1, TickClaims, WorkerClaims, RequesterClaims DEF Next

\* IInv holds initially and every step preserves it.
THEOREM Invariant == Spec => []IInv
<1>1. Init => IInv
  BY InitTypes, InitClaims, InitTokens DEF IInv, Init, Queues, QueuedIsPending
<1>2. IInv /\ [Next]_vars => IInv'
  BY TypesStep, ClaimsStep, QueuesStep, TokensStep DEF IInv
<1> QED
  BY <1>1, <1>2, PTL DEF Spec

\* Every variable keeps its type; the semaphore stays within its capacity.
THEOREM TypeCorrect == Spec => []TypeOK
BY Invariant, PTL DEF IInv

\* Two goroutines never poll for one account at a time, for any interleaving of
\* the tick, PollNow callers, stale reconciles, panics and shutdown.
THEOREM Exclusion == Spec => []OneWorkerPerAccount
<1>1. IInv => OneWorkerPerAccount
  BY DEF IInv, Claims
<1> QED
  BY <1>1, Invariant, PTL

\* An account is flagged in flight exactly when someone has claimed it.
THEOREM FlagExact == Spec => []InFlightExact
<1>1. IInv => InFlightExact
  BY DEF IInv, Claims
<1> QED
  BY <1>1, Invariant, PTL

\* A mark always has an entry in its account's queue.
THEOREM MarksPending == Spec => []QueuedIsPending
<1>1. IInv => QueuedIsPending
  BY DEF IInv, Queues
<1> QED
  BY <1>1, Invariant, PTL

\* At most Limit polls run at a time and no token leaks.
THEOREM Capped == Spec => []ConcurrencyCap
<1>1. IInv => ConcurrencyCap
  BY LimitAssumption DEF IInv, Tokens, ConcurrencyCap, PollingWorkers
<1> QED
  BY <1>1, Invariant, PTL

\* Accounts and tokens are taken and returned exactly.
THEOREM Slots == Spec => []SlotsExact
<1>1. OneWorkerPerAccount /\ InFlightExact /\ ConcurrencyCap => SlotsExact
  BY DEF SlotsExact
<1> QED
  BY <1>1, Exclusion, FlagExact, Capped, PTL

-----------------------------------------------------------------------------
(* The scheduler keeps PollPromise: leases are flags, and a poll of the      *)
(* promise is a worker that polls.                                           *)

\* Polled accounts are those of the polling workers, which hold leases of
\* their own: there are as many of them as tokens are out.
LEMMA PolledByTokens ==
    ASSUME IInv
    PROVE  IsFiniteSet(PolledAccounts) /\ Cardinality(PolledAccounts) = sem
<1> DEFINE account == [w \in PollingWorkers |-> wacct[w]]
<1>1. IsFiniteSet(PollingWorkers)
  BY SlotsAssumption, FS_Subset DEF PollingWorkers
<1>2. account \in Bijection(PollingWorkers, PolledAccounts)
  <2>1. account \in Surjection(PollingWorkers, PolledAccounts)
    BY DEF Surjection, PollingWorkers, PolledAccounts
  <2>2. account \in Injection(PollingWorkers, PolledAccounts)
    BY DEF IInv, Claims, OneWorkerPerAccount, Injection, IsInjective, PollingWorkers,
           PolledAccounts, Polling, Live
  <2> QED
    BY <2>1, <2>2 DEF Bijection
<1>3. IsFiniteSet(PolledAccounts) /\ Cardinality(PolledAccounts) = Cardinality(PollingWorkers)
  BY <1>1, <1>2, FS_Bijection, FS_SameCardinalityBij DEF ExistsBijection
<1> QED
  BY <1>3 DEF IInv, Tokens

\* A step that keeps every polling worker and its account polls nobody else.
LEMMA PolledStutter ==
    ASSUME \A w \in Workers : /\ Polling(w)' <=> Polling(w)
                              /\ Polling(w) => wacct'[w] = wacct[w]
    PROVE  UNCHANGED PolledAccounts
BY DEF PolledAccounts

\* A new worker does not poll yet.
LEMMA PolledSpawn ==
    ASSUME TypeOK, NEW w \in Workers, NEW j \in Jobs, NEW from, Spawn(w, j, from)
    PROVE  UNCHANGED PolledAccounts
BY PolledStutter DEF Spawn, Live, Polling, TypeOK

\* A worker that polls does so for an account that is leased.
LEMMA WorkerLeased ==
    ASSUME IInv, NEW w \in Workers, Live(w)
    PROVE  wacct[w] \in Accounts /\ wacct[w] \in inFlight
BY OwnerAssumption DEF IInv, Claims, InFlightExact

\* While w does not poll, nobody polls for its account.
LEMMA NotPolled ==
    ASSUME IInv, NEW w \in Workers, Live(w), ~Polling(w)
    PROVE  wacct[w] \notin PolledAccounts
BY DEF IInv, Claims, OneWorkerPerAccount, PolledAccounts, Polling, Live

\* An account without a lease is claimed by the tick.
LEMMA TickKeepsPromise ==
    ASSUME IInv, Tick
    PROVE  [Promise!Next]_<<inFlight, PolledAccounts, cancelled>>
<1>1. CASE UNCHANGED <<inFlight, wpc, wacct, cancelled>>
  BY <1>1, PolledStutter DEF Polling
<1>2. CASE TickSelect
  <2>1. UNCHANGED <<wpc, wacct, cancelled>>
    BY <1>2 DEF TickSelect, workVars
  <2>2. UNCHANGED PolledAccounts
    BY <2>1, PolledStutter DEF Polling
  <2>3. CASE Claimable(tacct)
    <3>1. tacct \in Accounts /\ tacct \notin inFlight /\ inFlight' = inFlight \cup {tacct}
      BY <1>2, <2>3 DEF TickSelect, Claimable, IInv, Claims
    <3>2. Promise!Claim(tacct)
      BY <2>1, <2>2, <3>1 DEF Promise!Claim
    <3> QED
      BY <3>1, <3>2 DEF Promise!Next
  <2>4. CASE ~Claimable(tacct)
    BY <1>2, <2>1, <2>2, <2>4 DEF TickSelect
  <2> QED
    BY <2>3, <2>4
<1>3. ASSUME NEW j \in Jobs, NEW w \in Workers, TickSpawn(j, w)
      PROVE  UNCHANGED <<inFlight, PolledAccounts, cancelled>>
  BY <1>3, PolledSpawn DEF TickSpawn, IInv, muVars
<1> QED
  BY <1>1, <1>2, <1>3
     DEF Tick, TickRead, TickApply, Apply, TickReconcileFails, TickAccounts, TickGateOpen,
         TickSkip, TickScanned, TickDone, muVars, workVars

\* A worker begins and ends polls under its lease, and returns it between them.
LEMMA WorkerKeepsPromise ==
    ASSUME IInv, NEW w \in Workers, Worker(w)
    PROVE  [Promise!Next]_<<inFlight, PolledAccounts, cancelled>>
<1> DEFINE a == wacct[w]
<1>1. Live(w)
  BY DEF Worker, StartPoll, StartFails, AcquireCancelled, PollSaves, PollFails, NextImmediate,
         NoImmediate, FinishAccount, PipelinePanics, Live, Polling
<1>2. a \in Accounts /\ a \in inFlight
  BY <1>1, WorkerLeased
<1>3. wpc \in [Workers -> WorkPCs] /\ wacct \in [Workers -> Accounts \cup {NoAccount}]
  BY DEF IInv, TypeOK
<1>4. CASE StartPoll(w)
  <2>1. ~Polling(w) /\ wpc' = [wpc EXCEPT ![w] = "polling"] /\ sem < Limit /\ ~cancelled
        /\ UNCHANGED <<inFlight, wacct, cancelled>>
    BY <1>4 DEF StartPoll, TokenFree, Goto, Polling, muVars
  <2>2. PolledAccounts' = PolledAccounts \cup {a}
    BY <1>3, <2>1 DEF PolledAccounts, Polling
  <2>3. Cardinality(PolledAccounts) < Limit /\ a \notin PolledAccounts
    BY <1>1, <2>1, PolledByTokens, NotPolled
  <2>4. Promise!Cardinality(PolledAccounts) = Cardinality(PolledAccounts)
    BY DEF Promise!Cardinality, Cardinality
  <2>5. Promise!BeginPoll(a)
    BY <1>2, <2>1, <2>2, <2>3, <2>4 DEF Promise!BeginPoll
  <2> QED
    BY <1>2, <2>5 DEF Promise!Next
<1>5. CASE PollSaves(w) \/ PollFails(w)
  <2>1. Polling(w) /\ wpc' = [wpc EXCEPT ![w] = "next"] /\ UNCHANGED <<inFlight, wacct, cancelled>>
    BY <1>5 DEF PollSaves, PollFails, Release, Goto, Polling, muVars
  <2>2. \A v \in Workers : Polling(v) /\ wacct[v] = a => v = w
    BY <1>1 DEF IInv, Claims, OneWorkerPerAccount, Polling, Live
  <2>3. PolledAccounts' = PolledAccounts \ {a}
    BY <1>3, <2>1, <2>2 DEF PolledAccounts, Polling
  <2>4. a \in PolledAccounts
    BY <2>1 DEF PolledAccounts
  <2>5. Promise!EndPoll(a)
    BY <2>1, <2>3, <2>4 DEF Promise!EndPoll
  <2> QED
    BY <1>2, <2>5 DEF Promise!Next
<1>6. CASE StartFails(w) \/ AcquireCancelled(w) \/ NextImmediate(w) \/ NoImmediate(w)
  <2>1. /\ ~Polling(w) /\ (\E pc \in WorkPCs \ {"polling"} : wpc' = [wpc EXCEPT ![w] = pc])
        /\ UNCHANGED <<inFlight, wacct, cancelled>>
    BY <1>6 DEF StartFails, AcquireCancelled, NextImmediate, NoImmediate, Goto, Polling, WorkPCs,
                muVars
  <2>2. UNCHANGED PolledAccounts
    BY <1>3, <2>1, PolledStutter DEF Polling
  <2> QED
    BY <2>1, <2>2
<1>7. CASE FinishAccount(w) \/ PipelinePanics(w)
  <2>1. /\ ~Polling(w) /\ inFlight' = inFlight \ {a} /\ UNCHANGED cancelled
        /\ wpc' = [wpc EXCEPT ![w] = "idle"] /\ wacct' = [wacct EXCEPT ![w] = NoAccount]
    BY <1>7 DEF FinishAccount, PipelinePanics, EndWorker, FreedInFlight, Goto, Polling
  <2>2. UNCHANGED PolledAccounts
    BY <1>3, <2>1, PolledStutter DEF Polling
  <2>3. Promise!Return(a)
    BY <1>1, <1>2, <2>1, <2>2, NotPolled DEF Promise!Return
  <2> QED
    BY <1>2, <2>3 DEF Promise!Next
<1> QED
  BY <1>4, <1>5, <1>6, <1>7 DEF Worker

\* PollNow claims an account without a lease for the worker it starts.
LEMMA RequesterKeepsPromise ==
    ASSUME IInv, NEW r \in Requesters, Requester(r)
    PROVE  [Promise!Next]_<<inFlight, PolledAccounts, cancelled>>
<1>1. CASE UNCHANGED <<inFlight, wpc, wacct, cancelled>>
  BY <1>1, PolledStutter DEF Polling
<1>2. ASSUME NEW j \in Jobs, NEW w \in Workers, Spawn(w, j, "now"), Owner[j] \notin inFlight,
             inFlight' = inFlight \cup {Owner[j]}, UNCHANGED cancelled
      PROVE  Promise!Next
  <2>1. UNCHANGED PolledAccounts
    BY <1>2, PolledSpawn DEF IInv
  <2>2. Owner[j] \in Accounts
    BY OwnerAssumption
  <2>3. Promise!Claim(Owner[j])
    BY <1>2, <2>1 DEF Promise!Claim
  <2> QED
    BY <2>2, <2>3 DEF Promise!Next
<1>3. ASSUME NEW j \in Jobs, PollNow(r, j)
      PROVE  [Promise!Next]_<<inFlight, PolledAccounts, cancelled>>
  BY <1>1, <1>2, <1>3 DEF PollNow, workVars
<1> QED
  BY <1>1, <1>3
     DEF Requester, ReqRead, ReqFails, ReqApply, Apply, ReqList, ReqDone, muVars, workVars

\* The scheduler implements PollPromise: an account is leased to one pipeline
\* at a time, polls run under a lease and within the cap, none begins after
\* Close, and a lease ends when its last poll has.
THEOREM Refinement == Spec => PollsAsPromised
<1>1. Init => Promise!Init
  BY DEF Init, Promise!Init, PolledAccounts, Polling
<1>2. IInv /\ [Next]_vars => [Promise!Next]_<<inFlight, PolledAccounts, cancelled>>
  <2> SUFFICES ASSUME IInv, [Next]_vars
               PROVE  [Promise!Next]_<<inFlight, PolledAccounts, cancelled>>
    OBVIOUS
  <2>1. CASE Handler \/ (\E a \in Accounts : PauseExpires(a)) \/ Terminated \/ UNCHANGED vars
    <3>1. UNCHANGED <<inFlight, wpc, wacct, cancelled>>
      BY <2>1 DEF Handler, Buscar, Pausar, Detener, Reanudar, CredencialesWithPending,
                  Credenciales, Command, PauseExpires, Terminated, vars, muVars, workVars
    <3> QED
      BY <3>1, PolledStutter DEF Polling
  <2>2. CASE Close
    <3>1. UNCHANGED <<inFlight, wpc, wacct>> /\ cancelled' = TRUE
      BY <2>2 DEF Close, muVars, workVars
    <3>2. UNCHANGED PolledAccounts
      BY <3>1, PolledStutter DEF Polling
    <3> QED
      BY <3>1, <3>2 DEF Promise!Next, Promise!Close
  <2> QED
    BY <2>1, <2>2, TickKeepsPromise, WorkerKeepsPromise, RequesterKeepsPromise DEF Next
<1> QED
  BY <1>1, <1>2, Invariant, PTL DEF Spec, PollsAsPromised, Promise!Spec, Promise!vars

=============================================================================
