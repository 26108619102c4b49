# uade-bot in TLA+

Specifications of the concurrent and failure-prone core of *uade-bot*, the
Discord bot that polls UADE's enrollment portal for vacancies and tells its
users about them: TLA+ modules translated from the Go sources, TLC
configurations that check them on small instances, and theorems that the TLAPS
proof system checks for every value of the constants.

Paths are relative to the repository (`src/...`). `PROJECT.json` is the index:
the components and their status, the runs, the mutant that breaks each property,
the map from every definition to the lines it models, the hazards, the findings
and the theorems.

## 1. The system

One process, one SQLite file, one Discord gateway connection. The database, the
Discord REST API, UADE's WebForms portal and Microsoft's sign-in are the parties
outside.

| component | state it keeps | operations |
|---|---|---|
| scheduler core (`scheduler.go`, `sqlstore.go`) | under `mu`: `jobs`, `byID`, `pointer`, `inFlight`, `immediate`, `queued`; the semaphore channel | `Reconcile`, `RunOnce`, `PollNow`, `runAccount`, `nextImmediate`, `finishAccount` |
| runtime (`app/runtime.go`) | the tick goroutine, one goroutine per notification of the handlers, the root context | `Start`, `safeTick`, `JobCreated`, `JobsChanged`, `AccountActivated`, `PrepareAccount`, `poll`, `healStartURL`, `Close` |
| account pause state | `users.pause_reason`, `pause_until`, `backoff_attempt`, `last_pause_notified_reason`; `credentials` | `handleOutcome`, `NextBackoff`, `dispatchPause`, `markNeeds*`, the `/credenciales` modals, `adminBan`, `adminUnban` |
| vacancy announcements | `jobs.last_notified_state`, `last_notified_cupos`; the `notification_delivery_progress` rows | `dispatchVacancy`, `outboundNotifier.Notify`, `MarkNotificationFragmentDelivered`, `CommitNotificationDelivery` |
| microsoft sign-in (`internal/entra`) | `Manager.sessions`, `Manager.logins`; per `Session` the tokens, the state and the flight; one file per user | `Session`, `RenewAll`, `BeginLogin`, `Forget`; `renew`, `markDead`, `Do`, `Adopt`; `Store.Save`, `Load`, `Clear` |
| uade client (`internal/uade`) | the cookie jar of a search | `Search`, `BuildSearchForm`, `VerifyReflectedSearch`, `ParseDelta`, `ParseResults` |
| sso relink (`internal/sso`) | one scripted browser session | `Relink`: the portal's trigger, the password, the chain of interstitials, the listing |
| discord commands (`internal/discordhttp`) | `jobs`, `pending_searches`, `users`, `credentials` rows | `buscar`, `pausar`, `detener`, `reanudar`, `credenciales`, `microsoft`, the admin commands |
| gateway listeners (`internal/discordgateway`) | one goroutine pair per interaction; `Projection.guilds` and the identities | `runInteractionPipeline`, `raceForResponse`, the guild events |
| command registration (`register.go`, the `GuildsReady` listener of `main.go`) | Discord's command sets | `ConvergeCommands`, `putCommandSet` |
| dashboard (`internal/dashboard`) | the session table, the counter of failed logins | login, logout, `SnapshotSource.Build`, pause/resume/delete of a job |
| store (`internal/store`) | the schema and its version, as columns and an index | `Open` and its migrations |
| crypto, sysstats, `main` | keys; nothing; flags | start-up and support code |

They interact by direct calls (handlers call `Runtime.JobCreated` and its
siblings, which start goroutines), by callbacks (`Poll`, `Notify`, `OnDead`,
`OnLoginFinish`), and above all through rows of the database that several of them
read in one statement and write in another.

What makes it hard:

* *Interleaving*: the tick, pollers, requesters and handlers run at once;
  `Scheduler.mu` is released between `ActiveJobs` and its application, between
  `nextImmediate` and `finishAccount`, and around every poll.
* *Stale reads*: a poll reads the account and its credentials, talks to a portal
  for many seconds and writes the rows back.
* *Partial failure and crashes*: a DM, a mark and a commit are three calls; any of
  them may fail, and the process may die between two of them, or inside a migration.
* *One connection*: `store.Open` pins the pool to one connection, so that whoever
  asks for a second statement from inside a transaction, or with rows open, waits for
  itself.
* *Timeouts*: a handler outlives the deadline that has answered for it, an activation
  outlives its form, a convergence outlives the gateway session that started it.
* *Pages that are not what they seem*: a portal that answers with an error page, the
  page of another search or a cut-off text; Microsoft, with one more interstitial.
* *Ordering*: round robin over a list that `Reconcile` rewrites under the pointer,
  snapshots applied out of order, the order of a Go map in a fingerprint.
* *Liveness*: accounts share a semaphore, parked accounts must come back, waiters
  must be released, `Close` must end.

What makes each part correct:

* scheduler: one pipeline per account, an exact `inFlight` flag, an exact token
  count, no queue mark without an entry, every job gets its turn, the schedule
  converges to the table, `Close` drains;
* account pause: the record of announcements is honest and each announcement is
  made once, backoff escalates, a closed period resumes by itself, a ban and a
  password rotation survive a poll in flight;
* announcements: on record only if it went out in full, repeated only in the
  window the code admits, one route does not hold back the other, the record ends
  up following the portal;
* sessions: one renewal at a time, one notice per death, the rotated refresh token
  is never lost, callers are answered, a sign-out sticks;
* commands: the limit of searches is passed by no more than what is under way at
  once, a search is not created twice, a pending search is not lost, one response per
  interaction, and the connection is always returned;
* gateway: the projection has the bot's guilds through outages, no guild is ever
  without commands, a convergence that reports success covered the guilds it says;
* dashboard: the session table keeps its cap and the newest session, a lockout ends,
  a snapshot agrees with itself and shows the newest changes;
* store: a legacy database is converged or untouched, and opens in the end;
* uade client and relink: no vacancy and no empty result but from an answer to the
  search asked for, no rejected password and no closed period but when it is so, and
  an end to every check.

## 2. The modules

| module | what it is |
|---|---|
| `Scheduler` | the scheduler core, the tick, the requesters and the handlers that feed them |
| `PollPromise` | the abstract specification that `Scheduler` implements: leases of accounts and the polls under them |
| `AccountPause` | one account's `users` and `credentials` rows and everybody who writes them |
| `VacancyDelivery` | the announcement of one search's vacancies over one or two routes |
| `VacancyPromise` | the abstract specification that `VacancyDelivery` implements |
| `EntraSession` | one user's Microsoft session: objects, renewals, sign-ins, the token file |
| `Interaction` | the race of a handler with its deadline, and the one answer; extended by the next two |
| `Searches` | `/buscar`, the credentials form and its activation, statement by statement on one connection |
| `EntraLogin` | `Login.Begin` and the poll of a device code, pressed from several interactions |
| `StoreMigration` | `store.Open` on a legacy database, with kills and failures |
| `GatewayCommands` | guild events, the projection, and convergences of the commands |
| `DashboardSessions` | the session table and the counter of failed logins |
| `Snapshot` | `SnapshotSource.Build` between the writes of others |
| `Portal` | `Client.Search` and `sso.Relink`, page by page |
| `SearchForms` | the form that is submitted and the check of what came back |
| `CountedTexts` | three texts that are cut by counting: deltas, `$Config`, long messages |
| `Process` | the composition of the seven parts above that share no state |
| `MC*` | the small instances of each for TLC |
| `*_proofs` | the theorems of each; those about the parts of `Process` are in `Process_proofs` and, for the texts, in `ProcessTexts_proofs`, but for `EntraLogin`, which has a module of its own |

The modules compose by assumption: `PollPromise` says what the code inside a poll may
rely on, that an account is polled by nobody else meanwhile, and `Scheduler` is proved
to implement it (`PollsAsPromised`), which is why `AccountPause` and
`VacancyDelivery` have one poll frame each; `Portal` shows which answers a relink can
give (`AnswersAsAssumed` in `ChecksSafe`), which are the `Answers` that `AccountPause` takes as given.
`Searches` and `EntraLogin` EXTEND `Interaction`: their handlers are its handlers, and
`Finish` is the step at which a handler's result meets the race. `Process` INSTANCEs
the parts that share no state; as a step of one never depends on another, a behaviour
follows one of them (`part`), which is the composition without the product.

### Scheduler and PollPromise

The variables are the maps under `Scheduler.mu`, the two columns the scheduler
reads (`status`, `gate`), the semaphore count, and a program counter with locals
for the tick, for every worker slot and for every requester slot. `jobs[a]` is not
a variable of its own: it is always `byID` restricted to the account and ordered by
id (`JobsOf`), since `Reconcile` builds both from one `ORDER BY id` snapshot.

An action is one critical section of `mu` or one statement on the database.
`Reconcile` is therefore two actions (`TickRead`, `TickApply`; `ReqRead`,
`ReqApply`), `RunOnce` one per account for the gate and one for the selection,
`runAccount` one per step of its loop. `TickReconcileFails`, `StartFails`,
`AcquireCancelled`, `PollFails` and `PipelinePanics` are the other ways out.
The handlers (`Buscar`, `Pausar`, `Detener`, `Reanudar`, `Credenciales`,
`CredencialesWithPending`) change `jobs.status` and start the requester the code
starts. `gate` abstracts `pause_reason` and `pause_until` to open, timed or held;
what puts it there is the subject of `AccountPause`.

`PollPromise` knows neither goroutines, jobs nor queues: only which accounts are
leased, which of them are being polled, and whether the context is cancelled. A lease
is taken when nobody has it, a poll begins under a lease while fewer than `Limit` polls
run and before `Close`, and the lease is returned when no poll is under way.
`PollsAsPromised` maps the leases to `inFlight` and the polled accounts to those of the
workers between the query of their job and the release of the token: `TickSelect` and the
last case of `PollNow` are `Claim`, `StartPoll` is `BeginPoll`, `PollSaves` and
`PollFails` are `EndPoll`, `FinishAccount` and `PipelinePanics` are `Return`, and all
the rest stutters.

### AccountPause

`user` and `creds` are the two rows, `poll`, `heal` (one frame for the poll and one
for `PrepareAccount`) and `form` the frames of who reads and writes them; an action
is one SQL statement or one call to the portal or Discord. `NextBackoff` is an
operator with the sequence of the code. Times are minutes; only whether a
`pause_until` has passed is kept. `banned` and `told` are history. A statement inside a
relink may fail as well (`HealFails`): the error of a mark is swallowed, that of a link
which cannot be stored is the relink's.

### VacancyDelivery and VacancyPromise

A delivery is what `notificationDeliveryKey` hashes; the fingerprint, a part of it,
is what `dispatchVacancy` compares. `poll` is the frame of `dispatchVacancy` and
`Notify` together: what was found, the progress rows loaded, the next message as
route and fragment, and the routes that failed. `sent`, `lost` and `fresh` are
history. `VacancyPromise` knows only the messages that went out and the record: it
may settle an announcement when all of its messages went out. `KeepsPromise` is its
specification under the substitution of the fingerprint.

### EntraSession

`session[g]` are the `Session` objects built since the last restart, of which
`current` is the one in the manager's map: after `Forget` the map is empty while
goroutines still hold the old object. `caller` are the frames of whoever asks for a
token: the tick goroutine (`RenewAll`) and requests (`Session.Do`); `signin` are
the `Login.poll` goroutines. Tokens are the numbers of the answers that brought
them, so that equality of tokens means what it means in the code, and 0 is the
empty string. An access token is new, old (inside `RenewBefore`) or expired. An
action is one critical section of `Session.mu` or `Manager.mu`, one answer of
Microsoft, or one operation on the file, which replaces it at a stroke
(`os.Rename`) or fails. In this version of the bot `Session.Do` has no caller in
production: it is the package's interface, and only `RenewAll`, `BeginLogin`,
`Status` and `Forget` are reached from `main.go` and `microsoft.go`.

### Interaction and Searches

`pipeline[i]` is where `runInteractionPipeline` is, `dispatched[i]` where the goroutine
of the handler is, with the one place of its channel. The deadline may pass at any
time; a handler that is past it goes on, may commit, and its result stays in the
channel unread. `posts` counts what was posted to Discord.

`Searches` follows one user. `frame[h]` is a handler, of a command or of the
activation that `submitCredentials` detaches; an action is one SQL statement, one
transaction boundary or one question to UADE. `conn` is who holds the connection in a
transaction: every other statement needs `Free`. `pending` is the row of
`pending_searches` with its version, which the upsert makes later than the last even
within one millisecond (`VersionAfter`). `Abandon` is a failed statement or a context
past its deadline, wherever the handler is; `Restart` forgets the frames. What is kept
of a job is its subject, which with the guild is its identity.

### StoreMigration

`schema` is what the database file has (columns, indexes, tables), `rows` its jobs,
`draft` what an open transaction has made of them. `Open` executes one statement after
the other; `Fault` is a kill or a failed statement, which leaves what was committed;
`Again` is the next start. A database starts new, or at any of the earlier schemas
with duplicates in it. `Insert` and `Delete` are the program on an open database.

### GatewayCommands

`members`, `globalSet` and `copies` are Discord's; `session`, `loading` and `missed` are
the gateway as the listeners see it, `projected` is `Projection.guilds`, and
`convergence` the goroutines that `GuildsReady` starts, which may overlap. A call may
be rate limited up to the third time, fail, or work without the bot hearing of it.

### DashboardSessions and Snapshot

Time is the age of what is in the tables. `login` is four steps, because the session
is looked up, the limit asked, the password compared and the counter written in
critical sections of their own. `Unused` leaves out ids that anybody still holds, as
random ids never come again.

`Snapshot` has a frame per build: pauses first, the rows of jobs into memory, then one
query per job, with the writes of polls and handlers in between. `RowsGetClosed` is
about the one connection: no build has rows open when it asks for the history.

### EntraLogin

`current` and `canceler` are the fields of `Login`; `grant[g]` is a device code and the
goroutine that polls it; `presses` are the handlers inside `Begin`, whose check and
whose installation are two critical sections with the request between them.

### Portal, SearchForms, CountedTexts

`Portal` is one check as `Runtime.poll` calls it: `check` is where it is, why it
relinks and what came of it, `page` the page of Microsoft at hand, `answer` what the
search was answered with. `term` and `login` are the truth outside, which the
properties compare with what the code concludes.

An answer is a full page or a delta, of the search that was asked or of another, with or
without a table and with any rows. UADE normally answers with a delta, since the form
asks for one, and `applyDelta` lays it over the catalog page with the controls as they
were submitted: `Reflected` can refuse a delta for a checked day only, and the results
left in the page (`left`) are read with those of the delta (`Shown`). Nothing is assumed of
what UADE sends: `NoFalseEmpty` names the two kinds of answer that are taken for what they
are not, `AnotherSearch` and `LeftBehind` (section 5), and says that no other is.

`SearchForms` and `CountedTexts` are pure. `sample` is an input chosen at the start;
the properties compare `BuildSearchForm`, `VerifyReflectedSearch`, `ParseDelta`,
`extractMicrosoftConfigJSON` and `splitNotificationContent`, as operators, with what
they should give for it. Texts are sequences of the few kinds of character that the
code tells apart.

## 3. What the runs check

Every property of a passing run has a mutant in `PROJECT.json`: a plausible slip in
one mapped definition (the alternatives stand beside the definitions, as
`StillInFlight` beside `FreedInFlight`) under which TLC finds the property
violated with the same configuration. Where a run checks a conjunction of named parts
(`SlotsExact`, `OnceEach`, the properties of `Process`), the parts are stated and
commented one by one beside it.

| run | instance | shows |
|---|---|---|
| `scheduler` | two accounts, three jobs, two worker and two requester slots, one token, two commands, `Close` after at most one of them | `SlotsExact` (`OneWorkerPerAccount`, `InFlightExact`, `ConcurrencyCap`) and `QueuedIsPending` in every interleaving |
| `scheduler_live` | one account, two jobs, one worker slot, two requesters, one command and `Close`, polls may pause the account | `RoundRobin`, `AcceptedPollServed`, `EventuallyConverged`, `CloseDrains` under `FairSpec` |
| `account_pause` | all handlers, two of them in a behaviour, faults and crashes, backoff up to its second step | `TypeOK`, `RecordHonest`, `NoRepeatedAnnouncement`, `BackoffNeverShrinks` |
| `account_pause_live` | the poll alone, two period changes, five rate limits in a row (the ladder has four steps) | `AutoResume`, `PauseAnnounced`, and `BackoffNeverShrinks` beyond the last step |
| `account_pause_undone` | one handler | violated: `NothingUndone` (`BanKept`, `PasswordKept`, `VerdictKept`) |
| `vacancy_delivery` | two routes of two fragments, two listings, two details, two releases, two changes, two faults | `TypeOK`, `RoutesIndependent`, `KeepsPromise`, `RepeatedOnlyInWindow` |
| `vacancy_delivery_live` | two routes, two listings, up to two places, two releases, two changes, one fault | `RecordFollowsWorld` |
| `vacancy_delivery_once` | one row, two orders of its days, two routes, one fault | violated: `OncePerOccurrence` (`QuietWhileUnchanged`, `ToldWhenNew`) |
| `entra` | the tick, one request, one sign-in slot, two tokens besides the stored one | `SingleFlight`, `OneNoticePerDeath`, `NoSpentToken`, `EveryCallerReturns` |
| `searches` | two commands and two activations at once, two subjects, a limit of one, two versions | `TypeOK`, `OnceEach` (`AnsweredOnce`, `CreatedOnce`), `ConnectionReturned`, `LimitHolds`, `PendingHonoured` |
| `process` | each part of `Process` by itself, see the constants in `Process.cfg` | `TypeOK`; `ConvergedOrUntouched` of the store; `GatewaySafe` (`ProjectionFollows`, `NeverWithoutCommands`, `SuccessCoversReady`); `SessionsSafe` (`TableBounded`, `FailuresBounded`, `HandedOutIsThere`); `SnapshotSafe` (`AccountsAgree`, `NewestChangesShown`, `RowsGetClosed`); `CodesSafe` (`OneLiveCode`, `PendingIsLive`); `ChecksSafe` (`NoFalseEmpty`, `AnswersAsAssumed`); `TextsFaithful` (`DeltaFaithful`, `ObjectFaithful`, `SplitFaithful`); `FormsFaithful` (`SubmitsWhatWasAsked`, `AnswersToldApart`) |
| `process_live` | the store, the sessions, a sign-in and a check, under `FairSpec` | `EventuallyOpens`, `WaitsEnd` (`LockoutEnds`, `CodesEnd`), `EveryInteractionEnds`, `ChecksEnd` |

The two violated runs check a conjunction, of which each conjunct is violated by
itself under the same constants; TLC shows the one with the shortest behaviour.

### Bounds

All bounds are CONSTANTS. *Slots* (`Workers`, `Requesters`, `SignIns`, `Interactions`,
`Activations`, `Handlers`, `Builds`, `Convergences`) bound how many
goroutines of a kind exist at once; an action that needs a slot waits for one. Two
workers leave room for a wrong second worker of an account (a third slot adds no
state, since the exclusion holds); two
requesters are the least that lets a stale snapshot be applied after a newer one.
*Budgets* (`MaxCommands`, `CloseAfter`, `MaxActions`, `MaxChanges`, `MaxFaults`, `MaxTokens`,
`MaxGrants`, `MaxVersion`, `MaxPolls`, `MaxTurns`) bound how many times the environment acts: a violation found or mutated here needs
one or two such acts, and everything the program does by itself (ticks, polls,
retries, renewals that fail) is unbounded. The account of `account_pause` has no link yet
(`StoredUrls`); in the other two runs of the module it starts with every kind of link.
`MaxAttempt = 2` covers the step from one
backoff to the next, `MaxAttempt = 5` the one after the last. `MaxSessions = 1` in the
`entra` run means that after `Forget` no second object is built before a restart;
the theorems hold for any number. `MCScheduler` uses symmetry of worker and
requester slots, in a run with safety properties only; `MCSearches` of commands,
activations and subjects, none of which its invariants and its action property tell
apart.

*Limits of the code that are shortened*: the limit of ten searches to one, the cap of
1024 sessions to two, five failed logins to two, the tables' hours to ticks (`TTL`,
`LoginWindow`), fifty raw polls and ten shown to two and one (`RawLimit`,
`HistoryDisplayLimit`: what matters is that one is more than the other and that both
are passed), three tries of a call to two, 2000 runes of a message to nine to eleven. Each
is passed within its run: the mutants `OneTooMany`, `InsertEvict`, `RawNarrow` and
`ShortPrefix` are found there. `maxMicrosoftHops` is the code's four.

*Samples*: deltas of up to two nodes whose contents have bars, digits and a wide
character, cut off at every place; objects one level deep whose strings have up to two
escapes or braces; messages of up to sixty runes, which is beyond ten parts, where the
marks grow; pages of up to two rows, with every choice of controls that the filters can
tell apart. A page before a search has at most one row left over (`Leftovers`), an answer any set of
the four kinds of row.

Two slots of each kind are enough where the hazard is a race of two. A third
interaction (`searches`) or a third code (`process`) was not tried beside the others:
`process_live` has three codes, pressed one after the other.

`CHECK_DEADLOCK FALSE` is given where the budgets end the environment's moves, or, in
`Process`, where a part comes to its end (a check is done, a text has no step at all).
`Scheduler` keeps deadlock checking: its only end is `Terminated`, after `Close`,
with every goroutine gone. So does `Searches`, where there is always another command.

### Fairness

* `Scheduler`: the tick, workers and requesters are goroutines and weakly fair; so
  is the passing of a pause's time. Strong fairness of `TickApply`, `TickGateOpen`
  and `StartPoll` says that a store that fails now and then does not fail for ever,
  and that a blocked send on the semaphore gets a turn (Go's channel queues are
  FIFO). Handlers and `Close` are not fair.
* `AccountPause`: the poll, `PrepareAccount`, time, and a submitted form's commit are
  weakly fair. Nobody has to ban, submit or change the period.
* `VacancyDelivery`: polls keep coming and each call returns.
* `EntraSession`: each call of a caller under way returns, since the HTTP client has
  a 30 s timeout (`entra.go:66`). A waiter's own context need not end.
* `Interaction`: goroutines run, the 2400 ms timer fires, and the post to Discord has a
  deadline of its own. The handler in it (`Press`, in `EntraLogin`) ends because its
  requests have timeouts.
* `EntraLogin`: a code expires, and the poll that sees it gives up; what follows an
  answer of Microsoft is the goroutine's own. A poll that is still asking need not get
  an answer: nothing says that the user types the code.
* `StoreMigration`: the supervisor starts the process again and each statement is
  executed or fails; faults are bounded by `MaxFaults`.
* `DashboardSessions`: time passes. `Portal`: each request returns, by its timeout.

## 4. What is proved

TLAPS checks the following for every value of the constants that satisfies the
assumptions named in the modules (`JobsAssumption`, `RoutesAssumption`,
`CallersAssumption`, ...). They say no more than that job ids are naturals, that
sets of slots are finite and that bounds are numbers, and that the words for what is
not there (`NULL`, `"bad"`, `"global"`, nobody) are no codes, guilds or builds
(`PartsAssumption` of `Process`).

* `Scheduler_proofs`: `TypeCorrect`, `Exclusion`, `FlagExact`, `MarksPending`,
  `Capped`, `Slots` from three of them, and `Refinement` (`Spec => PollsAsPromised`), by the inductive invariant `IInv == TypeOK /\ Claims /\ Queues /\
  Tokens`. `OneWorkerPerAccount` is not inductive by itself: a `PollNow` claims an
  account when its flag is clear, so the flag must be exact, and between `TickSelect`
  and `TickSpawn` an account is claimed with no worker yet, so `Claims` speaks of
  `batch` too. `Queues` needs that a queue holds ids of its own account only, since
  `Reconcile` moves marks and entries at different times. `Tokens` counts the
  polling workers with the finite-set theorems. The refinement needs all of `Claims` and
  `Tokens`: a poll of the promise is a set of accounts, and only because no two workers
  have one account are there as many polled accounts as tokens (`PolledByTokens`, by a
  bijection), does a release end the poll of its account, and is no account polled when
  its lease is returned (`NotPolled`). `PollsAsPromised` has this proof and no run: TLC
  agrees with it on the instance of `scheduler`, but matching every step against the
  promise nearly doubles the time of the longest run.
* `AccountPause_proofs`: `Honesty`, `AnnouncedOnce`, `Escalation` and `TypeCorrect`.
  The first two are about one column: only `Mark` writes `last_pause_notified_reason`,
  so what the poll read is what is there when it announces (`Undisturbed`), whatever
  the other writers do. The escalation needs that a row still rate limited when an
  answer is saved is the row that was read: whoever else writes leaves another reason
  or none (`Ladder`). The types follow from `Narrow`, which bounds what each writer
  carries from its read to its write.
* `VacancyDelivery_proofs`: `Independence`, `Refinement` (`Spec => KeepsPromise`),
  `Window` and `TypeCorrect`.
  A progress row is of a message that went out (`Evidence`), and what lies behind the
  next message went out unless its route failed (`Behind`); so a commit finds the
  announcement complete and maps to `Settle`, a send to `Tell`, the other steps to
  `Forget` or a stutter. `Window` rests on `Recorded`: what went out has its row,
  unless the row is known to be lost or the send is the one in progress.
* `EntraSession_proofs`: `SingleFlightHolds`, `OneNoticeHolds`, `TypeCorrect`. The
  flight of an object is exactly the one caller between `renew` and its end
  (`Flights`); only an object somebody signed in to gives out tokens and can be found
  dead (`Alive`); with both, the lives of an object equal its notices, those under
  way and its being active (`Notices`), for any number of callers that find it dead
  at once and any sign-in that revives it in between.

  `NoSpentTokenHolds` stands on the same structure. Until
  Forget there is one object (`Sole`), so by `Flights` one renewal at a time has a
  token in hand; whatever Microsoft grants is new (`Numbered`), so that the token of a
  sign-in is nobody else's until it is adopted (`Untouched`); and a token in use is
  unspent but for the object whose renewal has just spent it (`Usable`). A flight
  therefore departs with an unspent token, and what it keeps is the replacement.
* `Searches_proofs`: `TypeCorrect`, `AnsweredAndCreatedOnce`, `Returned`, `PendingKept`
  and `LimitKept`, by `IInv == TypeOK /\ Frames /\ Answers /\ ConnectionReturned /\
  Versions /\ CreatedOnce`. Which handler holds the connection follows from where it is,
  so that what a transaction has looked up stays so until its commit (`CreatedOnce`).
  The row of a pending search only gets later versions, so an activation whose version is
  the row's read this very row (`Versions`). The limit needs no invariant besides: each
  command that was let through counts for one, and the step that fills a place or a
  pending row gives its own back.
* `EntraLogin_proofs`: `CodesKept`, that is `CodesSafe`, and `TypeCorrect`. `OneLiveCode`
  counts over all polls; what is inductive is that whoever is asking and not cancelled is
  the one `Login.cancel` would cancel (`OneLive`), and that a press is alone with the code
  it was given until it installs it (`Given`), so that it never cancels its own.
* `Process_proofs` and `ProcessTexts_proofs`: every invariant and action property of the
  run `process`, for the process as a whole. One part moves in a step and the others
  stay (`OnePartMoves`), so each part has an invariant over its own variables:
  * `MigrationKept`, that is `ConvergedOrUntouched`. `ConvergedOrUntouched` says nothing
    of the open transaction, where the hazard is; `Staged` says, at each statement of
    `Open`, what the draft and the file are in terms of the rows that were found: the
    file is as it was found until the commit, which puts `Deduplicated(Backfilled(found))`
    there. That these rows are the searches that were found, once each, is a matter
    of the two operators (`ConvergedRows`): a row is deleted for an older one with the
    same search, which may be deleted itself, but the oldest of them is not
    (`KeeperStays`, by the well-foundedness of the naturals). It holds because sharing a
    search is transitive, NULL included, and because no code is `"bad"`.
  * `SessionsKept`, that is `SessionsSafe`. `FailuresBounded` is inductive as it stands,
    since the sum of failures and handlers with a password in hand grows only while the
    failures are below the limit (`Admitted`, `Effective`). The cap follows from room
    being made before the insertion (`InsertTable`), as does that the new session is there.
  * `SnapshotKept`, that is `SnapshotSafe`. A job is shown as paused exactly if its account
    was when the pauses were read (`ShownAsRead`), whatever is written in between.
    `NewestChangesShown` is about the operators alone (`NewestShown`): a change within the
    window is in `RealInRaw`, which has one poll more at most, the oldest.
  * `ChecksKept`, that is `ChecksSafe`. A code is said at the end only (`PortalInv`), where
    the answer that was verified is still the one in hand; who is enrolled has a good
    password and a page that rejects one is of a bad one, which is what `AnswersAsAssumed`
    needs to be inductive over the pages of a relink. `NoFalseEmpty` is about every answer
    in `SearchAnswers`, deltas of other searches included, with its two exceptions;
    `AnswerOver` is all it needs to know of them.
  * `GuildsKept`, that is `GatewaySafe`. What a convergence has to clear covers the guilds
    that were ready when it was started, because the projection it reads had them all and
    lost only those the bot has left (`Promised`); and nothing is cleared before the global
    commands are in place (`GlobalDone`). It needs that no guild is called `"global"` and
    that a call is tried at least once (`PartsAssumption`).
  * `SignInKept`, that is `CodesSafe`: the theorem of `EntraLogin_proofs`, which is an
    instance here. The names of an instance are not those of another, so lemmas
    (`SamePress`, ...) say that they mean the same, and every step of `Process` is one of its.
  * `FormsKept`, that is `FormsFaithful`. The sample stays what it was at the start; that
    it is submitted and told apart as it should is proved of any page with any number of
    rows, options and days (`FormOfComplete`, `NameKept`, `AnswerTaken`), of which the
    samples that TLC enumerates are some.
  * `TextsKept`, that is `TextsFaithful`, in `ProcessTexts_proofs`. The three functions of
    `CountedTexts` are loops, and are written as recursive functions of the number of turns.
    The induction theorems of the library take a predicate and cannot be used, but that
    the naturals are well founded can: of the turns at which something fails there is a
    least one, before which it held (`LeastId`, `Turns`). So each function has a state after
    every turn (`ScanTurns`, `CutTurns`, `DeltaTurns`), what is said of it is kept by a turn,
    and holds after the last. What is proved in this way is more than the samples say:
    an object of any size and depth ends where it ends and nowhere before
    (`ExtractsObject`); the rounds of a message of any length settle, as long as its parts
    are numbered with up to two digits and the marks leave room for some of it (`SplitSettles`,
    of which the point is `NoFewerParts`: a longer mark makes no part longer, so more
    parts are said in every round and the length of a mark grows at most once); and nodes over
    any characters are parsed into themselves, or refused if one of them is a refusal or
    the text breaks off in it (`ParsesDelta`), with up to `MaxNodes` nodes (two), contents of up to
    three characters (lengths of one of the digits that the model has) and types and ids
    without wide characters, for which the code's index of a bar, in bytes, is one
    in characters.
  * `TypesKept`, that is `TypeOK`, from all of these.

*Only model-checked.* Liveness under fairness (`RoundRobin`, `AcceptedPollServed`,
`EventuallyConverged`, `CloseDrains`, `AutoResume`, `PauseAnnounced`, `RecordFollowsWorld`,
`EveryCallerReturns`, `EventuallyOpens`, `WaitsEnd`, `EveryInteractionEnds`, `ChecksEnd`),
which is beyond TLAPS: it needs `ENABLED`, and induction over a measure.

## 5. Where code and documents disagree

Kept as runs, each with TLC's shortest behaviour. `NothingUndone` says that a poll
undoes nothing that others, or it itself, have written; three places undo something:

* `BanKept`: a poll in flight when `adminBan` commits saves the reason it computed from
  its outcome (`scheduler.go:436`), or the one that `markNeedsCredentials` sets in a row
  read before (`runtime.go:746`), and lifts the ban.
* `PasswordKept`: `persistStartURL` writes back the password read before the relink
  (`runtime.go:709`).
* `VerdictKept`: `resolveStaleOutcome` turns rejected credentials into
  `stale_start_url` (`runtime.go:652`), which overwrites `needs_credentials`, the effect
  that `runtime.go:577-580` says is avoided.

`OncePerOccurrence` says that a listing is announced once each time it is there; two
places break it:

* `QuietWhileUnchanged`: the days of a row are collected in map order
  (`parse.go:33`), so an unchanged listing gets another fingerprint.
* `ToldWhenNew`: progress rows of an unfinished announcement survive the
  disappearance of the vacancies (`scheduler.go:612`) and silence the same listing
  when it is back.

Met while modelling, and described here only:

* `scheduler.go:338`: the lock is released between an empty `nextImmediate` and
  `finishAccount`. A `PollNow` in between is queued behind a worker that has decided to
  stop, although the comment at line 410 says that "normal completion has already
  drained FIFO". It is served at the account's next poll, hence `AcceptedPollServed`.
* `scheduler.go:206`: a dropped job loses its mark but not its queue entry; if it is
  back before the queue is drained the id is queued twice, against "duplicates are
  suppressed" (lines 291-292). The cost is one extra poll.
* `scheduler.go:178`: a snapshot of `ActiveJobs` older than the INSERT may be applied
  between `JobCreated`'s own reconcile and its `PollNow`, which then refuses the new
  job: "JobCreated owns its one immediate poll" (`runtime.go:496-498`) is lost until the
  next tick.
* `scheduler.go:511`: a rate-limited answer during a closure clears the record that
  earns the all-clear promised at `runtime.go:299` ("te aviso ahí mismo").
* `scheduler.go:455`: `search_failed` counts as success, so a transport failure during
  a closure announces that "las inscripciones de UADE volvieron a abrir"
  (`runtime.go:287`).
* `scheduler.go:434`: a poll in flight when a manual link is saved parks the account
  again and nobody reads the new link (`commands.go:489-491` says the next poll does).
* `commands.go:939-944` describes a guard on the ban that the UPDATE at line 519 (the
  manual link) does not have: submitting a link lifts a ban.
* `session.go:211`: a refresh token refused after a sign-in adopted another one marks
  the adopted session dead. The user is told that Microsoft stopped accepting a session
  that it still accepts (`entra.go:81`).
* `manager.go:133`: `Forget` cancels neither renewals nor sign-ins, although
  `microsoft.go:66` answers "Cerré tu sesión de Microsoft y borré lo que tenía guardado".
  A renewal in flight stores the token again; a sign-in that completes later is adopted
  by an object that is no longer in the map; and a look-up between the deletion in the
  map and the one of the file loads the file into a new object.
* `snapshot.go:535`: the oldest of the fifty rows that `dedupeHistory` is given is
  always kept, as if it were a change: the comment above it says that only changes are.
  `NewestChangesShown` has the exact statement. The table itself is never pruned.
* `store.go:142`: an image from before `materia_code`, put back for a while, inserts rows
  without it; the next start of the new one can find two that its backfill would make
  equal under the index that is already there, fails, and fails again at every start.
  `StoreMigration` has no such rollback, and `NotUnique` shows where it would end.
* `listeners.go:232`: a guild that is left while the gateway is down stays in the
  projection (`missed`); nothing removes what a READY no longer lists.
* `login.go:77`: a `Begin` that fails replaces the status of a code that is still being
  polled; the code works, and its success is adopted but not reported.
* `runtime.go:142`: a message that went out in part before an update, and that the new
  release words or numbers differently, is a conflict at every later poll: nothing replaces
  its progress rows, the rest is not sent on that route, and the search is not put on
  record until its vacancies change or it is deleted. `RecordFollowsWorld` excepts it
  (`Stalled`); the other route is sent all the same.
* `webforms.go:136` and `:327` match a materia by containment: in a catalog that has only a
  code containing the one asked for, that other materia is searched, although
  `webforms.go:98-100` says that the form fails closed. Hence the exception in
  `SubmitsWhatWasAsked` and `AnswersToldApart`.
* `delta.go:29` adds an index of bytes to an index of runes; the fields in question are
  ASCII in what UADE sends. A wide character in one of them shifts the cut and, near
  the end, can panic (`Readable`).
* `search.go:89-96`: a delta is laid over the controls as the bot itself submitted them
  (`applyDelta`, 134-187), so that `VerifyReflectedSearch` at 98 compares the submitted form
  with itself. A delta of another search, as `testdata/webforms/delta-mismatch.txt` is by
  its name, is taken for the answer unless it checks a day that was not asked for; and
  the tables and rows that the catalog page already had are read with it. If another
  search's rows do not suit, or only an old table is there, the check says
  `no_vacancies`, which clears the record of what was announced. Lines 50-51 say that
  "every ambiguous response fails closed as search_failed" and `outcome.go:3` that
  "callers must not treat an ambiguous response as an empty result". Without
  `AnotherSearch` and `LeftBehind` in `NoFalseEmpty` TLC finds each of them in the run
  `process`.
* `search.go`: the POST maps 429 to a transient failure, the GET to `rate_limited`. Any
  failure of a relink counts as a stale link. A rejection of the password on the first
  page of Microsoft is forgotten if later pages go on, and becomes `mfa`.
* `commands.go:927`: an admin may ban the super-admin, whom lines 885 and 903 protect from
  the other admin commands. `main` ends by `log.Fatal`, so that
  its deferred `Close` is not reached, and serves HTTP before the gateway is open.
* `README.md:5` calls the dashboard read-only; it pauses, resumes and deletes jobs.

## 6. What is left out, and why

* Presentation and codecs: message wording, embeds, autocomplete, encryption,
  statistics, and HTML parsing itself. They are pure and no property is about them; what
  the parsers' results decide is in `Portal`, `SearchForms` and `CountedTexts`, and
  `Fingerprint` and the order of the days are in `VacancyDelivery`.
* `internal/crypto` and `internal/sysstats` keep no state that another part reads.
* The admin commands but for bans: single statements on rows that nothing else reads.
* `Scheduler.Add` and its mode without a store are used by tests only.
* In `EntraSession`: an unreadable token file (loaded as no session), and two
  processes on one directory. `EntraLogin` and `EntraSession` meet in `Adopt`, which
  each of them has as a step that works or fails.
* `last_notified_*` and the pause columns are checked in separate modules: no action
  of one writes the columns of the other.
* Liveness of `Scheduler` with two accounts and one token has too many states to keep
  as a run beside the others.
* Restarts in the parts of `Process` but the store: everything else there is memory,
  and a restart is its initial state.

## 7. Plan

All the modules of the plan are written: `Scheduler` with `PollPromise` first, since everything else rests
on its serialization, then `AccountPause`, `VacancyDelivery` with `VacancyPromise`,
`EntraSession`, `Interaction` with `Searches` and `EntraLogin`, and the parts of
`Process`, and the theorems of each. Every invariant and action property that a passing
run checks is proved. What the polls assume of `Scheduler` is stated by `PollPromise` and proved of
it; that the poll frames of `AccountPause` and `VacancyDelivery` are polls of the promise
is by construction, one frame each. What is left is to prove the liveness properties,
which needs other means than TLAPS has.
