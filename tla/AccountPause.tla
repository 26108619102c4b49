---------------------------- MODULE AccountPause ----------------------------
(***************************************************************************)
(* One account's pause state, and everybody who writes it:                 *)
(*                                                                         *)
(*   the poll      Runtime.poll and Scheduler.handleOutcome; polls of one  *)
(*                 account are serialized (Scheduler!OneWorkerPerAccount)  *)
(*   healStartURL  the SSO relink, run by the poll and by PrepareAccount   *)
(*   /credenciales the password modal and the manual-link modal            *)
(*   admins        ban and unban                                           *)
(*                                                                         *)
(* Each of them reads the users and credentials rows in one statement and  *)
(* writes them in another; an action is one statement or one call to the   *)
(* portal or to Discord.                                                   *)
(***************************************************************************)
EXTENDS Integers, Sequences, FiniteSets

CONSTANTS
    Passwords, GoodPasswords,   \* what users type, and what Microsoft accepts
    StoredUrls,                 \* the links an account may start with
    MaxAttempt,                 \* bound: rate-limited answers in a row
    MaxActions,                 \* bound: handlers, bans and period changes
    Handlers,                   \* bound: the kinds of handler that may run
    Faults                      \* whether DMs and statements may fail, and the bot crash

Urls == {"none", "stale", "fresh"}

ASSUME PasswordsAssumption == GoodPasswords \subseteq Passwords
ASSUME StoredUrlsAssumption == StoredUrls \subseteq Urls
ASSUME MaxAttemptAssumption == MaxAttempt \in Nat
ASSUME MaxActionsAssumption == MaxActions \in Nat
ASSUME FaultsAssumption == Faults \in BOOLEAN

VARIABLES
    user,       \* the users row: reason, wait and expired for pause_until, attempt, last
    creds,      \* the credentials row, decrypted: pw and url
    period,     \* UADE's enrollment period, "open" or "closed"
    requested,  \* a PollNow of this account is pending
    poll,       \* the poll's frame: pc, the outcome's code, the row read and the
                \* reason saved
    heal,       \* healStartURL's frame for each caller: pc, the credentials
                \* read, the row read, the portal's answer
    form,       \* the /credenciales handler: pc, credentials read, password typed
    actions,
    \* History, for the properties only.
    banned,     \* an admin banned the account and has not unbanned it
    told        \* every pause reason the user was sent a DM about

rowVars == <<user, creds>>
histVars == <<banned, told>>
vars == <<rowVars, period, requested, poll, heal, form, actions, histVars>>

Announced == {"needs_credentials", "needs_new_start_url", "inscripciones_cerradas"}
Reasons == Announced \cup {"", "rate_limited", "banned"}
Callers == {"poll", "prep"}

\* accountPaused; wait is the pause in minutes, 0 for pause_until NULL.
Paused(row) == row.reason # "" /\ (row.wait = 0 \/ ~row.expired)

Pause(reason, wait, attempt) == [reason |-> reason, wait |-> wait, attempt |-> attempt]
Unpaused == Pause("", 0, 0)
Row(pause, last) ==
    [reason |-> pause.reason, wait |-> pause.wait, expired |-> FALSE,
     attempt |-> pause.attempt, last |-> last]

\* Frames with no local in use.
NoRow == Row(Unpaused, "")
NoCreds == [pw |-> "", url |-> "none"]
IdlePoll == [pc |-> "idle", code |-> "", row |-> NoRow, next |-> ""]
IdleHeal == [pc |-> "idle", creds |-> NoCreds, row |-> NoRow, result |-> ""]
NoForm == [pc |-> "none", creds |-> NoCreds, pw |-> ""]

Init ==
    /\ user = NoRow
    /\ creds \in [pw : Passwords, url : StoredUrls]
    /\ period \in {"open", "closed"}
    /\ requested = FALSE
    /\ poll = IdlePoll
    /\ heal = [p \in Callers |-> IdleHeal]
    /\ form = NoForm
    /\ actions = 0
    /\ banned = FALSE /\ told = {}

-----------------------------------------------------------------------------
(* signalFor and NextBackoff: "found", "no_vacancies" and "search_failed"   *)
(* are all the signal "success".                                         *)

backoffSequence == <<1, 2, 5, 15>>
ClosedEnrollmentRetry == 360

\* The rung of an attempt stays at the last one; the slip starts over.
RungWrapping(attempt) == ((attempt - 1) % Len(backoffSequence)) + 1
Rung(attempt) == IF attempt <= Len(backoffSequence) THEN attempt ELSE Len(backoffSequence)

RateLimited(attempt) == Pause("rate_limited", backoffSequence[Rung(attempt)], attempt)
Closed == Pause("inscripciones_cerradas", ClosedEnrollmentRetry, 0)
Needs(what) == Pause(what, 0, 0)

Attempt(current) == IF current.reason = "rate_limited" THEN current.attempt + 1 ELSE 1

Backoff(signal, credentials, closed, limited) ==
    CASE signal = "invalid_credentials" -> credentials
      [] signal = "stale_start_url"     -> Needs("needs_new_start_url")
      [] signal = "inscripciones_cerradas" -> closed
      [] signal = "rate_limited"        -> limited
      [] OTHER                          -> Unpaused

\* Slips: the escalation restarts at every answer; a closure that is never
\* retried; the signal saved for the reason.
BackoffRestarting(current, signal) ==
    Backoff(signal, Needs("needs_credentials"), Closed, RateLimited(1))
BackoffUnretried(current, signal) ==
    Backoff(signal, Needs("needs_credentials"), [Closed EXCEPT !.wait = 0], RateLimited(Attempt(current)))
BackoffBySignal(current, signal) ==
    Backoff(signal, Needs(signal), Closed, RateLimited(Attempt(current)))
NextBackoff(current, signal) ==
    Backoff(signal, Needs("needs_credentials"), Closed, RateLimited(Attempt(current)))

-----------------------------------------------------------------------------
(* healStartURL, called by p with the credentials it read. *)

MarkFor(result) ==
    CASE result = "invalid" -> "needs_credentials"
      [] result = "mfa"     -> "needs_new_start_url"
      [] OTHER              -> ""

\* The portal answers. A closed period shows only once the login is through, and
\* Microsoft need not say why the login is not (Portal!AnswersAsAssumed).
Answers(pw) ==
    {"mfa", "other"} \cup
    IF pw \in GoodPasswords THEN {IF period = "open" THEN "ok" ELSE "closed"} ELSE {"invalid"}

Relink(p) ==
    /\ heal[p].pc = "relink"
    /\ \E result \in Answers(heal[p].creds.pw) :
         heal' = [heal EXCEPT ![p].result = result,
                              ![p].pc = IF MarkFor(result) # "" THEN "markread"
                                        ELSE IF result = "ok" THEN "persist" ELSE "done"]
    /\ UNCHANGED <<rowVars, period, requested, poll, form, actions, histVars>>

\* markNeedsCredentials and markNeedsManualStartURL: AccountState, then
\* SaveAccountState of what was read with another reason.
MarkRead(p) ==
    /\ heal[p].pc = "markread"
    /\ heal' = [heal EXCEPT ![p].row = user, ![p].pc = "marksave"]
    /\ UNCHANGED <<rowVars, period, requested, poll, form, actions, histVars>>

MarkSave(p) ==
    /\ heal[p].pc = "marksave"
    /\ user' = [heal[p].row EXCEPT !.reason = MarkFor(heal[p].result), !.last = user.last]
    /\ heal' = [heal EXCEPT ![p].row = NoRow, ![p].pc = "done"]
    /\ UNCHANGED <<creds, period, requested, poll, form, actions, histVars>>

\* persistStartURL encrypts the credentials that p read, with the new link.
Persist(p) ==
    /\ heal[p].pc = "persist"
    /\ creds' = [heal[p].creds EXCEPT !.url = "fresh"]
    /\ heal' = [heal EXCEPT ![p].creds = creds', ![p].pc = "done"]
    /\ UNCHANGED <<user, period, requested, poll, form, actions, histVars>>

\* A statement fails. A mark's own error is swallowed; a link that is not stored is
\* the error of healStartURL.
HealFails(p) ==
    /\ heal[p].pc \in {"markread", "marksave", "persist"} /\ Faults
    /\ heal' = [heal EXCEPT ![p].row = NoRow, ![p].pc = "done",
                            ![p].result = IF heal[p].pc = "persist" THEN "other" ELSE @]
    /\ UNCHANGED <<rowVars, period, requested, poll, form, actions, histVars>>

Heal(p) == Relink(p) \/ MarkRead(p) \/ MarkSave(p) \/ Persist(p) \/ HealFails(p)

-----------------------------------------------------------------------------
(* The poll. *)

\* The tick found the gate open, or PollNow, which does not look at it, was
\* asked.
PollStart ==
    /\ poll.pc = "idle"
    /\ ~Paused(user) \/ requested
    /\ requested' = FALSE
    /\ poll' = [poll EXCEPT !.pc = "read"]
    /\ UNCHANGED <<rowVars, period, heal, form, actions, histVars>>

\* The credentials are read once. parseStartURL rejects the link "none".
PollRead ==
    /\ poll.pc = "read"
    /\ poll' = [poll EXCEPT !.pc = IF creds.url = "none" THEN "parsing" ELSE "search"]
    /\ heal' = [heal EXCEPT !["poll"].creds = creds,
                            !["poll"].pc = IF creds.url = "none" THEN "relink" ELSE "idle"]
    /\ UNCHANGED <<rowVars, period, requested, form, actions, histVars>>

\* Decrypt fails, which is no error but an outcome.
DecryptFails ==
    /\ poll.pc = "read" /\ Faults
    /\ poll' = [poll EXCEPT !.pc = "outcome", !.code = "invalid_credentials"]
    /\ UNCHANGED <<rowVars, period, requested, heal, form, actions, histVars>>

\* client.Search finds no search form: a useless link and a closed period look
\* the same from here, and resolveStaleOutcome asks the portal.
Useless(url) == url # "fresh" \/ period = "closed"

SearchStale ==
    /\ poll.pc = "search" /\ Useless(heal["poll"].creds.url)
    /\ poll' = [poll EXCEPT !.pc = "resolving"]
    /\ heal' = [heal EXCEPT !["poll"].pc = "relink"]
    /\ UNCHANGED <<rowVars, period, requested, form, actions, histVars>>

\* It gets an answer, or fails on the way (transportOutcome) whatever the link is
\* worth. MaxAttempt bounds the rate limits in a row.
SearchEnds ==
    /\ poll.pc = "search"
    /\ LET read == heal["poll"].creds IN
       \E code \in {"search_failed"} \cup {c \in {"rate_limited"} : user.attempt < MaxAttempt}
                   \cup IF read.pw \notin GoodPasswords THEN {"invalid_credentials"}
                        ELSE {c \in {"found"} : ~Useless(read.url)} :
         poll' = [poll EXCEPT !.pc = "outcome", !.code = code]
    /\ heal' = [heal EXCEPT !["poll"] = IdleHeal]
    /\ UNCHANGED <<rowVars, period, requested, form, actions, histVars>>

\* The end of healStartURL in poll's own parse branch ...
ParsingHealed ==
    /\ poll.pc = "parsing" /\ heal["poll"].pc = "done"
    /\ LET result == heal["poll"].result IN
       IF result = "ok"
       THEN /\ poll' = [poll EXCEPT !.pc = "search"]
            /\ heal' = [heal EXCEPT !["poll"].pc = "idle", !["poll"].result = ""]
       ELSE /\ poll' = [poll EXCEPT !.pc = "outcome",
                                    !.code = CASE result = "invalid" -> "invalid_credentials"
                                               [] result = "closed"  -> "inscripciones_cerradas"
                                               [] OTHER              -> "stale_start_url"]
            /\ heal' = [heal EXCEPT !["poll"] = IdleHeal]
    /\ UNCHANGED <<rowVars, period, requested, form, actions, histVars>>

\* ... and in resolveStaleOutcome.
ResolvingHealed ==
    /\ poll.pc = "resolving" /\ heal["poll"].pc = "done"
    /\ poll' = [poll EXCEPT !.pc = "outcome",
                            !.code = CASE heal["poll"].result = "ok"     -> "search_failed"
                                       [] heal["poll"].result = "closed" -> "inscripciones_cerradas"
                                       [] OTHER                          -> "stale_start_url"]
    /\ heal' = [heal EXCEPT !["poll"] = IdleHeal]
    /\ UNCHANGED <<rowVars, period, requested, form, actions, histVars>>

\* handleOutcome reads the account state ...
OutcomeRead ==
    /\ poll.pc = "outcome"
    /\ poll' = [poll EXCEPT !.row = user, !.pc = "save"]
    /\ UNCHANGED <<rowVars, period, requested, heal, form, actions, histVars>>

\* ... saves the next one (never last_pause_notified_reason), and dispatchPause
\* decides from the row it read whether there is something to say. The slips:
\* it says again what it has said; it says nothing to whoever has a record.
SaysAlways(reason, last) == reason \in Announced
SaysToTheSilent(reason, last) == reason \in Announced /\ last = ""
Says(reason, last) == reason \in Announced /\ last # reason

\* What follows the save: a DM, a record to clear, or nothing.
Dispatch(reason, last) ==
    IF Says(reason, last) \/ (reason = "" /\ last = "inscripciones_cerradas") THEN "notify"
    ELSE IF reason \notin Announced /\ last # "" THEN "mark"
    ELSE "idle"

OutcomeSave ==
    /\ poll.pc = "save"
    /\ LET next == NextBackoff(poll.row, poll.code)
           pc == Dispatch(next.reason, poll.row.last)
       IN /\ user' = Row(next, user.last)
          /\ poll' = IF pc = "idle" THEN IdlePoll ELSE [IdlePoll EXCEPT !.pc = pc, !.next = next.reason]
    /\ UNCHANGED <<creds, period, requested, heal, form, actions, histVars>>

\* Notifier.Notify: account_pause, or account_resumed for the reason "".
Notify ==
    /\ poll.pc = "notify"
    /\ poll' = [poll EXCEPT !.pc = "mark"]
    /\ told' = told \cup {poll.next}
    /\ UNCHANGED <<rowVars, period, requested, heal, form, actions, banned>>

\* A failed DM ends the pipeline; the slip goes on to the mark.
NotifyFailsUnseen ==
    /\ poll.pc = "notify" /\ Faults
    /\ poll' = [poll EXCEPT !.pc = "mark"]
    /\ UNCHANGED <<rowVars, period, requested, heal, form, actions, histVars>>
NotifyFails ==
    /\ poll.pc = "notify" /\ Faults
    /\ poll' = IdlePoll
    /\ UNCHANGED <<rowVars, period, requested, heal, form, actions, histVars>>

\* MarkPauseNotification.
Mark ==
    /\ poll.pc = "mark"
    /\ user' = [user EXCEPT !.last = IF poll.next \in Announced THEN poll.next ELSE ""]
    /\ poll' = IdlePoll
    /\ UNCHANGED <<creds, period, requested, heal, form, actions, histVars>>

MarkFails ==
    /\ poll.pc = "mark" /\ Faults
    /\ poll' = IdlePoll
    /\ UNCHANGED <<rowVars, period, requested, heal, form, actions, histVars>>

\* A statement fails: Run or handleOutcome returns the error, which is logged.
PollFails ==
    /\ poll.pc \in {"read", "outcome", "save"} /\ Faults
    /\ poll' = IdlePoll
    /\ UNCHANGED <<rowVars, period, requested, heal, form, actions, histVars>>

Poll ==
    \/ PollStart \/ PollRead \/ DecryptFails \/ SearchStale \/ SearchEnds \/ ParsingHealed \/ ResolvingHealed
    \/ OutcomeRead \/ OutcomeSave \/ Notify \/ NotifyFails \/ Mark \/ MarkFails \/ PollFails
    \/ Heal("poll")

-----------------------------------------------------------------------------
(* /credenciales. *)

Act(kind) ==
    /\ kind \in Handlers /\ actions < MaxActions
    /\ actions' = actions + 1

\* credencialesModal; actorBlocked turns a banned user away.
OpenModal ==
    /\ form.pc = "none" /\ user.reason # "banned"
    /\ form' = [form EXCEPT !.pc = IF user.reason = "needs_new_start_url" THEN "link" ELSE "password"]
    /\ Act(form'.pc)
    /\ UNCHANGED <<rowVars, period, requested, poll, heal, histVars>>

\* The submission: actorBlocked again, then readCredentials. One activation at a
\* time (a bound).
SubmitRead ==
    /\ form.pc \in {"password", "link"} /\ user.reason # "banned"
    /\ heal["prep"].pc = "idle"
    /\ \E pw \in IF form.pc = "password" THEN Passwords ELSE {creds.pw} :
         form' = [pc |-> IF form.pc = "password" THEN "commit password" ELSE "commit link",
                  creds |-> creds, pw |-> pw]
    /\ UNCHANGED <<rowVars, period, requested, poll, heal, actions, histVars>>

\* pause_reason, pause_until and backoff_attempt reset, in both transactions.
ClearedUser == Row(Unpaused, user.last)

\* submitCredentials' transaction, and the start of activateCredentials.
CommitPassword ==
    /\ form.pc = "commit password"
    /\ user' = ClearedUser
    /\ creds' = [pw |-> form.pw, url |-> form.creds.url]
    /\ heal' = [heal EXCEPT !["prep"].pc = "read"]
    /\ form' = NoForm
    /\ UNCHANGED <<period, requested, poll, actions, histVars>>

\* submitManualStartURL's transaction; no PrepareAccount and no PollNow.
CommitLink ==
    /\ form.pc = "commit link"
    /\ user' = ClearedUser
    /\ creds' = [pw |-> form.pw, url |-> "fresh"]
    /\ form' = NoForm
    /\ UNCHANGED <<period, requested, poll, heal, actions, histVars>>

PrepRead ==
    /\ heal["prep"].pc = "read"
    /\ heal' = [heal EXCEPT !["prep"].creds = creds, !["prep"].pc = "relink"]
    /\ UNCHANGED <<rowVars, period, requested, poll, form, actions, histVars>>

\* activateCredentials stops on an error; otherwise AccountActivated polls.
PrepDone ==
    /\ heal["prep"].pc = "done"
    /\ requested' = (requested \/ heal["prep"].result = "ok")
    /\ heal' = [heal EXCEPT !["prep"] = IdleHeal]
    /\ UNCHANGED <<rowVars, period, poll, form, actions, histVars>>

Prepare == PrepRead \/ PrepDone \/ Heal("prep")

-----------------------------------------------------------------------------
(* Everybody else. *)

adminBan ==
    /\ Act("ban")
    /\ user' = Row(Pause("banned", 0, user.attempt), user.last)
    /\ banned' = TRUE
    /\ UNCHANGED <<creds, period, requested, poll, heal, form, told>>

adminUnban ==
    /\ Act("unban") /\ banned
    /\ user' = IF user.reason = "banned" THEN [user EXCEPT !.reason = ""] ELSE user
    /\ banned' = FALSE
    /\ UNCHANGED <<creds, period, requested, poll, heal, form, told>>

\* mutateJob's reanudar, by the user or an admin, whose OnJobCreated polls.
Reanudar ==
    /\ Act("reanudar")
    /\ requested' = TRUE
    /\ UNCHANGED <<rowVars, period, poll, heal, form, histVars>>

PeriodChanges ==
    /\ Act("period")
    /\ period' = IF period = "open" THEN "closed" ELSE "open"
    /\ UNCHANGED <<rowVars, requested, poll, heal, form, histVars>>

PauseExpires ==
    /\ user.wait # 0 /\ ~user.expired
    /\ user' = [user EXCEPT !.expired = TRUE]
    /\ UNCHANGED <<creds, period, requested, poll, heal, form, actions, histVars>>

\* The process dies and starts again: the rows stay, and a modal on a screen.
Crash ==
    /\ Faults
    /\ poll' = IdlePoll /\ heal' = [p \in Callers |-> IdleHeal] /\ requested' = FALSE
    /\ form' = IF form.pc \in {"password", "link"} THEN form ELSE NoForm
    /\ UNCHANGED <<rowVars, period, actions, histVars>>

Next ==
    \/ Poll \/ Prepare
    \/ OpenModal \/ SubmitRead \/ CommitPassword \/ CommitLink
    \/ adminBan \/ adminUnban \/ Reanudar \/ PeriodChanges \/ PauseExpires \/ Crash

Spec == Init /\ [][Next]_vars

\* The tick keeps coming, portal and Discord answer, time passes, and a handler
\* that read the database goes on to commit.
Fairness ==
    /\ WF_vars(Poll) /\ WF_vars(Prepare) /\ WF_vars(PauseExpires)
    /\ WF_vars(CommitPassword) /\ WF_vars(CommitLink)

FairSpec == Spec /\ Fairness

-----------------------------------------------------------------------------
(* Properties. *)

PollPcs == {"idle", "read", "parsing", "search", "resolving", "outcome", "save", "notify", "mark"}
HealPcs == {"idle", "read", "relink", "markread", "marksave", "persist", "done"}
FormPcs == {"none", "password", "link", "commit password", "commit link"}
Codes == {"", "found", "search_failed", "invalid_credentials", "rate_limited", "stale_start_url",
          "inscripciones_cerradas"}
Results == {"", "ok", "invalid", "mfa", "closed", "other"}

RowType == [reason : Reasons, wait : {0, 1, 2, 5, 15, 360}, expired : BOOLEAN,
            attempt : 0..MaxAttempt, last : Announced \cup {""}]
CredsType == [pw : Passwords \cup {""}, url : Urls]
PollType == [pc : PollPcs, code : Codes, row : RowType, next : Reasons]
HealType == [pc : HealPcs, creds : CredsType, row : RowType, result : Results]
FormType == [pc : FormPcs, creds : CredsType, pw : Passwords \cup {""}]

\* Every variable stays in its type: the users row holds only reasons, waits and
\* attempts that the other parts of the bot know.
TypeOK ==
    /\ user \in RowType /\ creds \in CredsType
    /\ period \in {"open", "closed"} /\ requested \in BOOLEAN
    /\ poll \in PollType /\ heal \in [Callers -> HealType] /\ form \in FormType
    /\ actions \in 0..MaxActions
    /\ banned \in BOOLEAN /\ told \subseteq Announced \cup {""}

\* The record never claims a DM that was not sent: last_pause_notified_reason
\* is what suppresses the next announcement, so a false claim is a silent pause.
RecordHonest == user.last \in told \cup {""}

\* A pause that is on record as announced is not announced again: an account
\* parked for months on inscripciones_cerradas is polled every six hours and
\* hears of it once, whatever /credenciales, bans and relinks write meanwhile.
NoRepeatedAnnouncement ==
    [][poll.pc = "notify" /\ poll'.pc = "mark" /\ poll.next \in Announced => user.last # poll.next]_vars

\* The escalation survives the handlers: while an account stays rate limited no
\* step shortens its pause, and each rate-limited answer saved climbs a step,
\* although it is computed from a row read in an earlier statement.
BackoffNeverShrinks ==
    [][user.reason = "rate_limited" /\ user'.reason = "rate_limited" =>
         /\ user'.wait >= user.wait /\ user'.attempt >= user.attempt
         /\ poll.pc = "save" /\ poll'.pc # "save" => user'.attempt > user.attempt]_user

\* The DM's "las reactivo sola": an account parked by a closed period is not
\* parked for ever once the period is open.
AutoResume ==
    (user.reason = "inscripciones_cerradas") ~> (user.reason # "inscripciones_cerradas" \/ period = "closed")

\* A pause of the kinds worth a message ends up on record as announced if it
\* lasts (dispatchPause, when no other handler writes the row).
PauseAnnounced ==
    \A r \in Announced : <>[](user.reason = r) => []<>(user.last = r)

\* adminBan pauses the account until adminUnban: "reusing the exact same column
\* ... to exclude an account from scheduler polling".
BanKept == banned => user.reason = "banned"

\* A password changes only when its owner submits one: persistStartURL
\* "re-encrypts credentials (with its freshly-healed start URL)".
PasswordKept == creds'.pw # creds.pw => form.pc = "commit password" /\ form'.pc = "none"

\* A relink that found the password rejected marks needs_credentials, and the code
\* that the poll then returns "must NOT fall through to the stale_start_url branch"
\* which "would silently overwrite the correct needs_credentials reason".
VerdictKept ==
    heal["poll"].result = "invalid" /\ poll'.pc = "outcome" => poll'.code = "invalid_credentials"

\* A poll does not undo what was written about its account since it read the rows:
\* a ban, a rotated password, the verdict of its own relink.
NothingUndone == [][BanKept' /\ PasswordKept /\ VerdictKept]_vars

=============================================================================
