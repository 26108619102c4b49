------------------------ MODULE AccountPause_proofs ------------------------
(***************************************************************************)
(* For every set of passwords and every bound: the record of what an       *)
(* account was told about (RecordHonest and NoRepeatedAnnouncement), its   *)
(* types, and the escalation of its backoff (BackoffNeverShrinks).         *)
(*                                                                         *)
(* The first argument is about one column, last_pause_notified_reason,     *)
(* which only Mark writes; everybody else writes around it. The last one   *)
(* is about a reason that only OutcomeSave writes: a row that is still     *)
(* rate limited when an answer is saved is the row that was read.          *)
(***************************************************************************)
EXTENDS AccountPause, TLAPS

\* What the argument needs of the types: the columns and the locals are there.
RowShape == [reason : Reasons, wait : Int, expired : BOOLEAN, attempt : Nat,
             last : Announced \cup {""}]
PollShape == [pc : PollPcs, code : Codes, row : RowShape, next : Reasons]
HealShape == [pc : HealPcs, creds : CredsType, row : RowShape, result : Results]

Shapes ==
    /\ user \in RowShape /\ creds \in CredsType
    /\ poll \in PollShape /\ heal \in [Callers -> HealShape] /\ form \in FormType

\* The record, and the record about to be made, are of a DM that was sent.
Honest ==
    /\ user.last \in told \cup {""}
    /\ poll.pc = "mark" /\ poll.next \in Announced => poll.next \in told

\* No statement of anybody else changes what the poll decides from.
Undisturbed ==
    /\ poll.pc = "save" => poll.row.last = user.last
    /\ poll.pc = "notify" /\ poll.next \in Announced => user.last # poll.next

IInv == Shapes /\ Honest /\ Undisturbed

-----------------------------------------------------------------------------
(* The idle frames, and the pauses that NextBackoff returns. *)

LEMMA NoRowShape == NoRow \in RowShape /\ NoRow.last = ""
BY DEF NoRow, Row, Unpaused, Pause, RowShape, Reasons, Announced

LEMMA NoCredsType == NoCreds \in CredsType
BY DEF NoCreds, CredsType, Urls

LEMMA IdlePollShape == IdlePoll \in PollShape /\ IdlePoll.pc = "idle"
BY NoRowShape DEF IdlePoll, PollShape, PollPcs, Codes, Reasons

LEMMA IdleHealShape == IdleHeal \in HealShape
BY NoRowShape, NoCredsType DEF IdleHeal, HealShape, HealPcs, Results

LEMMA NoFormShape == NoForm \in FormType
BY NoCredsType DEF NoForm, FormType, FormPcs

PauseShape == [reason : Reasons, wait : Int, attempt : Nat]

LEMMA RowOfPause ==
    ASSUME NEW pause \in PauseShape, NEW last \in Announced \cup {""}
    PROVE  Row(pause, last) \in RowShape /\ Row(pause, last).last = last
BY DEF Row, PauseShape, RowShape

LEMMA BannedShape == \A n \in Nat : Pause("banned", 0, n) \in PauseShape
BY DEF Pause, PauseShape, Reasons

LEMMA UnpausedShape == Unpaused \in PauseShape
BY DEF Unpaused, Pause, PauseShape, Reasons

LEMMA RateLimitedShape ==
    ASSUME NEW n \in Nat, n >= 1 PROVE RateLimited(n) \in PauseShape
<1>1. Len(backoffSequence) = 4
  BY DEF backoffSequence
<1>2. Rung(n) \in 1..4
  BY <1>1 DEF Rung
<1>3. backoffSequence[Rung(n)] \in Int
  BY <1>2 DEF backoffSequence
<1> QED
  BY <1>3 DEF RateLimited, Pause, PauseShape, Reasons

\* What NextBackoff returns for any row and code is a pause.
LEMMA BackoffShape ==
    ASSUME NEW row \in RowShape, NEW code
    PROVE  NextBackoff(row, code) \in PauseShape
<1>0. row.attempt \in Nat
  BY DEF RowShape
<1>1. Attempt(row) \in Nat /\ Attempt(row) >= 1
  BY <1>0 DEF Attempt
<1>2. RateLimited(Attempt(row)) \in PauseShape
  BY <1>1, RateLimitedShape
<1>3. Closed \in PauseShape
  BY DEF Closed, Pause, ClosedEnrollmentRetry, PauseShape, Reasons, Announced
<1>4. Needs("needs_credentials") \in PauseShape /\ Needs("needs_new_start_url") \in PauseShape
  BY DEF Needs, Pause, PauseShape, Reasons, Announced
<1> QED
  BY <1>2, <1>3, <1>4, UnpausedShape DEF NextBackoff, Backoff

-----------------------------------------------------------------------------

LEMMA InitHolds == Init => IInv
<1> SUFFICES ASSUME Init PROVE IInv
  OBVIOUS
<1>1. Shapes
  <2>1. creds \in CredsType
    BY StoredUrlsAssumption DEF Init, CredsType
  <2> QED
    BY <2>1, NoRowShape, IdlePollShape, IdleHealShape, NoFormShape DEF Init, Shapes
<1>2. Honest /\ Undisturbed
  BY NoRowShape, IdlePollShape DEF Init, Honest, Undisturbed
<1> QED
  BY <1>1, <1>2 DEF IInv

-----------------------------------------------------------------------------
(* One lemma for each writer. *)

\* A relink of the poll or of PrepareAccount.
LEMMA HealKeeps ==
    ASSUME IInv, NEW p \in Callers, Heal(p) PROVE IInv'
<1> USE DEF IInv, Shapes, Honest, Undisturbed
<1>0. heal[p] \in HealShape /\ heal[p].row \in RowShape /\ heal[p].creds \in CredsType
  BY DEF HealShape
<1>1. CASE Relink(p)
  <2>1. PICK result \in Results, pc \in HealPcs :
             heal' = [heal EXCEPT ![p].result = result, ![p].pc = pc]
    BY <1>1 DEF Relink, Answers, Results, HealPcs
  <2>2. heal' \in [Callers -> HealShape]
    BY <2>1, <1>0 DEF HealShape
  <2> QED
    BY <1>1, <2>2 DEF Relink, rowVars, histVars
<1>2. CASE MarkRead(p)
  <2>1. heal' \in [Callers -> HealShape]
    BY <1>2, <1>0 DEF MarkRead, HealShape, HealPcs
  <2> QED
    BY <1>2, <2>1 DEF MarkRead, rowVars, histVars
<1>3. CASE MarkSave(p)
  <2>1. MarkFor(heal[p].result) \in Reasons
    BY DEF MarkFor, Reasons, Announced
  <2>2. user' \in RowShape /\ user'.last = user.last
    BY <1>3, <1>0, <2>1 DEF MarkSave, RowShape
  <2>3. heal' \in [Callers -> HealShape]
    BY <1>3, <1>0, NoRowShape DEF MarkSave, HealShape, HealPcs
  <2>4. poll' \in PollShape /\ poll'.pc = poll.pc /\ poll'.row = poll.row /\ poll'.next = poll.next
    BY <1>3, <2>2 DEF MarkSave, PollShape, RowShape
  <2> QED
    <3>1. Shapes'
      BY <1>3, <2>2, <2>3, <2>4 DEF MarkSave
    <3>2. told' = told
      BY <1>3 DEF MarkSave, histVars
    <3>3. Honest'
      BY <2>2, <2>4, <3>2
    <3>4. Undisturbed'
      BY <2>2, <2>4
    <3> QED
      BY <3>1, <3>3, <3>4
<1>4. CASE Persist(p)
  <2>1. creds' \in CredsType
    BY <1>4, <1>0 DEF Persist, CredsType, Urls
  <2>2. heal' \in [Callers -> HealShape]
    BY <1>4, <1>0, <2>1 DEF Persist, HealShape, HealPcs
  <2> QED
    BY <1>4, <2>1, <2>2 DEF Persist, histVars
<1>5. CASE HealFails(p)
  <2>1. heal' \in [Callers -> HealShape]
    BY <1>5, <1>0, NoRowShape DEF HealFails, HealShape, HealPcs, Results
  <2> QED
    BY <1>5, <2>1 DEF HealFails, rowVars, histVars
<1> QED
  BY <1>1, <1>2, <1>3, <1>4, <1>5 DEF Heal

\* The poll up to its outcome writes nothing but its own frame.
LEMMA PollBegins ==
    ASSUME IInv, PollStart \/ PollRead \/ DecryptFails \/ SearchStale \/ SearchEnds \/ ParsingHealed \/ ResolvingHealed
    PROVE  IInv'
<1> USE DEF IInv, Shapes, Honest, Undisturbed
<1> DEFINE frame == /\ poll' \in PollShape
                    /\ poll'.pc \in {"read", "parsing", "search", "resolving", "outcome"}
                    /\ heal' \in [Callers -> HealShape]
<1>0. "poll" \in Callers /\ heal["poll"] \in HealShape /\ poll.row \in RowShape
  BY DEF HealShape, PollShape, Callers
<1>1. CASE PollStart
  <2>1. frame
    BY <1>1 DEF PollStart, PollShape, PollPcs
  <2> QED
    BY <1>1, <2>1 DEF PollStart, rowVars, histVars
<1>2. CASE PollRead
  <2>1. poll' \in PollShape /\ poll'.pc \in {"parsing", "search"}
    BY <1>2 DEF PollRead, PollShape, PollPcs
  <2>2. heal' \in [Callers -> HealShape]
    BY <1>2, <1>0 DEF PollRead, HealShape, HealPcs
  <2> QED
    BY <1>2, <2>1, <2>2 DEF PollRead, rowVars, histVars
<1>3. CASE SearchStale
  <2>1. poll' \in PollShape /\ poll'.pc = "resolving"
    BY <1>3 DEF SearchStale, PollShape, PollPcs
  <2>2. heal' \in [Callers -> HealShape]
    BY <1>3, <1>0 DEF SearchStale, HealShape, HealPcs
  <2> QED
    BY <1>3, <2>1, <2>2 DEF SearchStale, rowVars, histVars
<1>4. CASE SearchEnds
  <2>1. PICK code \in Codes : poll' = [poll EXCEPT !.pc = "outcome", !.code = code]
    BY <1>4 DEF SearchEnds, Codes
  <2>2. poll' \in PollShape /\ poll'.pc = "outcome"
    BY <2>1 DEF PollShape, PollPcs
  <2>3. heal' \in [Callers -> HealShape]
    BY <1>4, <1>0, IdleHealShape DEF SearchEnds
  <2> QED
    BY <1>4, <2>2, <2>3 DEF SearchEnds, rowVars, histVars
<1>5. CASE ParsingHealed
  <2>1. poll' \in PollShape /\ poll'.pc \in {"search", "outcome"}
    BY <1>5 DEF ParsingHealed, PollShape, PollPcs, Codes
  <2>2. heal' \in [Callers -> HealShape]
    <3>1. CASE heal["poll"].result = "ok"
      <4>1. heal' = [heal EXCEPT !["poll"].pc = "idle", !["poll"].result = ""]
        BY <1>5, <3>1 DEF ParsingHealed
      <4> QED
        BY <4>1, <1>0 DEF HealShape, HealPcs, Results
    <3>2. CASE heal["poll"].result # "ok"
      BY <1>5, <1>0, <3>2, IdleHealShape DEF ParsingHealed
    <3> QED
      BY <3>1, <3>2
  <2> QED
    BY <1>5, <2>1, <2>2 DEF ParsingHealed, rowVars, histVars
<1>6. CASE ResolvingHealed
  <2>1. poll' \in PollShape /\ poll'.pc = "outcome"
    BY <1>6 DEF ResolvingHealed, PollShape, PollPcs, Codes
  <2>2. heal' \in [Callers -> HealShape]
    BY <1>6, <1>0, IdleHealShape DEF ResolvingHealed
  <2> QED
    BY <1>6, <2>1, <2>2 DEF ResolvingHealed, rowVars, histVars
<1>7. CASE DecryptFails
  <2>1. poll' \in PollShape /\ poll'.pc = "outcome"
    BY <1>7 DEF DecryptFails, PollShape, PollPcs, Codes
  <2> QED
    BY <1>7, <2>1 DEF DecryptFails, rowVars, histVars
<1> QED
  BY <1>1, <1>2, <1>3, <1>4, <1>5, <1>6, <1>7

\* handleOutcome and dispatchPause: what is announced is not on record, and what
\* is put on record was announced.
LEMMA PollConcludes ==
    ASSUME IInv, OutcomeRead \/ OutcomeSave \/ Notify \/ NotifyFails \/ Mark \/ MarkFails \/ PollFails
    PROVE  IInv'
<1> USE DEF IInv, Shapes, Honest, Undisturbed
<1>0. poll.row \in RowShape /\ poll.next \in Reasons /\ user.last \in Announced \cup {""}
  BY DEF PollShape, RowShape
<1>1. CASE OutcomeRead
  <2>1. poll' \in PollShape /\ poll'.pc = "save" /\ poll'.row = user
    BY <1>1 DEF OutcomeRead, PollShape, PollPcs
  <2> QED
    BY <1>1, <2>1 DEF OutcomeRead, rowVars, histVars
<1>2. CASE OutcomeSave
  <2> DEFINE next == NextBackoff(poll.row, poll.code)
             pc == Dispatch(next.reason, poll.row.last)
  <2>1. next \in PauseShape /\ next.reason \in Reasons
    BY <1>0, BackoffShape DEF PauseShape
  <2>2. user' = Row(next, user.last) /\ user' \in RowShape /\ user'.last = user.last
    BY <1>2, <1>0, <2>1, RowOfPause DEF OutcomeSave
  <2>3. pc \in {"notify", "mark", "idle"}
    BY DEF Dispatch
  <2>4. CASE pc = "idle"
    BY <1>2, <2>2, <2>4, IdlePollShape DEF OutcomeSave, histVars
  <2>5. CASE pc # "idle"
    <3>1. poll' = [IdlePoll EXCEPT !.pc = pc, !.next = next.reason]
      BY <1>2, <2>5 DEF OutcomeSave
    <3>2. poll' \in PollShape /\ poll'.pc = pc /\ poll'.next = next.reason
      BY <3>1, <2>1, <2>3, IdlePollShape DEF PollShape, PollPcs
    <3>3. pc = "notify" /\ next.reason \in Announced => user.last # next.reason
      <4>1. poll.row.last = user.last
        BY <1>2 DEF OutcomeSave
      <4> QED
        BY <4>1 DEF Dispatch, Says, Announced
    <3>4. pc = "mark" => next.reason \notin Announced
      BY DEF Dispatch
    <3> QED
      BY <1>2, <2>2, <2>3, <3>2, <3>3, <3>4 DEF OutcomeSave, histVars
  <2> QED
    BY <2>4, <2>5
<1>3. CASE Notify
  <2>1. poll' \in PollShape /\ poll'.pc = "mark" /\ poll'.next = poll.next
    BY <1>3 DEF Notify, PollShape, PollPcs
  <2> QED
    <3>1. Shapes'
      BY <1>3, <2>1 DEF Notify, rowVars
    <3>2. user'.last = user.last /\ told' = told \cup {poll.next}
      BY <1>3 DEF Notify, rowVars
    <3>3. Honest' /\ Undisturbed'
      BY <2>1, <3>2
    <3> QED
      BY <3>1, <3>3
<1>4. CASE Mark
  <2>1. user' \in RowShape /\ user'.last = IF poll.next \in Announced THEN poll.next ELSE ""
    BY <1>4 DEF Mark, RowShape
  <2> QED
    <3>1. Shapes'
      BY <1>4, <2>1, IdlePollShape DEF Mark
    <3>2. poll'.pc = "idle" /\ told' = told /\ (poll.next \in Announced => poll.next \in told)
      BY <1>4, IdlePollShape DEF Mark, histVars
    <3>3. Honest' /\ Undisturbed'
      BY <2>1, <3>2
    <3> QED
      BY <3>1, <3>3
<1>5. CASE NotifyFails \/ MarkFails \/ PollFails
  BY <1>5, IdlePollShape DEF NotifyFails, MarkFails, PollFails, rowVars, histVars
<1> QED
  BY <1>1, <1>2, <1>3, <1>4, <1>5

\* The two modals and PrepareAccount keep the record.
LEMMA CredencialesKeeps ==
    ASSUME IInv, PrepRead \/ PrepDone \/ OpenModal \/ SubmitRead \/ CommitPassword \/ CommitLink
    PROVE  IInv'
<1> USE DEF IInv, Shapes, Honest, Undisturbed
<1>0. /\ "prep" \in Callers /\ heal["prep"] \in HealShape
      /\ form.creds \in CredsType /\ form.pw \in Passwords \cup {""}
      /\ user.last \in Announced \cup {""} /\ creds.pw \in Passwords \cup {""} /\ form.creds.url \in Urls
  BY DEF HealShape, Callers, FormType, RowShape, CredsType
<1>1. CASE PrepRead
  <2>1. heal' \in [Callers -> HealShape]
    BY <1>1, <1>0 DEF PrepRead, HealShape, HealPcs
  <2> QED
    BY <1>1, <2>1 DEF PrepRead, rowVars, histVars
<1>2. CASE PrepDone
  <2>1. heal' \in [Callers -> HealShape]
    BY <1>2, <1>0, IdleHealShape DEF PrepDone
  <2> QED
    BY <1>2, <2>1 DEF PrepDone, rowVars, histVars
<1>3. CASE OpenModal
  <2>1. form' \in FormType
    BY <1>3 DEF OpenModal, FormType, FormPcs
  <2> QED
    BY <1>3, <2>1 DEF OpenModal, rowVars, histVars
<1>4. CASE SubmitRead
  <2>1. form' \in FormType
    <3>1. PICK pw \in Passwords \cup {""}, pc \in FormPcs : form' = [pc |-> pc, creds |-> creds, pw |-> pw]
      BY <1>4, <1>0 DEF SubmitRead, FormPcs
    <3> QED
      BY <3>1 DEF FormType
  <2> QED
    BY <1>4, <2>1 DEF SubmitRead, rowVars, histVars
<1>5. ClearedUser \in RowShape /\ ClearedUser.last = user.last
  BY <1>0, UnpausedShape, RowOfPause DEF ClearedUser
<1>6. CASE CommitPassword
  <2>1. creds' \in CredsType
    BY <1>6, <1>0 DEF CommitPassword, CredsType
  <2>2. heal' \in [Callers -> HealShape]
    BY <1>6, <1>0 DEF CommitPassword, HealShape, HealPcs
  <2> QED
    BY <1>6, <1>5, <2>1, <2>2, NoFormShape DEF CommitPassword, histVars
<1>7. CASE CommitLink
  <2>1. creds' \in CredsType
    BY <1>7, <1>0 DEF CommitLink, CredsType, Urls
  <2> QED
    BY <1>7, <1>5, <2>1, NoFormShape DEF CommitLink, histVars
<1> QED
  BY <1>1, <1>2, <1>3, <1>4, <1>6, <1>7

\* So do the admins, the clock and a restart.
LEMMA OthersKeep ==
    ASSUME IInv, adminBan \/ adminUnban \/ Reanudar \/ PeriodChanges \/ PauseExpires \/ Crash
    PROVE  IInv'
<1> USE DEF IInv, Shapes, Honest, Undisturbed
<1>1. CASE adminBan \/ adminUnban \/ PauseExpires
  <2>1. user' \in RowShape /\ user'.last = user.last
    <3>1. CASE adminBan
      <4>1. user.attempt \in Nat /\ user.last \in Announced \cup {""}
        BY DEF RowShape
      <4> QED
        BY <3>1, <4>1, BannedShape, RowOfPause DEF adminBan
    <3>2. CASE adminUnban
      <4>1. CASE user.reason = "banned"
        BY <3>2, <4>1 DEF adminUnban, RowShape, Reasons
      <4>2. CASE user.reason # "banned"
        BY <3>2, <4>2 DEF adminUnban
      <4> QED
        BY <4>1, <4>2
    <3>3. CASE PauseExpires
      <4>1. user' = [user EXCEPT !.expired = TRUE]
        BY <3>3 DEF PauseExpires
      <4>2. user \in RowShape /\ TRUE \in BOOLEAN
        OBVIOUS
      <4> QED
        BY <4>1, <4>2, Zenon DEF RowShape
    <3> QED
      BY <1>1, <3>1, <3>2, <3>3
  <2> QED
    BY <1>1, <2>1 DEF adminBan, adminUnban, PauseExpires, histVars
<1>2. CASE Reanudar \/ PeriodChanges
  BY <1>2 DEF Reanudar, PeriodChanges, rowVars, histVars
<1>3. CASE Crash
  BY <1>3, IdlePollShape, IdleHealShape, NoFormShape DEF Crash, rowVars, histVars
<1> QED
  BY <1>1, <1>2, <1>3

LEMMA StepHolds == IInv /\ [Next]_vars => IInv'
<1> SUFFICES ASSUME IInv, [Next]_vars PROVE IInv'
  OBVIOUS
<1>1. CASE UNCHANGED vars
  BY <1>1 DEF IInv, Shapes, Honest, Undisturbed, vars, rowVars, histVars
<1>2. CASE Next
  <2>1. CASE \E p \in Callers : Heal(p)
    BY <2>1, HealKeeps
  <2> QED
    BY <1>2, <2>1, PollBegins, PollConcludes, CredencialesKeeps, OthersKeep
       DEF Next, Poll, Prepare, Callers
<1> QED
  BY <1>1, <1>2

-----------------------------------------------------------------------------
(* The theorems. *)

\* Whatever the interleaving of the statements of the poll, the relinks, the
\* modals, the admins and the crashes, the strengthening holds.
THEOREM Invariant == Spec => []IInv
BY InitHolds, StepHolds, PTL DEF Spec

\* last_pause_notified_reason never claims a DM that was not sent.
THEOREM Honesty == Spec => []RecordHonest
<1>1. IInv => RecordHonest
  BY DEF IInv, Honest, RecordHonest
<1> QED
  BY <1>1, Invariant, PTL

\* A pause that is on record as announced is not announced again.
THEOREM AnnouncedOnce == Spec => NoRepeatedAnnouncement
<1>1. IInv /\ [Next]_vars =>
        [poll.pc = "notify" /\ poll'.pc = "mark" /\ poll.next \in Announced => user.last # poll.next]_vars
  BY DEF IInv, Undisturbed
<1> QED
  BY <1>1, Invariant, PTL DEF Spec, NoRepeatedAnnouncement

-----------------------------------------------------------------------------
(* The ladder of the backoff, and the types. *)

Waits == {0, 1, 2, 5, 15, 360}

\* The columns that only grow as far as the code lets them.
Small(row) == row.wait \in Waits /\ row.attempt \in 0..MaxAttempt

\* What the types say beyond Shapes.
Narrow ==
    /\ Small(user) /\ Small(poll.row) /\ \A p \in Callers : Small(heal[p].row)
    /\ period \in {"open", "closed"} /\ requested \in BOOLEAN /\ actions \in 0..MaxActions
    /\ banned \in BOOLEAN /\ told \subseteq Announced \cup {""}

\* A rate-limited row is on the rung of its attempt. While an answer is handled it
\* is the row that was read, but for the passing of its time, and an attempt that is
\* counted has room.
Ladder ==
    /\ user.reason = "rate_limited" =>
         user.attempt >= 1 /\ user.wait = backoffSequence[Rung(user.attempt)]
    /\ poll.pc = "save" /\ user.reason = "rate_limited" =>
         /\ poll.row.reason = "rate_limited"
         /\ poll.row.attempt = user.attempt /\ poll.row.wait = user.wait
    /\ poll.pc \in {"outcome", "save"} /\ poll.code = "rate_limited" => MaxAttempt >= 1
    /\ poll.pc = "outcome" /\ poll.code = "rate_limited" /\ user.reason = "rate_limited" =>
         user.attempt < MaxAttempt
    /\ poll.pc = "save" /\ poll.code = "rate_limited" /\ poll.row.reason = "rate_limited" =>
         poll.row.attempt < MaxAttempt
    /\ poll.pc = "notify" => poll.next \in Announced \cup {""}

\* The rungs, each at least as long as those before.
LEMMA Rungs ==
    /\ \A n \in Nat : n >= 1 => Rung(n) \in 1..4 /\ backoffSequence[Rung(n)] \in {1, 2, 5, 15}
    /\ \A n \in Nat : n >= 1 => backoffSequence[Rung(n)] <= backoffSequence[Rung(n + 1)]
<1>1. Len(backoffSequence) = 4 /\ backoffSequence[1] = 1 /\ backoffSequence[2] = 2
      /\ backoffSequence[3] = 5 /\ backoffSequence[4] = 15
  BY DEF backoffSequence
<1>2. \A n \in Nat : n >= 1 => Rung(n) \in 1..4
  BY <1>1 DEF Rung
<1>3. \A n \in Nat : n >= 1 => Rung(n + 1) = Rung(n) + 1 \/ (Rung(n) = 4 /\ Rung(n + 1) = 4)
  BY <1>1 DEF Rung
<1> QED
  BY <1>1, <1>2, <1>3

\* The frames of who is idle hold a small row, which is not rate limited.
LEMMA IdleSmall == Small(NoRow) /\ NoRow.reason = "" /\ IdlePoll.row = NoRow /\ IdleHeal.row = NoRow
BY MaxAttemptAssumption DEF NoRow, Row, Unpaused, Pause, Small, Waits, IdlePoll, IdleHeal

\* A row has the columns of its pause.
LEMMA RowSmall ==
    ASSUME NEW pause, NEW last, pause.wait \in Waits, pause.attempt \in 0..MaxAttempt
    PROVE  /\ Small(Row(pause, last)) /\ Row(pause, last).reason = pause.reason
           /\ Row(pause, last).attempt = pause.attempt /\ Row(pause, last).wait = pause.wait
BY DEF Row, Small

\* What NextBackoff returns: the next rung, or a pause that is no rung.
LEMMA BackoffLadder ==
    ASSUME NEW row \in RowShape, NEW code, code = "rate_limited" => MaxAttempt >= 1,
           code = "rate_limited" /\ row.reason = "rate_limited" => row.attempt < MaxAttempt
    PROVE  /\ NextBackoff(row, code).wait \in Waits /\ NextBackoff(row, code).attempt \in 0..MaxAttempt
           /\ NextBackoff(row, code).reason = "rate_limited" =>
                /\ NextBackoff(row, code).attempt = Attempt(row) /\ Attempt(row) >= 1
                /\ NextBackoff(row, code).wait = backoffSequence[Rung(Attempt(row))]
<1>0. row.attempt \in Nat /\ Attempt(row) \in Nat /\ Attempt(row) >= 1
  <2>1. row.attempt \in Nat
    BY DEF RowShape
  <2> QED
    BY <2>1 DEF Attempt
<1>1. CASE code = "rate_limited"
  <2>1. NextBackoff(row, code) = RateLimited(Attempt(row))
    BY <1>1 DEF NextBackoff, Backoff
  <2>2. Attempt(row) <= MaxAttempt
    BY <1>0, <1>1, MaxAttemptAssumption DEF Attempt
  <2>3. backoffSequence[Rung(Attempt(row))] \in Waits
    BY <1>0, Rungs DEF Waits
  <2> QED
    BY <1>0, <2>1, <2>2, <2>3, MaxAttemptAssumption DEF RateLimited, Pause
<1>2. CASE code # "rate_limited"
  <2>1. NextBackoff(row, code) \in {Unpaused, Closed, Needs("needs_credentials"), Needs("needs_new_start_url")}
    BY <1>2 DEF NextBackoff, Backoff
  <2>2. ASSUME NEW pause \in {Unpaused, Closed, Needs("needs_credentials"), Needs("needs_new_start_url")}
        PROVE  pause.wait \in {0, 360} /\ pause.attempt = 0 /\ pause.reason # "rate_limited"
    <3>1. Unpaused.wait = 0 /\ Unpaused.attempt = 0 /\ Unpaused.reason = ""
      BY DEF Unpaused, Pause
    <3>2. Closed.wait = 360 /\ Closed.attempt = 0 /\ Closed.reason = "inscripciones_cerradas"
      BY DEF Closed, Pause, ClosedEnrollmentRetry
    <3>3. \A what : Needs(what).wait = 0 /\ Needs(what).attempt = 0 /\ Needs(what).reason = what
      BY DEF Needs, Pause
    <3>4. Needs("needs_credentials").reason # "rate_limited" /\ Needs("needs_new_start_url").reason # "rate_limited"
      BY DEF Needs, Pause
    <3>5. CASE pause \in {Unpaused, Closed}
      BY <3>1, <3>2, <3>5
    <3>6. CASE pause \in {Needs("needs_credentials"), Needs("needs_new_start_url")}
      BY <3>3, <3>4, <3>6
    <3> QED
      BY <2>2, <3>5, <3>6
  <2> QED
    BY <2>1, <2>2, MaxAttemptAssumption DEF Waits
<1> QED
  BY <1>1, <1>2

\* A step that writes no row but the frames' own.
LEMMA FramesOnly ==
    ASSUME IInv, Narrow, Ladder, user' = user, poll'.row = poll.row,
           \A p \in Callers : heal'[p].row \in {heal[p].row, user, NoRow},
           \/ poll' = poll
           \/ /\ poll'.pc \notin {"save", "notify"}
              /\ poll'.pc = "outcome" /\ poll'.code = "rate_limited" => user.attempt < MaxAttempt,
           period' \in {"open", "closed"}, requested' \in BOOLEAN, actions' \in 0..MaxActions,
           banned' = banned, told' = told
    PROVE  Narrow' /\ Ladder'
<1>1. user.attempt \in Nat /\ Small(user)
  BY DEF IInv, Shapes, RowShape, Narrow
<1>2. Narrow'
  BY IdleSmall DEF Narrow, Small
<1>3. Ladder'
  <2>1. CASE poll' = poll
    BY <2>1 DEF Ladder
  <2>2. CASE poll' # poll
    <3>1. /\ poll'.pc \notin {"save", "notify"}
          /\ poll'.pc = "outcome" /\ poll'.code = "rate_limited" => user.attempt < MaxAttempt
      BY <2>2
    <3>2. user.attempt < MaxAttempt => MaxAttempt >= 1
      BY <1>1, MaxAttemptAssumption
    <3> QED
      BY <3>1, <3>2 DEF Ladder
  <2> QED
    BY <2>1, <2>2
<1> QED
  BY <1>2, <1>3

\* A step that leaves the poll idle and the row as it is.
LEMMA PollEnds ==
    ASSUME IInv, Narrow, Ladder, poll' = IdlePoll, user' = user,
           \A p \in Callers : heal'[p].row \in {heal[p].row, NoRow},
           period' = period, requested' \in BOOLEAN, actions' = actions, banned' = banned, told' = told
    PROVE  Narrow' /\ Ladder'
BY IdleSmall, IdlePollShape DEF Narrow, Ladder, Small, IdlePoll

\* A handler that writes a row that is not rate limited.
LEMMA OtherReason ==
    ASSUME IInv, Narrow, Ladder, poll' = poll, user'.reason # "rate_limited", Small(user'),
           \A p \in Callers : heal'[p].row \in {heal[p].row, NoRow},
           period' = period, requested' = requested, actions' \in 0..MaxActions, banned' \in BOOLEAN, told' = told
    PROVE  Narrow' /\ Ladder'
BY IdleSmall DEF Narrow, Ladder, Small

\* What handlers and admins may do is bounded.
LEMMA Acts == ASSUME NEW kind, Act(kind), actions \in 0..MaxActions PROVE actions' \in 0..MaxActions
BY MaxActionsAssumption DEF Act

\* Every step keeps the ladder: only OutcomeSave makes a row rate limited.
LEMMA LadderStep == IInv /\ Narrow /\ Ladder /\ [Next]_vars => Narrow' /\ Ladder'
<1> SUFFICES ASSUME IInv, Narrow, Ladder, [Next]_vars PROVE Narrow' /\ Ladder'
  OBVIOUS
<1>0. /\ user \in RowShape /\ poll \in PollShape /\ heal \in [Callers -> HealShape]
      /\ poll.row \in RowShape /\ \A p \in Callers : heal[p] \in HealShape /\ heal[p].row \in RowShape
  BY DEF IInv, Shapes, PollShape, HealShape
<1>n. /\ Small(user) /\ Small(poll.row) /\ \A p \in Callers : Small(heal[p].row)
      /\ period \in {"open", "closed"} /\ requested \in BOOLEAN /\ actions \in 0..MaxActions
      /\ banned \in BOOLEAN /\ told \subseteq Announced \cup {""}
  BY DEF Narrow
<1>c. "poll" \in Callers /\ "prep" \in Callers
  BY DEF Callers
<1>1. CASE UNCHANGED vars
  BY <1>0, <1>n, <1>1, FramesOnly DEF vars, rowVars, histVars
<1>2. ASSUME NEW p \in Callers, Heal(p) PROVE Narrow' /\ Ladder'
  <2>1. CASE Relink(p) \/ MarkRead(p)
    <3>1. \A q \in Callers : heal'[q].row \in {heal[q].row, user}
      <4>1. CASE Relink(p)
        <5>1. PICK result, pc : heal' = [heal EXCEPT ![p].result = result, ![p].pc = pc]
          BY <4>1 DEF Relink
        <5> QED
          BY <1>0, <5>1 DEF HealShape
      <4>2. CASE MarkRead(p)
        BY <1>0, <4>2 DEF MarkRead, HealShape
      <4> QED
        BY <2>1, <4>1, <4>2
    <3> QED
      BY <1>n, <2>1, <3>1, FramesOnly DEF Relink, MarkRead, rowVars, histVars
  <2>2. CASE Persist(p)
    <3>1. \A q \in Callers : heal'[q].row = heal[q].row
      BY <1>0, <2>2 DEF Persist, HealShape
    <3> QED
      BY <1>n, <2>2, <3>1, FramesOnly DEF Persist, histVars
  <2>3. CASE MarkSave(p)
    <3>1. user' = [heal[p].row EXCEPT !.reason = MarkFor(heal[p].result), !.last = user.last]
      BY <2>3 DEF MarkSave
    <3>2. user'.reason # "rate_limited" /\ Small(user')
      BY <1>0, <1>n, <3>1 DEF MarkFor, RowShape, Small
    <3>3. \A q \in Callers : heal'[q].row \in {heal[q].row, NoRow}
      BY <1>0, <2>3 DEF MarkSave, HealShape
    <3> QED
      BY <1>n, <2>3, <3>2, <3>3, OtherReason DEF MarkSave, histVars
  <2>4. CASE HealFails(p)
    <3>1. \A q \in Callers : heal'[q].row \in {heal[q].row, NoRow}
      BY <1>0, <2>4 DEF HealFails, HealShape
    <3> QED
      BY <1>n, <2>4, <3>1, FramesOnly DEF HealFails, rowVars, histVars
  <2> QED
    BY <1>2, <2>1, <2>2, <2>3, <2>4 DEF Heal
<1>3. CASE PollStart \/ PollRead \/ DecryptFails \/ SearchStale \/ SearchEnds \/ ParsingHealed \/ ResolvingHealed
  <2>1. /\ poll'.row = poll.row /\ poll'.pc \notin {"save", "notify"}
        /\ poll'.pc = "outcome" /\ poll'.code = "rate_limited" => user.attempt < MaxAttempt
    <3>1. CASE PollStart \/ PollRead \/ DecryptFails \/ SearchStale
      BY <1>0, <3>1 DEF PollStart, PollRead, DecryptFails, SearchStale, PollShape
    <3>2. CASE SearchEnds
      <4>1. PICK code : /\ poll' = [poll EXCEPT !.pc = "outcome", !.code = code]
                        /\ code = "rate_limited" => user.attempt < MaxAttempt
        BY <3>2 DEF SearchEnds
      <4> QED
        BY <1>0, <4>1 DEF PollShape
    <3>3. CASE ParsingHealed \/ ResolvingHealed
      BY <1>0, <3>3 DEF ParsingHealed, ResolvingHealed, PollShape
    <3> QED
      BY <1>3, <3>1, <3>2, <3>3
  <2>2. \A q \in Callers : heal'[q].row \in {heal[q].row, NoRow}
    <3>1. CASE PollStart \/ DecryptFails
      BY <3>1 DEF PollStart, DecryptFails
    <3>2. CASE PollRead \/ SearchStale
      BY <1>0, <3>2 DEF PollRead, SearchStale, HealShape
    <3>3. CASE SearchEnds \/ ResolvingHealed
      BY <1>0, <3>3, IdleSmall DEF SearchEnds, ResolvingHealed, HealShape
    <3>4. CASE ParsingHealed
      <4>1. \/ heal' = [heal EXCEPT !["poll"].pc = "idle", !["poll"].result = ""]
            \/ heal' = [heal EXCEPT !["poll"] = IdleHeal]
        BY <3>4 DEF ParsingHealed
      <4>2. CASE heal' = [heal EXCEPT !["poll"].pc = "idle", !["poll"].result = ""]
        BY <1>0, <4>2 DEF HealShape
      <4>3. CASE heal' = [heal EXCEPT !["poll"] = IdleHeal]
        BY <1>0, <4>3, IdleSmall
      <4> QED
        BY <4>1, <4>2, <4>3
    <3> QED
      BY <1>3, <3>1, <3>2, <3>3, <3>4
  <2>3. user' = user /\ period' = period /\ requested' \in BOOLEAN /\ actions' = actions /\ banned' = banned /\ told' = told
    BY <1>3, <1>n DEF PollStart, PollRead, DecryptFails, SearchStale, SearchEnds, ParsingHealed, ResolvingHealed,
                     rowVars, histVars
  <2> QED
    BY <1>n, <2>1, <2>2, <2>3, FramesOnly
<1>4. CASE OutcomeRead
  <2>1. /\ poll'.row = user /\ poll'.pc = "save" /\ poll'.code = poll.code /\ poll.pc = "outcome"
        /\ UNCHANGED <<user, heal, period, requested, actions, banned, told>>
    BY <1>0, <1>4 DEF OutcomeRead, PollShape, rowVars, histVars
  <2> QED
    BY <2>1 DEF Narrow, Ladder, Small
<1>5. CASE OutcomeSave
  <2> DEFINE next == NextBackoff(poll.row, poll.code)
             pc == Dispatch(next.reason, poll.row.last)
  <2>0. poll.pc = "save" /\ user' = Row(next, user.last)
        /\ UNCHANGED <<heal, period, requested, actions, banned, told>>
    BY <1>5 DEF OutcomeSave, histVars
  <2>1. /\ next.wait \in Waits /\ next.attempt \in 0..MaxAttempt
        /\ next.reason = "rate_limited" => next.attempt >= 1 /\ next.wait = backoffSequence[Rung(next.attempt)]
    BY <1>0, <2>0, BackoffLadder DEF Ladder
  <2>2. /\ Small(user')
        /\ user'.reason = "rate_limited" => user'.attempt >= 1 /\ user'.wait = backoffSequence[Rung(user'.attempt)]
    BY <2>0, <2>1, RowSmall
  <2>3. pc \in {"notify", "mark", "idle"} /\ (pc = "notify" => next.reason \in Announced \cup {""})
    BY DEF Dispatch, Says
  <2>4. poll' = IF pc = "idle" THEN IdlePoll ELSE [IdlePoll EXCEPT !.pc = pc, !.next = next.reason]
    BY <1>5 DEF OutcomeSave
  <2> HIDE DEF next, pc
  <2>5. /\ poll'.pc \in {"notify", "mark", "idle"} /\ poll'.row = NoRow
        /\ poll'.pc = "notify" => poll'.next \in Announced \cup {""}
    BY <2>3, <2>4, IdleSmall DEF IdlePoll
  <2> QED
    BY <2>0, <2>2, <2>5, IdleSmall DEF Narrow, Ladder, Small
<1>6. CASE Notify
  <2>1. /\ poll'.row = poll.row /\ poll'.pc = "mark" /\ poll.next \in Announced \cup {""} /\ told' = told \cup {poll.next}
        /\ UNCHANGED <<user, heal, period, requested, actions, banned>>
    BY <1>0, <1>6 DEF Notify, Ladder, PollShape, rowVars
  <2> QED
    BY <2>1 DEF Narrow, Ladder, Small
<1>7. CASE NotifyFails \/ MarkFails \/ PollFails
  BY <1>n, <1>7, PollEnds DEF NotifyFails, MarkFails, PollFails, rowVars, histVars
<1>8. CASE Mark
  <2>1. /\ user'.reason = user.reason /\ user'.wait = user.wait /\ user'.attempt = user.attempt
        /\ poll' = IdlePoll /\ UNCHANGED <<heal, period, requested, actions, banned, told>>
    BY <1>0, <1>8 DEF Mark, RowShape, histVars
  <2> QED
    BY <2>1, IdleSmall DEF Narrow, Ladder, Small, IdlePoll
<1>9. CASE PrepRead \/ PrepDone \/ OpenModal \/ SubmitRead \/ Reanudar \/ PeriodChanges
  <2>1. \A q \in Callers : heal'[q].row \in {heal[q].row, NoRow}
    <3>1. CASE PrepRead
      BY <1>0, <3>1 DEF PrepRead, HealShape
    <3>2. CASE PrepDone
      BY <1>0, <3>2, IdleSmall DEF PrepDone
    <3>3. CASE OpenModal \/ SubmitRead \/ Reanudar \/ PeriodChanges
      BY <3>3 DEF OpenModal, SubmitRead, Reanudar, PeriodChanges
    <3> QED
      BY <1>9, <3>1, <3>2, <3>3
  <2>2. actions' \in 0..MaxActions
    BY <1>n, <1>9, Acts DEF PrepRead, PrepDone, OpenModal, SubmitRead, Reanudar, PeriodChanges
  <2>3. /\ UNCHANGED <<user, poll, banned, told>>
        /\ period' \in {"open", "closed"} /\ requested' \in BOOLEAN
    BY <1>n, <1>9 DEF PrepRead, PrepDone, OpenModal, SubmitRead, Reanudar, PeriodChanges, rowVars, histVars
  <2> QED
    BY <2>1, <2>2, <2>3, FramesOnly
<1>10. CASE CommitPassword \/ CommitLink
  <2>1. ClearedUser.reason # "rate_limited" /\ Small(ClearedUser)
    <3>1. Unpaused.wait \in Waits /\ Unpaused.attempt \in 0..MaxAttempt /\ Unpaused.reason = ""
      BY MaxAttemptAssumption DEF Unpaused, Pause, Waits
    <3> QED
      BY <3>1, RowSmall DEF ClearedUser
  <2>2. \A q \in Callers : heal'[q].row = heal[q].row
    <3>1. CASE CommitPassword
      BY <1>0, <3>1 DEF CommitPassword, HealShape
    <3>2. CASE CommitLink
      BY <3>2 DEF CommitLink
    <3> QED
      BY <1>10, <3>1, <3>2
  <2> QED
    BY <1>n, <1>10, <2>1, <2>2, OtherReason DEF CommitPassword, CommitLink, histVars
<1>11. CASE adminBan
  <2>1. user'.reason # "rate_limited" /\ Small(user')
    <3> DEFINE pause == Pause("banned", 0, user.attempt)
    <3>1. pause.wait \in Waits /\ pause.attempt \in 0..MaxAttempt /\ pause.reason = "banned"
      BY <1>n DEF Pause, Small, Waits
    <3>2. user' = Row(pause, user.last)
      BY <1>11 DEF adminBan
    <3> HIDE DEF pause
    <3> QED
      BY <3>1, <3>2, RowSmall
  <2> QED
    BY <1>n, <1>11, <2>1, Acts, OtherReason DEF adminBan
<1>12. CASE adminUnban
  <2>1. CASE user.reason = "banned"
    <3>1. user'.reason # "rate_limited" /\ Small(user')
      BY <1>0, <1>n, <1>12, <2>1 DEF adminUnban, RowShape, Small
    <3> QED
      BY <1>n, <1>12, <3>1, Acts, OtherReason DEF adminUnban
  <2>2. CASE user.reason # "banned"
    <3>1. /\ UNCHANGED <<user, poll, heal, period, requested, told>> /\ banned' \in BOOLEAN /\ actions' \in 0..MaxActions
      BY <1>n, <1>12, <2>2, Acts DEF adminUnban
    <3> QED
      BY <3>1 DEF Narrow, Ladder, Small
  <2> QED
    BY <2>1, <2>2
<1>13. CASE PauseExpires
  <2>1. /\ user'.reason = user.reason /\ user'.wait = user.wait /\ user'.attempt = user.attempt
        /\ UNCHANGED <<poll, heal, period, requested, actions, banned, told>>
    BY <1>0, <1>13 DEF PauseExpires, RowShape, histVars
  <2> QED
    BY <2>1 DEF Narrow, Ladder, Small
<1>14. CASE Crash
  <2>1. \A q \in Callers : heal'[q].row = NoRow
    BY <1>14, IdleSmall DEF Crash
  <2> QED
    BY <1>n, <1>14, <2>1, PollEnds DEF Crash, rowVars, histVars
<1> QED
  BY <1>1, <1>2, <1>3, <1>4, <1>5, <1>6, <1>7, <1>8, <1>9, <1>10, <1>11, <1>12, <1>13, <1>14, <1>c
     DEF Next, Poll, Prepare

\* The initial rows are small and not rate limited.
LEMMA LadderBegins == Init => Narrow /\ Ladder
<1> SUFFICES ASSUME Init PROVE Narrow /\ Ladder
  OBVIOUS
<1>1. user = NoRow /\ poll = IdlePoll /\ \A p \in Callers : heal[p] = IdleHeal
  BY DEF Init
<1>2. poll.pc = "idle" /\ user.reason = ""
  BY <1>1, IdleSmall, IdlePollShape
<1>3. Narrow
  <2>1. Small(user) /\ Small(poll.row) /\ \A p \in Callers : Small(heal[p].row)
    BY <1>1, IdleSmall
  <2>2. period \in {"open", "closed"} /\ requested = FALSE /\ actions = 0 /\ banned = FALSE /\ told = {}
    BY DEF Init
  <2>3. 0 \in 0..MaxActions
    BY MaxActionsAssumption
  <2> QED
    BY <2>1, <2>2, <2>3 DEF Narrow
<1> QED
  BY <1>2, <1>3 DEF Ladder

\* The ladder and the narrow types hold after every step, for any ladder of attempts.
THEOREM Climbs == Spec => [](Narrow /\ Ladder)
BY LadderBegins, LadderStep, Invariant, PTL DEF Spec

\* The rows hold only reasons, waits and attempts that the rest of the bot knows.
THEOREM TypeCorrect == Spec => []TypeOK
<1>1. ASSUME NEW row \in RowShape, Small(row) PROVE row \in RowType
  BY <1>1 DEF RowShape, RowType, Small, Waits
<1>2. IInv /\ Narrow => TypeOK
  <2> SUFFICES ASSUME IInv, Narrow PROVE TypeOK
    OBVIOUS
  <2>1. user \in RowType
    BY <1>1 DEF IInv, Shapes, Narrow
  <2>2. poll \in PollType
    <3>1. poll \in PollShape /\ poll.row \in RowShape /\ Small(poll.row)
      BY DEF IInv, Shapes, Narrow, PollShape
    <3>2. poll.row \in RowType
      BY <1>1, <3>1
    <3> QED
      BY <3>1, <3>2 DEF PollShape, PollType
  <2>3. heal \in [Callers -> HealType]
    <3>1. ASSUME NEW p \in Callers PROVE heal[p] \in HealType
      <4>1. heal[p] \in HealShape /\ heal[p].row \in RowShape /\ Small(heal[p].row)
        BY DEF IInv, Shapes, Narrow, HealShape
      <4>2. heal[p].row \in RowType
        BY <1>1, <4>1
      <4> QED
        BY <4>1, <4>2 DEF HealShape, HealType
    <3> QED
      BY <3>1 DEF IInv, Shapes
  <2> QED
    BY <2>1, <2>2, <2>3 DEF IInv, Shapes, Narrow, TypeOK
<1> QED
  BY <1>2, Climbs, Invariant, PTL

\* While an account stays rate limited no step shortens its pause, and each
\* rate-limited answer climbs: whatever the other writers did between the read of
\* the row and its save, a row that is still rate limited is the row that was read.
THEOREM Escalation == Spec => BackoffNeverShrinks
<1> DEFINE Limited == user.reason = "rate_limited" /\ user'.reason = "rate_limited"
           Grows == /\ user'.wait >= user.wait /\ user'.attempt >= user.attempt
                    /\ poll.pc = "save" /\ poll'.pc # "save" => user'.attempt > user.attempt
<1>1. IInv /\ Narrow /\ Ladder /\ [Next]_vars => [Limited => Grows]_user
  <2> SUFFICES ASSUME IInv, Narrow, Ladder, [Next]_vars, user' # user, Limited PROVE Grows
    OBVIOUS
  <2>0. /\ user \in RowShape /\ poll.row \in RowShape /\ user.wait \in Int /\ user.attempt \in Nat
        /\ user.attempt >= 1 /\ user.wait = backoffSequence[Rung(user.attempt)]
    BY DEF IInv, Shapes, RowShape, PollShape, Ladder
  <2>1. CASE OutcomeSave
    <3> DEFINE next == NextBackoff(poll.row, poll.code)
    <3>1. poll.pc = "save" /\ user' = Row(next, user.last)
      BY <2>1 DEF OutcomeSave
    <3>2. poll.row.reason = "rate_limited" /\ poll.row.attempt = user.attempt
      BY <3>1 DEF Ladder
    <3>3. /\ next.wait \in Waits /\ next.attempt \in 0..MaxAttempt
          /\ next.reason = "rate_limited" =>
               next.attempt = Attempt(poll.row) /\ next.wait = backoffSequence[Rung(Attempt(poll.row))]
      BY <2>0, <3>1, BackoffLadder DEF Ladder
    <3>4. user'.reason = next.reason /\ user'.attempt = next.attempt /\ user'.wait = next.wait
      BY <3>1, <3>3, RowSmall
    <3>5. Attempt(poll.row) = user.attempt + 1
      BY <3>2 DEF Attempt
    <3> HIDE DEF next
    <3>6. user'.attempt = user.attempt + 1 /\ user'.wait = backoffSequence[Rung(user.attempt + 1)]
      BY <3>3, <3>4, <3>5
    <3>7. backoffSequence[Rung(user.attempt)] <= backoffSequence[Rung(user.attempt + 1)]
      BY <2>0, Rungs
    <3> QED
      BY <2>0, <3>6, <3>7
  <2>2. CASE Mark \/ PauseExpires
    <3>1. user'.wait = user.wait /\ user'.attempt = user.attempt /\ (poll.pc = "save" => poll' = poll)
      BY <2>0, <2>2 DEF Mark, PauseExpires, RowShape
    <3> QED
      BY <2>0, <3>1
  <2>3. ASSUME NEW p \in Callers, MarkSave(p) PROVE FALSE
    <3>1. heal[p].row \in RowShape
      BY DEF IInv, Shapes, HealShape
    <3> QED
      BY <2>3, <3>1 DEF MarkSave, MarkFor, RowShape
  <2>4. ~CommitPassword /\ ~CommitLink /\ ~adminBan
    <3>1. ClearedUser.reason # "rate_limited"
      BY DEF ClearedUser, Row, Unpaused, Pause
    <3>2. \A n, last : Row(Pause("banned", 0, n), last).reason # "rate_limited"
      BY DEF Row, Pause
    <3> QED
      BY <3>1, <3>2 DEF CommitPassword, CommitLink, adminBan
  <2>5. ~adminUnban
    BY DEF adminUnban
  <2>6. /\ ~PollStart /\ ~PollRead /\ ~DecryptFails /\ ~SearchStale /\ ~SearchEnds /\ ~ParsingHealed /\ ~ResolvingHealed
        /\ ~OutcomeRead /\ ~Notify /\ ~NotifyFails /\ ~MarkFails /\ ~PollFails
    BY DEF PollStart, PollRead, DecryptFails, SearchStale, SearchEnds, ParsingHealed, ResolvingHealed, OutcomeRead,
           Notify, NotifyFails, MarkFails, PollFails, rowVars
  <2>7. /\ ~PrepRead /\ ~PrepDone /\ ~OpenModal /\ ~SubmitRead /\ ~Reanudar /\ ~PeriodChanges /\ ~Crash
        /\ ~UNCHANGED vars
    BY DEF PrepRead, PrepDone, OpenModal, SubmitRead, Reanudar, PeriodChanges, Crash, rowVars, vars
  <2>8. \A p \in Callers : Heal(p) => MarkSave(p)
    BY DEF Heal, Relink, MarkRead, Persist, HealFails, rowVars
  <2> QED
    BY <2>1, <2>2, <2>3, <2>4, <2>5, <2>6, <2>7, <2>8 DEF Next, Poll, Prepare, Callers
<1> QED
  BY <1>1, Climbs, Invariant, PTL DEF Spec, BackoffNeverShrinks

=============================================================================
