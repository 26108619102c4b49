-------------------------- MODULE VacancyDelivery --------------------------
(***************************************************************************)
(* Announcing the vacancies of one search: Scheduler.dispatchVacancy, the  *)
(* outboundNotifier and the progress rows that make a failed announcement  *)
(* resumable.  The polls of one account are serialized                     *)
(* (Scheduler!OneWorkerPerAccount), so there is one frame.                 *)
(*                                                                         *)
(* A delivery is what notificationDeliveryKey hashes: the listed rows, the *)
(* order of their days as the parser happened to produce it, the largest   *)
(* cupos, and detail for the rest (the cupos of the smaller rows).         *)
(***************************************************************************)
EXTENDS Integers, Sequences, FiniteSets

CONSTANTS
    Listings,       \* the sets of rows UADE may publish for the search
    MaxCupos,       \* bound: the largest number of free places
    Orders,         \* the orders ParseResults may give the days of a row
    Details,        \* what the delivery key has and the fingerprint has not
    Routes,         \* the routes in order: <<"dm">> or <<"dm", "channel">>
    Fragments,      \* fragments of the message, on each route
    Versions,       \* the texts that successive releases of the bot write
    Nothing,
    MaxChanges,     \* bound: changes of what UADE publishes
    MaxFaults       \* bound: failed calls and restarts

ASSUME RoutesAssumption == Len(Routes) \in Nat \ {0}
ASSUME FragmentsAssumption == Fragments \in Nat \ {0}
ASSUME BoundsAssumption == MaxCupos \in Nat /\ MaxChanges \in Nat /\ MaxFaults \in Nat

Publications == [rows : Listings, cupos : 1..MaxCupos, detail : Details]
Deliveries == [rows : Listings, cupos : 1..MaxCupos, detail : Details, order : Orders]
Summaries == [rows : Listings, cupos : 1..MaxCupos, order : Orders]
Slots == (1..Len(Routes)) \X (1..Fragments)

ASSUME NothingAssumption == Nothing \notin Publications \cup Deliveries \cup Summaries

VARIABLES
    world,      \* what UADE publishes for the search
    exists,     \* the jobs row
    record,     \* its last_notified_state and last_notified_cupos
    progress,   \* the notification_delivery_progress rows of the job
    version,    \* the release that runs
    poll,       \* the frame: pc, the delivery found, the progress read, the next
                \* message and the routes that failed
    changes, faults,
    \* History, for the properties only.
    sent,       \* <<delivery, slot>> that went out and were not committed
    lost,       \* those of sent whose progress row was not written, or is gone
    fresh       \* those that went out since a poll last saw no vacancies

histVars == <<sent, lost, fresh>>
vars == <<world, exists, record, progress, version, poll, changes, faults, histVars>>

Idle == [pc |-> "idle", found |-> Nothing, delivered |-> {}, at |-> <<1, 1>>, failed |-> {}]

Init ==
    /\ world \in Publications \cup {Nothing}
    /\ exists = TRUE /\ record = Nothing /\ progress = {}
    /\ version \in Versions
    /\ poll = Idle
    /\ changes = 0 /\ faults = 0
    /\ sent = {} /\ lost = {} /\ fresh = {}

-----------------------------------------------------------------------------
(* Helpers. *)

Fault == faults < MaxFaults /\ faults' = faults + 1

\* vacancyFingerprint with the largest cupos.
Fingerprint(d) == [rows |-> d.rows, cupos |-> d.cupos, order |-> d.order]

\* dispatchVacancy's early return. The slip compares the places only.
AlreadyToldByCupos(d) == record # Nothing /\ d.cupos <= record.cupos
AlreadyTold(d) ==
    /\ record # Nothing
    /\ record.rows = d.rows /\ record.order = d.order
    /\ d.cupos <= record.cupos

\* The message that comes next: the following fragment, or the next route. The
\* slip runs one fragment too far.
NextRoute(at) == <<at[1] + 1, 1>>
NextMessageTooFar(at) == IF at[2] <= Fragments THEN <<at[1], at[2] + 1>> ELSE NextRoute(at)
NextMessage(at) == IF at[2] < Fragments THEN <<at[1], at[2] + 1>> ELSE NextRoute(at)

Message == <<poll.found, poll.at>>
Routing == poll.pc = "send" /\ poll.at[1] <= Len(Routes)

\* The row read for the next message, if any.
Rows == {row \in poll.delivered : row.slot = poll.at}

\* The route is given up (break). The slips: its error is dropped; the break
\* leaves both loops.
AbandonUnseen == [poll EXCEPT !.pc = "send", !.at = NextRoute(poll.at)]
AbandonAll == [poll EXCEPT !.pc = "send", !.at = <<Len(Routes) + 1, 1>>, !.failed = @ \cup {poll.at[1]}]
Abandon == [poll EXCEPT !.pc = "send", !.at = NextRoute(poll.at), !.failed = @ \cup {poll.at[1]}]

-----------------------------------------------------------------------------
(* The poll. *)

\* client.Search, when it is verified; any other outcome ends here.
Search ==
    /\ poll.pc = "idle" /\ exists
    /\ \/ world = Nothing /\ poll' = [Idle EXCEPT !.pc = "decide"]
       \/ /\ world # Nothing
          /\ \E order \in Orders :
               poll' = [Idle EXCEPT !.pc = "decide",
                                    !.found = [rows |-> world.rows, cupos |-> world.cupos,
                                               detail |-> world.detail, order |-> order]]
    /\ UNCHANGED <<world, exists, record, progress, version, changes, faults, histVars>>

\* dispatchVacancy reads the record and decides.
SeesNone ==
    /\ poll.pc = "decide" /\ poll.found = Nothing
    /\ poll' = IF record = Nothing THEN Idle ELSE [poll EXCEPT !.pc = "clear"]
    /\ fresh' = {}
    /\ UNCHANGED <<world, exists, record, progress, version, changes, faults, sent, lost>>

SeesVacancies ==
    /\ poll.pc = "decide" /\ poll.found # Nothing
    /\ poll' = IF AlreadyTold(poll.found) THEN Idle ELSE [poll EXCEPT !.pc = "load"]
    /\ UNCHANGED <<world, exists, record, progress, version, changes, faults, histVars>>

\* saveNotificationState of the empty state; the progress rows stay.
Clear ==
    /\ poll.pc = "clear"
    /\ record' = Nothing
    /\ poll' = Idle
    /\ UNCHANGED <<world, exists, progress, version, changes, faults, histVars>>

\* DeliveredNotificationFragments.
Load ==
    /\ poll.pc = "load"
    /\ poll' = [poll EXCEPT !.pc = "send", !.delivered = {row \in progress : row.delivery = poll.found}]
    /\ UNCHANGED <<world, exists, record, progress, version, changes, faults, histVars>>

\* The next message has a row of this text, or of another one.
Skip ==
    /\ Routing /\ \E row \in Rows : row.text = version
    /\ poll' = [poll EXCEPT !.at = NextMessage(poll.at)]
    /\ UNCHANGED <<world, exists, record, progress, version, changes, faults, histVars>>

Conflict ==
    /\ Routing /\ \E row \in Rows : row.text # version
    /\ poll' = Abandon
    /\ UNCHANGED <<world, exists, record, progress, version, changes, faults, histVars>>

\* SendDMCard and SendMentionCard.
Send ==
    /\ Routing /\ Rows = {}
    /\ poll' = [poll EXCEPT !.pc = "mark"]
    /\ sent' = sent \cup {Message} /\ lost' = lost \ {Message} /\ fresh' = fresh \cup {Message}
    /\ UNCHANGED <<world, exists, record, progress, version, changes, faults>>

SendFails ==
    /\ Routing /\ Rows = {}
    /\ Fault
    /\ poll' = Abandon
    /\ UNCHANGED <<world, exists, record, progress, version, changes, histVars>>

\* MarkNotificationFragmentDelivered; its row needs the jobs row.
Mark ==
    /\ poll.pc = "mark" /\ exists
    /\ LET row == [delivery |-> poll.found, slot |-> poll.at, text |-> version] IN
       /\ progress' = progress \cup {row}
       /\ poll' = [poll EXCEPT !.pc = "send", !.at = NextMessage(poll.at), !.delivered = @ \cup {row}]
    /\ UNCHANGED <<world, exists, record, version, changes, faults, histVars>>

MarkFails ==
    /\ poll.pc = "mark"
    /\ Fault \/ (~exists /\ UNCHANGED faults)
    /\ poll' = Abandon
    /\ lost' = lost \cup {Message}
    /\ UNCHANGED <<world, exists, record, progress, version, changes, sent, fresh>>

\* Notify returned its joined errors, or none and CommitNotificationDelivery runs.
Done == poll.pc = "send" /\ poll.at[1] > Len(Routes)

NotifyFailed ==
    /\ Done /\ poll.failed # {}
    /\ poll' = Idle
    /\ UNCHANGED <<world, exists, record, progress, version, changes, faults, histVars>>

OfDelivery(messages) == {m \in messages : m[1] = poll.found}

\* The rows that survive the commit. The slip deletes them for every delivery.
NoRows == {}
Unsettled == {row \in progress : row.delivery # poll.found}

Commit ==
    /\ Done /\ poll.failed = {} /\ exists
    /\ record' = Fingerprint(poll.found)
    /\ progress' = Unsettled
    /\ poll' = Idle
    /\ sent' = sent \ OfDelivery(sent) /\ lost' = lost \ OfDelivery(lost)
    /\ UNCHANGED <<world, exists, version, changes, faults, fresh>>

\* The update found no jobs row.
CommitFails ==
    /\ Done /\ poll.failed = {} /\ ~exists
    /\ poll' = Idle
    /\ UNCHANGED <<world, exists, record, progress, version, changes, faults, histVars>>

\* A read or a write of the database fails and the pipeline returns the error.
StoreFails ==
    /\ poll.pc \in {"decide", "clear", "load"} \/ (Done /\ poll.failed = {})
    /\ Fault
    /\ poll' = Idle
    /\ UNCHANGED <<world, exists, record, progress, version, changes, histVars>>

Poll ==
    \/ Search \/ SeesNone \/ SeesVacancies \/ Clear \/ Load
    \/ Skip \/ Conflict \/ Send \/ SendFails \/ Mark \/ MarkFails
    \/ NotifyFailed \/ Commit \/ CommitFails \/ StoreFails

-----------------------------------------------------------------------------
(* UADE, the user, the operator. *)

WorldChanges ==
    /\ changes < MaxChanges /\ changes' = changes + 1
    /\ world' \in (Publications \cup {Nothing}) \ {world}
    /\ UNCHANGED <<exists, record, progress, version, poll, faults, histVars>>

\* /detener, whose DELETE cascades to the progress rows.
Detener ==
    /\ exists
    /\ exists' = FALSE /\ record' = Nothing /\ progress' = {} /\ lost' = sent
    /\ UNCHANGED <<world, version, poll, changes, faults, sent, fresh>>

\* The process dies anywhere, and the same or another release starts.
Restart ==
    /\ Fault
    /\ version' \in Versions
    /\ poll' = Idle
    /\ lost' = IF poll.pc = "mark" THEN lost \cup {Message} ELSE lost
    /\ UNCHANGED <<world, exists, record, progress, changes, sent, fresh>>

Next == Poll \/ WorldChanges \/ Detener \/ Restart

Spec == Init /\ [][Next]_vars

\* Polls keep coming and each of their calls returns.
FairSpec == Spec /\ WF_vars(Poll)

-----------------------------------------------------------------------------
(* Properties. *)

ProgressRows == [delivery : Deliveries, slot : Slots, text : Versions]
Messages == Deliveries \X Slots
PollType ==
    [pc : {"idle", "decide", "clear", "load", "send", "mark"}, found : Deliveries \cup {Nothing},
     delivered : SUBSET ProgressRows, at : (1..Len(Routes) + 1) \X (1..Fragments),
     failed : SUBSET (1..Len(Routes))]

\* Every variable stays in its type.
TypeOK ==
    /\ world \in Publications \cup {Nothing}
    /\ exists \in BOOLEAN /\ record \in Summaries \cup {Nothing}
    /\ progress \subseteq ProgressRows /\ version \in Versions
    /\ poll \in PollType
    /\ changes \in 0..MaxChanges /\ faults \in 0..MaxFaults
    /\ sent \subseteq Messages /\ lost \subseteq sent /\ fresh \subseteq Messages

\* Through failures, conflicts, restarts and releases, the record says announced
\* only when every message of the announcement went out.
Promise == INSTANCE VacancyPromise WITH Summary <- [d \in Deliveries |-> Fingerprint(d)]
KeepsPromise == Promise!Spec

Sending == poll.pc = "send" /\ poll'.pc = "mark"

\* A message is repeated within an announcement only through the window the code
\* admits (or to a search deleted under the poll's feet): "a process crash after a successful REST call but before its fragment
\* mark remains an honest at-least-once window".
RepeatedOnlyInWindow == [][Sending => Message \notin sent \ lost]_vars

\* One failing route does not hold back the other: when the routes are through,
\* each one that reported no error has sent all its messages.
RoutesIndependent ==
    Done => \A slot \in Slots : slot[1] \notin poll.failed => <<poll.found, slot>> \in sent

\* A part of the announcement went out in the words of another release: every
\* poll from then on reports the conflict, and sends no more of that route.
Stalled(p) ==
    \E row \in progress :
        /\ row.text # version
        /\ row.delivery.rows = p.rows /\ row.delivery.cupos = p.cupos /\ row.delivery.detail = p.detail

\* What UADE keeps publishing ends up on record, unless a new release stalls it,
\* and so does its disappearance, without which the same vacancy could not be
\* announced when it is back.
RecordFollowsWorld ==
    /\ \A p \in Publications :
         <>[](world = p /\ exists /\ ~Stalled(p)) => <>[](record # Nothing /\ record.rows = p.rows /\ record.cupos >= p.cupos)
    /\ <>[](world = Nothing /\ exists) => <>[](record = Nothing)

\* A search whose vacancies are announced stays quiet while UADE publishes the
\* same rows with no more places: "duplicate sent across restart".
QuietWhileUnchanged ==
    Sending => record = Nothing \/ record.rows # poll.found.rows \/ poll.found.cupos > record.cupos

\* "avisa cuando se libera una vacante": what is put on record as announced was
\* sent in full since a poll last saw that there was none.
ToldWhenNew == record' # record /\ record' # Nothing => {poll.found} \X Slots \subseteq fresh

\* Each time vacancies appear they are announced, and not again while they stay as
\* they are.
OncePerOccurrence == [][QuietWhileUnchanged /\ ToldWhenNew]_vars

=============================================================================
