--------------------------- MODULE VacancyPromise ---------------------------
(***************************************************************************)
(* What the bot promises about the vacancies of one search: the search is  *)
(* put on record as announced only when every message of the announcement  *)
(* went out at least once since that same announcement was last settled.   *)
(***************************************************************************)
CONSTANTS
    Deliveries,   \* the announcements: everything notificationDeliveryKey hashes
    Slots,        \* the messages of an announcement: route and fragment
    Summary,      \* what jobs remembers of an announcement: fingerprint and cupos
    Nothing       \* jobs remembers none

VARIABLES
    sent,         \* messages that went out and are not settled
    record        \* last_notified_state and last_notified_cupos

vars == <<sent, record>>

Init == sent = {} /\ record = Nothing

\* A message may go out twice: delivery is at least once.
Tell(d, slot) == sent' = sent \cup {<<d, slot>>} /\ UNCHANGED record

Settle(d) ==
    /\ {d} \X Slots \subseteq sent
    /\ sent' = sent \ ({d} \X Slots)
    /\ record' = Summary[d]

\* The vacancies are gone, or the search is.
Forget == record' = Nothing /\ UNCHANGED sent

Next ==
    \/ \E d \in Deliveries : Settle(d) \/ \E slot \in Slots : Tell(d, slot)
    \/ Forget

Spec == Init /\ [][Next]_vars
=============================================================================
