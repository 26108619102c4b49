----------------------- MODULE VacancyDelivery_proofs -----------------------
(***************************************************************************)
(* VacancyDelivery keeps VacancyPromise, for any listings, orders, details *)
(* releases, routes and fragments: an announcement on record went out in   *)
(* full.  The argument is that a route leaves only messages that went out  *)
(* behind it (Behind), because a progress row is written only for such a   *)
(* message (Evidence). The other way round, a message that went out has    *)
(* its row unless the row was lost (Recorded), so that it is repeated only *)
(* in that window.                                                         *)
(***************************************************************************)
EXTENDS VacancyDelivery, TLAPS

-----------------------------------------------------------------------------
(* The strengthening. *)

\* What the argument needs of the types.
Shapes ==
    /\ world \in Publications \cup {Nothing}
    /\ poll \in PollType
    /\ progress \subseteq ProgressRows
    /\ sent \subseteq Messages
    /\ version \in Versions

\* A poll that announces has something to announce, and starts at the start.
HasFound ==
    /\ poll.pc \in {"load", "send", "mark"} => poll.found \in Deliveries
    /\ poll.pc \in {"decide", "load"} => poll.at = <<1, 1>>

\* A row, stored or read, is of a message that went out and is not settled.
Evidence ==
    /\ \A row \in progress : <<row.delivery, row.slot>> \in sent
    /\ poll.pc \in {"send", "mark"} =>
         \A row \in poll.delivered : row.delivery = poll.found /\ <<row.delivery, row.slot>> \in sent

Before(slot, at) == slot[1] < at[1] \/ (slot[1] = at[1] /\ slot[2] < at[2])

\* The messages behind the next one went out, but on the routes that failed.
Behind ==
    /\ poll.pc \in {"send", "mark"} =>
         \A slot \in Slots : Before(slot, poll.at) /\ slot[1] \notin poll.failed => <<poll.found, slot>> \in sent
    /\ poll.pc = "mark" => poll.at \in Slots /\ Message \in sent

IInv == Shapes /\ HasFound /\ Evidence /\ Behind

-----------------------------------------------------------------------------
(* Positions. *)

Positions == (1..Len(Routes) + 1) \X (1..Fragments)

LEMMA FirstPosition == <<1, 1>> \in Positions /\ \A slot \in Slots : ~Before(slot, <<1, 1>>)
BY RoutesAssumption, FragmentsAssumption DEF Positions, Slots, Before

\* While the routes are not through, the next message is one of the slots, the
\* position after it is a position, and only it comes in between.
LEMMA NextPosition ==
    ASSUME NEW at \in Positions, at[1] <= Len(Routes)
    PROVE  /\ at \in Slots
           /\ NextMessage(at) \in Positions
           /\ \A slot \in Slots : Before(slot, NextMessage(at)) => Before(slot, at) \/ slot = at
BY RoutesAssumption, FragmentsAssumption DEF Positions, Slots, Before, NextMessage, NextRoute

\* The next route is a position too, and in between are messages of this route.
LEMMA RoutePosition ==
    ASSUME NEW at \in Positions, at[1] <= Len(Routes)
    PROVE  /\ NextRoute(at) \in Positions
           /\ at[1] \in 1..Len(Routes)
           /\ \A slot \in Slots : Before(slot, NextRoute(at)) => Before(slot, at) \/ slot[1] = at[1]
BY RoutesAssumption, FragmentsAssumption DEF Positions, Slots, Before, NextRoute

\* Behind the end is everything.
LEMMA EndPosition ==
    ASSUME NEW at \in Positions, at[1] > Len(Routes)
    PROVE  \A slot \in Slots : Before(slot, at)
BY RoutesAssumption, FragmentsAssumption DEF Positions, Slots, Before

LEMMA IdleType == Idle \in PollType
BY FirstPosition DEF Idle, PollType, Positions

-----------------------------------------------------------------------------

LEMMA InitHolds == Init => IInv
<1> SUFFICES ASSUME Init PROVE IInv
  OBVIOUS
<1>1. Shapes
  BY IdleType DEF Init, Shapes
<1>2. HasFound /\ Evidence /\ Behind
  BY DEF Init, Idle, HasFound, Evidence, Behind
<1> QED
  BY <1>1, <1>2 DEF IInv

\* A step that ends the poll keeps the strengthening if every stored row still is
\* evidence.
LEMMA IdleKeeps ==
    ASSUME IInv, poll' = Idle, world' \in Publications \cup {Nothing}, version' \in Versions,
           progress' \subseteq progress, sent' \subseteq Messages,
           \A row \in progress' : <<row.delivery, row.slot>> \in sent'
    PROVE  IInv'
<1>1. Shapes'
  BY IdleType DEF IInv, Shapes
<1>2. HasFound' /\ Evidence' /\ Behind'
  BY DEF Idle, HasFound, Evidence, Behind
<1> QED
  BY <1>1, <1>2 DEF IInv

\* The steps that end a poll.
LEMMA EndsKeep ==
    ASSUME IInv, Clear \/ NotifyFailed \/ Commit \/ CommitFails \/ StoreFails \/ Restart
    PROVE  IInv'
<1>1. CASE Commit
  <2>1. /\ progress' = Unsettled /\ sent' = sent \ OfDelivery(sent) /\ poll' = Idle
        /\ world' = world /\ version' = version
    BY <1>1 DEF Commit
  <2>2. \A row \in progress' : <<row.delivery, row.slot>> \in sent'
    BY <2>1 DEF IInv, Evidence, Unsettled, OfDelivery
  <2> QED
    BY <2>1, <2>2, IdleKeeps DEF IInv, Shapes, Unsettled
<1>2. CASE Clear \/ NotifyFailed \/ CommitFails \/ StoreFails
  BY <1>2, IdleKeeps DEF Clear, NotifyFailed, CommitFails, StoreFails, IInv, Shapes, Evidence, histVars
<1>3. CASE Restart
  BY <1>3, IdleKeeps DEF Restart, IInv, Shapes, Evidence
<1> QED
  BY <1>1, <1>2, <1>3

\* The steps before the first message.
LEMMA BeginKeeps ==
    ASSUME IInv, Search \/ SeesNone \/ SeesVacancies \/ Load
    PROVE  IInv'
<1> USE DEF IInv, Shapes, HasFound, Evidence, Behind
<1>1. CASE Search
  <2>1. poll' \in PollType /\ poll'.pc = "decide" /\ poll'.at = <<1, 1>>
    <3>1. CASE world = Nothing
      BY <1>1, <3>1, IdleType DEF Search, Idle, PollType
    <3>2. CASE world # Nothing
      <4>1. PICK order \in Orders :
                 poll' = [Idle EXCEPT !.pc = "decide",
                                      !.found = [rows |-> world.rows, cupos |-> world.cupos,
                                                 detail |-> world.detail, order |-> order]]
        BY <1>1, <3>2 DEF Search
      <4>2. [rows |-> world.rows, cupos |-> world.cupos, detail |-> world.detail, order |-> order] \in Deliveries
        BY <3>2 DEF Publications, Deliveries
      <4> QED
        BY <4>1, <4>2, IdleType DEF PollType, Idle
    <3> QED
      BY <3>1, <3>2
  <2> QED
    BY <1>1, <2>1 DEF Search, histVars
<1>2. CASE SeesNone
  <2>1. poll' \in PollType /\ poll'.pc \in {"idle", "clear"}
    BY <1>2, IdleType DEF SeesNone, PollType, Idle
  <2> QED
    BY <1>2, <2>1 DEF SeesNone
<1>3. CASE SeesVacancies
  <2>1. poll' \in PollType /\ poll'.pc \in {"idle", "load"}
        /\ (poll'.pc = "load" => poll'.found \in Deliveries /\ poll'.at = <<1, 1>>)
    BY <1>3, IdleType DEF SeesVacancies, PollType, Idle
  <2> QED
    BY <1>3, <2>1 DEF SeesVacancies, histVars
<1>4. CASE Load
  <2>1. poll' = [poll EXCEPT !.pc = "send", !.delivered = {row \in progress : row.delivery = poll.found}]
    BY <1>4 DEF Load
  <2>2. poll' \in PollType /\ poll'.pc = "send" /\ poll'.found = poll.found /\ poll'.at = poll.at
        /\ poll'.delivered = {row \in progress : row.delivery = poll.found}
    BY <2>1 DEF PollType
  <2>3. poll.found \in Deliveries
    BY <1>4 DEF Load
  <2>4. poll.at = <<1, 1>>
    BY <1>4 DEF Load
  <2> QED
    BY <1>4, <2>2, <2>3, <2>4, FirstPosition DEF Load, histVars
<1> QED
  BY <1>1, <1>2, <1>3, <1>4

\* The steps that pass a message: to the next message if it has gone out, to the
\* next route if that route has failed.
LEMMA PassKeeps ==
    ASSUME IInv, poll.pc \in {"send", "mark"}, poll.at[1] <= Len(Routes),
           poll' \in PollType, poll'.pc = "send", poll'.found = poll.found,
           \/ poll'.at = NextMessage(poll.at) /\ poll'.failed = poll.failed /\ Message \in sent'
           \/ poll'.at = NextRoute(poll.at) /\ poll'.failed = poll.failed \cup {poll.at[1]},
           \A row \in poll'.delivered : row.delivery = poll.found /\ <<row.delivery, row.slot>> \in sent',
           \A row \in progress' : <<row.delivery, row.slot>> \in sent',
           progress' \subseteq ProgressRows, sent \subseteq sent', sent' \subseteq Messages,
           world' \in Publications \cup {Nothing}, version' \in Versions
    PROVE  IInv'
<1>0. poll.at \in Positions /\ poll.found \in Deliveries
  BY DEF IInv, Shapes, HasFound, PollType, Positions
<1>1. Shapes' /\ HasFound' /\ Evidence'
  BY <1>0 DEF Shapes, HasFound, Evidence
<1>2. Behind'
  <2> SUFFICES ASSUME NEW slot \in Slots, Before(slot, poll'.at), slot[1] \notin poll'.failed
               PROVE  <<poll.found, slot>> \in sent'
    BY DEF Behind
  <2>1. CASE poll'.at = NextMessage(poll.at) /\ poll'.failed = poll.failed /\ Message \in sent'
    BY <1>0, <2>1, NextPosition DEF IInv, Behind, Message
  <2>2. CASE poll'.at = NextRoute(poll.at) /\ poll'.failed = poll.failed \cup {poll.at[1]}
    BY <1>0, <2>2, RoutePosition DEF IInv, Behind
  <2> QED
    BY <2>1, <2>2
<1> QED
  BY <1>1, <1>2 DEF IInv

LEMMA AbandonShape ==
    ASSUME IInv, poll.at[1] <= Len(Routes)
    PROVE  /\ Abandon \in PollType /\ Abandon.pc = "send" /\ Abandon.found = poll.found
           /\ Abandon.at = NextRoute(poll.at) /\ Abandon.failed = poll.failed \cup {poll.at[1]}
           /\ Abandon.delivered = poll.delivered
<1>1. poll \in PollType /\ poll.at \in Positions
  BY DEF IInv, Shapes, PollType, Positions
<1>2. NextRoute(poll.at) \in Positions /\ poll.at[1] \in 1..Len(Routes)
  BY <1>1, RoutePosition
<1> QED
  BY <1>1, <1>2 DEF Abandon, PollType, Positions

\* The steps about one message.
LEMMA MessageKeeps ==
    ASSUME IInv, Skip \/ Conflict \/ Send \/ SendFails \/ Mark \/ MarkFails
    PROVE  IInv'
<1>0. /\ poll \in PollType /\ poll.at \in Positions
      /\ poll.pc \in {"send", "mark"} /\ poll.found \in Deliveries
      /\ world \in Publications \cup {Nothing} /\ version \in Versions
      /\ progress \subseteq ProgressRows /\ sent \subseteq Messages
      /\ \A row \in progress : <<row.delivery, row.slot>> \in sent
      /\ \A row \in poll.delivered : row.delivery = poll.found /\ <<row.delivery, row.slot>> \in sent
  BY DEF IInv, Shapes, HasFound, Evidence, PollType, Positions, Skip, Conflict, Send, SendFails, Mark, MarkFails, Routing
<1>1. poll.at[1] <= Len(Routes)
  BY RoutesAssumption DEF IInv, Behind, Slots, Skip, Conflict, Send, SendFails, Mark, MarkFails, Routing
<1>2. CASE Skip
  <2>1. poll' = [poll EXCEPT !.at = NextMessage(poll.at)]
    BY <1>2 DEF Skip
  <2>2. NextMessage(poll.at) \in Positions
    BY <1>0, <1>1, NextPosition
  <2>3. poll' \in PollType /\ poll'.pc = "send" /\ poll'.found = poll.found /\ poll'.failed = poll.failed
        /\ poll'.at = NextMessage(poll.at) /\ poll'.delivered = poll.delivered
    BY <1>0, <1>2, <2>1, <2>2 DEF Skip, Routing, PollType, Positions
  <2>4. Message \in sent
    BY <1>0, <1>2 DEF Skip, Rows, Message
  <2> QED
    BY <1>0, <1>1, <1>2, <2>3, <2>4, PassKeeps DEF Skip, histVars
<1>3. CASE Conflict \/ SendFails \/ MarkFails
  BY <1>0, <1>1, <1>3, AbandonShape, PassKeeps DEF Conflict, SendFails, MarkFails, histVars
<1>4. CASE Send
  <2>1. poll' = [poll EXCEPT !.pc = "mark"] /\ sent' = sent \cup {Message}
        /\ UNCHANGED <<world, progress, version>>
    BY <1>4 DEF Send
  <2>2. poll' \in PollType /\ poll'.pc = "mark" /\ poll'.found = poll.found /\ poll'.failed = poll.failed
        /\ poll'.at = poll.at /\ poll'.delivered = poll.delivered
    BY <1>0, <2>1 DEF PollType
  <2>3. poll.at \in Slots
    BY <1>0, <1>1, NextPosition
  <2>4. Message \in Messages
    BY <1>0, <2>3 DEF Message, Messages
  <2>5. Shapes' /\ HasFound' /\ Evidence'
    BY <1>0, <2>1, <2>2, <2>4 DEF Shapes, HasFound, Evidence
  <2>6. Behind'
    BY <1>0, <2>1, <2>2, <2>3 DEF IInv, Behind, Message
  <2> QED
    BY <2>5, <2>6 DEF IInv
<1>5. CASE Mark
  <2> DEFINE row == [delivery |-> poll.found, slot |-> poll.at, text |-> version]
  <2>1. /\ progress' = progress \cup {row} /\ sent' = sent /\ UNCHANGED <<world, version>>
        /\ poll' = [poll EXCEPT !.pc = "send", !.at = NextMessage(poll.at), !.delivered = poll.delivered \cup {row}]
    BY <1>5 DEF Mark, histVars
  <2>2. poll.at \in Slots /\ Message \in sent
    BY <1>5 DEF Mark, IInv, Behind
  <2>3. row \in ProgressRows /\ row.delivery = poll.found /\ <<row.delivery, row.slot>> \in sent
    BY <1>0, <2>2 DEF ProgressRows, Message
  <2>4. NextMessage(poll.at) \in Positions
    BY <1>0, <1>1, NextPosition
  <2>5. poll' \in PollType /\ poll'.pc = "send" /\ poll'.found = poll.found /\ poll'.failed = poll.failed
        /\ poll'.at = NextMessage(poll.at) /\ poll'.delivered = poll.delivered \cup {row}
    <3> HIDE DEF row
    <3> QED
      BY <1>0, <2>1, <2>3, <2>4 DEF PollType, Positions
  <2> HIDE DEF row
  <2> QED
    BY <1>0, <1>1, <2>1, <2>2, <2>3, <2>5, PassKeeps
<1> QED
  BY <1>2, <1>3, <1>4, <1>5

\* UADE and /detener; without rows there is no evidence to keep.
LEMMA OthersKeep ==
    ASSUME IInv, WorldChanges \/ Detener
    PROVE  IInv'
BY DEF IInv, Shapes, HasFound, Evidence, Behind, Message, WorldChanges, Detener, histVars

LEMMA StepHolds == IInv /\ [Next]_vars => IInv'
<1> SUFFICES ASSUME IInv, [Next]_vars PROVE IInv'
  OBVIOUS
<1>1. CASE UNCHANGED vars
  BY <1>1 DEF IInv, Shapes, HasFound, Evidence, Behind, Message, vars, histVars
<1>2. CASE Next
  BY <1>2, BeginKeeps, MessageKeeps, EndsKeep, OthersKeep DEF Next, Poll
<1> QED
  BY <1>1, <1>2

-----------------------------------------------------------------------------
(* The theorems. *)

\* The strengthening holds through failures, conflicts, restarts and releases.
THEOREM Invariant == Spec => []IInv
BY InitHolds, StepHolds, PTL DEF Spec

\* When the routes are through, each one that reported no error has sent all its
\* messages, whatever the other did.
THEOREM Independence == Spec => []RoutesIndependent
<1>1. IInv => RoutesIndependent
  <2> SUFFICES ASSUME IInv, Done PROVE \A slot \in Slots : slot[1] \notin poll.failed => <<poll.found, slot>> \in sent
    BY DEF RoutesIndependent
  <2>1. poll.at \in Positions /\ poll.at[1] > Len(Routes)
    BY RoutesAssumption DEF IInv, Shapes, PollType, Positions, Done
  <2> QED
    BY <2>1, EndPosition DEF IInv, Behind, Done
<1> QED
  BY <1>1, Invariant, PTL

\* A commit settles an announcement that went out in full.
LEMMA CommitSettles ==
    ASSUME IInv, Commit PROVE \E d \in Deliveries : Promise!Settle(d)
<1>1. poll.found \in Deliveries /\ sent \subseteq Messages
  BY DEF IInv, Shapes, HasFound, Commit, Done
<1>2. poll.at \in Positions /\ poll.at[1] > Len(Routes) /\ poll.failed = {} /\ poll.pc = "send"
  BY RoutesAssumption DEF IInv, Shapes, PollType, Positions, Commit, Done
<1>3. {poll.found} \X Slots \subseteq sent
  BY <1>2, EndPosition DEF IInv, Behind
<1>4. sent' = sent \ ({poll.found} \X Slots)
  BY <1>1 DEF Commit, OfDelivery, Messages
<1>5. record' = [d \in Deliveries |-> Fingerprint(d)][poll.found]
  BY <1>1 DEF Commit
<1> QED
  BY <1>1, <1>3, <1>4, <1>5 DEF Promise!Settle

\* The bot implements the promise: every step is one of its steps or changes
\* neither what went out nor the record.
THEOREM Refinement == Spec => KeepsPromise
<1>1. Init => Promise!Init
  BY DEF Init, Promise!Init
<1>2. IInv /\ [Next]_vars => [Promise!Next]_<<sent, record>>
  <2> SUFFICES ASSUME IInv, [Next]_vars PROVE [Promise!Next]_<<sent, record>>
    OBVIOUS
  <2>1. CASE Commit
    BY <2>1, CommitSettles DEF Promise!Next
  <2>2. CASE Send
    <3>1. poll.found \in Deliveries /\ poll.at \in Slots
      BY <2>2, RoutesAssumption, NextPosition DEF Send, Routing, IInv, Shapes, HasFound, PollType, Positions
    <3>2. Promise!Tell(poll.found, poll.at)
      BY <2>2 DEF Send, Message, Promise!Tell
    <3> QED
      BY <3>1, <3>2 DEF Promise!Next
  <2>3. CASE Clear \/ Detener
    BY <2>3 DEF Clear, Detener, histVars, Promise!Next, Promise!Forget
  <2>4. CASE Search \/ SeesNone \/ SeesVacancies \/ Load \/ Skip \/ Conflict \/ SendFails \/ Mark \/ MarkFails
    BY <2>4 DEF Search, SeesNone, SeesVacancies, Load, Skip, Conflict, SendFails, Mark, MarkFails, histVars
  <2>5. CASE NotifyFailed \/ CommitFails \/ StoreFails \/ WorldChanges \/ Restart
    BY <2>5 DEF NotifyFailed, CommitFails, StoreFails, WorldChanges, Restart, histVars
  <2>6. CASE UNCHANGED vars
    BY <2>6 DEF vars, histVars
  <2> QED
    BY <2>1, <2>2, <2>3, <2>4, <2>5, <2>6 DEF Next, Poll
<1> QED
  BY <1>1, <1>2, Invariant, PTL DEF Spec, KeepsPromise, Promise!Spec, Promise!vars

-----------------------------------------------------------------------------
(* The types, and the window of repetition. *)

\* What was sent has a row, or lost it, or is about to get it.
Recorded ==
    /\ \A m \in sent : \/ m \in lost
                       \/ poll.pc = "mark" /\ m = Message
                       \/ \E row \in progress : row.delivery = m[1] /\ row.slot = m[2]
    /\ poll.pc \in {"send", "mark"} => \A row \in progress : row.delivery = poll.found => row \in poll.delivered

\* The rest of the types.
Columns ==
    /\ exists \in BOOLEAN /\ record \in Summaries \cup {Nothing}
    /\ changes \in 0..MaxChanges /\ faults \in 0..MaxFaults
    /\ lost \subseteq sent /\ fresh \subseteq Messages

\* A fingerprint is a summary.
LEMMA FingerprintType == \A d \in Deliveries : Fingerprint(d) \in Summaries
BY DEF Fingerprint, Deliveries, Summaries

\* Faults are bounded.
LEMMA FaultType == ASSUME faults \in 0..MaxFaults, Fault PROVE faults' \in 0..MaxFaults
BY BoundsAssumption DEF Fault

\* Every step keeps the types: what is put on record is the summary of a delivery,
\* and what is lost was sent.
LEMMA ColumnsHold == IInv /\ IInv' /\ Columns /\ [Next]_vars => Columns'
<1> SUFFICES ASSUME IInv, IInv', Columns, [Next]_vars PROVE Columns'
  OBVIOUS
<1> USE DEF Columns
<1>0. /\ sent' \subseteq Messages
      /\ poll.pc = "mark" => Message \in sent
  BY DEF IInv, Shapes, Behind
<1>1. CASE UNCHANGED vars
  BY <1>1 DEF vars, histVars
<1>2. CASE Search \/ SeesVacancies \/ Load \/ Skip \/ Conflict \/ NotifyFailed \/ CommitFails \/ Mark
  BY <1>2 DEF Search, SeesVacancies, Load, Skip, Conflict, NotifyFailed, CommitFails, Mark, histVars
<1>3. CASE SeesNone \/ Clear
  BY <1>3 DEF SeesNone, Clear, histVars
<1>4. CASE SendFails \/ StoreFails
  BY <1>4, FaultType DEF SendFails, StoreFails, histVars
<1>5. CASE Send
  <2>1. Message \in sent'
    BY <1>5 DEF Send
  <2> QED
    BY <1>0, <1>5, <2>1 DEF Send
<1>6. CASE MarkFails
  <2>1. faults' \in 0..MaxFaults
    BY <1>6, FaultType DEF MarkFails
  <2> QED
    BY <1>0, <1>6, <2>1 DEF MarkFails
<1>7. CASE Commit
  <2>1. record' \in Summaries
    BY <1>7, FingerprintType DEF Commit, Done, IInv, HasFound
  <2>2. lost' \subseteq sent'
    BY <1>7 DEF Commit, OfDelivery
  <2> QED
    BY <1>7, <2>1, <2>2 DEF Commit
<1>8. CASE WorldChanges
  BY <1>8, BoundsAssumption DEF WorldChanges, histVars
<1>9. CASE Detener
  BY <1>9 DEF Detener
<1>10. CASE Restart
  BY <1>0, <1>10, FaultType DEF Restart
<1> QED
  BY <1>1, <1>2, <1>3, <1>4, <1>5, <1>6, <1>7, <1>8, <1>9, <1>10 DEF Next, Poll

\* Every step keeps account of what was sent.
LEMMA RecordedHolds == IInv /\ Columns /\ Recorded /\ [Next]_vars => Recorded'
<1> SUFFICES ASSUME IInv, Columns, Recorded, [Next]_vars PROVE Recorded'
  OBVIOUS
<1> USE DEF Recorded
<1>0. poll \in PollType
  BY DEF IInv, Shapes
<1>1. CASE UNCHANGED vars
  BY <1>1 DEF vars, histVars, Message
<1>2. CASE Search \/ SeesNone \/ SeesVacancies \/ Clear \/ NotifyFailed \/ CommitFails \/ StoreFails
  <2>1. poll.pc # "mark" /\ poll'.pc \notin {"send", "mark"} /\ UNCHANGED <<sent, lost, progress>>
    <3>1. CASE Search
      BY <3>1 DEF Search, Idle, histVars
    <3>2. CASE SeesNone \/ SeesVacancies
      BY <1>0, <3>2 DEF SeesNone, SeesVacancies, Idle, PollType, histVars
    <3>3. CASE Clear \/ NotifyFailed \/ CommitFails \/ StoreFails
      BY <3>3 DEF Clear, NotifyFailed, CommitFails, StoreFails, Done, Idle, histVars
    <3> QED
      BY <1>2, <3>1, <3>2, <3>3
  <2> QED
    BY <2>1
<1>3. CASE Load
  <2>1. /\ poll.pc = "load" /\ poll'.pc = "send" /\ poll'.found = poll.found
        /\ poll'.delivered = {row \in progress : row.delivery = poll.found}
        /\ UNCHANGED <<sent, lost, progress>>
    BY <1>0, <1>3 DEF Load, PollType, histVars
  <2> QED
    BY <2>1
<1>4. CASE Skip \/ Conflict \/ SendFails
  <2>1. /\ poll.pc = "send" /\ poll'.pc = "send" /\ poll'.found = poll.found /\ poll'.delivered = poll.delivered
        /\ UNCHANGED <<sent, lost, progress>>
    BY <1>0, <1>4 DEF Skip, Conflict, SendFails, Abandon, Routing, PollType, histVars
  <2> QED
    BY <2>1
<1>5. CASE Send
  <2>1. /\ poll.pc = "send" /\ poll'.pc = "mark" /\ poll'.found = poll.found /\ poll'.delivered = poll.delivered
        /\ poll'.at = poll.at /\ sent' = sent \cup {Message} /\ lost' = lost \ {Message} /\ progress' = progress
    BY <1>0, <1>5 DEF Send, Routing, PollType
  <2>2. Message' = Message
    BY <2>1 DEF Message
  <2> QED
    BY <2>1, <2>2
<1>6. CASE Mark
  <2> DEFINE row == [delivery |-> poll.found, slot |-> poll.at, text |-> version]
  <2>1. /\ poll.pc = "mark" /\ poll'.pc = "send" /\ poll'.found = poll.found
        /\ poll'.delivered = poll.delivered \cup {row} /\ progress' = progress \cup {row}
        /\ UNCHANGED <<sent, lost>>
    BY <1>0, <1>6 DEF Mark, PollType, histVars
  <2>2. row.delivery = Message[1] /\ row.slot = Message[2]
    BY DEF Message
  <2> HIDE DEF row
  <2> QED
    BY <2>1, <2>2
<1>7. CASE MarkFails
  <2>1. /\ poll.pc = "mark" /\ poll'.pc = "send" /\ poll'.found = poll.found /\ poll'.delivered = poll.delivered
        /\ lost' = lost \cup {Message} /\ UNCHANGED <<sent, progress>>
    BY <1>0, <1>7 DEF MarkFails, Abandon, PollType
  <2> QED
    BY <2>1
<1>8. CASE Commit
  <2>1. /\ poll.pc = "send" /\ poll'.pc = "idle" /\ progress' = {row \in progress : row.delivery # poll.found}
        /\ sent' = {m \in sent : m[1] # poll.found} /\ lost' = {m \in lost : m[1] # poll.found}
    BY <1>8 DEF Commit, Done, Idle, Unsettled, OfDelivery
  <2> QED
    BY <2>1
<1>9. CASE WorldChanges
  BY <1>9 DEF WorldChanges, histVars, Message
<1>10. CASE Detener
  BY <1>10 DEF Detener
<1>11. CASE Restart
  <2>1. /\ poll'.pc = "idle" /\ UNCHANGED <<sent, progress>> /\ lost \subseteq lost'
        /\ poll.pc = "mark" => Message \in lost'
    BY <1>11 DEF Restart, Idle
  <2> QED
    BY <2>1
<1> QED
  BY <1>1, <1>2, <1>3, <1>4, <1>5, <1>6, <1>7, <1>8, <1>9, <1>10, <1>11 DEF Next, Poll

\* Every variable stays in its type, for any listings, routes and releases.
THEOREM TypeCorrect == Spec => []TypeOK
<1>1. Init => Columns
  BY BoundsAssumption DEF Init, Columns
<1>2. IInv /\ Columns => TypeOK
  BY DEF IInv, Shapes, Columns, TypeOK
<1> QED
  BY <1>1, <1>2, ColumnsHold, Invariant, PTL DEF Spec

\* A message goes out again only if its row could not be written, or is gone with
\* its search, whatever fails and whenever the process dies.
THEOREM Window == Spec => RepeatedOnlyInWindow
<1>1. Init => Columns /\ Recorded
  BY BoundsAssumption DEF Init, Columns, Recorded, Idle
<1>2. IInv /\ Recorded /\ [Next]_vars => [Sending => Message \notin sent \ lost]_vars
  <2> SUFFICES ASSUME IInv, Recorded, Next, Sending PROVE Message \notin sent \ lost
    OBVIOUS
  <2>0. poll \in PollType
    BY DEF IInv, Shapes
  <2>1. Send
    <3>1. ~Search /\ ~SeesNone /\ ~SeesVacancies /\ ~Clear /\ ~Load /\ ~Mark /\ ~MarkFails
      BY DEF Sending, Search, SeesNone, SeesVacancies, Clear, Load, Mark, MarkFails
    <3>2. ~Skip /\ ~Conflict /\ ~SendFails
      BY <2>0 DEF Sending, Skip, Conflict, SendFails, Abandon, PollType
    <3>3. ~NotifyFailed /\ ~Commit /\ ~CommitFails /\ ~StoreFails /\ ~WorldChanges /\ ~Detener /\ ~Restart
      BY DEF Sending, NotifyFailed, Commit, CommitFails, StoreFails, WorldChanges, Detener, Restart, Idle
    <3> QED
      BY <3>1, <3>2, <3>3 DEF Next, Poll
  <2>2. poll.pc = "send" /\ \A row \in poll.delivered : row.slot # poll.at
    BY <2>1 DEF Send, Routing, Rows
  <2> QED
    BY <2>2 DEF Recorded, Message
<1> QED
  BY <1>1, <1>2, ColumnsHold, RecordedHolds, Invariant, PTL DEF Spec, RepeatedOnlyInWindow

=============================================================================
