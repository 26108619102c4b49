----------------------------- MODULE Interaction -----------------------------
(***************************************************************************)
(* How an interaction of Discord is answered: internal/discordgateway.     *)
(* runInteractionPipeline starts the handler in a goroutine of its own and *)
(* races its result against a deadline of 2400 ms. Whoever wins decides    *)
(* the one answer that is posted; the handler may still be running.        *)
(*                                                                         *)
(* The handlers are commands of another module, which says when one is     *)
(* done (Finish). A slot of Interactions is used again once its pipeline   *)
(* and its handler are over.                                               *)
(***************************************************************************)
EXTENDS Integers

CONSTANT Interactions

VARIABLES
    pipeline,       \* runInteractionPipeline: where it is
    dispatched,     \* the dispatch goroutine: "none", "running", "sending"; "sent"
                    \* while its result lies in the channel and may be read
    posts           \* answers posted to Discord

interactionVars == <<pipeline, dispatched, posts>>

InteractionInit ==
    /\ pipeline = [i \in Interactions |-> "over"]
    /\ dispatched = [i \in Interactions |-> "none"]
    /\ posts = [i \in Interactions |-> 1]

\* dispatchAndRespond. Nothing of the last interaction of this slot is left.
Receive(i) ==
    /\ pipeline[i] = "over" /\ dispatched[i] = "none"
    /\ pipeline' = [pipeline EXCEPT ![i] = "racing"]
    /\ dispatched' = [dispatched EXCEPT ![i] = "running"]
    /\ posts' = [posts EXCEPT ![i] = 0]

\* DispatchInteraction returns, or its panic is recovered: there is a result.
Finish(i) ==
    /\ dispatched[i] = "running"
    /\ dispatched' = [dispatched EXCEPT ![i] = "sending"]
    /\ UNCHANGED <<pipeline, posts>>

\* The channel has room for the result, and the slip where it has none.
ReceiverWaits(i) == pipeline[i] = "racing"
HasRoom(i) == dispatched[i] = "sending"

Send(i) ==
    /\ dispatched[i] = "sending" /\ HasRoom(i)
    /\ dispatched' = [dispatched EXCEPT ![i] = IF pipeline[i] = "racing" THEN "sent" ELSE "none"]
    /\ UNCHANGED <<pipeline, posts>>

\* Where the race leads, whoever wins.
RaceOver(winner) == "answering"

\* raceForResponse: the deadline may pass at any time, and either one may win when
\* both are there. What the answer says is the handler's, or that it took too
\* long.
RaceEnds(i, winner) ==
    /\ pipeline[i] = "racing"
    /\ pipeline' = [pipeline EXCEPT ![i] = RaceOver(winner)]
    /\ dispatched' = [dispatched EXCEPT ![i] = IF @ = "sent" THEN "none" ELSE @]
    /\ UNCHANGED posts

TakeResult(i) == dispatched[i] = "sent" /\ RaceEnds(i, "result")
TakeDeadline(i) == RaceEnds(i, "timeout")

\* respondSafely: the post works, fails or panics, and is not tried again. The
\* slip tries again.
Retried(ok) == IF ok THEN "over" ELSE "answering"
Responded(ok) == "over"

Respond(i) ==
    /\ pipeline[i] = "answering"
    /\ \E ok \in BOOLEAN : pipeline' = [pipeline EXCEPT ![i] = Responded(ok)]
    /\ posts' = [posts EXCEPT ![i] = @ + 1]
    /\ UNCHANGED dispatched

\* What goes on without the handler.
Pipeline(i) == Send(i) \/ TakeResult(i) \/ TakeDeadline(i) \/ Respond(i)

\* The runtime runs the goroutines, timers fire, and the post has a deadline.
PipelineFairness ==
    \A i \in Interactions : WF_interactionVars(Pipeline(i))

-----------------------------------------------------------------------------
(* Properties. *)

InteractionTypeOK ==
    /\ pipeline \in [Interactions -> {"racing", "answering", "over"}]
    /\ dispatched \in [Interactions -> {"none", "running", "sending", "sent"}]
    /\ posts \in [Interactions -> Nat]

\* "It is never retried because the callback may already have acknowledged the
\* interaction": an interaction is answered once however its handler, the
\* deadline and the post end, and never twice.
AnsweredOnce == \A i \in Interactions :
    /\ posts[i] <= 1
    /\ pipeline[i] = "over" => posts[i] = 1

\* Every interaction ends: it gets an answer, the handler's or another, and the
\* goroutine of the handler ends although nobody may be waiting for its result.
EveryInteractionEnds ==
    \A i \in Interactions : dispatched[i] = "running" ~> pipeline[i] = "over" /\ dispatched[i] = "none"

=============================================================================
