---------------------------- MODULE EngineChannel ----------------------------
(***************************************************************************)
(* The event channel of one request of the engine, any one of them, seen   *)
(* as module RequestStream sees it.                                        *)
(***************************************************************************)
EXTENDS Engine

CONSTANT Chosen \* the request whose channel is looked at

ASSUME ChosenAssumption == Chosen \in Requests

Channel == INSTANCE RequestStream WITH
    Limit <- MaxTokens + 1, events <- stream[Chosen], sender <- SenderState(Chosen)

\* The engine implements RequestStream for the chosen request: what its consumer
\* reads are the first tokens of the request, none left out, then at most one
\* terminal event, which is last ("Same events in the same per-request order",
\* publish_after_submit), however overflow, cancellation, failure and staging
\* interleave (publish_events, deliver_staged_events, fail_remaining), and no
\* sender appears again once the last was dropped.
ChannelImplemented == Channel!Spec
==============================================================================
