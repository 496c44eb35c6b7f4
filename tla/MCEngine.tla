------------------------------ MODULE MCEngine ------------------------------
(* Instances of Engine for TLC. *)
EXTENDS Engine, TLC

RequestSymmetry == Permutations(Requests)

\* The channels of all requests; module EngineChannel has one of them.
ChannelOf(r) == INSTANCE RequestStream WITH
    Limit <- MaxTokens + 1, events <- stream[r], sender <- SenderState(r)

\* The engine implements RequestStream for every request, as ChannelImplemented
\* of module EngineChannel says for one: publish_events, deliver_staged_events
\* and fail_remaining send a request's tokens in order, none left out, then at
\* most one terminal event, also while they serve the other requests.
StreamsImplemented ==
    /\ \A r \in Requests : ChannelOf(r)!Init
    /\ [][\A r \in Requests : UNCHANGED ChannelOf(r)!streamVars \/ ChannelOf(r)!Next]_vars
=============================================================================
