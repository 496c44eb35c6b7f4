------------------------ MODULE MCCandidateSelection ------------------------
(* The combinations of policies that module CandidateSelection is checked with. *)
EXTENDS CandidateSelection

\* Two tokens per iteration as soon as two requests decode, prompts in pairs, and
\* iterations that end at a plateau, all at once.
EveryPolicy ==
    [atomic |-> FALSE,
     burst |-> [steady |-> 2, maxDecodeRows |-> 1, minPromptTokens |-> 0],
     coalescing |-> [minTokens |-> 3, maxWait |-> 2, minDecodeRows |-> 1],
     plateau |-> [boundaries |-> {1, 3}, maxDeferred |-> 2, minDecodeRows |-> 1]]

AtomicChunks ==
    [atomic |-> TRUE, burst |-> NoPolicy, coalescing |-> NoPolicy, plateau |-> NoPolicy]

MCPolicies == {EveryPolicy, AtomicChunks}
=============================================================================
