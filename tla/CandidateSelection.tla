------------------------ MODULE CandidateSelection -------------------------
(***************************************************************************)
(* select_candidates of riley-scheduler (scheduler.rs): which active       *)
(* requests run in the next iteration, and with how many tokens.  Decode   *)
(* rows come first, one token each; prompts share what is left of the      *)
(* budget; an aged prompt may go before the decode rows in every other     *)
(* iteration.  The burst, coalescing and plateau policies and atomic       *)
(* chunks change how much runs.                                            *)
(*                                                                         *)
(* Around the algorithm stands the loop that calls it: iterations that     *)
(* complete, requests that arrive and end.  Both candidate lists are       *)
(* sorted by (ready_since_ns, request id); `ready` is that order, and the  *)
(* clock appears only as how long a request has been ready, up to the      *)
(* largest threshold anything compares it with.                            *)
(***************************************************************************)
EXTENDS Integers, Sequences, SequencesExt, FiniteSetsExt

CONSTANTS
    MaxRequests,    \* active sequences
    PromptLengths,  \* prompt tokens a request brings
    TokenBudget,    \* iteration_token_budget
    MaxChunk,       \* max_prefill_chunk_tokens
    AgingThreshold, \* aging_threshold_ns
    Policies,       \* the combinations of policies a scheduler may be built with
    NoPolicy        \* a policy that is not configured

\* What validate accepts.  Atomic chunks exclude the plateau policy in the
\* scheduler, and the burst and coalescing policies in the server's options.
ASSUME PolicyAssumption ==
    /\ {TokenBudget, MaxChunk, AgingThreshold} \subseteq Nat \ {0}
    /\ MaxChunk <= TokenBudget
    /\ PromptLengths \subseteq Nat \ {0}
    /\ \A p \in Policies :
        /\ p.atomic => {p.burst, p.coalescing, p.plateau} = {NoPolicy}
        /\ p.burst # NoPolicy => p.burst.steady \in 1 .. TokenBudget - 1
        /\ p.coalescing # NoPolicy =>
            {p.coalescing.minTokens, p.coalescing.maxWait, p.coalescing.minDecodeRows}
                \subseteq Nat \ {0}
        /\ p.plateau # NoPolicy =>
            /\ p.plateau.boundaries # {} /\ p.plateau.boundaries \subseteq 1 .. TokenBudget - 1
            /\ p.plateau.maxDeferred \in Nat \ {0}

RequestIds == 1 .. MaxRequests

VARIABLES
    policy, \* the policies of this scheduler's SchedulerConfig
    req,    \* per request: phase, prompt tokens left, age, plateau_deferred
    ready,  \* active requests in the order (ready_since_ns, request id)
    aging   \* aging_override_last_iteration

vars == <<policy, req, ready, aging>>

Atomic == policy.atomic         \* atomic_prefill_chunks
Burst == policy.burst           \* PrefillBurstPolicy or NoPolicy
Coalescing == policy.coalescing \* PrefillCoalescingPolicy or NoPolicy
Plateau == policy.plateau       \* PrefillPlateauPolicy or NoPolicy

\* No comparison tells apart two waits beyond this one.
MaxAge == Max({AgingThreshold, IF Coalescing = NoPolicy THEN 0 ELSE Coalescing.maxWait})

-----------------------------------------------------------------------------
(* The algorithm, on the current state. *)

Prefill == SelectSeq(ready, LAMBDA r : req[r].phase \in {"admitted", "prefilling"})
Decode == SelectSeq(ready, LAMBDA r : req[r].phase = "decoding")

TokensOf(rows) == SumFunction([i \in DOMAIN rows |-> rows[i].tokens])
RowIds(rows) == {rows[i].id : i \in DOMAIN rows}

\* The budget of this iteration: the burst policy may close part of it.
Budget ==
    IF /\ Burst # NoPolicy
       /\ \/ Len(Decode) > Burst.maxDecodeRows
          \/ /\ Burst.minPromptTokens > 0
             /\ \A r \in ToSet(Prefill) : req[r].left < Burst.minPromptTokens
    THEN Burst.steady ELSE TokenBudget

\* What one iteration can give a prompt: the next chunk of it.
Chunk(r) == Min({req[r].left, MaxChunk})

\* Mutant: the aging override is never taken.
NoAgedRequest == <<>>

\* The prompt that runs before the decode rows: a sequence of at most one.
AgedRequest ==
    LET aged == SelectSeq(Prefill, LAMBDA r : req[r].age >= AgingThreshold)
    IN  IF Decode = <<>> \/ aging \/ aged = <<>> THEN <<>> ELSE <<Head(aged)>>

\* Tokens an aged prompt may take: one is left for decode when there are two.
UsableByAged == IF Atomic THEN Budget ELSE Max({Budget - 1, 1})

AgedRows ==
    [i \in DOMAIN AgedRequest |->
        [id |-> AgedRequest[i], decode |-> FALSE,
         tokens |-> Min({Chunk(AgedRequest[i]), UsableByAged})]]

DecodeRows ==
    [i \in 1 .. Min({Len(Decode), Budget - TokensOf(AgedRows)}) |->
        [id |-> Decode[i], decode |-> TRUE, tokens |-> 1]]

\* Mutant: prompts wait for each other also when nothing decodes.
HoldWithoutDecode ==
    LET new == SelectSeq(Prefill, LAMBDA r : req[r].phase = "admitted")
    IN  /\ Coalescing # NoPolicy
        /\ AgedRequest = <<>>
        /\ SumFunction([i \in DOMAIN new |-> req[new[i]].left]) < Coalescing.minTokens
        /\ \A r \in ToSet(new) : req[r].age < Coalescing.maxWait

\* Coalescing: prompts not yet started wait for each other, but not too long.
HoldNewPrompts ==
    LET new == SelectSeq(Prefill, LAMBDA r : req[r].phase = "admitted")
    IN  /\ Coalescing # NoPolicy
        /\ AgedRequest = <<>>
        /\ Len(Decode) >= Coalescing.minDecodeRows
        /\ SumFunction([i \in DOMAIN new |-> req[new[i]].left]) < Coalescing.minTokens
        /\ \A r \in ToSet(new) : req[r].age < Coalescing.maxWait

\* What the prefill loop gives a prompt when `budget` tokens are left.
PromptShare(r, budget) ==
    IF \/ r \in ToSet(AgedRequest)
       \/ HoldNewPrompts /\ req[r].phase = "admitted"
       \/ Atomic /\ Chunk(r) > budget
    THEN 0 ELSE Min({Chunk(r), budget})

\* The prefill loop, in order, on the tokens the other rows leave.
PromptRows(budget) ==
    LET prompts == Prefill
        left[i \in 0 .. Len(prompts)] ==
            IF i = 0 THEN budget ELSE left[i - 1] - PromptShare(prompts[i], left[i - 1])
        rows == [i \in DOMAIN prompts |->
                    [id |-> prompts[i], decode |-> FALSE, tokens |-> left[i - 1] - left[i]]]
    IN  SelectSeq(rows, LAMBDA row : row.tokens > 0)

\* `kept` of the rows' tokens, the last rows losing theirs first.
KeepTokens(rows, kept) ==
    LET before(i) == SumFunction([j \in 1 .. i - 1 |-> rows[j].tokens])
        cut == [i \in DOMAIN rows |->
                    [rows[i] EXCEPT !.tokens = Min({@, Max({kept - before(i), 0})})]]
    IN  SelectSeq(cut, LAMBDA row : row.tokens > 0)

\* The tokens of an iteration that ends at the last boundary before its total,
\* if the policy applies and the prompts cut short are all movable.
EndAtBoundary(first, prompts, movable) ==
    LET total  == TokensOf(first \o prompts)
        below  == {b \in Plateau.boundaries : b < total}
        target == Max(below)
        cut    == {i \in DOMAIN prompts :
                    TokensOf(first) + TokensOf(SubSeq(prompts, 1, i)) > target}
    IN  IF /\ Plateau # NoPolicy
           /\ AgedRequest = <<>>
           /\ Len(Decode) >= Plateau.minDecodeRows
           /\ below # {}
           /\ total - target <= Min({Plateau.maxDeferred, TokensOf(prompts)})
           /\ \A i \in cut : prompts[i].id \in movable
        THEN target ELSE total

\* defer_past_plateau: the boundary to end at when that puts off few tokens, all
\* of them from prompts that were never put off before; otherwise the total.
KeptTokens(first, prompts) ==
    EndAtBoundary(first, prompts, {r \in RequestIds : ~req[r].deferred})

\* The rows of the next iteration, and the prompts the plateau puts off.
Selection ==
    LET first   == AgedRows \o DecodeRows
        prompts == PromptRows(Budget - TokensOf(first))
        all     == first \o prompts
        rows    == KeepTokens(all, KeptTokens(first, prompts))
    IN  [rows |-> rows, trimmed |-> {row.id : row \in ToSet(all) \ ToSet(rows)}]

-----------------------------------------------------------------------------
(* The loop around it. *)

Idle == [phase |-> "idle", left |-> 0, age |-> 0, deferred |-> FALSE]

Init ==
    /\ policy \in Policies
    /\ req = [r \in RequestIds |-> Idle]
    /\ ready = <<>>
    /\ aging = FALSE

\* A request is admitted and waits for its first iteration.
Arrive(r, length) ==
    /\ req[r].phase = "idle"
    /\ req' = [req EXCEPT ![r] = [Idle EXCEPT !.phase = "admitted", !.left = length]]
    /\ ready' = Append(ready, r)
    /\ UNCHANGED <<policy, aging>>

\* What a completed row makes of its request: more prompt, decoding, or the end.
Advanced(row, ends) ==
    LET q    == req[row.id]
        left == IF row.decode THEN 0 ELSE q.left - row.tokens
    IN  IF left = 0 /\ row.id \in ends THEN Idle
        ELSE [q EXCEPT !.phase = IF left = 0 THEN "decoding" ELSE "prefilling",
                       !.left = left, !.age = 0]

\* A ready request that did not run has waited for the length of an iteration.
Older(q, elapsed) == [q EXCEPT !.age = Min({@ + elapsed, MaxAge})]

\* plan_iteration and complete_iteration of a selection: rows that sample a
\* token may end their request, the others are ready again from now on.  Request
\* ids, which break the tie between them, are reused here: any order may result.
Iterate(selection, ends, elapsed) ==
    LET ran   == RowIds(selection.rows)
        after == [r \in RequestIds |->
                    CASE r \in ran ->
                            Advanced(CHOOSE row \in ToSet(selection.rows) : row.id = r, ends)
                      [] r \in ToSet(ready) \ ran -> Older(req[r], elapsed)
                      [] OTHER -> req[r]]
    IN  /\ ran # {}
        /\ req' = [r \in RequestIds |->
                    IF r \in selection.trimmed
                    THEN [after[r] EXCEPT !.deferred = TRUE] ELSE after[r]]
        /\ \E again \in SetToSeqs({r \in ran : after[r].phase # "idle"}) :
            ready' = SelectSeq(ready, LAMBDA r : r \notin ran) \o again
        /\ aging' = (AgedRequest # <<>>)
        /\ UNCHANGED policy

IterateSelected ==
    \E selection \in {Selection} :
        \E ends \in SUBSET RowIds(selection.rows), elapsed \in 1 .. MaxAge :
            Iterate(selection, ends, elapsed)

Next ==
    \/ \E r \in RequestIds, length \in PromptLengths : Arrive(r, length)
    \/ IterateSelected

\* The engine worker keeps planning while a request is active (worker_main).
\* SomeWorkSelected says that IterateSelected is enabled exactly when ready is
\* not empty: this is WF_vars(IterateSelected) with ENABLED written out.
Fairness == []<>(ready = <<>>) \/ []<><<IterateSelected>>_vars

Spec == Init /\ [][Next]_vars /\ Fairness

-----------------------------------------------------------------------------
(* Properties. *)

\* The contract module Scheduler relies on (its Selection): distinct active
\* requests, each with a positive share within its next chunk, within the budget.
RowsSound ==
    \E rows \in {Selection.rows} :
        /\ \A i \in DOMAIN rows :
            /\ rows[i].id \in ToSet(ready)
            /\ rows[i].decode <=> req[rows[i].id].phase = "decoding"
            /\ rows[i].tokens \in 1 .. IF rows[i].decode THEN 1 ELSE Chunk(rows[i].id)
        /\ Cardinality(RowIds(rows)) = Len(rows)
        /\ TokensOf(rows) <= Budget

\* No combination of policies holds everything back: while a request is active
\* the next iteration is not empty, so the loop cannot stall.
SomeWorkSelected == ready # <<>> => Selection.rows # <<>>

\* "for at most one iteration per request": a prompt the plateau policy put off
\* once gets, in every later iteration, all it would get without the policy.
PutOffAtMostOnce == \A r \in Selection.trimmed : ~req[r].deferred

\* Every iteration selected is one the scheduler may run and one worth running.
SelectionSound == RowsSound /\ SomeWorkSelected /\ PutOffAtMostOnce

\* Nobody starves: whatever the decode load and the policies, a request that
\* waits for an iteration (its age grows) is in one again and again until it ends.
NoStarvation == \A r \in RequestIds : []<>(req[r].age = 0)
=============================================================================
