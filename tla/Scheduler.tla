----------------------------- MODULE Scheduler -----------------------------
(***************************************************************************)
(* The continuous-batching scheduler of riley-scheduler (scheduler.rs)     *)
(* with its prefix cache, over an accounting view of the KV pool.          *)
(*                                                                         *)
(* A scheduler is owned by one thread: every call is one atomic step.      *)
(* Between the calls the executor runs the in-flight plan, and callers     *)
(* submit, cancel, fail the plan or close the scheduler in any order.      *)
(*                                                                         *)
(* Of the pool (module PagedKv) a request keeps its committed length, the  *)
(* target of its pending reservation and the shared blocks at the head of  *)
(* its table.  The number of its private blocks, the reference counts and  *)
(* the free blocks follow from these: TableCoversLength, ReferencesExact   *)
(* and FreeListExact of PagedKv say that they do.  Which ready requests    *)
(* select_candidates picks is left open up to its contract (Selection), so *)
(* what is checked here holds for every selection policy; the clock, which *)
(* only the policies and the admission timeout read, is left out.          *)
(***************************************************************************)
EXTENDS PrefixIndex, FiniteSetsExt

CONSTANTS
    MaxRequests,        \* bound: request ids handed out
    Prompts,            \* token sequences callers submit
    MaxNewTokens,       \* max_new_tokens values callers ask for
    BlockSize,          \* KV_BLOCK_SIZE
    TotalBlocks,        \* physical blocks of the pool
    MaxPromised,        \* max_promised_kv_blocks
    MaxActive,          \* max_active_sequences
    MaxWaiting,         \* max_waiting_requests
    MaxWaitingTokens,   \* max_waiting_prompt_tokens
    MaxSequenceTokens,  \* max_sequence_tokens
    TokenBudget,        \* iteration_token_budget
    MaxChunk,           \* max_prefill_chunk_tokens
    Overload,           \* "wait" or "reject"
    Timeout             \* TRUE when an admission timeout is configured

\* SchedulerConfig::validate, Scheduler::new and enable_prefix_cache.
ASSUME ConfigAssumption ==
    /\ {BlockSize, MaxActive, MaxWaiting, MaxWaitingTokens, MaxSequenceTokens,
        TokenBudget, MaxChunk, MaxPromised} \subseteq Nat \ {0}
    /\ MaxRequests \in Nat /\ TotalBlocks \in Nat
    /\ Prompts \subseteq Seq(Nat) /\ MaxNewTokens \subseteq Nat
    /\ MaxPromised <= TotalBlocks
    /\ Capacity <= TotalBlocks
    /\ MaxChunk <= TokenBudget
    /\ MaxChunk <= MaxSequenceTokens
    /\ Overload \in {"wait", "reject"}
    /\ Timeout \in BOOLEAN
    /\ Overload = "reject" => ~Timeout

RequestIds == 1 .. MaxRequests

Terminal == {"finished", "cancelled", "failed"}
Active == {"admitted", "prefilling", "decoding"}

VARIABLES
    sch,        \* the Scheduler struct, and as `suspect` the shared blocks that
                \* were in use when the device last failed (a history set)
    delivered,  \* [request id -> terminal notifications the caller received]
    phase       \* "open"; "closed" after close; "out_of_blocks" or "not_released"
                \* after the errors a plan and close could report

vars == <<sch, delivered, phase>>

-----------------------------------------------------------------------------
(* Accounting. *)

SumOf(f) == MapThenSumSet(LAMBDA i : f[i], DOMAIN f)

BlocksForLength(length) == (length + BlockSize - 1) \div BlockSize

MaximumLogicalLength(prompt, maxNew) == Len(prompt) + maxNew - 1

\* Length the block table of request q covers: its reservation target, if any.
TableLength(q) == IF q.pending # 0 THEN q.pending ELSE q.length

PrivateBlocks(q) == BlocksForLength(TableLength(q)) - Len(q.shared)

\* Blocks that live requests hold through references.
HeldBlocks(S) == UNION {ToSet(S.req[r].shared) : r \in RequestIds}

SharedBlocks(S) == HeldBlocks(S) \cup ListedBlocks(S.index)

AllocatedBlocks(S) ==
    SumOf([r \in RequestIds |-> PrivateBlocks(S.req[r])]) + Cardinality(SharedBlocks(S))

FreeBlocks(S) == TotalBlocks - AllocatedBlocks(S)

\* A block that becomes shared.  Its identity carries the prompt prefix whose
\* keys and values it holds, and a number that tells copies apart.
NewSharedBlock(S, prefix) ==
    LET used == SharedBlocks(S) \cup S.suspect
    IN  [prefix |-> prefix,
         copy   |-> Min({n \in 1 .. Cardinality(used) + 1 :
                            [prefix |-> prefix, copy |-> n] \notin used})]

LiveRequests(S) == ToSet(S.requests)

Inflight(S) == {S.inflight[i].id : i \in DOMAIN S.inflight}

-----------------------------------------------------------------------------
(* Steps that several calls are made of: each maps a scheduler to the next. *)

NoRequest ==
    [state |-> "unborn", prompt |-> <<>>, maxNew |-> 0, cursor |-> 0, generated |-> 0,
     length |-> 0, pending |-> 0, shared |-> <<>>, tip |-> Root, linked |-> TRUE,
     deferred |-> FALSE, cached |-> 0]

CanAdmit(S, blocks) ==
    /\ S.active < MaxActive
    /\ S.promised + blocks <= MaxPromised

Promise(q) == BlocksForLength(MaximumLogicalLength(q.prompt, q.maxNew))

\* admit_record, and what admit_waiting does to a request.
Admit(S, r) ==
    [S EXCEPT !.req[r].state = "admitted",
              !.active = @ + 1,
              !.promised = @ + Promise(S.req[r])]

\* Mutant: a new request may pass the queue.
AdmitsPastQueue(S, blocks) == CanAdmit(S, blocks)

\* submit admits at once only when nobody waits.
AdmitsAtOnce(S, blocks) == S.waiting = <<>> /\ CanAdmit(S, blocks)

\* Vec::swap_remove.
SwapRemove(s, e) ==
    LET i == SelectInSeq(s, LAMBDA x : x = e)
    IN  Front([s EXCEPT ![i] = Last(s)])

TerminalState(reason) ==
    CASE reason \in {"length", "stop"} -> "finished"
      [] reason = "cancelled" -> "cancelled"
      [] reason \in {"admission_timeout", "executor_failure"} -> "failed"

\* finish_live_request: leave the queue or close the sequence, give back the
\* promise, and put the terminal notification in the outbox.
\* force_reclaim_live_request has the same effect on an active request.
Finish(S, r, reason) ==
    LET q    == S.req[r]
        left == IF q.state = "waiting"
                THEN [S EXCEPT !.waiting = RemoveFirst(@, r),
                               !.waitingTokens = @ - Len(q.prompt)]
                ELSE [S EXCEPT !.active = @ - 1,
                               !.promised = @ - Promise(q)]
    IN  [left EXCEPT !.req[r] = [NoRequest EXCEPT !.state = TerminalState(reason)],
                     !.requests = SwapRemove(@, r),
                     !.outbox = Append(@, [id |-> r, reason |-> reason])]

FinishIf(S, r, which, reason) == IF r \in which THEN Finish(S, r, reason) ELSE S

\* The requests of rs that are in `which` end, in the order of rs.
FinishThose(S, rs, which, reason) ==
    LET done[n \in 0 .. Len(rs)] ==
            IF n = 0 THEN S ELSE FinishIf(done[n - 1], rs[n], which, reason)
    IN  done[Len(rs)]

FinishAll(S, rs, reason) == FinishThose(S, rs, ToSet(rs), reason)

\* expire_waiting: the queue is in submission order, so what has waited
\* long enough is a prefix of it.
ExpireWaiting(S, count) == FinishAll(S, SubSeq(S.waiting, 1, count), "admission_timeout")

\* One turn of the loop of admit_waiting.
AdmitNext(S) ==
    LET r == Head(S.waiting)
    IN  IF S.waiting = <<>> \/ ~CanAdmit(S, Promise(S.req[r])) THEN S
        ELSE [Admit(S, r) EXCEPT !.waiting = Tail(@),
                                 !.waitingTokens = @ - Len(S.req[r].prompt)]

AdmitWaiting(S) ==
    LET turn[n \in 0 .. Len(S.waiting)] == IF n = 0 THEN S ELSE AdmitNext(turn[n - 1])
    IN  turn[Len(S.waiting)]

\* The tokens of the block that starts after `start` tokens.
BlockTokens(prompt, start) == SubSeq(prompt, start + 1, start + BlockSize)

\* The part of a prompt that may come from the cache: the last token always runs.
Reusable(prompt) == ((Len(prompt) - 1) \div BlockSize) * BlockSize

\* One turn of the adoption loop of a request.
AdoptNext(S, r) ==
    LET q     == S.req[r]
        found == IF q.cursor < Reusable(q.prompt)
                 THEN Find(S.index, q.tip, BlockTokens(q.prompt, q.cursor))
                 ELSE {}
        id    == CHOOSE e \in found : TRUE
    IN  IF found = {} THEN S
        ELSE [S EXCEPT !.req[r] = [q EXCEPT
                        !.shared = Append(@, S.index.entries[id].block),
                        !.tip = id,
                        !.cursor = @ + BlockSize,
                        !.length = (Len(q.shared) + 1) * BlockSize,
                        !.cached = @ + BlockSize]]

\* The adoption loop of one request: no more turns than its prompt has tokens.
AdoptBlocks(S, r) ==
    LET turns == Len(S.req[r].prompt)
        turn[n \in 0 .. turns] == IF n = 0 THEN S ELSE AdoptNext(turn[n - 1], r)
    IN  turn[turns]

AdoptCachedPrefix(S, r) ==
    IF S.req[r].state # "admitted" \/ ~S.req[r].linked THEN S
    ELSE LET T == AdoptBlocks(S, r)
         IN  IF T.req[r].cursor = S.req[r].cursor THEN T
             ELSE [T EXCEPT !.index = TouchPath(@, T.req[r].tip)]

AdoptCachedPrefixes(S) ==
    LET turn[n \in 0 .. Len(S.requests)] ==
            IF n = 0 THEN S ELSE AdoptCachedPrefix(turn[n - 1], S.requests[n])
    IN  turn[Len(S.requests)]

\* One turn of the loop of publish_prompt_blocks.
PublishNext(S, r) ==
    LET q      == S.req[r]
        next   == Len(q.shared)
        tokens == BlockTokens(q.prompt, next * BlockSize)
        unlink == [S EXCEPT !.req[r].linked = FALSE]
        room   == IF HasRoom(S.index) THEN S.index ELSE EvictOne(S.index, HeldBlocks(S))
        made   == [S EXCEPT !.index = room]
        block  == NewSharedBlock(made, SubSeq(q.prompt, 1, (next + 1) * BlockSize))
    IN  IF ~q.linked \/ next >= q.cursor \div BlockSize THEN S
        ELSE IF Find(S.index, q.tip, tokens) # {} THEN unlink
        ELSE IF ~HasRoom(S.index) /\ ~CanEvict(S.index, HeldBlocks(S)) THEN unlink
        ELSE [S EXCEPT !.index = Insert(room, q.tip, tokens, block),
                       !.req[r].shared = Append(@, block),
                       !.req[r].tip = NextEntry(room)]

PublishBlocks(S, r) ==
    LET turns == Len(S.req[r].prompt)
        turn[n \in 0 .. turns] == IF n = 0 THEN S ELSE PublishNext(turn[n - 1], r)
    IN  turn[turns]

\* publish_prompt_blocks: its loop, then touch_path if a block was listed.
PublishPromptBlocks(S, r) ==
    IF Capacity = 0 THEN S
    ELSE LET T == PublishBlocks(S, r)
         IN  IF T.req[r].shared = S.req[r].shared THEN T
             ELSE [T EXCEPT !.index = TouchPath(@, T.req[r].tip)]

\* Mutant: requests keep the tips of a cleared index.
DropEntriesKeepTips(S) == [S EXCEPT !.index = ClearIndex(@)]

\* drop_prefix_cache_entries.
DropPrefixCacheEntries(S) ==
    IF Capacity = 0 THEN S
    ELSE [S EXCEPT !.index = ClearIndex(@),
                   !.req = [r \in RequestIds |->
                                IF r \in LiveRequests(S) THEN [@[r] EXCEPT !.linked = FALSE]
                                                         ELSE @[r]]]

-----------------------------------------------------------------------------
(* Planning. *)

\* Requests select_candidates may pick: active ones with work left.
Ready(S) == {r \in LiveRequests(S) : S.req[r].state \in Active}

\* The most tokens select_candidates gives a request in one iteration.
WorkLimit(q) ==
    IF q.state = "decoding" THEN 1 ELSE Min({Len(q.prompt) - q.cursor, MaxChunk})

\* What select_candidates promises, whatever its policies: distinct ready
\* requests, a positive share of work for each, the token budget respected,
\* and some work whenever there is any (module CandidateSelection).
Selection(S, ids, tokens) ==
    /\ ids = <<>> <=> Ready(S) = {}
    /\ \A i \in DOMAIN ids : tokens[i] \in 1 .. WorkLimit(S.req[ids[i]])
    /\ SumOf(tokens) <= TokenBudget

\* The work item of a candidate: its target length, and whether it samples.
WorkItem(S, r, tokens) ==
    LET q      == S.req[r]
        decode == q.state = "decoding"
        target == IF decode THEN q.length + 1 ELSE q.cursor + tokens
    IN  [id |-> r, decode |-> decode, target |-> target, previous |-> q.state,
         output |-> decode \/ target = Len(q.prompt)]

\* Mutant: a plan does not evict.
EvictNothing(S, needed) == S

\* One turn of the eviction loop of prepare_plan.
EvictNext(S, needed) ==
    IF FreeBlocks(S) >= needed \/ ~CanEvict(S.index, HeldBlocks(S)) THEN S
    ELSE [S EXCEPT !.index = EvictOne(@, HeldBlocks(S))]

\* The loop frees an entry in every turn but the last.
EvictUntil(S, needed) ==
    LET turn[n \in 0 .. Capacity] == IF n = 0 THEN S ELSE EvictNext(turn[n - 1], needed)
    IN  turn[Capacity]

\* One turn of the reservation loop of prepare_plan.
Reserve(S, item) ==
    LET q      == S.req[item.id]
        needed == BlocksForLength(item.target) - BlocksForLength(TableLength(q))
    IN  [EvictUntil(S, needed) EXCEPT !.req[item.id].pending = item.target,
                                      !.inflight = Append(@, item)]

\* prepare_plan up to its first error or its end, for the first n candidates.
Prepare(S, ids, tokens, n) ==
    LET made[i \in 0 .. n] ==
            IF i = 0 THEN S ELSE Reserve(made[i - 1], WorkItem(S, ids[i], tokens[i]))
    IN  made[n]

\* reserve_to found fewer free blocks than it needs.
OutOfBlocks(S) == FreeBlocks(S) < 0

\* The working state of a request: work on a prompt, or on one more token.
Working(q) == [q EXCEPT !.state = IF @ = "decoding" THEN "decoding" ELSE "prefilling"]

\* The end of prepare_plan: requests of the plan move to their working state.
Dispatch(S) ==
    [S EXCEPT !.req = [r \in RequestIds |->
        IF r \in Inflight(S) THEN Working(@[r]) ELSE @[r]]]

\* Mutant: the plan is dropped and its reservations stay.
DropPrepared(S) == [S EXCEPT !.inflight = <<>>]

\* rollback_prepared_plan: reservations go, evictions stay.
RollbackPrepared(S) ==
    [S EXCEPT !.inflight = <<>>,
              !.req = [r \in RequestIds |-> [@[r] EXCEPT !.pending = 0]]]

\* What plan_iteration does before it selects.
Refreshed(S, expired) == AdoptCachedPrefixes(AdmitWaiting(ExpireWaiting(S, expired)))

-----------------------------------------------------------------------------
(* Settlement of the in-flight plan. *)

\* Every reservation of the plan is committed.
Committed(S) ==
    [S EXCEPT !.req = [r \in RequestIds |->
        IF r \in Inflight(S) THEN [@[r] EXCEPT !.length = S.req[r].pending, !.pending = 0]
                             ELSE @[r]]]

\* publish_committed_item; `stop` is the executor's verdict on its token.
Publish(S, item, stop) ==
    LET r    == item.id
        T    == IF item.decode THEN S
                ELSE PublishPromptBlocks([S EXCEPT !.req[r].cursor = item.target], r)
        more == [T EXCEPT !.req[r].generated = @ + 1, !.req[r].state = "decoding"]
    IN  CASE S.req[r].deferred -> Finish(S, r, "cancelled")
          [] ~S.req[r].deferred /\ ~item.output -> T
          [] ~S.req[r].deferred /\ item.output /\ stop -> Finish(more, r, "stop")
          [] OTHER -> IF more.req[r].generated = more.req[r].maxNew
                      THEN Finish(more, r, "length") ELSE more

\* complete_iteration after the commits: every item is published.
PublishAll(S, items, stops) ==
    LET turn[n \in 0 .. Len(items)] ==
            IF n = 0 THEN S ELSE Publish(turn[n - 1], items[n], items[n].id \in stops)
    IN  turn[Len(items)]

\* Mutant: the outbox is copied, not drained.
DeliverCopy(S) ==
    /\ sch' = [S EXCEPT !.suspect = @ \cap SharedBlocks(S)]
    /\ delivered' = [r \in RequestIds |->
                        delivered[r] + Cardinality({i \in DOMAIN S.outbox : S.outbox[i].id = r})]

\* The notifications of a scheduler's outbox reach the caller.
Deliver(S) ==
    /\ sch' = [S EXCEPT !.outbox = <<>>, !.suspect = @ \cap SharedBlocks(S)]
    /\ delivered' = [r \in RequestIds |->
                        delivered[r] + Cardinality({i \in DOMAIN S.outbox : S.outbox[i].id = r})]

\* ensure_completion_backlog_empty guards every mutating call.
Callable == phase = "open" /\ sch.outbox = <<>>

\* abort_iteration of work that never reached the device: each reservation is
\* rolled back, and a cancelled request ends now.
AbortItem(S, item) ==
    LET back == [S EXCEPT !.req[item.id].pending = 0]
    IN  IF S.req[item.id].deferred THEN Finish(back, item.id, "cancelled")
        ELSE [back EXCEPT !.req[item.id].state = item.previous]

AbortNotDispatched(S) ==
    LET items == S.inflight
        turn[n \in 0 .. Len(items)] ==
            IF n = 0 THEN [S EXCEPT !.inflight = <<>>] ELSE AbortItem(turn[n - 1], items[n])
    IN  turn[Len(items)]

\* abort_iteration after the device stopped with unknown memory contents.
AbortMutationUnknown(S) ==
    LET items == [i \in DOMAIN S.inflight |-> S.inflight[i].id]
        stop  == [S EXCEPT !.inflight = <<>>, !.suspect = SharedBlocks(S)]
    IN  FinishAll(DropPrefixCacheEntries(stop), items, "executor_failure")

\* Mutant: the index keeps its blocks.
ShutDownKeepingIndex(S) ==
    [FinishAll(S, Reverse(S.requests), "cancelled") EXCEPT !.accepting = FALSE]

\* shutdown, once nothing is in flight: requests end from the last one.
ShutDown(S) ==
    [DropPrefixCacheEntries(FinishAll(S, Reverse(S.requests), "cancelled")) EXCEPT
        !.accepting = FALSE]

\* The check close makes before it reports success.
Released(S) ==
    /\ AllocatedBlocks(S) = 0
    /\ S.active = 0 /\ S.promised = 0 /\ S.waitingTokens = 0
    /\ S.requests = <<>> /\ S.waiting = <<>> /\ S.inflight = <<>>

-----------------------------------------------------------------------------
(* Calls. *)

Init ==
    /\ sch = [req |-> [r \in RequestIds |-> NoRequest], next |-> 1, requests |-> <<>>,
              waiting |-> <<>>, waitingTokens |-> 0, active |-> 0, promised |-> 0,
              outbox |-> <<>>, inflight |-> <<>>, index |-> EmptyIndex, accepting |-> TRUE,
              suspect |-> {}]
    /\ delivered = [r \in RequestIds |-> 0]
    /\ phase = "open"

\* submit: admit at once, queue, or reject (which changes nothing).
Submit(prompt, maxNew) ==
    LET r      == sch.next
        maxLen == MaximumLogicalLength(prompt, maxNew)
        blocks == BlocksForLength(maxLen)
        now    == AdmitsAtOnce(sch, blocks)
        S      == [sch EXCEPT !.next = r + 1,
                              !.requests = Append(@, r),
                              !.req[r] = [NoRequest EXCEPT !.state = "waiting",
                                            !.prompt = prompt, !.maxNew = maxNew]]
    IN  /\ Callable /\ sch.accepting
        /\ r \in RequestIds
        /\ prompt # <<>> /\ maxNew > 0 /\ maxLen <= MaxSequenceTokens
        /\ blocks <= MaxPromised
        /\ now \/ /\ Overload = "wait"
                  /\ Len(sch.waiting) < MaxWaiting
                  /\ sch.waitingTokens + Len(prompt) <= MaxWaitingTokens
        /\ sch' = IF now THEN Admit(S, r)
                  ELSE [S EXCEPT !.waiting = Append(@, r), !.waitingTokens = @ + Len(prompt)]
        /\ UNCHANGED <<delivered, phase>>

\* plan_iteration: expire, admit, adopt, select, reserve.
PlanIteration(expired, ids, tokens) ==
    LET S == Refreshed(sch, expired)
        T == Prepare(S, ids, tokens, Len(ids))
    IN  /\ Callable /\ sch.inflight = <<>>
        /\ expired > 0 => Timeout
        /\ Selection(S, ids, tokens)
        /\ IF OutOfBlocks(T)
           THEN /\ sch' = RollbackPrepared(T)
                /\ phase' = "out_of_blocks"
                /\ UNCHANGED delivered
           ELSE /\ Deliver(Dispatch(T))
                /\ UNCHANGED phase

\* plan_iteration when the host cannot allocate the plan: what was expired
\* stays in the outbox, and what was evicted or adopted stays so.
PlanIterationFails(expired, ids, tokens, prepared) ==
    LET S == Refreshed(sch, expired)
    IN  /\ Callable /\ sch.inflight = <<>>
        /\ expired > 0 => Timeout
        /\ ids # <<>> /\ Selection(S, ids, tokens)
        /\ prepared <= Len(ids)
        /\ sch' = RollbackPrepared(Prepare(S, ids, tokens, prepared))
        /\ UNCHANGED <<delivered, phase>>

\* complete_iteration: commit every item, then publish every item.
CompleteIteration(stops) ==
    LET items == sch.inflight
    IN  /\ Callable /\ items # <<>>
        /\ Deliver(PublishAll([Committed(sch) EXCEPT !.inflight = <<>>], items, stops))
        /\ UNCHANGED phase

\* complete_iteration when the pool rejects a commit: that request is
\* reclaimed, and no request of the iteration publishes anything.
CompleteIterationFaulted(failed) ==
    LET ids  == [i \in DOMAIN sch.inflight |-> sch.inflight[i].id]
        lost == FinishThose([sch EXCEPT !.inflight = <<>>], ids, failed, "executor_failure")
    IN  /\ Callable /\ failed # {} /\ failed \subseteq Inflight(sch)
        /\ Deliver(FinishThose(lost, ids, Inflight(sch) \ failed, "executor_failure"))
        /\ UNCHANGED phase

AbortIteration(mutationUnknown) ==
    /\ Callable /\ sch.inflight # <<>>
    /\ Deliver(IF mutationUnknown THEN AbortMutationUnknown(sch) ELSE AbortNotDispatched(sch))
    /\ UNCHANGED phase

\* cancel: at once, or when the plan that carries the request settles.
Cancel(r) ==
    /\ Callable /\ r \in LiveRequests(sch)
    /\ ~sch.req[r].deferred
    /\ IF r \in Inflight(sch)
       THEN sch' = [sch EXCEPT !.req[r].deferred = TRUE] /\ UNCHANGED delivered
       ELSE Deliver(Finish(sch, r, "cancelled"))
    /\ UNCHANGED phase

PopPendingCompletion ==
    LET r == Head(sch.outbox).id
    IN  /\ phase = "open" /\ sch.outbox # <<>>
        /\ sch' = [sch EXCEPT !.outbox = Tail(@)]
        /\ delivered' = [delivered EXCEPT ![r] = @ + 1]
        /\ UNCHANGED phase

\* begin_shutdown; also all that shutdown and close do when they must refuse.
BeginShutdown ==
    /\ phase = "open" /\ sch.accepting
    /\ sch' = [sch EXCEPT !.accepting = FALSE]
    /\ UNCHANGED <<delivered, phase>>

Shutdown ==
    /\ Callable /\ sch.inflight = <<>>
    /\ Deliver(ShutDown(sch))
    /\ UNCHANGED phase

\* close: settle the plan as the caller says, shut down, check, consume.
Close(mutationUnknown) ==
    LET settled == IF sch.inflight = <<>> THEN sch
                   ELSE IF mutationUnknown THEN AbortMutationUnknown(sch)
                   ELSE AbortNotDispatched(sch)
        S       == ShutDown(settled)
    IN  /\ phase = "open"
        /\ Deliver(S)
        /\ phase' = IF Released(S) THEN "closed" ELSE "not_released"

Next ==
    \/ \E prompt \in Prompts, maxNew \in MaxNewTokens : Submit(prompt, maxNew)
    \/ \E expired \in 0 .. Len(sch.waiting) :
        \E ids \in SetToAllKPermutations(Ready(Refreshed(sch, expired))) :
        \E tokens \in [DOMAIN ids -> 1 .. MaxChunk] :
            \/ PlanIteration(expired, ids, tokens)
            \/ \E prepared \in 1 .. Len(ids) : PlanIterationFails(expired, ids, tokens, prepared)
    \/ \E stops \in SUBSET Inflight(sch) : CompleteIteration(stops)
    \/ \E failed \in SUBSET Inflight(sch) : CompleteIterationFaulted(failed)
    \/ \E mutationUnknown \in BOOLEAN : AbortIteration(mutationUnknown) \/ Close(mutationUnknown)
    \/ \E r \in RequestIds : Cancel(r)
    \/ PopPendingCompletion
    \/ BeginShutdown
    \/ Shutdown

Spec == Init /\ [][Next]_vars

-----------------------------------------------------------------------------
(* Properties. *)

InState(states) == {r \in RequestIds : sch.req[r].state \in states}

\* The three admission counters equal what the live requests add up to, through
\* every path that ends a request: no promise leaks and none is returned twice.
CountersExact ==
    /\ LiveRequests(sch) = InState(Active \cup {"waiting"})
    /\ ToSet(sch.waiting) = InState({"waiting"})
    /\ sch.active = Cardinality(InState(Active))
    /\ sch.promised = SumOf([r \in InState(Active) |-> Promise(sch.req[r])])
    /\ sch.waitingTokens = SumOf([r \in InState({"waiting"}) |-> Len(sch.req[r].prompt)])

\* "Blocks held by requests stay within their promises, and promises stay
\* within the pool" (docs/prefix-cache.md), reservations in flight included.
HeldWithinPromises ==
    /\ sch.promised <= MaxPromised
    /\ \A r \in InState(Active) : BlocksForLength(TableLength(sch.req[r])) <= Promise(sch.req[r])

\* "Admission never fails because of the cache": evicting makes enough room for
\* every reservation, so plan_iteration never runs out of blocks.
ReservationsAlwaysFit == phase # "out_of_blocks" /\ FreeBlocks(sch) >= 0

\* Admission control keeps its promises: no later submission, reservation or
\* cached prefix can take a block that an admitted request was promised.
PromisesKept == HeldWithinPromises /\ ReservationsAlwaysFit

\* A shared block in the table of a request holds the keys and values of that
\* request's own prompt up to that block, also after evictions, reuse of entry
\* ids, cancellations and a cleared index.
ReusedBlocksMatchPrompt ==
    \A r \in InState(Active) : \A i \in DOMAIN sch.req[r].shared :
        sch.req[r].shared[i].prefix = SubSeq(sch.req[r].prompt, 1, i * BlockSize)

\* While a request may still publish, its tip is the listed entry of its last
\* shared block, and the path to it lists exactly the blocks it holds.
TipsAreCurrent ==
    \A r \in InState(Active) : Capacity > 0 /\ sch.req[r].linked =>
        LET q    == sch.req[r]
            held == Len(q.shared)
            up   == Ancestors(sch.index, q.tip)
        IN  /\ held <= Capacity
            /\ \A n \in 0 .. held - 1 :
                   up[n] \in Listed(sch.index)
                       /\ sch.index.entries[up[n]].block = q.shared[held - n]
            /\ up[held] = Root

\* The trie is well formed: child counts, key uniqueness, recency and vacant
\* lists all agree with the listed entries, and every parent is listed.
IndexConsistent ==
    LET index == sch.index
        listed == Listed(index)
    IN  /\ \A id \in listed :
            /\ index.entries[id].parent \in listed \cup {Root}
            /\ index.entries[id].children =
                    Cardinality({c \in listed : index.entries[c].parent = id})
            /\ Find(index, index.entries[id].parent, index.entries[id].tokens) = {id}
        /\ ToSet(index.recency) = listed /\ Len(index.recency) = Cardinality(listed)
        /\ ToSet(index.vacant) = EntryIds \ listed
        /\ Len(index.vacant) + Len(index.recency) = Capacity

\* prefix_cache.rs: "an entry without children and without other holders always
\* exists while any entry without other holders does", so evict_one finds room.
UnheldEntryIsReachable ==
    (\E id \in Listed(sch.index) : sch.index.entries[id].block \notin HeldBlocks(sch))
        => CanEvict(sch.index, HeldBlocks(sch))

\* The prefix cache stays usable: the trie, the tips requests publish under and
\* the eviction order agree after every publication, eviction and drop.
CacheSound == IndexConsistent /\ TipsAreCurrent /\ UnheldEntryIsReachable

\* "A device failure cannot leak a stale prefix": a block that was shared when
\* the device failed is never listed again, so no later request can adopt it.
SuspectBlocksStayUnlisted == sch.suspect \cap ListedBlocks(sch.index) = {}

\* No request computes with keys and values of another prompt, or with some a
\* failed iteration may have left half written.
AdoptedPrefixesSound == ReusedBlocksMatchPrompt /\ SuspectBlocksStayUnlisted

\* Every request that ends is reported exactly once, now or from the outbox,
\* and no live request is reported.
NotifiedExactlyOnce ==
    \A r \in RequestIds :
        delivered[r] + Cardinality({i \in DOMAIN sch.outbox : sch.outbox[i].id = r})
            = IF r \in InState(Terminal) THEN 1 ELSE 0

\* A reservation is pending exactly for the requests of the plan in flight, and
\* a deferred cancellation waits for a plan that is still there to settle it.
PendingExactlyInflight ==
    \A r \in RequestIds :
        /\ sch.req[r].pending # 0 <=> r \in Inflight(sch)
        /\ sch.req[r].deferred => r \in Inflight(sch)

\* The committed cache length, the prompt cursor and the generated tokens of a
\* request tell the same story, and the generation bound is not reached early.
ProgressConsistent ==
    \A r \in InState(Active) :
        LET q == sch.req[r]
        IN  /\ q.length >= Len(q.shared) * BlockSize
            /\ q.generated < q.maxNew
            /\ IF q.state = "decoding"
               THEN /\ q.cursor = Len(q.prompt)
                    /\ q.generated > 0
                    /\ q.length = Len(q.prompt) + q.generated - 1
               ELSE /\ q.cursor = q.length
                    /\ q.cursor < Len(q.prompt)
                    /\ q.generated = 0

\* A request's state machine, the admission counters and the plan in flight agree
\* whatever order plans, completions, failures, cancellations and timeouts come in.
RequestsConsistent == CountersExact /\ PendingExactlyInflight /\ ProgressConsistent

\* "An idle server still reads zero": without live requests every allocated
\* block is a listed one, and a successful close has released them all.
NothingLeaks ==
    /\ phase # "not_released"
    /\ sch.requests = <<>> => AllocatedBlocks(sch) = Cardinality(Listed(sch.index))
    /\ phase = "closed" => \A r \in 1 .. sch.next - 1 : delivered[r] = 1

\* Admission is first come, first served: a request does not become active while
\* one submitted before it keeps waiting.
NoOvertaking ==
    [][\A r, later \in RequestIds :
        /\ r < later
        /\ sch.req[r].state = "waiting" /\ sch'.req[r].state = "waiting"
        /\ sch'.req[later].state \in Active
        => sch.req[later].state \in Active]_vars
=============================================================================
