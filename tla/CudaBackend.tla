----------------------------- MODULE CudaBackend -----------------------------
(* CudaBackend of riley-server/src/engine.rs: the EngineBackend that joins    *)
(* the scheduler, the executor and the generation state of every request, and *)
(* the dispatch of riley-scheduler/src/execution.rs below it.  One thread     *)
(* calls it, so an action is a call; what makes it hard is that a call does   *)
(* several things and any of them can fail, while the device may be running.  *)
(* The scheduler appears by what its calls answer (module Scheduler has the   *)
(* rest); the promises the engine relies on (module Engine) are checked here. *)
EXTENDS Integers, FiniteSets, Sequences, SequencesExt

CONSTANTS
    Requests,       \* engine ids, in admission order the scheduler's ids too
    Capacity,       \* request_capacity: live requests and terminal tombstones
    MaxNew,         \* max_new_tokens of every request
    MaxFaults       \* bound: things that fail

ASSUME CapacityAssumption == Capacity \in Nat \ {0} /\ MaxNew \in Nat \ {0}

VARIABLES
    mode,           \* configuration: iterations run in a decode graph; an audit sink exists
    live,           \* requests of the scheduler that have not ended
    tombs,          \* Scheduler::terminal, the most recent ones that ended
    inflight,       \* requests of the plan in flight
    committed,      \* tokens the scheduler has committed for each request
    open,           \* Scheduler is there (KV blocks are owned)
    device,         \* "idle", or "busy": work may still be running
    resources,      \* of the CUDA objects, those not yet closed
    entries,        \* CudaBackend::requests: engine id -> delivery state
    events,         \* what the calls that succeeded have returned, per request
    lost,           \* history: requests whose last token was only in events lost with an error
    phase,          \* the engine's view: "up", "failed", "closed", "broken"
    faults

vars == <<mode, live, tombs, inflight, committed, open, device, resources, entries, events, lost, phase, faults>>
schedulerVars == <<live, tombs, inflight, committed, open>>

Graph == mode.graph
Audit == mode.audit

\* The CUDA objects in the order close_resources closes them.
Objects == IF Graph THEN <<"graph", "timer", "stream", "context">>
           ELSE <<"executor", "timer", "stream", "context">>

Known == DOMAIN entries
Ended(r) == events[r] # <<>> /\ Last(events[r]).kind # "token"
Token(n) == [kind |-> "token", n |-> n]
Final(kind, n) == [kind |-> kind, n |-> n]

Fault == faults < MaxFaults /\ faults' = faults + 1

\* remember_terminal for the requests of seq, one after another.
Remember(seq) ==
    LET all == tombs \o seq
    IN  IF Len(all) > Capacity THEN SubSeq(all, Len(all) - Capacity + 1, Len(all)) ELSE all

\* Some order in which the requests of S end.
Orders(S) == SetToSeqs(S)

\* swap_remove of the entries whose completion is processed.
Without(S) == [r \in Known \ S |-> entries[r]]

\* The call succeeds and returns, for each request, these further events.
Returned(more) == events' = [r \in Requests |-> events[r] \o more[r]]
Nothing == [r \in Requests |-> <<>>]

-----------------------------------------------------------------------------
Init ==
    /\ mode \in [graph : BOOLEAN, audit : BOOLEAN]
    /\ live = {} /\ tombs = <<>> /\ inflight = {} /\ open = TRUE
    /\ committed = [r \in Requests |-> 0]
    /\ device = "idle" /\ resources = Range(Objects)
    /\ entries = << >> /\ events = [r \in Requests |-> <<>>] /\ lost = {}
    /\ phase = "up" /\ faults = 0

\* admit_tokenized: validation, then submit, then the entry.
Admit(r, ids) ==
    /\ phase = "up"
    /\ r \notin Known /\ events[r] = <<>> /\ \A q \in Requests : q < r => q \in Known \/ Ended(q)
    /\ Cardinality(live) < Capacity
    /\ live' = live \cup {r}
    /\ entries' = [q \in Known \cup {r} |->
                    IF q = r THEN [ids |-> ids, next |-> 0, prompt |-> ids]
                    ELSE entries[q]]
    /\ UNCHANGED <<tombs, inflight, committed, open, device, resources, events, lost, phase, faults>>

-----------------------------------------------------------------------------
(* Scheduler::cancel, and what CudaBackend::cancel makes of it.               *)

\* What the cancellation of r returns at once; a held back delta comes first.
CancelEvents(r, flush) ==
    (IF flush /\ ~entries[r].ids THEN <<Token(committed[r])>> ELSE <<>>)
        \o <<Final("cancelled", committed[r])>>

Cancel(r, flush) ==
    /\ phase = "up" /\ r \in Known
    /\ r \in live \ inflight
    /\ live' = live \ {r} /\ tombs' = Remember(<<r>>)
    /\ entries' = Without({r})
    /\ Returned([Nothing EXCEPT ![r] = CancelEvents(r, flush)])
    /\ UNCHANGED <<inflight, committed, open, device, resources, lost, phase, faults>>

-----------------------------------------------------------------------------
(* step: plan, execute, sample, commit, publish.                              *)

\* Requests that time out while they wait for admission leave with the plan.
TimedOut(expired) == [r \in Requests |-> IF r \in expired THEN <<Final("failed", 0)>> ELSE <<>>]

\* Nothing to run: only the completions of the planning.
StepWithoutPlan(expired) ==
    /\ phase = "up" /\ Known # {} /\ expired # {}
    /\ expired \subseteq {r \in live : committed[r] = 0}
    /\ live' = live \ expired
    /\ \E order \in Orders(expired) : tombs' = Remember(order)
    /\ entries' = Without(expired)
    /\ Returned(TimedOut(expired))
    /\ UNCHANGED <<inflight, committed, open, device, resources, lost, phase, faults>>

\* How dispatch can fail.  "not_dispatched": before the device got any work.
\* "quiesced": the stream was synchronized after the failure.  "unknown": it
\* could not be; a graph reports every failure of its execution that way.
Failures == IF Graph THEN {"not_dispatched", "unknown"} ELSE {"not_dispatched", "quiesced", "unknown"}

\* An error ends the engine's use of the backend, but for shutdown: it fails
\* every request itself, and the events of this call are lost.
Failed == phase' = "failed" /\ UNCHANGED events

\* abort_iteration after the device is quiet: the requests end as ExecutorFailure.
Poison(batch, expired) ==
    /\ inflight' = {}
    /\ live' = live \ (batch \cup expired)
    /\ \E order \in Orders(expired), later \in Orders(batch) : tombs' = Remember(order \o later)

\* Mutant: a failure without proven quiescence is settled like a quiesced one.
SettleUnproven(batch, expired, failure) ==
    /\ device' = IF failure = "unknown" THEN "busy" ELSE "idle"
    /\ Poison(batch, expired)
    /\ entries' = Without(batch \cup expired)
    /\ Returned([r \in Requests |-> IF r \in batch \cup expired
                                    THEN <<Final("failed", committed[r])>> ELSE <<>>])
    /\ UNCHANGED phase

\* settle_execution_failure, and the graph's branch of step: only a quiesced
\* failure is contained, its requests fail and the backend goes on.  A plan that
\* was not dispatched is rolled back; otherwise it stays in flight.
Settle(batch, expired, failure) ==
    \/ /\ failure = "quiesced"
       /\ UNCHANGED device
       /\ Poison(batch, expired)
       /\ entries' = Without(batch \cup expired)
       /\ Returned([r \in Requests |-> IF r \in batch \cup expired
                                       THEN <<Final("failed", committed[r])>> ELSE <<>>])
       /\ UNCHANGED phase
    \/ /\ failure # "quiesced"
       /\ device' = IF failure = "unknown" THEN "busy" ELSE "idle"
       /\ live' = live \ expired
       /\ inflight' = IF failure = "not_dispatched" /\ ~Graph THEN {} ELSE batch
       /\ \E order \in Orders(expired) : tombs' = Remember(order)
       /\ entries' = Without(expired)
       /\ Failed

\* The device fails the iteration, one way or another.
StepExecutionFails(batch, expired) ==
    /\ phase = "up" /\ inflight = {} /\ Fault
    /\ batch # {} /\ batch \subseteq live \ expired
    /\ expired \subseteq {r \in live : committed[r] = 0}
    /\ \E failure \in Failures : Settle(batch, expired, failure)
    /\ UNCHANGED <<committed, open, resources, lost>>

\* Mutant: the call returns what it has, without an error.
StepHostFailsQuietly(batch, expired) ==
    /\ phase = "up" /\ inflight = {} /\ Fault
    /\ batch # {} /\ batch \subseteq live \ expired
    /\ expired \subseteq {r \in live : committed[r] = 0}
    /\ Poison(batch, expired)
    /\ entries' = Without(expired)
    /\ Returned(TimedOut(expired))
    /\ UNCHANGED <<committed, open, device, resources, lost, phase>>

\* Sampling, workspace recovery, result construction, or the commit fails once
\* the device is done: the iteration is poisoned and its completions are dropped.
StepHostFails(batch, expired) ==
    /\ phase = "up" /\ inflight = {} /\ Fault
    /\ batch # {} /\ batch \subseteq live \ expired
    /\ expired \subseteq {r \in live : committed[r] = 0}
    /\ Poison(batch, expired)
    /\ entries' = Without(expired)
    /\ Failed
    /\ UNCHANGED <<committed, open, device, resources, lost>>

\* publish_committed_item ends a request that stopped or has all its tokens.
EndsNow(r, n, stops) == r \in stops \/ n = MaxNew

\* A commit that fails for one item fails the whole iteration, contained in the
\* scheduler: no token is committed, and the updates hold only completions.  A
\* configured audit then finds the tokens it staged uncovered and fails the call;
\* it staged none when every request of the batch is in the middle of its prompt.
StepCommitContained(batch, expired) ==
    /\ phase = "up" /\ inflight = {} /\ Fault
    /\ batch # {} /\ batch \subseteq live \ expired
    /\ expired \subseteq {r \in live : committed[r] = 0}
    /\ Poison(batch, expired)
    /\ \/ /\ Audit
          /\ Failed /\ entries' = Without(expired)
       \/ /\ Audit => \A r \in batch : committed[r] = 0
          /\ entries' = Without(batch \cup expired)
          /\ Returned([r \in Requests |-> IF r \in batch \cup expired
                                          THEN <<Final("failed", committed[r])>> ELSE <<>>])
          /\ UNCHANGED phase
    /\ UNCHANGED <<committed, open, device, resources, lost>>

\* The checks a committed token meets before it is returned with its index.
Deliverable(r) ==
    entries[r].ids =>
        /\ committed[r] = entries[r].next
        /\ (committed[r] = 0) = entries[r].prompt

\* The entry after a token of r was published.
Delivered(e) == IF e.ids THEN [e EXCEPT !.next = @ + 1, !.prompt = FALSE] ELSE e

\* process_completion of a request that finished: every token went out.
Complete(e, n) == e.ids => e.next = n /\ ~e.prompt

\* The iteration commits a token for every request in outputs (the others are in
\* the middle of their prompt); those that have all their tokens, or stopped, end.
Ending(outputs, stops) == {r \in outputs : EndsNow(r, committed[r] + 1, stops)}
Published(outputs) == [r \in Known |-> IF r \in outputs THEN Delivered(entries[r]) ELSE entries[r]]

Commit(batch, outputs, stops, expired) ==
    /\ phase = "up" /\ inflight = {}
    /\ batch # {} /\ batch \subseteq live \ expired
    /\ expired \subseteq {r \in live : committed[r] = 0}
    /\ {r \in batch : committed[r] > 0} \subseteq outputs /\ outputs \subseteq batch
    /\ stops \subseteq outputs
    /\ committed' = [r \in Requests |-> IF r \in outputs THEN committed[r] + 1 ELSE committed[r]]
    /\ live' = live \ (Ending(outputs, stops) \cup expired)
    /\ UNCHANGED <<inflight, open, device, resources>>

\* The tokens are published, then the completions processed.
StepCommits(batch, outputs, stops, expired) ==
    LET ends  == Ending(outputs, stops)
        after == Published(outputs)
    IN  /\ Commit(batch, outputs, stops, expired)
        /\ \E order \in Orders(expired), later \in Orders(ends) : tombs' = Remember(order \o later)
        /\ entries' = [r \in Known \ (ends \cup expired) |-> after[r]]
        /\ IF (\A r \in outputs : Deliverable(r)) /\ (\A r \in ends : Complete(after[r], committed'[r]))
           THEN /\ UNCHANGED phase
                /\ Returned([r \in Requests |->
                    TimedOut(expired)[r]
                    \o (IF r \in outputs THEN <<Token(committed[r])>> ELSE <<>>)
                    \o (IF r \in ends THEN <<Final("finished", committed[r] + 1)>> ELSE <<>>)])
           ELSE phase' = "broken" /\ UNCHANGED events
        /\ UNCHANGED <<lost, faults>>

\* The audit refuses the record of the i-th request that ended, after the commit:
\* the completions before it and its own are processed, which leaves the entries
\* of the later ones behind, and what the call had to tell of all of them is lost.
StepAuditFails(batch, outputs, stops, expired) ==
    LET ends  == Ending(outputs, stops)
        after == Published(outputs)
    IN  /\ Audit /\ Fault
        /\ Commit(batch, outputs, stops, expired)
        /\ \A r \in outputs : Deliverable(r)
        /\ \A r \in ends : Complete(after[r], committed'[r])
        /\ \E order \in Orders(expired), later \in Orders(ends) :
            /\ tombs' = Remember(order \o later)
            /\ \E i \in DOMAIN later :
                entries' = [r \in Known \ (expired \cup {later[j] : j \in 1 .. i}) |-> after[r]]
        /\ Failed
        /\ lost' = outputs

-----------------------------------------------------------------------------
(* shutdown and close_resources.                                              *)

\* The requests that the cancellations of shutdown end; one in flight is only
\* marked, and for one that ended while its entry stayed nothing happens.
Cancellable == Known \cap (live \ inflight)

\* A request the scheduler knows nothing of any more, neither as live nor as
\* tombstone, fails the cancellation (SchedulerError::UnknownRequest).
Forgotten(order) == {r \in Known \ live : r \notin Range(Remember(order))}

\* What close_resources may meet: the objects whose close fails, and whether the
\* stream synchronizes for the plan in flight and once more before it is closed.
Closings == [failed : SUBSET (Range(Objects) \cup {"scheduler"}), quiesce : BOOLEAN, drain : BOOLEAN]

Mishaps(c) ==
    Cardinality(c.failed) + (IF c.quiesce THEN 0 ELSE 1) + (IF c.drain THEN 0 ELSE 1)

\* A graph that does not close keeps everything else.  The scheduler, and with
\* it the KV blocks, goes only when nothing is in flight or the stream is quiet;
\* the other objects go whatever happened before.
CloseResources(c) ==
    LET graphFails == "graph" \in c.failed
        settled    == ~graphFails /\ (inflight = {} \/ c.quiesce)
        quiet      == ~graphFails /\ (Graph \/ (inflight # {} /\ c.quiesce) \/ c.drain)
    IN  /\ open' = ~settled
        /\ inflight' = IF settled THEN {} ELSE inflight
        /\ live' = IF settled THEN {} ELSE live \ Cancellable
        /\ resources' = IF graphFails THEN resources \ {"graph"} ELSE {}
        /\ device' = IF quiet THEN "idle" ELSE device

\* shutdown: every request is cancelled, then the resources are closed.  The
\* events are lost with an error.
Shutdown(order, flush, c) ==
    /\ phase \in {"up", "failed"}
    /\ faults' = faults + Mishaps(c) /\ faults' <= MaxFaults
    /\ inflight = {} => c.quiesce
    /\ "graph" \in c.failed => Mishaps(c) = 1
    /\ \/ /\ Forgotten(order) # {}
          /\ phase' = "broken"
          /\ UNCHANGED <<schedulerVars, device, resources, entries, events>>
       \/ /\ Forgotten(order) = {}
          /\ CloseResources(c)
          /\ tombs' = Remember(order)
          /\ entries' = Without(Cancellable)
          /\ IF Mishaps(c) = 0
             THEN /\ phase' = "closed"
                  /\ Returned([r \in Requests |->
                        IF r \in Cancellable THEN CancelEvents(r, r \in flush) ELSE <<>>])
             ELSE phase' = "close_failed" /\ UNCHANGED events
    /\ UNCHANGED <<committed, lost>>

Next ==
    \/ \E r \in Requests : \/ \E ids \in BOOLEAN : Admit(r, ids)
                           \/ \E flush \in BOOLEAN : Cancel(r, flush)
    \/ \E expired \in SUBSET live :
        \/ StepWithoutPlan(expired)
        \/ \E batch \in SUBSET live :
            \/ StepExecutionFails(batch, expired)
            \/ StepHostFails(batch, expired)
            \/ StepCommitContained(batch, expired)
            \/ \E outputs \in SUBSET batch : \E stops \in SUBSET outputs :
                \/ StepCommits(batch, outputs, stops, expired)
                \/ StepAuditFails(batch, outputs, stops, expired)
    \/ \E order \in Orders(Cancellable), flush \in SUBSET Cancellable, c \in Closings :
        Shutdown(order, flush, c)

Spec == Init /\ [][Next /\ UNCHANGED mode]_vars

-----------------------------------------------------------------------------
\* The KV blocks of what the device may still be running are owned: whichever
\* call failed, and also while shutdown fails half way, the plan stays in flight
\* and its requests in the scheduler until the stream or the graph is proven
\* quiet; a shutdown that succeeds leaves nothing running and nothing open.
KvOutlivesDevice ==
    /\ device = "busy" => open /\ inflight # {} /\ inflight \subseteq live
    /\ phase = "closed" => device = "idle" /\ ~open /\ resources = {}

\* What trait EngineBackend promises the engine.  While the backend is up, it has
\* an entry for exactly the requests the scheduler will run or end, so is_idle is
\* true only when nothing is left and nobody waits for an event that never comes;
\* a request's events are its committed tokens in order, each once, then one
\* terminal event whose usage counts them, at most one flushed delta between.
\* A call that failed may have lost the one token it had just committed for a
\* request, never one of an earlier call: the backend is not up any more, and all
\* that can follow is the cancellation of shutdown, whose usage (and flushed
\* delta) still counts that token; the engine has failed the request by then.
\* No internal consistency check of step, completion or shutdown ever fails.
ContractKept ==
    /\ phase # "broken"
    /\ phase = "up" => Known = live /\ lost = {} /\ \A r \in Known : Len(events[r]) = committed[r]
    /\ phase = "closed" /\ faults = 0 => Known = {}
    /\ \A r \in Requests : \A i \in DOMAIN events[r] :
        LET e == events[r][i]
            missing == IF r \in lost THEN 1 ELSE 0
        IN  IF e.kind = "token"
            THEN e.n = i - 1 \/ (r \in lost /\ e.n = i /\ i = committed[r])
            ELSE /\ i = Len(events[r])
                 /\ r \in lost => e.kind = "cancelled"
                 /\ e.n = committed[r]
                 /\ e.n = i - 1 + missing \/ (e.kind = "cancelled" /\ e.n = i - 2 + missing)
=============================================================================
