------------------------------- MODULE Engine -------------------------------
(***************************************************************************)
(* The inference engine of riley-server (engine.rs): submitting threads, a *)
(* bounded command queue, one worker thread that owns the backend, and a   *)
(* bounded event channel per request.  Requests are cancelled through an   *)
(* atomic flag each, and the lifecycle is an atomic that every thread      *)
(* reads.                                                                  *)
(*                                                                         *)
(* A step is an access to state that two threads share, with the local     *)
(* work around it; accesses whose order no other thread can tell apart are *)
(* one step.  The worker publishes one event per step, since a consumer    *)
(* may read between any two.  Events of different requests are published   *)
(* in any order, those of one request in their own; token deltas without   *)
(* text are no events.                                                     *)
(*                                                                         *)
(* The backend is what trait EngineBackend promises: it knows the requests *)
(* it works on, a step commits tokens and ends requests, and every request *)
(* it stops working on gets one terminal event.  A call that fails keeps   *)
(* its requests here.  The real one may have ended some and lost what it   *)
(* had to tell; the worker has failed every request by then and passes on  *)
(* nothing of the backend any more, so nobody sees the difference.         *)
(* Module Scheduler checks the promise as NotifiedExactlyOnce, module      *)
(* CudaBackend, with the device in it and lost events, as ContractKept.    *)
(***************************************************************************)
EXTENDS Integers, Sequences, FiniteSets

CONSTANTS
    Requests,           \* one submitting thread each
    Wake,               \* Command::Wake, and Command::Metrics: nothing but a place in the queue
    QueueCapacity,      \* command_queue_capacity
    EventCapacity,      \* event_channel_capacity
    MaxInflight,        \* max_inflight_requests
    PublishAfterSubmit, \* the values of publish_after_submit an engine may have
    CounterRange,       \* values of the usize waiting_requests (2^64 in the code)
    MaxTokens,          \* bound: tokens the backend commits for a request
    MaxFaults           \* bound: backend calls that fail

\* EngineConfig::validate.
ASSUME ConfigAssumption ==
    /\ {QueueCapacity, EventCapacity, MaxInflight, CounterRange} \subseteq Nat \ {0}
    /\ {MaxTokens, MaxFaults} \subseteq Nat
    /\ PublishAfterSubmit \subseteq BOOLEAN
    /\ Wake \notin Requests
    /\ IsFiniteSet(Requests) /\ Cardinality(Requests) < CounterRange

VARIABLES
    lifecycle,  \* Lifecycle::state
    queue,      \* the command channel: request ids and Wake
    receiver,   \* FALSE once the worker dropped the receiving end of it
    waiting,    \* EngineStats::waiting_requests
    flag,       \* the cancellation AtomicU8 of every request
    stream,     \* all events its channel ever took, per request
    read,       \* how many of them the consumer has received
    admitted,   \* the answer in the admission channel
    client,     \* where the thread of the request is
    engine,     \* TRUE while an InferenceEngine handle exists
    caller,     \* the thread that calls shutdown
    requests,   \* the worker's map of RequestControls
    work,       \* requests the backend works on
    produced,   \* tokens the backend has committed for each
    outbox,     \* events staged for delivery after the next submission
    worker,     \* program counter and local variables of worker_main
    faults      \* backend calls that have failed

clientVars == <<client, engine, caller>>
sharedVars == <<lifecycle, queue, receiver, waiting, flag, stream, read, admitted>>
workerVars == <<requests, work, produced, outbox, worker, faults>>
vars == <<clientVars, sharedVars, workerVars>>

\* A token event carries its position, a terminal one the number of tokens
\* committed (completion_tokens of its usage).
Event(r, kind, n) == [id |-> r, kind |-> kind, n |-> n]
Terminal(r, kind) == Event(r, kind, produced[r])
IsTerminal(e) == e.kind # "token"

\* What a channel carries of an event: its request is the channel's.
Payload(e) == [kind |-> e.kind, n |-> e.n]

\* e is the first event of its request in S.
First(e, S) ==
    \A f \in S : f.id = e.id /\ f # e => IsTerminal(f) \/ (~IsTerminal(e) /\ e.n < f.n)

-----------------------------------------------------------------------------
(* Channels. *)

\* The consumer's end of the event channel exists from submit on, until the
\* submitter gives up or the handle is dropped.
Listening(r) == client[r] \in {"counted", "awaiting", "late", "streaming", "ended"}

\* try_send on the event channel of r succeeds.
Room(r) == Listening(r) /\ Len(stream[r]) - read[r] < EventCapacity

\* stream after try_send of e.
Sent(e) == IF Room(e.id) THEN [stream EXCEPT ![e.id] = Append(@, Payload(e))] ELSE stream

Queued(r) == \E i \in DOMAIN queue : queue[i] = r

\* Somebody still owns a sender of r's event channel: its command, the map of
\* the worker or a staged event.
SenderAlive(r) == Queued(r) \/ r \in requests \/ \E e \in outbox : e.id = r

\* Command::Wake is sent if there is room for it.
SendWake ==
    queue' = IF receiver /\ Len(queue) < QueueCapacity THEN Append(queue, Wake) ELSE queue

\* Nobody can send a command any more: no engine, no handle.
NoSenders == ~engine /\ \A r \in Requests : client[r] \in {"idle", "done"}

\* fetch_add and fetch_sub wrap around.
Incremented(n) == (n + 1) % CounterRange
Decremented(n) == (n - 1) % CounterRange

-----------------------------------------------------------------------------
(* The submitting and consuming thread of request r. *)

At(r, here) == client[r] = here
Goto(r, there) == client' = [client EXCEPT ![r] = there]

\* submit finds the engine ready; otherwise it fails and nothing happens.
SubmitCheck(r) ==
    /\ At(r, "idle") /\ engine /\ lifecycle = "ready"
    /\ Goto(r, "checked")
    /\ UNCHANGED <<engine, caller, sharedVars, workerVars>>

SubmitCount(r) ==
    /\ At(r, "checked")
    /\ waiting' = Incremented(waiting)
    /\ Goto(r, "counted")
    /\ UNCHANGED <<engine, caller, lifecycle, queue, receiver, flag, stream, read, admitted,
                   workerVars>>

\* try_send of the command: Full and Disconnected take the count back.
SubmitSend(r) ==
    /\ At(r, "counted")
    /\ IF receiver /\ Len(queue) < QueueCapacity
       THEN queue' = Append(queue, r) /\ Goto(r, "awaiting")
       ELSE UNCHANGED queue /\ Goto(r, "undo")
    /\ UNCHANGED <<engine, caller, lifecycle, receiver, waiting, flag, stream, read, admitted,
                   workerVars>>

SubmitUndo(r) ==
    /\ At(r, "undo")
    /\ waiting' = Decremented(waiting)
    /\ Goto(r, "done")
    /\ UNCHANGED <<engine, caller, lifecycle, queue, receiver, flag, stream, read, admitted,
                   workerVars>>

\* recv_timeout on the admission channel: the answer, or Disconnected when the
\* command was dropped without one.
SubmitAnswered(r) ==
    /\ At(r, "awaiting")
    /\ \/ admitted[r] = "ok" /\ Goto(r, "streaming")
       \/ admitted[r] = "refused" /\ Goto(r, "done")
       \/ admitted[r] = "none" /\ ~Queued(r) /\ Goto(r, "done")
    /\ UNCHANGED <<engine, caller, sharedVars, workerVars>>

\* recv_timeout gives up; the store of the flag is a step of its own.
SubmitTimeout(r) ==
    /\ At(r, "awaiting") /\ admitted[r] = "none"
    /\ Goto(r, "late")
    /\ UNCHANGED <<engine, caller, sharedVars, workerVars>>

\* The plain store also overwrites what the worker stored meanwhile.
SubmitAbandon(r) ==
    /\ At(r, "late")
    /\ flag' = [flag EXCEPT ![r] = "cancelled"]
    /\ SendWake
    /\ Goto(r, "done")
    /\ UNCHANGED <<engine, caller, lifecycle, receiver, waiting, stream, read, admitted,
                   workerVars>>

\* recv: the consumer stops after a terminal event.
Recv(r) ==
    /\ At(r, "streaming") /\ read[r] < Len(stream[r])
    /\ read' = [read EXCEPT ![r] = @ + 1]
    /\ IF IsTerminal(stream[r][read[r] + 1]) THEN Goto(r, "ended") ELSE UNCHANGED client
    /\ UNCHANGED <<engine, caller, lifecycle, queue, receiver, waiting, flag, stream, admitted,
                   workerVars>>

RecvDisconnected(r) ==
    /\ At(r, "streaming") /\ read[r] = Len(stream[r]) /\ ~SenderAlive(r)
    /\ Goto(r, "ended")
    /\ UNCHANGED <<engine, caller, sharedVars, workerVars>>

\* EngineCancellation::cancel, and Wake if the queue has room.
CancelFlag(r) ==
    /\ flag' = [flag EXCEPT ![r] = IF @ = "live" THEN "cancelled" ELSE @]
    /\ SendWake
    /\ UNCHANGED <<engine, caller, lifecycle, receiver, waiting, stream, read, admitted,
                   workerVars>>

\* cancel through the handle, or a clone of it; a second one changes nothing.
Cancel(r) == At(r, "streaming") /\ flag[r] = "live" /\ CancelFlag(r) /\ UNCHANGED client

\* Drop of the handle, at any time.
DropHandle(r) == client[r] \in {"streaming", "ended"} /\ CancelFlag(r) /\ Goto(r, "done")

-----------------------------------------------------------------------------
(* The owner of the engine. *)

\* start gives up on a worker that takes too long: begin_shutdown changes
\* nothing before the worker is ready, and the only handle is dropped.
StartTimeout ==
    /\ engine /\ lifecycle = "starting"
    /\ engine' = FALSE
    /\ SendWake
    /\ UNCHANGED <<client, caller, lifecycle, receiver, waiting, flag, stream, read, admitted,
                   workerVars>>

\* shutdown: begin_shutdown, then wait_until and join.
BeginShutdown ==
    /\ engine /\ lifecycle # "starting" /\ caller = "idle"
    /\ lifecycle' = IF lifecycle = "ready" THEN "draining" ELSE lifecycle
    /\ SendWake
    /\ caller' = "waiting"
    /\ UNCHANGED <<client, engine, receiver, waiting, flag, stream, read, admitted, workerVars>>

ShutdownReturns ==
    /\ caller = "waiting"
    /\ \/ lifecycle = "stopped" /\ worker.pc = "gone" /\ caller' = "ok"
       \/ lifecycle = "failed" /\ worker.pc = "gone" /\ caller' = "failed"
       \/ lifecycle \notin {"stopped", "failed"} /\ caller' = "timeout"
    /\ UNCHANGED <<client, engine, sharedVars, workerVars>>

\* metrics_snapshot queues a command that the worker answers at once.
MetricsSnapshot ==
    /\ engine /\ lifecycle = "ready"
    /\ SendWake
    /\ UNCHANGED <<clientVars, lifecycle, receiver, waiting, flag, stream, read, admitted,
                   workerVars>>

\* The last InferenceEngine goes; no thread is inside one of its methods.
DropEngine ==
    /\ engine /\ lifecycle # "starting" /\ caller # "waiting"
    /\ \A r \in Requests : client[r] \in {"idle", "streaming", "ended", "done"}
    /\ engine' = FALSE
    /\ UNCHANGED <<client, caller, sharedVars, workerVars>>

-----------------------------------------------------------------------------
(* The worker thread. *)

WorkerAt(pc) == worker.pc = pc
WorkerGoto(pc) == worker' = [worker EXCEPT !.pc = pc]

\* deliver_staged_events or publish_events, and where the worker goes after it.
Flush(then) == worker' = [worker EXCEPT !.pc = "flush", !.then = then]
FlushFirst(pc) == IF worker.staging THEN Flush(pc) ELSE WorkerGoto(pc)

\* A backend call fails.
Fault == faults < MaxFaults /\ faults' = faults + 1

\* Every request in DOMAIN kinds gets its terminal event and leaves the map.
End(kinds) ==
    /\ stream' = [r \in Requests |->
                    IF r \in DOMAIN kinds /\ Room(r)
                    THEN Append(stream[r], Payload(Terminal(r, kinds[r]))) ELSE stream[r]]
    /\ flag' = [r \in Requests |-> IF r \in DOMAIN kinds THEN "terminal" ELSE flag[r]]
    /\ requests' = requests \ DOMAIN kinds

FailRemaining == End([r \in requests |-> "failed"])

\* The backend is built by the factory, on this thread.
WorkerStart ==
    /\ WorkerAt("starting")
    /\ \/ lifecycle' = "ready" /\ WorkerGoto("top") /\ UNCHANGED faults
       \/ Fault /\ lifecycle' = "failed" /\ WorkerGoto("return")
    /\ UNCHANGED <<clientVars, queue, receiver, waiting, flag, stream, read, admitted,
                   requests, work, produced, outbox>>

Top ==
    /\ WorkerAt("top")
    /\ IF lifecycle = "draining" THEN FlushFirst("reject")
       ELSE worker' = [worker EXCEPT !.pc = "cancel", !.received = FALSE]
    /\ UNCHANGED <<clientVars, sharedVars, requests, work, produced, outbox, faults>>

\* Requests whose cancellation process_cancellations claims.
Cancelled == {r \in requests : flag[r] = "cancelled"}

\* Mutant: the terminal event of a cancelled request is left out.
ProcessCancellationsSilently ==
    /\ worker.pc \in {"cancel", "recheck"}
    /\ flag' = [r \in Requests |-> IF r \in Cancelled THEN "cancelling" ELSE flag[r]]
    /\ work' = work \ Cancelled
    /\ WorkerGoto(IF WorkerAt("recheck") /\ lifecycle = "draining" THEN "top" ELSE "command")
    /\ UNCHANGED <<clientVars, lifecycle, queue, receiver, waiting, stream, read, admitted,
                   requests, produced, outbox, faults>>

\* process_cancellations, before the commands and after each.
ProcessCancellations ==
    /\ worker.pc \in {"cancel", "recheck"}
    /\ End([r \in Cancelled |-> "cancelled"])
    /\ work' = work \ Cancelled
    /\ WorkerGoto(IF WorkerAt("recheck") /\ lifecycle = "draining" THEN "top" ELSE "command")
    /\ UNCHANGED <<clientVars, lifecycle, queue, receiver, waiting, read, admitted,
                   produced, outbox, faults>>

\* The backend fails to cancel a request: those before it are cancelled, all
\* others fail.
CancellationFails ==
    /\ worker.pc \in {"cancel", "recheck"}
    /\ Fault
    /\ \E done \in SUBSET Cancelled \ {Cancelled} :
          /\ End([r \in requests |-> IF r \in done THEN "cancelled" ELSE "failed"])
          /\ work' = work \ done
    /\ lifecycle' = "draining"
    /\ worker' = [worker EXCEPT !.pc = "top", !.failed = TRUE]
    /\ UNCHANGED <<clientVars, queue, receiver, waiting, read, admitted, produced, outbox>>

\* process_command accepts r; the backend may still refuse it.
Admissible(r) ==
    lifecycle = "ready" /\ flag[r] = "live" /\ Cardinality(requests) < MaxInflight

Admit(r) ==
    /\ Admissible(r)
    /\ requests' = requests \union {r}
    /\ work' = work \union {r}
    /\ admitted' = [admitted EXCEPT ![r] = "ok"]

Refuse(r) == admitted' = [admitted EXCEPT ![r] = "refused"] /\ UNCHANGED <<requests, work>>

ProcessCommand ==
    /\ queue # <<>>
    /\ queue' = Tail(queue)
    /\ LET r == Head(queue) IN
          \/ r = Wake /\ UNCHANGED <<waiting, requests, work, admitted>>
          \/ /\ r # Wake
             /\ waiting' = Decremented(waiting)
             /\ Admit(r) \/ Refuse(r)

TakeCommand ==
    /\ WorkerAt("command")
    /\ ProcessCommand
    /\ worker' = [worker EXCEPT !.pc = "recheck", !.received = TRUE]
    /\ UNCHANGED <<clientVars, lifecycle, receiver, flag, stream, read, produced, outbox, faults>>

\* try_recv finds no command: the worker drains, steps the backend or idles.
NoCommand ==
    /\ WorkerAt("command") /\ queue = <<>>
    /\ lifecycle' = IF NoSenders THEN "draining" ELSE lifecycle
    /\ WorkerGoto(IF lifecycle' = "draining" THEN "top"
                  ELSE IF work # {} THEN "step"
                  ELSE IF worker.received THEN "top" ELSE "idle")
    /\ UNCHANGED <<clientVars, queue, receiver, waiting, flag, stream, read, admitted,
                   requests, work, produced, outbox, faults>>

\* recv_timeout: a command, Disconnected, or nothing within idle_poll_interval.
IdleCommand ==
    /\ WorkerAt("idle")
    /\ ProcessCommand
    /\ WorkerGoto("top")
    /\ UNCHANGED <<clientVars, lifecycle, receiver, flag, stream, read, produced, outbox, faults>>

IdleTimeout ==
    /\ WorkerAt("idle") /\ queue = <<>>
    /\ lifecycle' = IF NoSenders THEN "draining" ELSE lifecycle
    /\ WorkerGoto("top")
    /\ UNCHANGED <<clientVars, queue, receiver, waiting, flag, stream, read, admitted,
                   requests, work, produced, outbox, faults>>

\* Events of a step that takes every request r to upto[r] tokens and ends those
\* in DOMAIN ends.
StepEvents(upto, ends) ==
    (UNION {{Event(r, "token", n) : n \in produced[r] + 1 .. upto[r]} : r \in work})
    \union {Event(r, ends[r], upto[r]) : r \in DOMAIN ends}

\* backend.step: a request finishes with a token, it fails without one.
Step ==
    /\ WorkerAt("step")
    /\ \E upto \in [work -> 0..MaxTokens], ended \in SUBSET work :
       \E ends \in [ended -> {"finished", "failed"}] :
          /\ \A r \in work : upto[r] >= produced[r]
          /\ \A r \in ended : ends[r] = "finished" <=> upto[r] > produced[r]
          /\ produced' = [r \in Requests |-> IF r \in work THEN upto[r] ELSE produced[r]]
          /\ work' = work \ ended
          /\ worker' = [worker EXCEPT !.batch = StepEvents(upto, ends),
                                      !.pc = IF worker.staging THEN "flush" ELSE "publish",
                                      !.then = IF worker.staging THEN "stage" ELSE "top"]
    /\ UNCHANGED <<clientVars, sharedVars, requests, outbox, faults>>

StepFails ==
    /\ WorkerAt("step")
    /\ Fault
    /\ FlushFirst("abort")
    /\ UNCHANGED <<clientVars, sharedVars, requests, work, produced, outbox>>

Abort ==
    /\ WorkerAt("abort")
    /\ FailRemaining
    /\ lifecycle' = "draining"
    /\ worker' = [worker EXCEPT !.pc = "top", !.failed = TRUE]
    /\ UNCHANGED <<clientVars, queue, receiver, waiting, read, admitted, work, produced, outbox,
                   faults>>

\* try_send of e; a terminal event settles the flag, a token that does not fit
\* claims the cancellation of its request.
TrySend(e) ==
    /\ stream' = Sent(e)
    /\ flag' = [flag EXCEPT ![e.id] =
                  IF IsTerminal(e) THEN "terminal"
                  ELSE IF ~Room(e.id) /\ @ = "live" THEN "cancelling" ELSE @]

\* The requests for slow_consumers after TrySend(e).
SlowAfter(e) ==
    worker.slow \union
        {r \in {e.id} : ~IsTerminal(e) /\ ~Room(r) /\ flag[r] = "live"}

\* Mutant: a token is sent whatever its request's flag says.
PublishToCancelled(e) ==
    /\ WorkerAt("publish")
    /\ e \in worker.batch /\ First(e, worker.batch)
    /\ worker' = [worker EXCEPT !.batch = @ \ {e},
                                !.slow = IF e.id \in requests THEN SlowAfter(e) ELSE @]
    /\ IF e.id \notin requests THEN UNCHANGED <<stream, flag>> ELSE TrySend(e)
    /\ requests' = IF IsTerminal(e) THEN requests \ {e.id} ELSE requests
    /\ UNCHANGED <<clientVars, lifecycle, queue, receiver, waiting, read, admitted,
                   work, produced, outbox, faults>>

\* No token is published for a request that is being cancelled, nothing for one
\* that is gone.
SkipsPublish(e) ==
    \/ e.id \notin requests
    \/ ~IsTerminal(e) /\ flag[e.id] \in {"cancelled", "cancelling"}

\* One event of publish_events.
Publish(e) ==
    /\ WorkerAt("publish")
    /\ e \in worker.batch /\ First(e, worker.batch)
    /\ worker' = [worker EXCEPT !.batch = @ \ {e},
                                !.slow = IF SkipsPublish(e) THEN @ ELSE SlowAfter(e)]
    /\ IF SkipsPublish(e) THEN UNCHANGED <<stream, flag>> ELSE TrySend(e)
    /\ requests' = IF IsTerminal(e) THEN requests \ {e.id} ELSE requests
    /\ UNCHANGED <<clientVars, lifecycle, queue, receiver, waiting, read, admitted,
                   work, produced, outbox, faults>>

\* Mutant: a staged token is sent whatever its request's flag says.
DeliverToCancelled(e) ==
    /\ WorkerAt("flush")
    /\ e \in outbox /\ First(e, outbox)
    /\ outbox' = outbox \ {e}
    /\ worker' = [worker EXCEPT !.slow = SlowAfter(e)]
    /\ TrySend(e)
    /\ UNCHANGED <<clientVars, lifecycle, queue, receiver, waiting, read, admitted,
                   requests, work, produced, faults>>

SkipsDelivery(e) == ~IsTerminal(e) /\ flag[e.id] # "live"

\* One event of deliver_staged_events.  The submit hook delivers inside
\* backend.step and flush_staged_events after it; neither reads the backend, so
\* the model delivers after.
Deliver(e) ==
    /\ WorkerAt("flush")
    /\ e \in outbox /\ First(e, outbox)
    /\ outbox' = outbox \ {e}
    /\ worker' = [worker EXCEPT !.slow = IF SkipsDelivery(e) THEN @ ELSE SlowAfter(e)]
    /\ IF SkipsDelivery(e) THEN UNCHANGED <<stream, flag>> ELSE TrySend(e)
    /\ UNCHANGED <<clientVars, lifecycle, queue, receiver, waiting, read, admitted,
                   requests, work, produced, faults>>

\* After the last event the slow consumers are cancelled.  One that the backend
\* fails to cancel leaves the map while the backend keeps it.
CancelSlow ==
    /\ \/ WorkerAt("publish") /\ worker.batch = {}
       \/ WorkerAt("flush") /\ outbox = {}
    /\ LET slow == worker.slow \cap requests \cap work IN
       \E bad \in SUBSET slow :
          /\ faults' = faults + Cardinality(bad) /\ faults' <= MaxFaults
          /\ End([r \in slow |-> IF r \in bad THEN "failed" ELSE "cancelled"])
          /\ work' = work \ (slow \ bad)
    /\ worker' = [worker EXCEPT !.pc = worker.then, !.then = "top", !.slow = {}]
    /\ UNCHANGED <<clientVars, lifecycle, queue, receiver, waiting, read, admitted,
                   produced, outbox>>

\* stage_events: a request leaves the map with its terminal event.
Stage ==
    /\ WorkerAt("stage")
    /\ outbox' = {e \in worker.batch : e.id \in requests}
    /\ requests' = requests \ {e.id : e \in {f \in worker.batch : IsTerminal(f)}}
    /\ worker' = [worker EXCEPT !.pc = IF work = {} THEN "flush" ELSE "top", !.then = "top",
                                !.batch = {}]
    /\ UNCHANGED <<clientVars, sharedVars, work, produced, faults>>

\* reject_pending_commands.
Reject ==
    /\ WorkerAt("reject") /\ queue # <<>>
    /\ queue' = Tail(queue)
    /\ LET r == Head(queue) IN
          IF r = Wake THEN UNCHANGED <<waiting, admitted>>
          ELSE /\ waiting' = Decremented(waiting)
               /\ admitted' = [admitted EXCEPT ![r] = "refused"]
    /\ UNCHANGED <<clientVars, lifecycle, receiver, flag, stream, read, workerVars>>

\* backend.shutdown cancels what is left; a request may have text to flush.
Close ==
    /\ WorkerAt("reject") /\ queue = <<>>
    /\ \E tails \in SUBSET work :
          worker' = [worker EXCEPT !.pc = "publish", !.then = "drop",
                                   !.batch = {Event(r, "token", produced[r] + 1) : r \in tails}
                                             \union {Terminal(r, "cancelled") : r \in work}]
    /\ work' = {}
    /\ UNCHANGED <<clientVars, sharedVars, requests, produced, outbox, faults>>

CloseFails ==
    /\ WorkerAt("reject") /\ queue = <<>>
    /\ Fault
    /\ worker' = [worker EXCEPT !.pc = "drop", !.failed = TRUE]
    /\ UNCHANGED <<clientVars, sharedVars, requests, work, produced, outbox>>

Drop ==
    /\ WorkerAt("drop")
    /\ FailRemaining
    /\ WorkerGoto("exit")
    /\ UNCHANGED <<clientVars, lifecycle, queue, receiver, waiting, read, admitted,
                   work, produced, outbox, faults>>

\* waiting_requests is reset, with submitters still running.
Exit ==
    /\ WorkerAt("exit")
    /\ waiting' = 0
    /\ WorkerGoto("store")
    /\ UNCHANGED <<clientVars, lifecycle, queue, receiver, flag, stream, read, admitted,
                   requests, work, produced, outbox, faults>>

Store ==
    /\ WorkerAt("store")
    /\ lifecycle' = IF worker.failed THEN "failed" ELSE "stopped"
    /\ WorkerGoto("return")
    /\ UNCHANGED <<clientVars, queue, receiver, waiting, flag, stream, read, admitted,
                   requests, work, produced, outbox, faults>>

\* Mutant: the command receiver outlives the worker.
ReturnKeepsReceiver ==
    /\ WorkerAt("return")
    /\ WorkerGoto("gone")
    /\ UNCHANGED <<clientVars, sharedVars, requests, work, produced, outbox, faults>>

\* The thread ends: the receiver and the commands in it are dropped.
Return ==
    /\ WorkerAt("return")
    /\ receiver' = FALSE /\ queue' = <<>>
    /\ WorkerGoto("gone")
    /\ UNCHANGED <<clientVars, lifecycle, waiting, flag, stream, read, admitted,
                   requests, work, produced, outbox, faults>>

-----------------------------------------------------------------------------
Init ==
    /\ lifecycle = "starting" /\ queue = <<>> /\ receiver = TRUE /\ waiting = 0
    /\ flag = [r \in Requests |-> "live"]
    /\ stream = [r \in Requests |-> <<>>] /\ read = [r \in Requests |-> 0]
    /\ admitted = [r \in Requests |-> "none"]
    /\ client = [r \in Requests |-> "idle"] /\ engine = TRUE /\ caller = "idle"
    /\ requests = {} /\ work = {} /\ outbox = {} /\ faults = 0
    /\ produced = [r \in Requests |-> 0]
    /\ \E staging \in PublishAfterSubmit :
          worker = [pc |-> "starting", then |-> "top", batch |-> {}, slow |-> {},
                    received |-> FALSE, failed |-> FALSE, staging |-> staging]

ClientNext(r) ==
    \/ SubmitCheck(r) \/ SubmitCount(r) \/ SubmitSend(r) \/ SubmitUndo(r)
    \/ SubmitAnswered(r) \/ SubmitTimeout(r) \/ SubmitAbandon(r)
    \/ Recv(r) \/ RecvDisconnected(r) \/ Cancel(r) \/ DropHandle(r)

OwnerNext ==
    StartTimeout \/ BeginShutdown \/ ShutdownReturns \/ MetricsSnapshot \/ DropEngine

WorkerNext ==
    \/ WorkerStart \/ Top \/ ProcessCancellations \/ CancellationFails
    \/ TakeCommand \/ NoCommand \/ IdleCommand \/ IdleTimeout
    \/ Step \/ StepFails \/ Abort
    \/ \E e \in worker.batch : Publish(e)
    \/ \E e \in outbox : Deliver(e)
    \/ CancelSlow \/ Stage
    \/ Reject \/ Close \/ CloseFails \/ Drop \/ Exit \/ Store \/ Return

Next == OwnerNext \/ WorkerNext \/ \E r \in Requests : ClientNext(r)

\* The worker blocks nowhere but in recv_timeout, so it always gets on; nothing
\* is assumed of submitters, consumers or the owner.
Spec == Init /\ [][Next]_vars /\ WF_vars(WorkerNext)

-----------------------------------------------------------------------------
(* Properties. *)

\* The channel of r as module RequestStream sees it.
SenderState(r) ==
    IF client[r] \in {"idle", "checked", "counted"} THEN "none"
    ELSE IF SenderAlive(r) THEN "alive" ELSE "gone"

\* Until the worker's last store, waiting_requests counts the submit commands
\* that wait for admission, those about to be sent or taken back included.
WaitingExact ==
    worker.pc \notin {"store", "return", "gone"} =>
        waiting = Cardinality({r \in Requests : client[r] \in {"counted", "undo"}})
                  + Cardinality({r \in Requests : Queued(r)})

\* The worker's map and the backend agree on who is live: a request in the map
\* is the backend's, or its terminal event is about to be published; and unless
\* a backend call failed, the backend works for nobody outside the map.
OwnershipAgrees ==
    /\ requests \subseteq work \union {e.id : e \in {f \in worker.batch : IsTerminal(f)}}
    /\ faults = 0 => work \subseteq requests

\* shutdown returns Ok only after the backend, the map and the outbox are empty
\* and no command is left; also if the owner and the worker raced to it.
ShutdownIsClean ==
    caller = "ok" => work = {} /\ requests = {} /\ outbox = {} /\ queue = <<>>

\* Client threads, the worker and the backend keep the same books although each
\* of the counters and maps is changed at a different moment of an admission, a
\* cancellation or a failed call, and the books are closed when shutdown returns.
BooksAgree == WaitingExact /\ OwnershipAgrees /\ ShutdownIsClean

\* begin_shutdown, the last handle's drop and a fatal error all end the worker,
\* whatever consumers do: it never waits for a full channel.
ShutdownCompletes == lifecycle = "draining" ~> worker.pc = "gone"

\* A submitter is never left with its admission timeout only: its command is
\* answered, or dropped with the receiver, also if it was sent after
\* reject_pending_commands had emptied the queue.
AdmissionAnswered == \A r \in Requests : Queued(r) ~> ~Queued(r)

\* A request whose handle was dropped, or whose submitter gave up, leaves the
\* engine, although Wake may not fit into the queue and the timeout's plain
\* store races the admission.
AbandonedLeave == \A r \in Requests : client[r] = "done" ~> r \notin requests

\* The consumer of r blocks in recv although the backend is through with r.
BlockedInRecv(r) ==
    client[r] = "streaming" /\ read[r] = Len(stream[r]) /\ r \notin work /\ SenderAlive(r)

\* Once the backend is through with a request, a blocked recv returns with an
\* event or with Disconnected, although the channel may have had no room for the
\* terminal event; for engines that publish at once.  (With publish_after_submit,
\* whose comment says "or at once when no iteration follows", it does not hold: a
\* cancellation may end the last request while events are staged.)
RecvReturns ==
    \A r \in Requests : BlockedInRecv(r) /\ ~worker.staging ~> ~BlockedInRecv(r)

\* No thread waits for ever and no abandoned request runs for ever: submitters are
\* answered, consumers woken, dropped handles noticed, and the owner's shutdown
\* returns.
NobodyLeftWaiting == ShutdownCompletes /\ AdmissionAnswered /\ AbandonedLeave /\ RecvReturns

\* deliver_staged_events: "a stream that cannot take a token marks its request
\* for cancellation".  So a request its consumer has not cancelled ends as
\* finished only if the stream has all its tokens.
SuccessIsComplete ==
    [][\A r \in Requests :
          LET n == Len(stream'[r]) IN
          (n > Len(stream[r]) /\ stream'[r][n].kind = "finished" /\ flag[r] # "cancelled")
              => stream'[r][n].n = n - 1]_vars

=============================================================================
